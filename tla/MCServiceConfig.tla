--------------------------- MODULE MCServiceConfig ---------------------------
(* Small instances of ServiceConfig.  The keys are, in the order Go sorts    *)
(* them, "Example.test" (1), "app.example.test" (2) and "example.test" (3);  *)
(* the services are "app" (1) and the panel's own (2).                       *)
EXTENDS ServiceConfig, TLC

MCLowerOf == (1 :> 3) @@ (2 :> 2) @@ (3 :> 3)
MCFirst == [S \in SUBSET Keys |->
              IF S = {} THEN 1 ELSE CHOOSE k \in S : \A j \in S : k <= j]
\* "app" under example.test is the host app.example.test.
MCFqdn == [x \in Subs \X Keys |->
             IF x = <<"app", 3>> THEN <<Bare, 2>> ELSE x]

Pair(k, s) == [key |-> k, sub |-> s]
Lists == {<<>>, <<Pair(3, "app")>>, <<Pair(1, "app")>>, <<Pair(2, "")>>,
          <<Pair(3, "www"), Pair(3, "app")>>}

Domains(a, b, c) == (1 :> a) @@ (2 :> b) @@ (3 :> c)
Plain == [on |-> FALSE, http |-> 8443, rules |-> [r \in SNIRules |-> {}]]
Held == [on |-> TRUE, http |-> 8443, rules |-> [r \in SNIRules |-> {443}]]
Panel == [port |-> 8443, path |-> "/", bindings |-> <<Pair(3, "www")>>, on |-> TRUE]
With(domains, s, reality) ==
    [domains |-> domains, services |-> (1 :> None) @@ (2 :> s),
     listen |-> {80, 443, 8443}, reality |-> reality]

\* After installation; with the service switched off; with Reality on 443 and the panel's domain spelled
\* twice, as an older version left it; and with nothing but two domains.
MCStarts == {With(Domains("absent", "absent", "cert"), Panel, Plain),
             With(Domains("absent", "bare", "cert"), [Panel EXCEPT !.on = FALSE], Plain),
             With(Domains("bare", "absent", "cert"),
                  [Panel EXCEPT !.bindings = <<Pair(1, "www")>>], Held),
             With(Domains("bare", "cert", "cert"), None, Plain)}
==============================================================================
