----------------------------- MODULE MCBanEngine -----------------------------
(* Small instances of BanEngine.  One unit of time is half an hour.         *)
EXTENDS BanEngine, TLC

MCForever == 1000

\* Honeypot and panel-login rules of DefaultAutoBan (config/autoban.go:142),
\* with thresholds scaled down.
DefaultRules == << [window |-> 2, hits |-> 2, ban |-> 8, permanent |-> FALSE],
                   [window |-> 1, hits |-> 1, ban |-> 2, permanent |-> FALSE] >>
OneRule == << [window |-> 2, hits |-> 2, ban |-> 2, permanent |-> FALSE] >>
HairTrigger == << [window |-> 1, hits |-> 1, ban |-> 1, permanent |-> FALSE] >>

\* 30 minutes, 2 hours, then permanent.
FirstSteps == << 1, 4, MCForever >>
ShortSteps == << 1, 2 >>

Save(on, ladder, allow) == [enabled |-> on, ladder |-> ladder, allow |-> allow]
Unchanging == {}
AllowOne == {Save(TRUE, TRUE, {1})}
SwitchTwo == {Save(TRUE, FALSE, {}), Save(FALSE, TRUE, {1})}

BothKinds == (Scanner :> {1}) @@ (Login :> {2})
ScanOnly  == (Scanner :> {1}) @@ (Login :> {})
==============================================================================
