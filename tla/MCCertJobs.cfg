SPECIFICATION Spec
CONSTANTS
    Domains = {"a", "b"}
    Kinds = {"domain"}
    JobIds = {1}
    MaxJobs = 1
CHECK_DEADLOCK FALSE
INVARIANT CertificateIsItsOwn
