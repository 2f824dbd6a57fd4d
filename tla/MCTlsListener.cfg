CONSTANTS
    None = None
    Pem <- MCPem
    KeyOrder <- MCKeyOrder
    CertNames <- MCCertNames
    Wildcard <- MCWildcard
    Configs = {"files", "kvStrict", "kvOptional", "absent", "unknown", "noPrefix", "noPath"}
    Conf <- MCConf
    FileBlobs = {"b1", "b2"}
    KvStates = {"none", "both", "rotating", "half", "second"}
    KvBlobs <- MCKvBlobs
    CaStates = {"none", "one", "bad", "two", "refused"}
    CaBlobs <- MCCaBlobs
    CaRefused = {"r"}
    ServerNames = {"x.org", "y.net", None}
    MaxBackoff = 1
    MaxWrites = 2
    MaxFaults = 1
CHECK_DEADLOCK FALSE
SPECIFICATION Spec
INVARIANT ListenersAreSafe
PROPERTIES RightCertificate KeepsLastGood CertificatesCatchUp
