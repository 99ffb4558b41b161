SPECIFICATION Spec
CONSTANTS
    OtherKeys = {"stranger"}
    MaxWaits = 2
INVARIANTS
    TypeOK
    KeysAgree
    ContextsAgree
    MediaAligned
    OngoingMeansAnswered
    IdentityProven
    AtMostOneStray
PROPERTIES
    Settles
    CallIsSetUp
