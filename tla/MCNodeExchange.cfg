SPECIFICATION Spec
CONSTANTS
    Node = {"a", "b"}
    KeyId <- MCKeyId
    Peers <- MCPeers
    Message = {"m1", "m2"}
    MaxHops = 2
    MaxSequence = 1
    Nonce = {"n1", "n2"}
    Submitted <- MCSubmitted
    Client = {c1, c2}
    Scope = "scope"
    MaxAudit = 5
INVARIANTS
    ExchangeInv
    SequencesIncrease
    RoutesContinue
    SomebodyProceeds
PROPERTIES
    ValidUnlessOvertaken
    AcceptedIsRecorded
    RevocationIsFinal
    ImplementsChains
