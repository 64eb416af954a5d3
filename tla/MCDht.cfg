SPECIFICATION Spec
CONSTANTS
    IdBits = 4
    BucketSize = 2
    LocalId <- Local
    OtherIds <- Others
    Requests = {r1, r2}
    MaxRetries = 1
    r1 = r1
    r2 = r2
    DhtNodes <- Nodes
    BootstrapNodes <- FirstNode
    Alpha = 2
    Key <- TheKey
    Values = {v1, v2}
    EmptyValues = {v2}
    v2 = v2
    Targets <- FewOthers
    MaxEvents = 4
    Nothing = Nothing
    v1 = v1
    Peers = {p1, p2, p3}
    p1 = p1
    p2 = p2
    p3 = p3
    MaxIndex = 2
    Limit = 1
    MaxWrites = 3
INVARIANTS
  TableInv
  DhtInv
  PeerInv
PROPERTIES
  KeepsPromise
  EveryCallReturns
  
