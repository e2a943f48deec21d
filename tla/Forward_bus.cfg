CONSTANTS
  Peers = {"p1", "p2"}
  Stranger = "stranger"
  NoName = "none"
  MaxCallFds = 2
  MaxInbox = 1
  MaxSwaps = 1
  Plans <- MCPlans
  Nodes <- MCNodes
SPECIFICATION ForwardFairSpec
INVARIANT ForwardedOwn
PROPERTY ForwardEnds
