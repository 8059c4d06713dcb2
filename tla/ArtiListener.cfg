\* Three callers of the bootstrap: one that runs the initializer, one that takes
\* over from it, one behind them in the queue.  A descriptor that builds and one
\* that does not.  Three requests on two circuits.
CONSTANTS
  Callers = {c1, c2, c3}
  Buildable = {n1}
  Unbuildable = {bad}
  Public = public
  NoNet = none
  NoOne = nobody
  wrong = wrong
  after = after
  other = other
  Requests <- MCRequests
  Circuit <- MCCircuit
  RightPort <- MCRightPort
SPECIFICATION ArtiFairSpec
INVARIANTS OneBootstrap ConfigureApplies
PROPERTIES CallersServed RequestsServed
