SPECIFICATION AppSpec
CONSTANTS
  Caller = {c1, c2, c3}
  MaxRun = 3
  Pending = Pending
  PanelCall = {p1, p2}
  Proposal = {q1, q2}
  Evidence = {e1}
  Review = {r1, r2}
  NoChoice = NoChoice
  MaxVersion = 2
  MaxIdentity = 4
INVARIANT SingleFlight
INVARIANT ForcedRunForForcedCall
INVARIANT NoFinishedRun
INVARIANT SnapshotIsOneBootstrap
INVARIANT OneIdPerRequest
PROPERTY SnapshotNeverGoesBack
PROPERTY CallsReturn
PROPERTY PanelCatchesUp
CHECK_DEADLOCK FALSE
