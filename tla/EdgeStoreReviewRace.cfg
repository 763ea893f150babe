SPECIFICATION Spec

CONSTANTS
  ann = ann
  bob = bob
  acme = acme
  globex = globex
  works_at = works_at
  knows = knows
  employs = employs
  Infinity = Infinity
  NoPredicate = NoPredicate
  NoEdge = NoEdge
  NoTxn = NoTxn
  Unset = Unset
  AnyObject = AnyObject
  StartTime = 3
  AutoRejectBelow = 3
  MinConfidence = 7
  Margin = 1
  Entities <- MCEntities
  Predicates = {works_at}
  One = {works_at}
  Symmetric = {}
  HighStakes = {works_at}
  InverseOf <- NoInverse
  EdgeIds = {e1, e2, e3}
  Txns = {t1, t2}
  MaxOps = 1
  MaxActive = 2
  Facts <- ProposedNow
  Negations <- None
  InvalidationTimes <- None

SYMMETRY Ids

INVARIANTS
  HighStakesReviewed
