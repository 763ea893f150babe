SPECIFICATION FairSpec

CONSTANTS
  ann = ann
  bob = bob
  acme = acme
  globex = globex
  works_at = works_at
  knows = knows
  employs = employs
  Infinity = Infinity
  NoPredicate = NoPredicate
  NoEdge = NoEdge
  NoTxn = NoTxn
  Unset = Unset
  AnyObject = AnyObject
  StartTime = 3
  AutoRejectBelow = 3
  MinConfidence = 7
  Margin = 1
  Entities <- MCEntities
  Predicates = {works_at}
  One = {works_at}
  Symmetric = {}
  HighStakes = {}
  InverseOf <- NoInverse
  EdgeIds = {e1, e2, e3, e4}
  Txns = {t1, t2}
  MaxOps = 2
  MaxActive = 2
  Facts <- BatchFacts
  Negations <- None
  InvalidationTimes <- None

INVARIANTS
  CardinalityInvariant

PROPERTIES
  TransactionsEnd
