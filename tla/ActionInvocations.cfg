SPECIFICATION FairSpec

CONSTANTS
  attach = attach
  gated = gated
  orphan = orphan
  retired = retired
  k1 = k1
  k2 = k2
  fact1 = fact1
  unknown = unknown
  NoInvocation = NoInvocation
  NoCall = NoCall
  Types <- MCTypes
  Gated = {gated}
  Disabled = {retired}
  Handled = {attach, gated}
  RequiredRole <- MCRoles
  IdempotencyKeys = {k1, k2}
  Edges = {fact1, unknown}
  Existing = {fact1}
  Invocations = {i1, i2, i3}
  Requests = {r1, r2, r3}
  Calls <- Retries
  MaxReviews = 1

INVARIANTS
  TypeOK
  OneInvocationPerKey
  EffectsMatchStatus

PROPERTIES
  OutcomesFinal
  RequestsEnd
