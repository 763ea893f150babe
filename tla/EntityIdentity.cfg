SPECIFICATION Spec

CONSTANTS
  e1 = e1
  e2 = e2
  ada = ada
  bob = bob
  email = email
  NoEntity = NoEntity
  NoIdentifier = NoIdentifier
  NoCall = NoCall
  Entities = {e1, e2, e3}
  Names = {ada, bob}
  Stored <- MCStored
  Identifiers = {email}
  Edges = {f1, f2}
  Requests = {r1, r2, r3, r4}
  Calls <- Everything
  MaxOpen <- OneMerge

SYMMETRY Ids

INVARIANTS
  TypeOK
  NoMergeCycle
  AuditedMergesHappened
  IdentifierNamesOne

PROPERTIES
  DecisionsStay
