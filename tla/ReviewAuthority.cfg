\* Two hosts, a policy of each of two certificates, and a revocation; one challenge, two states of the review.
SPECIFICATION Spec
CONSTANTS
  first = first
  other = other
  revocation = revocation
  Procs = {p1, p2}
  Certs = {first, other, revocation}
  Revision <- RevisionOf
  Expires <- ExpiryOf
  Revoked = {revocation}
  Ids = {c1}
  Reviews = {r1, r2}
  MaxTime = 1
  NoCert = NoCert
  NoPayload = NoPayload
SYMMETRY Symmetry
INVARIANTS
  ReportsHold
PROPERTIES
  FloorAdvances
  AcceptedNeverOlder
  ConsumedAsSigned
