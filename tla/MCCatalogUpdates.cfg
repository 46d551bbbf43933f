\* Two files, one of them without entries; two checks at the same time, one import.
SPECIFICATION Spec
CONSTANTS
  None = None
  Unknown = Unknown
  Files = {monday, tuesday}
  Served = {monday, tuesday}
  Empty = {monday}
  Checks = {c1, c2}
  Forms = {f1}
INVARIANTS
  UpdatesLabelRight
  OfferAtRest
PROPERTIES
  OffersEnd
