CONSTANTS
  t1 = t1
  r1 = r1
  k1 = k1
  o1 = o1
  o2 = o2
  Op = {o1, o2}
  Key = {k1}
  Token = {t1}
  Ref = {r1}
  Scope <- MCScope
  StoreScope <- MCStoreScope
  RefKey <- MCRefKey
  RouteKey = k1
  Contents <- MCContents
SPECIFICATION Spec
INVARIANTS
  TypeOK
  OneUse
PROPERTIES
  NeverBack
  RequestsEnd
CHECK_DEADLOCK FALSE
