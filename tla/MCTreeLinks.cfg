SPECIFICATION Spec
CONSTANTS
  Elements = {e1, e2}
  Texts = {t1, t2}
  Attrs = {a1, a2}
  Doc = {d1, d2}
  NULL = NULL
  AttrName <- MCAttrName
  MaxLive = 5
  Obligations <- AllObligations
SYMMETRY Perms
VIEW View
CHECK_DEADLOCK FALSE
INVARIANTS TypeOK LinksCoherent EveryChildIsListed DocOfParent NoDangling
PROPERTIES OthersStay
