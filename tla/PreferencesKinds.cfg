\* One handle on one namespace, one key, and two kinds of call that the code
\* stores under one type tag.
CONSTANTS
  PrefHandles = {h1}
  Namespaces = {n1}
  NoName = NoName
  Keys = {k1}
  Kinds = {"Float", "UInt"}
  Values = {0, 2}
  Nowhere = Nowhere
  MaxWrites = 1
SPECIFICATION PrefSpec
INVARIANT PrefsOtherKindDefaults
CHECK_DEADLOCK FALSE
