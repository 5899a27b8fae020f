SPECIFICATION Spec
INVARIANTS
  TypeOK
  NoLeak
  InnerFirst
  ReleasedOnce
  DiesOnlyUnchecked
