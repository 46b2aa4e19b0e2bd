SPECIFICATION Spec
CONSTANTS
  c1 = c1
  c2 = c2
  c3 = c3
  Calls = {c1, c2, c3}
  PoolSize = 2
  Mixes <- EachMixOnce
INVARIANT TypeOK
INVARIANT NothingLeaks
INVARIANT DryOnlyWhenNested
PROPERTY EveryCallAnswered
CHECK_DEADLOCK FALSE
