CONSTANTS
  Owner = owner
  Others = {t1, t2}
  MaxFunctors = 2
SPECIFICATION Spec
SYMMETRY Symmetry
INVARIANT QueueIsThreadSafe
CHECK_DEADLOCK FALSE
