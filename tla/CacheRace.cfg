SPECIFICATION Spec
CONSTANTS
  NULL = NULL
  Threads = {t1, t2}
  Keys = {k1}
  Definitions = {d1, d2}
  Cells = {c1, c2, c3}
  CounterSize = 32
  Libraries = {"old"}
SYMMETRY Symmetry
INVARIANTS WriterExcludes
