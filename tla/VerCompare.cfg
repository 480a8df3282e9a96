CONSTANTS
  t1 = t1
  t2 = t2
  h1 = h1
  h2 = h2
  h3 = h3
  h4 = h4
  Versions = {v1, v2, v3}
  Threads = {t1, t2}
  Handles = {h1, h2, h3, h4}
  Owner <- FourHandles
  Null = Null
  Comparing = TRUE
SPECIFICATION GCSpec
SYMMETRY Symmetry
INVARIANT LeqAnswersRight
