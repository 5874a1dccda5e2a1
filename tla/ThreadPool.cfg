SPECIFICATION Spec
CONSTANTS
  e1 = e1
  e2 = e2
  e3 = e3
  w1 = w1
  w2 = w2
  k1 = k1
  k2 = k2
  Null = Null
  Elts = {e1, e2, e3}
  Keys = {k1, k2}
  Workers = {w1, w2}
  Silent = FALSE
  AbortsTail = FALSE
INVARIANTS  AbortExact
 
