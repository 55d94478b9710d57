CONSTANTS
  o1 = o1
  o2 = o2
  la = la
  lb = lb
  lc = lc
  x = x
  r1 = r1
  r2 = r2
  r3 = r3
  Orders = {o1, o2}
  Lines = {la, lb, lc, x}
  Required <- MCRequired
  Arrivals = {r1, r2, r3}
  Serial = {}
  MaxPacks = 2
SPECIFICATION RebinSpec
SYMMETRY RequestSymmetry
INVARIANTS AtMostOnePack
