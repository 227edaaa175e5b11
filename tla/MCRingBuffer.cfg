SPECIFICATION Spec
CONSTANTS
  e1 = e1
  e2 = e2
  e3 = e3
  m1 = m1
  m2 = m2
  l1 = l1
  l2 = l2
  Capacity = 4
  Events <- MCEvents
  Blank = Blank
  Layers <- MCLayers
  Matrices <- MCMatrices
  NoAttention = NoAttention
INVARIANTS TypeOK FillsFrontToBack
PROPERTY ImplementsBoundedLog
