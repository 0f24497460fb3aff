CONSTANTS
  f1 = f1  f2 = f2
  Nil = Nil
  Items <- MCItems
  Size = 3
SPECIFICATION Spec
PROPERTY FifoSpec
