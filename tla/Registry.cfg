CONSTANTS
  Name = {n1, n2}
  Type = {vm, nio}
  Node = {x1, x2}
  Handle = {h1, h2}
  Reference = {r1, r2}
  NoNode = NoNode
  IntMax = 2
  MaxDepth = 3
SPECIFICATION RegistrySpec
SYMMETRY Symmetry
INVARIANTS Indexed RefsSafe CallbacksSafe
