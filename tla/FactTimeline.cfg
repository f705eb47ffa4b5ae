\* Two values, two valid times, three rows.
SPECIFICATION Spec
CONSTANTS
  number = number text = text other = other r1 = r1 r2 = r2
  Values = {text, other}
  Typed = {}
  Texts = {r1, r2}
  TextOf <- Rendering
  LastTime = 1
  MaxRows = 3
  MaxWrites = 3
SYMMETRY Interchangeable
INVARIANTS TypeOK AsOfIsLatestAssertion ImportedOnce RestoredChain
PROPERTIES NothingRewritten
