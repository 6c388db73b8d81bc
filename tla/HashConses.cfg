SPECIFICATION Spec
CONSTANTS
  symbol = symbol
  string1 = string1
  string2 = string2
  cons1 = cons1
  cons2 = cons2
  Keys <- ConsKeys
  Fixed = {symbol}
  Strings = {string1}
  Numbers = {}
  Conses = {cons1, cons2}
  Leaf <- CarIsString
  Scatter <- Swap
  Content <- OneForm
  Vals = {v1, v2}
  NBuckets = 2
  MaxCount = 2
  Nobody = Nobody
  Absent = Absent
  Unspecified = Unspecified
SYMMETRY Symmetric
PROPERTIES
  DictionarySpec
