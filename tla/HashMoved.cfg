SPECIFICATION Spec
CONSTANTS
  symbol = symbol
  string1 = string1
  string2 = string2
  cons1 = cons1
  cons2 = cons2
  Keys <- StringKeys
  Fixed = {symbol}
  Strings = {string1, string2}
  Numbers = {}
  Conses = {}
  Leaf <- NoCar
  Scatter <- Swap
  Content <- OneText
  Vals = {v1, v2}
  NBuckets = 2
  MaxCount = 3
  Nobody = Nobody
  Absent = Absent
  Unspecified = Unspecified
INVARIANT EntriesAreFound
