SPECIFICATION Spec
CONSTANTS
  SimDefault = simDefault
  EstDefault = estDefault
  Names = {simDefault, estDefault}
  NoName = noName
  NoPoint = noPoint
  ByteBits = 2
  AlgNames = {simDefault, noName}
  Addresses = {1, 2, 3}
  Spaces = {1, 2}
  MaxExaminees = 2
INVARIANT ThetaCached
INVARIANT RatesExact
INVARIANT PatternsCounted
