SPECIFICATION Spec
CONSTANTS
  Width = 3
  Keys <- MCKeys
  a1 = a1
  NoActions = NoActions
  Acts <- MCActs
  Default = Default
  MaxEntries = 4
  Nil = Nil
INVARIANTS WellLinked LongestMatchWins ActionsReleased
PROPERTIES ImplementsPrefixMap
