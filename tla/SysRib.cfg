CONSTANTS
  i1 = i1
  i2 = i2
  Width = 2
  Interfaces <- MCInterfaces
  Routes <- MCRoutes
  Policies <- MCPolicies
SPECIFICATION Spec
INVARIANTS ResolvedIffReachable BestPreferenceWins EndsUnlessCyclic EncapsulatedOnce
