SPECIFICATION Spec
CONSTANTS
  a = a
  b = b
  c = c
  Services <- ThreeServices
  MaxRules = 3
  MaxVersion = 2
  PlainRules = 2
  Documents <- SmallDocuments
  StartDocument <- DenyAll
INVARIANTS AgentEnforcesDocument MeshctlPredictsAgent GatewayMatchesAgent 
SYMMETRY ServiceSymmetry
