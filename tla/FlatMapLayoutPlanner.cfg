CONSTANTS
  Schemas <- MCSchemas
  RootNode = "r"
  Configs <- PlannerConfigs
  FeatureName <- DecimalNames
  MaxMissing = 3
SPECIFICATION Spec
INVARIANTS LayoutIsPermutation RequestedFirst LeftoversContiguous
