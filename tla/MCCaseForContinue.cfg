CONSTANTS
  Case = "ForContinue"
  optimizationLevel = 1
  MaxBranch <- MCMaxBranch
  Code <- MCCode
SPECIFICATION Spec
INVARIANT FreesOwned
