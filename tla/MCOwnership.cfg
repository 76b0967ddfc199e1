CONSTANTS
  MaxBranch <- MCMaxBranch
  Code <- MCCode
SPECIFICATION Spec
INVARIANTS
  FreesOwned
  ReadsLive
  NoLeak
  NoPanic
