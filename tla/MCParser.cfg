SPECIFICATION FairSpec
CONSTANTS
  TypeDefs = {}
  Structs <- MCStructs
  Names <- MCNames
  AliasOf <- MCAliasOf
  ParamWords <- MCParamWords
  OperatorArity <- MCOperatorArity
  Programs <- MCPrograms
INVARIANTS
  ErrorsReported
  AcceptsCorrect
  Understood
  WellFormed
  Balanced
  NoCrash
PROPERTY
  Ends
