SPECIFICATION Spec
CONSTANTS
  TypeDefs = {}
  Structs <- MCStructs
  Names <- MCNames
  AliasOf <- MCAliasOf
  ParamWords <- MCParamWords
  OperatorArity <- MCOperatorArity
  Programs <- MCCountInGeneric
INVARIANT
  AcceptsCorrect
