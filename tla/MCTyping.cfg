SPECIFICATION Spec
CONSTANTS
  TypeDefs = {"DefA", "DefB"}
  Structs = {"Punkt"}
  Types <- MCTypes
  FieldTypes <- MCFieldTypes
  OverloadDecls <- MCOverloadDecls
  OverloadTypes <- MCOverloadTypes
  MaxOverloads = 3
  ThirdTypes <- MCThirdTypes
  OverloadSteps = 3
  MaxSteps = 4
  Agreed = TRUE
INVARIANTS
  NoInternalError
  TypesAgree
  WellTypedIr
  NumbersKeepTheirValue
  VariablesRememberType
  BestOverload
CHECK_DEADLOCK FALSE
