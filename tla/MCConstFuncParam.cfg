CONSTANTS
  Func <- MCFunc
  Param <- MCParam
  ExternFunc = {"e"}
  RefParam <- MCRefParam
  Programs <- MCPrograms
  NoFunc = NoFunc
  NoVar <- MCNoVar
SPECIFICATION Spec
INVARIANTS
  SoundInOrder
