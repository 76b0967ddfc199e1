CONSTANTS
  Key <- MCKey
  Value = {v1, v2}
  NoValue = NoValue
  eq <- tokenEqual
  less <- tokenLess
SPECIFICATION FairSpec
INVARIANT SearchCorrect
PROPERTIES IsMap CallReturns
