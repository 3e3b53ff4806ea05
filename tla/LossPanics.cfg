SPECIFICATION Spec
CONSTANTS
  c1 = c1
  Calls = {c1}
  Creator = Creator
  Methods = {"SetProp"}
  Torn <- AnyTorn
  Answers <- OnlySuccess
  MaxResets = 0
INVARIANT NoMethodPanics
