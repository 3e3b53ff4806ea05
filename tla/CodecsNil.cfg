SPECIFICATION Spec
CONSTANTS
  c1 = c1
  Calls = {c1}
  Creator = Creator
  Methods = {"GetCodecs"}
  Torn <- AnyTorn
  Answers <- OnlySuccess
  MaxResets = 1
INVARIANT CodecsOrError
