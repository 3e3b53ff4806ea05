SPECIFICATION Spec
CONSTANTS
  c1 = c1
  c2 = c2
  Calls = {c1, c2}
  Creator = Creator
  Methods = {"SetProp", "SetRoomPkg", "GetPropRoomDay", "GetCodecs"}
  Torn <- AnyTorn
  Answers <- AnyAnswer
  MaxResets = 1
SYMMETRY Symmetry
INVARIANTS TypeOK SuccessIsReal PanicNeedsFailure CodecsStay
PROPERTIES RefinesRpc StaleNeedsReset
