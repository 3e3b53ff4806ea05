SPECIFICATION FairSpec
CONSTANTS
  c1 = c1
  Calls = {c1}
  Creator = Creator
  Methods = {"SetProp", "SetRoomPkg", "SearchAvail", "GetPropRoomDay", "GetCodecs"}
  Torn <- AnyTorn
  Answers <- AnyAnswer
  MaxResets = 2
PROPERTY MethodsReturn
