SPECIFICATION Spec
CONSTANTS
  Base <- MCBase
  Values <- MCValues
  MaxChanges = 2
  Clocks <- MCClocks
  Registries <- MCRegistries
  Routes <- MCRoutes
  Payload <- MCPayload
  KeepaliveSegment <- MCKeepaliveSegment
  Rests <- MCRests
  Alphabet <- MCAlphabet
  MaxFields <- MCMaxFields
  Said <- MCSaid
  Transport <- MCTransport
INVARIANTS
  EveryParameterTold DateWindow DatesComeBack FeaturesComeBack RefusalIsRequest
  FramesAligned NeverMisrouted
  BytesAgree TornIsError StatusDecides AvailExact DamageContained
  KindSurvives KindTellsWhere
