SPECIFICATION InputsSpec
CONSTANTS
  None = None
  Raised = Raised
  Malformed = Malformed
  Word = Word
  NoText = NoText
  Grain = 10
  WireMarkets <- MCWireMarkets
  WireEvents <- MCWireEvents
  Frames <- MCFrames
  SdkVersions <- MCSdkVersions
  Policies <- MCPolicies
  Attempts <- MCAttempts
INVARIANTS
  ContractIsRead
  StrictRefusesUnknown
  SportsAgree
  UpgradesAreSafe
  DelaysGrow
