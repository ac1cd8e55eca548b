CONSTANTS
  Devices <- MCDevices
  MaxUsages = 4
  MaxFields = 2
  MaxIds = 4
  MaxBits = 26
  StackSize = 2
  Half = 64
  LongSign = 1048576
  Byte = 2
  Word = 8
  WideMask = 0
  Priorities = {0, 1}
  Driven <- MCDriven
  ClaimSets <- MCClaimSets
  Payloads <- MCPayloads
  Settings <- MCSettings
SPECIFICATION Spec
INVARIANT LayoutSound
INVARIANT ScanAgrees
INVARIANT SharedMultiplier
INVARIANT KeysAgree
INVARIANT EventOrder
INVARIANT SentCarries
