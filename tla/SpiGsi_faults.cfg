CONSTANTS
  Elements = 4
  MaxFaults = 1
  MaxXfers = 2
  MaxGrabs = 1
  MaxPauses = 1
SPECIFICATION Spec
INVARIANT DescriptorStays
INVARIANT CompletesItsOwn
INVARIANT NoLostEvent
INVARIANT OnlyCurrent
INVARIANT RingsLive
INVARIANT ReadyForNext
