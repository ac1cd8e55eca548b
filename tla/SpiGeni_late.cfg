CONSTANTS
  Depth = 3
  Bpw = 2
  Shapes <- MCShapes
  Devices <- MCDevices
  MaxXfers = 3
  MaxFaults = 2
SPECIFICATION Spec
INVARIANT EndsOwn
