SPECIFICATION Spec
CONSTANTS
  p1 = p1
  p2 = p2
  p3 = p3
  NoPacket = NoPacket
  Packet <- ThreePackets
  Size = 2
  IdxMod = 8
INVARIANTS
  TypeOK
  NoSlotConflict
  NoTornPacket
PROPERTIES
  ImplementsFifo
