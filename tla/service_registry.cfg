SPECIFICATION FairSpec
CONSTANTS
  p1 = p1
  p2 = p2
  p3 = p3
  a = a
  b = b
  c = c
  x = x
  None = None
  Procs <- MCProcs
  Instances <- MCInstances
  Symbols = {x}
  MaxSlots = 2
  CountSize = 8
  Overlap <- MCOverlap
  InstanceIds <- MCInstanceIds
  Subscribed <- MCSubscribed
  Static <- MCStatic
INVARIANTS
  RegistryTypeOK
  OneSlotPerInstance
  
  SlotStaysOwn
  
  FoundByName
PROPERTY LockIsReleased
CHECK_DEADLOCK FALSE
