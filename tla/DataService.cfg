SPECIFICATION Spec
CONSTANTS
  Services = {"d1"}
  Carousel <- One
  Groups <- OneGroups
  TIds = {1, 2, 3, 9}
  DirObjects <- Directory9
  MaxLen = 3
  MaxSeg = 1
  NSlots = 2
  NoGroup = NoGroup
INVARIANTS HandedIsWhole
PROPERTIES OldestOut EventuallyHanded
