SPECIFICATION Spec
CONSTANTS
  a1 = a1  a2 = a2  c1 = c1  c2 = c2  p1 = p1  p2 = p2
  Accounts = {a1, a2}
  Chats = {c1, c2}
  Ids = {9, 10, 11, 12}
  ChatOf <- TheChatOf
  Kind <- TheKind
  Legacy <- TheLegacy
  Procs = {p1, p2}
  Batch = 1
  None = None
  Absent = Absent
  Placed <- ThePlaced
CONSTRAINT Bounds
SYMMETRY Symmetry
INVARIANTS TypeOK UpToWatermark ImportedIsStored MediaRecorded BackfillComplete NoCircularWait
PROPERTIES OwnMessages ImplementsArchive
