SPECIFICATION Spec
CONSTANTS
  p1 = p1  p2 = p2
  Chats = {1}
  Messages = {1,2,3}
  ChatOf <- TheChatOf
  Old = {1, 3}
  Described = {1}
  Verdicts = {"not_client"}
  Procs = {p1, p2}
  Media <- TheMedia
  Filters <- TheFilters
  BatchSize = 2
  Probe = 1
  CommitEvery = 2
  All = All
  None = None
  Absent = Absent
CONSTRAINT Few
SYMMETRY Symmetry
INVARIANTS TypeOK RunLeavesNothing LossIsBounded
PROPERTIES TextsStay
