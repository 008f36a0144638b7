CONSTANTS
  Chats = {c1, c2}
  Empty = {c2}
  Versions = {v1}
  Workers = {w1, w2}
  Commands <- MCCommands
  Chunks = 1
  MaxFaults = 1
SPECIFICATION FairSpec
INVARIANTS AppliedOnce
PROPERTY EveryChatAnalysed
