SPECIFICATION PfSpec
CONSTANTS
  Chats = {1, 2}
  Messages = {1, 2, 3, 4}
  ChatOf <- TheChatOf
  Old = {1, 2, 3}
  Verdicts = {"client", "not_client"}
  PREVIEW_HEAD = 1
  PREVIEW_TAIL = 1
  MaxRetries = 2
  None = None
INVARIANTS PfTypeOK RunJudgesAll
PROPERTIES ImplementsVerdicts
