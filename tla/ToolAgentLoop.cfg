SPECIFICATION ConversationSpec
CONSTANTS
  PromptLength = 2
  ResponseLength = 9
  MaxPrompt = 3
  MaxAnswer = 2
  MaxToolCalls = 3
  MaxImages = 2
  MaxParallelCalls = 2
  MaxAssistantTurns = 0
  MaxUserTurns = 0
INVARIANTS
  RequestsAreConsistent
  OutputIsAligned
PROPERTIES
  ConversationEnds
CHECK_DEADLOCK FALSE
