SPECIFICATION ChatsSpec
CONSTANTS
  Chatters = {q1}
  MaxChats = 2
  MaxSessions = 1
  ToolRounds = 3
  Window = 8
  HourlyCap = 2
INVARIANT NeverHandsDangling
CHECK_DEADLOCK FALSE
