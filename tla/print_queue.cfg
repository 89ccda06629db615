SPECIFICATION ScreenSpec
CONSTANTS
  MaxChats = 2
  MaxNotices = 2
  Names <- MCNames
  Texts <- MCTexts
INVARIANTS IInv ChatsInOrder NoLostWakeup LinesReadable UsersReadBack
PROPERTY EveryChatWritten
CHECK_DEADLOCK FALSE
