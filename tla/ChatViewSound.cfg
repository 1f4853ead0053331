SPECIFICATION Spec
CONSTANTS
  first = first
  second = second
  NoChat = NoChat
  Chats <- TwoChats
  PageSize = 1
  MaxMessages = 3
SYMMETRY ChatSymmetry
CONSTRAINT PagesOrEdits
INVARIANTS
  TypeOK
  ScreenSound
  NothingHidden
  HeaderSound
