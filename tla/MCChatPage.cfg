SPECIFICATION Spec
CONSTANTS
    Asks = {m1, m2}
    Nothing = Nothing
    Chats = {h1, h2}
    Checks = {k1, k2}
    Parts = 2
    Polls = 2
    Stored = 1
INVARIANTS
    DoneMessagesAreWhole
    ConversationIsOneThread
PROPERTIES
    NothingStaysBusy
CHECK_DEADLOCK FALSE
