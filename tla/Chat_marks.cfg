SPECIFICATION ChatSpec
CONSTANTS
    ChatUsers = {u1, u2}
    SocketUsers = {u1}
    Sockets = {s1}
    Tasks = {t1, t2}
    Conversations = {v1}
    MessageIds = {m1, m2}
    NoChatUser = NoChatUser
    NoConversation = NoConversation
    NoMessage = NoMessage
    MaxRooms = 1
    PageSize = 1
    MaxCalls = 5
PROPERTIES
    ReadMarkMonotonic
CHECK_DEADLOCK FALSE
