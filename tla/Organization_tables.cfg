SPECIFICATION OrganizationSpec
CONSTANTS
    Users = {u1, u2}
    Requests = {r1, r2}
    Invitations = {i1}
    Roles = {"owner", "member"}
    NoRequest = NoRequest
    NoUser = NoUser
    NoRole = NoRole
    ChatUsers = {u1, u2}
    SocketUsers = {u1}
    Sockets = {s1}
    Tasks = {t1, t2}
    Conversations = {v1, v2, v3}
    MessageIds = {m1, m2}
    NoChatUser = NoChatUser
    NoConversation = NoConversation
    NoMessage = NoMessage
    MaxRooms = 1
    PageSize = 1
    MaxCalls = 4
INVARIANTS
    MembershipInv
    ChatInv
    DenseSequence
PROPERTIES
    RevokedIsDisconnected
CHECK_DEADLOCK FALSE
