SPECIFICATION Spec
CONSTANTS
    Sessions = {s1, s2}
    Rows <- MCRows
    Absent = Absent
    Unwritten = Unwritten
    c1 = c1
    c2 = c2
    x = x
    y = y
    m1 = m1
    g1 = g1
    g2 = g2
    Chats = {c1, c2}
    Fields = {"name", "company"}
    Words = {x, y}
    Unsaid = Unsaid
    Hearings <- MCHearings
    Models = {m1}
    Default = Default
    MessagesMax = 2
    ChatsLimit = 2
    TokensLimit = 2
    FlagThreshold = 2
    SectionsMax = 3
    FirstChats <- MCFirstChats
    NoChat = NoChat
    NoJob = NoJob
    MaxRequests = 3
    Rooms = {c1}
    Grants = {g1, g2}
    NoGrant = NoGrant
    MeetingsLimit = 1
    NoRoom = NoRoom
    NoTask = NoTask
    Free = Free
    MaxTasks = 3
    Connections <- MCConnections
    MaxBegun = 2
SYMMETRY Symmetry
CHECK_DEADLOCK FALSE
INVARIANTS ConversationsTypeOK SoftLimitsHold DeadlockTakesTwoModels OneBookingAtATime EventsArePaidFor
PROPERTIES OnlyOverlapLoses FlagSticks ConnectionFollowsConsent
