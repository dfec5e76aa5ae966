CONSTANTS
    Ids = {1, 2, 3, 4}
    Dues <- MCDues
    Blocking = {0}
    DUE_SOON_HORIZON_DAYS = 0
    BAND_STRIDE = 3
    CURSOR_TTL = 1
    PAGE_SIZE = 1
    Views = {"all", "pending"}
    MAX_PAGES = 4
    MaxTime = 2
    MaxChanges = 1
    Held <- MCHeld
    User <- MCUser
    Directory <- MCDirectory
    viewer = "viewer"
    Nobody = "nobody"
    Reaction = {"handshake", "check", "smile"}
    CONFIRM_REACTION = "handshake"
    Message <- MCMessage
    Comment <- MCComment
    ActionItem <- MCActionItem
    MaxTaps = 1
SPECIFICATION GestureSpec
INVARIANTS WalkDeliversOnce SkippedIsExact
PROPERTIES OwnWordsOnly
CHECK_DEADLOCK FALSE
