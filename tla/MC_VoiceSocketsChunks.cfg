SPECIFICATION Spec
CONSTANTS
    c1 = c1
    c2 = c2
    u1 = u1
    s1 = s1
    s2 = s2
    Peer = {c1, c2}
    User = {u1}
    Session = {s1, s2}
    UserOf <- OneUser
    SessionOf <- OwnSessions
    MaxPerUser = 1
    AckEvery = 2
    Frames = {"start_streaming", "audio"}
    MaxFrames = 2
PROPERTIES ChunksHandled
