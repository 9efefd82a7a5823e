SPECIFICATION Spec
CONSTANTS
    Members = {s1, s2, s3}
    RoomIds = {general}
    General = general
    Capacity = 1
    Messages = {m1}
    Sockets = {k1, k2, k3}
    Links = {}
    NoRoom = NoRoom
    NoMember = NoMember
    NoSocket = NoSocket
    NoSpeaker = NoSpeaker
    MaxFaults = 1
CHECK_DEADLOCK FALSE
SYMMETRY Symmetry
PROPERTY AllMembersGetIt
