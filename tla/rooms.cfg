SPECIFICATION Spec
CONSTANTS
    Members = {s1, s2}
    RoomIds = {general, lounge}
    General = general
    Capacity = 1
    Messages = {m1, m2}
    Sockets = {k1, k2, k3}
    Links = {l1}
    NoRoom = NoRoom
    NoMember = NoMember
    NoSocket = NoSocket
    NoSpeaker = NoSpeaker
    MaxFaults = 1
CHECK_DEADLOCK FALSE
SYMMETRY Symmetry
INVARIANTS JoinersFit RoomSurvives NothingSkipped
