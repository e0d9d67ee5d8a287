SPECIFICATION Spec
CONSTANTS
    c1 = c1
    c2 = c2
    a1 = a1
    a2 = a2
    p1 = p1
    p2 = p2
    t1 = t1
    t2 = t2
    u1 = u1
    w1 = w1
    Nothing = Nothing
    MaxChanges = 4
    Levels = {0, 80}
    Conns = {c1, c2}
    Wifi = {c1}
    Aps = {a1, a2}
    Players = {p1, p2}
    Tracks = {t1, t2}
    Apps = {u1, w1}
    WellKnown = {w1}
    MaxId = 2
    MaxWindows = 2
    MaxEvents = 3
    MaxVms = 3
    MaxWrites = 3
    MaxExecs = 1
    MaxQueue = 1
    MaxDirs = 2
SYMMETRY MCSymmetry
CHECK_DEADLOCK FALSE
INVARIANT Undamaged
