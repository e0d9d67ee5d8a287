\* Two outputs; a rendered frame may be refused by the kernel.
CONSTANTS
    Outputs = {o1, o2}
    Scenes = {"session", "locked"}
    NoFrame = NoFrame
    AsyncFlip = {}
    Switchable = {}
    Failures = {"queueError"}
    Animations = FALSE
    VtSwitches = TRUE
    MaxIdles = 1
    MaxTimers = 1
    MaxStale = 0
    Clients = {c1, c2}
    NoClient = NoClient
SPECIFICATION LockSpec
SYMMETRY LockSymmetry
INVARIANT LockedShowsNoSession
