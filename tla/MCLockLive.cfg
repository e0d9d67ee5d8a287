\* Two outputs that come and go, one client, renders and timers that fail.
CONSTANTS
    Outputs = {o1, o2}
    Scenes = {"session", "locked"}
    NoFrame = NoFrame
    AsyncFlip = {}
    Switchable = {}
    Failures = {"renderError", "timerError"}
    Animations = FALSE
    VtSwitches = FALSE
    MaxIdles = 1
    MaxTimers = 1
    MaxStale = 0
    Clients = {c1}
    NoClient = NoClient
SPECIFICATION FairLockSpec
PROPERTY LockIsAnswered
PROPERTY LockReachesScreens
