\* Two outputs and two competing lock clients, hotplug and VT switches; renders
\* fail with or without a renderer, a rendered frame always reaches the kernel.
CONSTANTS
    Outputs = {o1, o2}
    Scenes = {"session", "locked"}
    NoFrame = NoFrame
    AsyncFlip = {}
    Switchable = {}
    Failures = {"noRenderer", "renderError"}
    Animations = FALSE
    VtSwitches = TRUE
    MaxIdles = 1
    MaxTimers = 1
    MaxStale = 0
    Clients = {c1, c2}
    NoClient = NoClient
SPECIFICATION LockSpec
SYMMETRY LockSymmetry
INVARIANT LockAgrees
INVARIANT LockedShowsNoSession
INVARIANT PendingLockProgresses
INVARIANT LockedFocusConfined
PROPERTY ImplementsProtocol
