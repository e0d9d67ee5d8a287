\* Two outputs with everything on: tearing, animations, VT switches, hotplug,
\* every error, two idle callbacks at once and a stale page flip.
CONSTANTS
    Outputs = {o1, o2}
    Scenes = {scene}
    NoFrame = NoFrame
    AsyncFlip = {o1, o2}
    Switchable = {o1, o2}
    Failures = {"noRenderer", "renderError", "queueError", "timerError", "connectError"}
    Animations = TRUE
    VtSwitches = TRUE
    MaxIdles = 2
    MaxTimers = 2
    MaxStale = 1
SPECIFICATION Spec
SYMMETRY OutputSymmetry
INVARIANT OutputsInv
INVARIANT NoStrandedOutput
INVARIANT NoLostDamage
INVARIANT AnimationKeepsRepainting
