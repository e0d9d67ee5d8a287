\* One output, everything on but the frames the kernel refuses, which leave an
\* animation re-queueing itself for ever.
CONSTANTS
    Outputs = {o1}
    Scenes = {scene}
    NoFrame = NoFrame
    AsyncFlip = {o1}
    Switchable = {o1}
    Failures = {"noRenderer", "renderError", "timerError", "connectError"}
    Animations = TRUE
    VtSwitches = TRUE
    MaxIdles = 2
    MaxTimers = 2
    MaxStale = 1
SPECIFICATION FairSpec
PROPERTY DamageIsPainted
