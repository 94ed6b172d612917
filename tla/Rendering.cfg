SPECIFICATION Spec
CONSTANTS
    Scenes = {s1, s2}
    NoScene = NoScene
    Presenting = s1
    Modes <- BothKinds
INVARIANTS OnePulse LatchReachesZero ChangesScheduled ChangesSynchronized
