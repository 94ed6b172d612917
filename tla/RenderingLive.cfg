SPECIFICATION FairSpec
CONSTANTS
    Scenes = {s1}
    NoScene = NoScene
    Presenting = s1
    Modes <- Liveness
PROPERTIES PulsesEnd ChangesPainted
