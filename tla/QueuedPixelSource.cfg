SPECIFICATION Spec
CONSTANTS
    Buffers = {b1, b2, b3, b4}
    Shapes = {"wide", "tall", "large"}
    Area <- MCArea
    NoPixels = NoPixels
    MaxFrames = 4
SYMMETRY BufferSymmetry
INVARIANTS BuffersApart RoomForFrame ThreeSets NothingStranded
PROPERTIES FramesStayWhole
