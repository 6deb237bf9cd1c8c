SPECIFICATION RecSpec
CONSTANTS
    N_FFT = 8
    HOP = 3
    CENTER_PAD = 4
    CHUNK_FRAMES = 5
    SHIFT_FRAMES = 3
    Tokens = {"sep", "sepword", "word"}
    MaxChunk = 6
    MaxSamples = 42
    CHUNK = 3
    MaxSpeech = 5
    MaxDecoded = 3
INVARIANTS
    FramesAreReference
    WindowsCover
    SeparatorOnce
    TailDecoded
PROPERTIES
    SilentAfterLoss
