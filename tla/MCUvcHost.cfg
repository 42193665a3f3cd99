SPECIFICATION Spec
CONSTANTS
    RxLimit = 3072
    MaxFormats = 2
    MaxFrames = 3
    MaxCells = 3
    PacketCells = 2
    Lengths <- MCLengths
    Settings <- MCSettings
    SilentWindows = 1
    OpenTries = 1
INVARIANTS AsksForWhatIsOffered ReceivesWhileStreaming ShownWhole PictureUntouched
PROPERTY StreamComesBack
CHECK_DEADLOCK FALSE
