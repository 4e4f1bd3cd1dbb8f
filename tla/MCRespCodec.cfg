SPECIFICATION MCCodecSpec
CONSTANTS
    Streams <- AllStreams
    Tails <- BadTails
    MaxInt = 40
INVARIANTS
    ReadsBack
PROPERTIES
    NeverWaitsInVain
