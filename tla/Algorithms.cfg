SPECIFICATION AlgorithmsSpec
CONSTANTS
    Tokens <- TheTokens
    Params = {1, 5}
    MaxInt = 255
    Images <- TheImages
    SomeKernels <- TheKernels
    Pixel = {0, 100, 255}
    Types <- TheTypes
    Environments <- TheEnvironments
    Words <- TheWords
    MaxWords = 3
    Letters = {"a", "b"}
    Numbers <- Numerals
    Int32 = 8
INVARIANTS
    StrategiesKeepPromises
    BlurIsConvolution
    FieldsTellWhatLoadReads
    KeysTellTheWords
