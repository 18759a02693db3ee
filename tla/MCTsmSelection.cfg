SPECIFICATION Spec
CONSTANTS
    SizeX = 3
    SizeY = 2
    SbMax = 2
    Letters <- MCLetters
INVARIANTS
    TypeOK
    HighlightIsCopied
PROPERTY OnlyWordsLeaveTraces
