CONSTANTS
    Letters <- MCLetters
    Digits <- MCDigits
    Phrases <- MCPhrases
    MaxPhrases = 5

SPECIFICATION Spec

INVARIANTS
    TypeOK
    ReadsFiles
    OpenBlocksAreNested
    ServesWhatIsListed

CHECK_DEADLOCK FALSE
