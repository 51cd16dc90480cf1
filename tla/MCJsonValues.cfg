SPECIFICATION JsonSpec
CONSTANTS
    Characters <- MCCharacters
    Texts <- MCTexts
    Values <- MCValues
    Depth <- MCDepth
    Escaped <- MCEscaped
    IntMax = 7
    MaxElements = 7
INVARIANTS
    ReadsWhatIsWritten
    ReadsNumbers
PROPERTIES
    ReturnsUnlessUnclosed
\* A call that has returned has ended.
CHECK_DEADLOCK FALSE
