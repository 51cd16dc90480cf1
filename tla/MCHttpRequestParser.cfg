CONSTANTS
    Characters <- MCCharacters
    MethodNames <- MCMethodNames
    Requests <- MCRequests
    Texts <- MCTexts
    MaxLength = 5
SPECIFICATION ParserSpec
INVARIANTS DecodesWhatCame AbortsAtCuts
CHECK_DEADLOCK FALSE
