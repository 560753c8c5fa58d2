CONSTANTS
    Lines <- MCLines
    MaxLines = 5
    MaxCharacters = 10
    MaxMessages = 3
SPECIFICATION Spec
INVARIANT FencesAreWhole
INVARIANT NothingIsLost
CHECK_DEADLOCK FALSE
