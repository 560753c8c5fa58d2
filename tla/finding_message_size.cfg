CONSTANTS
    Lines <- MCLines
    MaxLines = 5
    MaxCharacters = 10
    MaxMessages = 3
SPECIFICATION Spec
INVARIANT SizeIsBounded
CHECK_DEADLOCK FALSE
