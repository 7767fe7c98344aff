CONSTANTS
    Lines <- MCLines
    MaxLines = 5
    Folded <- MCFolded
SPECIFICATION Spec
INVARIANTS
    TypeOK
    ParsesAsGrammar
CHECK_DEADLOCK FALSE
