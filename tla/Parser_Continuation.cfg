CONSTANTS
    Lines <- MCContLines
    MaxLines = 4
    Folded <- MCFolded
SPECIFICATION Spec
INVARIANTS
    ContinuedHeadersAsGrammar
CHECK_DEADLOCK FALSE
