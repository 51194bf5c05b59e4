CONSTANTS
    SIZE = 6
    Char = {0, 1, 2}
    LONG_BITS = 5
    PRINTF_BUFMAX = 4
    Formats <- MCFormats
    Args <- MCArgs
    Texts <- MCTexts
    Sizes <- MCSizes
    BLOCK = 3
    Letter = {97, 98}
    Junk = {0, 1}
    MaxKeys = 7
SPECIFICATION Spec
INVARIANTS CopiesRight SearchesRight FieldWidth ReadBack PrintfFaithful SnprintfPrefix EchoesLine
PROPERTIES EditsLine
CHECK_DEADLOCK FALSE
