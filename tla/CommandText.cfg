\* quoting/pipe_command.py:4-6 against the code.
CONSTANTS
    Lexemes = {"word", "ionum", "out", "pipe"}
    MaxLength = 6
SPECIFICATION TextSpec
INVARIANT CommandsKept
CHECK_DEADLOCK FALSE
