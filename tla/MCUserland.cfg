SPECIFICATION MCSpec
CHECK_DEADLOCK FALSE
CONSTANTS
    NumWriters = 3
    NumReaders = 2
    Command = {"cat", "man"}
    BuiltIn = {"man"}
    Word = {"", "|", "&", "cat", "man", "zz"}
    MAX_ARGUMENT_COUNT = 4
    GROW = 2
    MaxWords = 5
    MaxLines = 2
    Node = {n1, n2, n3}
    NoNode = NoNode
    Element = {x, y}
    BLOCK_SIZE = 2
    MaxElements = 3
    INT_BITS = 8
    MAX_PROCESSES = 64
    NumProc = 2
    MaxNested = 4
    SomeCalls = {"sys_create_process"}
    Width = 13
    Height = 16
    Glyph = 2
    TAB_SIZE = 4
    MaxFont = 3
INVARIANTS LinesAreUnderstood ArgumentsAreFreed ContainersAgree TextIsExact TrapsAreTransparent  TokenKept
PROPERTIES EachLetterOnce
