SPECIFICATION Spec
CONSTANTS
    PIPE_BUFFER_SIZE = 3
    MAX_PIPES = 3
    BUFFER_SIZE = 3
    TAB_SIZE = 2
    Printed <- MCPrinted
    Key = {"^D"}
    MaxKeys = 1
PROPERTY ReadersFinish
CHECK_DEADLOCK FALSE
