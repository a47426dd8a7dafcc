SPECIFICATION Spec
CONSTANTS
    PIPE_BUFFER_SIZE = 3
    MAX_PIPES = 3
    BUFFER_SIZE = 3
    TAB_SIZE = 2
    Printed <- MCPrinted
    Key <- MCKeys
    MaxKeys = 3
INVARIANTS KeyboardDelivers PipeDelivers NobodyLeftBehind
CHECK_DEADLOCK FALSE
