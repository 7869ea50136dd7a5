SPECIFICATION Spec
CONSTANTS
    Version = {1, 2}
    None = None
CHECK_DEADLOCK FALSE
INVARIANT
    ServerThere
