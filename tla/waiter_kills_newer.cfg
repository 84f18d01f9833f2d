\* A waiter that checked before a restart stops the new process.
SPECIFICATION Spec
CONSTANTS
    Listener = {h1, h2}
    Source = {}
    Process = {g1, g2}
    Cap = 1
    MaxChunk = 1
    None = None
CHECK_DEADLOCK FALSE
PROPERTIES
    WaiterSparesNewer
