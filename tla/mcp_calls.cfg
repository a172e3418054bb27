CONSTANTS
    Callers = {i1, i2}
    Execute = {e1}
    Control = {k1}
    InFlight <- OneAndTwo
    None = None
    MaxClients = 3
    MaxRetries = 1
    Running = 2
    Permits <- One
    Remembered = 1
    MaxFaults = 1
SPECIFICATION Spec
SYMMETRY AnyCaller
CHECK_DEADLOCK FALSE
INVARIANTS
    CapacityKept
    OneAttemptPerInvocation
    CanceledStaysCanceled
    CallsOnLiveClients
PROPERTIES
    CanceledIsStopped
    LateAnswersAreDropped
