\* The same workload: does the second rendezvous rule out the race?
CONSTANTS
    SeqModulus = 4
    Kinds = {"x_sync_send", "x_sync_receive"}
    Sizes = {1}
    Where = {"local"}
    Offsets = {o1}
    Payloads = {d1}
    Interruptible = TRUE
SPECIFICATION Spec
INVARIANTS NoMissedRendezvous
CHECK_DEADLOCK FALSE
