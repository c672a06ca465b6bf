\* Both tasks make any calls, with any sizes, in any order; no interrupts.
CONSTANTS
    SeqModulus = 3
    Kinds = {"x_sync", "x_sync_send", "x_sync_receive"}
    Sizes = {0, 1, 2}
    Where = {"local"}
    Offsets = {o1}
    Payloads = {d1, d2}
    Interruptible = FALSE
SPECIFICATION FairSpec
INVARIANTS TypeOK Lockstep NoMissedRendezvous ReadyExact
PROPERTIES PeersAgree DataDelivered OnlyOpenBuffers Progress IsRendezvous
\* Nothing obliges a task to make another call.
CHECK_DEADLOCK FALSE
