\* What does a receive return that meets an x_sync?  No interrupts.
CONSTANTS
    SeqModulus = 3
    Kinds = {"x_sync", "x_sync_receive"}
    Sizes = {1}
    Where = {"local"}
    Offsets = {o1}
    Payloads = {d1}
    Interruptible = FALSE
SPECIFICATION Spec
PROPERTIES ReceiveOfSyncIsZero
\* Nothing obliges a task to make another call.
CHECK_DEADLOCK FALSE
