\* Sends that always fit the receives they meet, cores fully asynchronous.
CONSTANTS
    SeqModulus = 4
    Kinds = {"x_sync_send", "x_sync_receive"}
    Sizes = {1}
    Where = {"local", "dram"}
    Offsets = {o1}
    Payloads = {d1, d2}
    Interruptible = TRUE
SPECIFICATION Spec
PROPERTIES DataDelivered OnlyOpenBuffers IsRendezvous
\* A missed rendezvous leaves both cores spinning.
CHECK_DEADLOCK FALSE
