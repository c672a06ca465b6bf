------------------------------- MODULE XSync --------------------------------
(***************************************************************************)
(* x_sync, x_sync_send and x_sync_receive on one connection between two    *)
(* Epiphany cores (x-lib/src/x_sync.c), with x_endpoint_ready              *)
(* (x-lib/src/x_endpoint.c).                                               *)
(*                                                                         *)
(* Each core owns an endpoint structure in its own memory.  Three of its   *)
(* fields are written by the other core through the write mesh; a core     *)
(* waits by spinning on its own endpoint.  Every store to the peer's       *)
(* endpoint, and every load of a field the peer writes, is one step of the *)
(* model; the local computation that follows a load is part of its step.   *)
(*                                                                         *)
(* A store takes effect on the peer's memory when it is made.  The mesh    *)
(* delivers the stores of one core to another in order, and a core never   *)
(* reads back what it stored remotely, so a store that is late only looks  *)
(* like a writer that is slow.                                             *)
(*                                                                         *)
(* The comment on x_sync describes a race when "the flow of control is     *)
(* interrupted between writing the new sequence value to the peer, and     *)
(* acting on data received from the peer" and the remedy, running with     *)
(* interrupts disabled.  Interruptible chooses: TRUE leaves the two cores  *)
(* fully asynchronous, as the code by itself does.  FALSE is an assumption *)
(* on their timing that no line of the code enforces (see MayStore): a     *)
(* core that is not interrupted takes an awaited value out of its own      *)
(* memory before the peer's next store reaches it.                         *)
(***************************************************************************)
EXTENDS Naturals, Integers

CONSTANTS
    SeqModulus,      \* the sequence numbers are uint32_t: 2^32 in the code
    Kinds,           \* which of the three calls the tasks make
    Sizes,           \* transfer sizes passed (x_transfer_size_t)
    Where, Offsets,  \* where buffers lie: in which memory, and where in it
    Payloads,        \* what a send buffer may hold
    Interruptible    \* see above

ASSUME SeqAssumption == SeqModulus \in Nat /\ SeqModulus >= 3
ASSUME SizesAssumption == Sizes \subseteq Nat
ASSUME KindsAssumption ==
    Kinds \subseteq {"x_sync", "x_sync_send", "x_sync_receive"}
ASSUME WhereAssumption == Where \subseteq {"local", "dram"}
ASSUME InterruptibleAssumption == Interruptible \in BOOLEAN

Peer == {"source", "sink"}
Other(p) == IF p = "source" THEN "sink" ELSE "source"

(* endpoint->mode, as xt_initialise_endpoints leaves it at the two ends. *)
Mode(p) == IF p = "source" THEN "X_SENDING_ENDPOINT" ELSE "X_RECEIVING_ENDPOINT"

Sequence == 0 .. SeqModulus - 1
SYNC_CONTROL == 0                               \* X_ENDPOINT_SYNC_CONTROL
Control == Sizes \cup {SYNC_CONTROL}

(* An address is "local" when its top 12 bits are zero; otherwise they name *)
(* a core, or the external memory that all cores share.                     *)
Memories  == Peer \cup {"dram"}
GlobalAddress == [where : Memories, off : Offsets]
Address   == [where : Memories \cup {"local"}, off : Offsets]
Buffers   == [where : Where, off : Offsets]
NullAddress == [where |-> "null", off |-> "null"]
NoData    == "nothing"

(* A call that has begun, with its arguments. *)
Call == [kind : {"none", "x_sync", "x_sync_send", "x_sync_receive"},
         size : Control, buf : Buffers \cup {NullAddress},
         data : Payloads \cup {NoData}]
Bare(k) == [kind |-> k, size |-> 0, buf |-> NullAddress, data |-> NoData]

Errors == {"X_E_ENDPOINT_MODE_MISMATCH", "X_E_SYNC_TRANSFER_MISMATCH",
           "X_E_SEND_TOO_BIG_FOR_RECEIVE_BUFFER", "X_E_INVALID_TRANSFER_SIZE"}
NoError == "none"

VARIABLES
    sequence, sequence_from_peer, control_from_peer, address_from_peer,
                     \* the fields of each peer's endpoint
    pc,              \* where in the call each peer is
    call,            \* the call it is in, or was last in, past the mode check
    new_sequence, size_from_peer,
                     \* its local variables of those names
    result,          \* the value the last call returned
    last_error,      \* the error code x_last_error would return
    mem,             \* what the buffers in each memory hold
    met              \* history: the peer's call that the call each peer is
                     \* in has met in its first rendezvous

endpointVars == <<sequence, sequence_from_peer, control_from_peer,
                  address_from_peer>>
locals == <<new_sequence, size_from_peer, result, last_error>>
vars == <<sequence, sequence_from_peer, control_from_peer, address_from_peer,
          pc, call, new_sequence, size_from_peer, result, last_error, mem,
          met>>

(* The program counter: outside any call; about to store the control word; *)
(* to store the sequence number; spinning for the first rendezvous; about  *)
(* to load the control word; to copy the data; to store the second         *)
(* sequence number; spinning for the second rendezvous.                    *)
PC == {"idle", "control", "sequence", "spin", "read", "copy", "sequence2",
       "spin2"}
Spinning == {"spin", "spin2"}

TypeOK ==
    /\ sequence \in [Peer -> Sequence]
    /\ sequence_from_peer \in [Peer -> Sequence]
    /\ control_from_peer \in [Peer -> Control]
    /\ address_from_peer \in [Peer -> GlobalAddress \cup {NullAddress}]
    /\ pc \in [Peer -> PC]
    /\ call \in [Peer -> Call]
    /\ new_sequence \in [Peer -> Sequence]
    /\ size_from_peer \in [Peer -> Control]
    /\ result \in [Peer -> Control \cup {-1}]
    /\ last_error \in [Peer -> Errors \cup {NoError}]
    /\ mem \in [GlobalAddress -> Payloads \cup {NoData}]
    /\ met \in [Peer -> Call]

-----------------------------------------------------------------------------
(* Definitions named ..._bug are variants with a plausible mistake; nothing  *)
(* uses them but the mutation runs, which show that a property can fail.     *)

(* Sequence numbers that do not roll over. *)
Succ_bug(s) == s + 1

(* Unsigned arithmetic rolls over. *)
Succ(s) == (s + 1) % SeqModulus

(* The core id is not masked in. *)
Globalise_bug(p, a) == a

(* Masking the core's own id into an address that has none. *)
Globalise(p, a) == IF a.where = "local" THEN [a EXCEPT !.where = p] ELSE a

(* External: the memory a core reaches through an address. *)
Deref(p, a) == IF a.where = "local" THEN [a EXCEPT !.where = p] ELSE a

(* "greater than" without the modulus. *)
x_endpoint_ready_bug(p) == sequence_from_peer[p] > sequence[p]

x_endpoint_ready(p) == sequence_from_peer[p] = Succ(sequence[p])

Init ==
    /\ sequence = [p \in Peer |-> 0]
    /\ sequence_from_peer = [p \in Peer |-> 0]
    /\ control_from_peer = [p \in Peer |-> 0]
    /\ address_from_peer = [p \in Peer |-> NullAddress]
    /\ pc = [p \in Peer |-> "idle"]
    /\ call = [p \in Peer |-> Bare("none")]
    /\ new_sequence = [p \in Peer |-> 0]
    /\ size_from_peer = [p \in Peer |-> 0]
    /\ result = [p \in Peer |-> 0]
    /\ last_error = [p \in Peer |-> NoError]
    /\ mem = [a \in GlobalAddress |-> NoData]
    /\ met = [p \in Peer |-> Bare("none")]

Goto(p, l) == pc' = [pc EXCEPT ![p] = l]

(* q has what it waits for in its own memory and has yet to take it out. *)
Sampling(q) ==
    \/ pc[q] \in Spinning /\ sequence_from_peer[q] = new_sequence[q]
    \/ pc[q] = "read"

(* Not in the code: the timing assumption that stands for "not interrupted". *)
(* While the other core has what it waits for and has yet to load it, p's    *)
(* next store does not arrive.  Mostly p would have to return and be called  *)
(* again to make that store; but the receiver's PostSecond follows its own   *)
(* first rendezvous after a few instructions, so there the assumption is     *)
(* that the sender's spin loop is faster than those.                         *)
MayStore(p) == Interruptible \/ ~Sampling(Other(p))

(* A call gets past its mode check and makes its first store to the peer. *)
Begin(p, c) ==
    /\ pc[p] = "idle"
    /\ MayStore(p)
    /\ call' = [call EXCEPT ![p] = c]
    /\ new_sequence' = [new_sequence EXCEPT ![p] = Succ(sequence[p])]

(* The call returns value v, reporting error e to x_error unless NoError. *)
Return(p, v, e) ==
    /\ Goto(p, "idle")
    /\ result' = [result EXCEPT ![p] = v]
    /\ last_error' = [last_error EXCEPT ![p] = IF e = NoError THEN @ ELSE e]
    /\ met' = [met EXCEPT ![p] = Bare("none")]

StoreControl(p, v) ==
    control_from_peer' = [control_from_peer EXCEPT ![Other(p)] = v]
StoreSequence(p, s) ==
    sequence_from_peer' = [sequence_from_peer EXCEPT ![Other(p)] = s]

-----------------------------------------------------------------------------
(* x_sync: store the sync control word. *)
x_sync(p) ==
    /\ "x_sync" \in Kinds
    /\ Begin(p, Bare("x_sync"))
    /\ StoreControl(p, SYNC_CONTROL)
    /\ Goto(p, "sequence")
    /\ UNCHANGED <<sequence, sequence_from_peer, address_from_peer,
                   size_from_peer, result, last_error, mem, met>>

(* A transfer: store the global form of the buffer's address. *)
BeginTransfer(p, k, size, buf, data) ==
    /\ k \in Kinds
    /\ Begin(p, [kind |-> k, size |-> size, buf |-> buf, data |-> data])
    /\ address_from_peer' =
           [address_from_peer EXCEPT ![Other(p)] = Globalise(p, buf)]
    /\ Goto(p, "control")
    /\ UNCHANGED <<sequence, sequence_from_peer, control_from_peer,
                   size_from_peer, result, last_error, mem, met>>

x_sync_send(p, size, buf, data) ==
    /\ Mode(p) = "X_SENDING_ENDPOINT"
    /\ BeginTransfer(p, "x_sync_send", size, buf, data)

x_sync_receive(p, size, buf) ==
    /\ Mode(p) = "X_RECEIVING_ENDPOINT"
    /\ BeginTransfer(p, "x_sync_receive", size, buf, NoData)

(* Sending on a receiving endpoint, or the reverse: nothing is stored. *)
ModeMismatch(p) ==
    /\ pc[p] = "idle"
    /\ \/ "x_sync_send" \in Kinds /\ Mode(p) # "X_SENDING_ENDPOINT"
       \/ "x_sync_receive" \in Kinds /\ Mode(p) # "X_RECEIVING_ENDPOINT"
    /\ Return(p, -1, "X_E_ENDPOINT_MODE_MISMATCH")
    /\ UNCHANGED <<endpointVars, call, new_sequence, size_from_peer, mem>>

(* remote_endpoint->control_from_peer = size *)
PostControl(p) ==
    /\ pc[p] = "control"
    /\ MayStore(p)
    /\ StoreControl(p, call[p].size)
    /\ Goto(p, "sequence")
    /\ UNCHANGED <<sequence, sequence_from_peer, address_from_peer, call, locals,
                   mem, met>>

(* remote_endpoint->sequence_from_peer = new_sequence *)
PostSequence(p) ==
    /\ pc[p] = "sequence"
    /\ MayStore(p)
    /\ StoreSequence(p, new_sequence[p])
    /\ Goto(p, "spin")
    /\ UNCHANGED <<sequence, control_from_peer, address_from_peer, call, locals,
                   mem, met>>

(* The load is made, and its result ignored. *)
SpinExit_bug(p) ==
    /\ pc[p] = "spin"
    /\ Goto(p, "read")
    /\ met' = [met EXCEPT ![p] = call[Other(p)]]
    /\ UNCHANGED <<endpointVars, call, locals, mem>>

(* The spin loop's load finds the awaited number. *)
SpinExit(p) ==
    /\ pc[p] = "spin"
    /\ sequence_from_peer[p] = new_sequence[p]
    /\ Goto(p, "read")
    /\ met' = [met EXCEPT ![p] = call[Other(p)]]
    /\ UNCHANGED <<endpointVars, call, locals, mem>>

(* The load of control_from_peer, the update of local_endpoint->sequence *)
(* and the decision taken on them, for each of the three calls.          *)
Read(p) ==
    /\ pc[p] = "read"
    /\ size_from_peer' = [size_from_peer EXCEPT ![p] = control_from_peer[p]]
    /\ sequence' = [sequence EXCEPT ![p] = new_sequence[p]]
    /\ UNCHANGED <<sequence_from_peer, control_from_peer, address_from_peer,
                   call, mem>>

SyncRead(p) ==
    /\ call[p].kind = "x_sync"
    /\ Read(p)
    /\ IF control_from_peer[p] # SYNC_CONTROL
       THEN Return(p, -1, "X_E_SYNC_TRANSFER_MISMATCH")
       ELSE Return(p, 0, NoError)
    /\ UNCHANGED new_sequence

(* The checks send and receive share, in the order they are made.  With no *)
(* error new_sequence is incremented for the second rendezvous.            *)
TransferError(p, tooBig) ==
    CASE call[p].size = SYNC_CONTROL -> "X_E_INVALID_TRANSFER_SIZE"
      [] call[p].size # SYNC_CONTROL /\ control_from_peer[p] = SYNC_CONTROL
            -> "X_E_SYNC_TRANSFER_MISMATCH"
      [] OTHER -> IF tooBig THEN "X_E_SEND_TOO_BIG_FOR_RECEIVE_BUFFER"
                            ELSE NoError

TransferRead(p, error, next) ==
    /\ Read(p)
    /\ \/ /\ error # NoError
          /\ Return(p, -1, error)
          /\ UNCHANGED new_sequence
       \/ /\ error = NoError
          /\ Goto(p, next)
          /\ new_sequence' = [new_sequence EXCEPT ![p] = Succ(@)]
          /\ UNCHANGED <<result, last_error, met>>

(* The sender trusts the receive buffer to be large enough. *)
SendRead_bug(p) ==
    /\ call[p].kind = "x_sync_send"
    /\ TransferRead(p, TransferError(p, FALSE), "copy")

SendRead(p) ==
    /\ call[p].kind = "x_sync_send"
    /\ TransferRead(p, TransferError(p, control_from_peer[p] < call[p].size),
                    "copy")

(* The receiver insists on room to spare. *)
ReceiveRead_bug(p) ==
    /\ call[p].kind = "x_sync_receive"
    /\ TransferRead(p, TransferError(p, control_from_peer[p] >= call[p].size),
                    "sequence2")

(* The receiver waits for the second rendezvous without joining it. *)
ReceiveRead_silent_bug(p) ==
    /\ call[p].kind = "x_sync_receive"
    /\ TransferRead(p, TransferError(p, control_from_peer[p] > call[p].size),
                    "spin2")

ReceiveRead(p) ==
    /\ call[p].kind = "x_sync_receive"
    /\ TransferRead(p, TransferError(p, control_from_peer[p] > call[p].size),
                    "sequence2")

(* The sender loads the destination address and copies the data to it; *)
(* module XCopy has the copying loops.                                 *)
CopyData(p) ==
    /\ pc[p] = "copy"
    /\ mem' = [mem EXCEPT ![Deref(p, address_from_peer[p])] = call[p].data]
    /\ Goto(p, "sequence2")
    /\ UNCHANGED <<endpointVars, call, locals, met>>

(* The second rendezvous: store the incremented sequence number ... *)
PostSecond(p) ==
    /\ pc[p] = "sequence2"
    /\ MayStore(p)
    /\ StoreSequence(p, new_sequence[p])
    /\ Goto(p, "spin2")
    /\ UNCHANGED <<sequence, control_from_peer, address_from_peer, call, locals,
                   mem, met>>

(* The second rendezvous is posted and not awaited. *)
SecondExit_bug(p) ==
    /\ pc[p] = "spin2"
    /\ sequence' = [sequence EXCEPT ![p] = new_sequence[p]]
    /\ Return(p, IF call[p].kind = "x_sync_send" THEN call[p].size
                 ELSE size_from_peer[p], NoError)
    /\ UNCHANGED <<sequence_from_peer, control_from_peer, address_from_peer,
                   call, new_sequence, size_from_peer, mem>>

(* ... and spin until the peer's arrives.  The sender returns its own size, *)
(* the receiver the size_from_peer it loaded in the first rendezvous.       *)
SecondExit(p) ==
    /\ pc[p] = "spin2"
    /\ sequence_from_peer[p] = new_sequence[p]
    /\ sequence' = [sequence EXCEPT ![p] = new_sequence[p]]
    /\ Return(p, IF call[p].kind = "x_sync_send" THEN call[p].size
                 ELSE size_from_peer[p], NoError)
    /\ UNCHANGED <<sequence_from_peer, control_from_peer, address_from_peer,
                   call, new_sequence, size_from_peer, mem>>

-----------------------------------------------------------------------------
Calls(p) ==
    \/ x_sync(p)
    \/ ModeMismatch(p)
    \/ \E size \in Sizes, buf \in Buffers :
          \/ x_sync_receive(p, size, buf)
          \/ \E data \in Payloads : x_sync_send(p, size, buf, data)

(* The steps of a call that has begun. *)
Steps(p) ==
    \/ PostControl(p)
    \/ PostSequence(p)
    \/ SpinExit(p)
    \/ SyncRead(p)
    \/ SendRead(p)
    \/ ReceiveRead(p)
    \/ CopyData(p)
    \/ PostSecond(p)
    \/ SecondExit(p)

Next == \E p \in Peer : Calls(p) \/ Steps(p)

Spec == Init /\ [][Next]_vars

(* A core runs the call it is in; nothing obliges its task to make another. *)
FairSpec == Spec /\ \A p \in Peer : WF_vars(Steps(p))

-----------------------------------------------------------------------------
(***************************************************************************)
(* Properties.                                                             *)
(***************************************************************************)
Posted(p) == sequence_from_peer[Other(p)]     \* the last number p has posted

(* p has posted a number that its peer has not caught up with. *)
Ahead(p) == Posted(p) = Succ(Posted(Other(p)))

(* The sequence numbers keep the peers within one round of each other, the  *)
(* peer in front being the one that spins: neither x_sync nor either half   *)
(* of a transfer gets past a spin loop before the peer has posted the same  *)
(* round, rollover included.                                                *)
Lockstep ==
    \A p \in Peer :
        /\ pc[p] # "idle" => new_sequence[p] = Succ(sequence[p])
        /\ Posted(p) = IF pc[p] \in Spinning \cup {"read"} THEN new_sequence[p]
                                                          ELSE sequence[p]
        /\ Posted(p) = Posted(Other(p)) \/ Ahead(p) \/ Ahead(Other(p))
        /\ Ahead(p) => pc[p] \in Spinning

(* A spinning core never has the number it waits for stored over: what it   *)
(* sees is the previous round's number or the awaited one, never a later    *)
(* one, which would leave it spinning for good.                             *)
NoMissedRendezvous ==
    \A p \in Peer : pc[p] \in Spinning =>
        sequence_from_peer[p] \in {sequence[p], new_sequence[p]}

(* For a task outside any call, x_endpoint_ready is TRUE exactly when the   *)
(* peer is waiting for it in a rendezvous that the task has not joined yet, *)
(* also when the sequence number has just rolled over to 0.                 *)
ReadyExact ==
    \A p \in Peer : pc[p] = "idle" =>
        (x_endpoint_ready(p) <=>
            /\ pc[Other(p)] \in Spinning
            /\ new_sequence[Other(p)] = Succ(sequence[p]))

(* The transfer that a send and a receive agree on. *)
Agreed(send, receive) == /\ send.kind = "x_sync_send"
                         /\ receive.kind = "x_sync_receive"
                         /\ 0 < send.size /\ send.size <= receive.size

(* p's call returns from a rendezvous (not from the mode check). *)
Returns(p) == pc[p] # "idle" /\ pc'[p] = "idle"

(* The results the comments allow a call c that has met the call m: both     *)
(* ends of a transfer that fits return the sender's size, every other        *)
(* meeting of transfers is an error for both, and x_sync succeeds exactly    *)
(* when the peer announced no transfer.  A receive that meets an x_sync has  *)
(* received nothing; whether it says so by 0 or by -1 is left open here.     *)
Allowed(c, m) ==
    CASE c.kind = "x_sync" -> IF m.size = 0 THEN {0} ELSE {-1}
      [] Agreed(c, m) -> {c.size}
      [] Agreed(m, c) -> {m.size}
      [] c.kind = "x_sync_receive" /\ m.kind = "x_sync" -> {0, -1}
      [] OTHER -> {-1}

(* What a call returns is decided by the two calls that met, and alike at    *)
(* both ends, whatever was in the endpoints from earlier calls.              *)
PeersAgree ==
    [][\A p \in Peer : Returns(p) => result'[p] \in Allowed(call[p], met[p])]_vars

(* "Returns the amount of data actually transferred, zero in the case of a   *)
(* sync from the sender" (the comment on x_sync_receive).                    *)
ReceiveOfSyncIsZero ==
    [][/\ Returns("sink")
       /\ call["sink"].kind = "x_sync_receive" /\ call["sink"].size > 0
       /\ met["sink"].kind = "x_sync"
       => result'["sink"] = 0]_vars

(* When a receive succeeds its buffer holds what the sender sent in the     *)
(* call it met, wherever the buffer lies.                                   *)
DataDelivered ==
    [][Returns("sink") /\ result'["sink"] > 0 =>
          mem'[Deref("sink", call["sink"].buf)] = met["sink"].data]_vars

(* Data is only ever stored into the buffer of a receive that is still in   *)
(* progress, and that is large enough for it.                               *)
OnlyOpenBuffers ==
    [][\A a \in GlobalAddress : mem'[a] # mem[a] =>
          /\ pc["sink"] \in {"spin", "read", "sequence2", "spin2"}
          /\ Agreed(call["source"], call["sink"])
          /\ a = Deref("sink", call["sink"].buf)]_vars

(* Two peers that are both inside calls do not wait for each other forever: *)
(* one of the calls returns.                                                *)
Progress ==
    (\A p \in Peer : pc[p] # "idle") ~> (\E p \in Peer : pc[p] = "idle")

(* One connection is a two-party rendezvous: a peer waits from posting a    *)
(* sequence number until its spin loop ends.                                *)
R == INSTANCE Rendezvous
        WITH waiting <- {p \in Peer : pc[p] \in Spinning},
             ahead <- {p \in Peer : Ahead(p)}

(* No call gets past a spin loop before the peer has arrived at that round. *)
IsRendezvous == R!Spec
=============================================================================
