---------------------------- MODULE XSyncProofs -----------------------------
(***************************************************************************)
(* Proofs about XSync, for every sequence-number width of at least three   *)
(* values, every set of sizes, buffers and payloads, and with or without   *)
(* interrupts.                                                             *)
(***************************************************************************)
EXTENDS XSync, TLAPS

-----------------------------------------------------------------------------
(* Sequence-number arithmetic: the successor of x_transfer_sequence_t's      *)
(* rollover is a number of the same width, and one and two steps on are      *)
(* always different from where one started.                                  *)
LEMMA SuccValue ==
    ASSUME NEW s \in Sequence
    PROVE  Succ(s) = IF s = SeqModulus - 1 THEN 0 ELSE s + 1
<1>1. CASE s = SeqModulus - 1
  <2>1. s + 1 = SeqModulus
    BY <1>1, SeqAssumption DEF Sequence
  <2>2. SeqModulus % SeqModulus = 0
    BY SeqAssumption
  <2> QED
    BY <1>1, <2>1, <2>2 DEF Succ
<1>2. CASE s # SeqModulus - 1
  <2>1. s + 1 \in 0 .. SeqModulus - 1
    BY <1>2, SeqAssumption DEF Sequence
  <2>2. (s + 1) % SeqModulus = s + 1
    BY <2>1, SeqAssumption
  <2> QED
    BY <1>2, <2>2 DEF Succ
<1> QED
  BY <1>1, <1>2

LEMMA SuccFacts ==
    /\ \A s \in Sequence : Succ(s) \in Sequence
    /\ \A s \in Sequence : Succ(s) # s /\ Succ(Succ(s)) # s
    /\ \A s, t \in Sequence : Succ(s) = Succ(t) => s = t
<1> DEFINE F(s) == IF s = SeqModulus - 1 THEN 0 ELSE s + 1
<1>1. \A s \in Sequence : Succ(s) = F(s)
  BY SuccValue
<1>2. \A s \in Sequence : F(s) \in Sequence
  BY SeqAssumption DEF Sequence
<1>3. \A s \in Sequence : F(s) # s /\ F(F(s)) # s
  BY SeqAssumption DEF Sequence
<1>4. \A s, t \in Sequence : F(s) = F(t) => s = t
  BY SeqAssumption DEF Sequence
<1> HIDE DEF F
<1> QED
  BY <1>1, <1>2, <1>3, <1>4

-----------------------------------------------------------------------------
(* Facts about the helpers of the actions. *)
LEMMA PeerFacts ==
    /\ \A p \in Peer : Other(p) \in Peer /\ Other(p) # p /\ Other(Other(p)) = p
    /\ \A p, q \in Peer : q = p \/ q = Other(p)
BY DEF Peer, Other

LEMMA GlobaliseType ==
    ASSUME NEW p \in Peer, NEW b \in Buffers
    PROVE  Globalise(p, b) \in GlobalAddress
BY WhereAssumption DEF Globalise, GlobalAddress, Memories, Buffers

LEMMA BareType ==
    ASSUME NEW k \in {"none", "x_sync", "x_sync_send", "x_sync_receive"}
    PROVE  Bare(k) \in Call
BY DEF Bare, Call, Control, SYNC_CONTROL

LEMMA TransferErrorType ==
    ASSUME NEW p, NEW b
    PROVE  TransferError(p, b) \in Errors \cup {NoError}
BY DEF TransferError, Errors

(* Return leaves well-typed what it assigns. *)
LEMMA ReturnType ==
    ASSUME TypeOK, NEW p \in Peer, NEW v \in Control \cup {-1},
           NEW e \in Errors \cup {NoError}, Return(p, v, e)
    PROVE  /\ pc' \in [Peer -> PC]
           /\ result' \in [Peer -> Control \cup {-1}]
           /\ last_error' \in [Peer -> Errors \cup {NoError}]
           /\ met' \in [Peer -> Call]
<1>1. Bare("none") \in Call
  BY BareType
<1> QED
  BY <1>1 DEF Return, Goto, TypeOK, PC

LEMMA BeginType ==
    ASSUME TypeOK, NEW p \in Peer, NEW c \in Call, Begin(p, c)
    PROVE  /\ call' \in [Peer -> Call]
           /\ new_sequence' \in [Peer -> Sequence]
BY SuccFacts DEF Begin, TypeOK

-----------------------------------------------------------------------------
(* Type correctness is preserved by every call and every step of a call. *)
LEMMA TypeInit == Init => TypeOK
<1>1. 0 \in Sequence
  BY SeqAssumption DEF Sequence
<1>2. Bare("none") \in Call
  BY BareType
<1> QED
  BY <1>1, <1>2 DEF Init, TypeOK, Control, SYNC_CONTROL, PC

LEMMA TypeTransferRead ==
    ASSUME TypeOK, NEW p \in Peer, NEW e \in Errors \cup {NoError},
           NEW l \in PC, TransferRead(p, e, l)
    PROVE  TypeOK'
<1>1. CASE e # NoError /\ Return(p, -1, e) /\ UNCHANGED new_sequence
  BY <1>1, ReturnType DEF TransferRead, Read, TypeOK
<1>2. CASE /\ e = NoError
           /\ Goto(p, l)
           /\ new_sequence' = [new_sequence EXCEPT ![p] = Succ(@)]
           /\ UNCHANGED <<result, last_error, met>>
  BY <1>2, SuccFacts DEF TransferRead, Read, TypeOK, Goto
<1> QED
  BY <1>1, <1>2 DEF TransferRead

LEMMA TypeStep == TypeOK /\ [Next]_vars => TypeOK'
<1> SUFFICES ASSUME TypeOK, [Next]_vars PROVE TypeOK'
  OBVIOUS
<1> USE PeerFacts
<1>1. ASSUME NEW p \in Peer, x_sync(p) PROVE TypeOK'
  <2>1. Bare("x_sync") \in Call
    BY BareType
  <2>2. /\ call' \in [Peer -> Call]
        /\ new_sequence' \in [Peer -> Sequence]
    BY <1>1, <2>1, BeginType DEF x_sync
  <2> QED
    BY <1>1, <2>2 DEF x_sync, StoreControl, Goto, TypeOK, Control, PC
<1>2. ASSUME NEW p \in Peer, NEW k \in {"x_sync_send", "x_sync_receive"},
             NEW size \in Sizes, NEW buf \in Buffers,
             NEW data \in Payloads \cup {NoData},
             BeginTransfer(p, k, size, buf, data)
      PROVE  TypeOK'
  <2> DEFINE c == [kind |-> k, size |-> size, buf |-> buf, data |-> data]
  <2>1. c \in Call
    BY DEF Call, Control
  <2> HIDE DEF c
  <2>2. /\ call' \in [Peer -> Call]
        /\ new_sequence' \in [Peer -> Sequence]
    BY <1>2, <2>1, BeginType DEF BeginTransfer, c
  <2>3. address_from_peer' \in [Peer -> GlobalAddress \cup {NullAddress}]
    BY <1>2, GlobaliseType DEF BeginTransfer, TypeOK
  <2> QED
    BY <1>2, <2>2, <2>3 DEF BeginTransfer, Goto, TypeOK, PC
<1>3. ASSUME NEW p \in Peer, ModeMismatch(p) PROVE TypeOK'
  BY <1>3, ReturnType DEF ModeMismatch, endpointVars, TypeOK, Errors
<1>4. ASSUME NEW p \in Peer, PostControl(p) PROVE TypeOK'
  BY <1>4 DEF PostControl, StoreControl, Goto, locals, TypeOK, Call, PC
<1>5. ASSUME NEW p \in Peer, PostSequence(p) PROVE TypeOK'
  BY <1>5 DEF PostSequence, StoreSequence, Goto, locals, TypeOK, PC
<1>6. ASSUME NEW p \in Peer, SpinExit(p) PROVE TypeOK'
  BY <1>6 DEF SpinExit, Goto, endpointVars, locals, TypeOK, PC
<1>7. ASSUME NEW p \in Peer, SyncRead(p) PROVE TypeOK'
  <2>1. CASE Return(p, -1, "X_E_SYNC_TRANSFER_MISMATCH")
    BY <1>7, <2>1, ReturnType DEF SyncRead, Read, TypeOK, Errors
  <2>2. CASE Return(p, 0, NoError)
    BY <1>7, <2>2, ReturnType
       DEF SyncRead, Read, TypeOK, Control, SYNC_CONTROL
  <2> QED
    BY <1>7, <2>1, <2>2 DEF SyncRead
<1>8. ASSUME NEW p \in Peer, SendRead(p) \/ ReceiveRead(p) PROVE TypeOK'
  <2>1. CASE SendRead(p)
    <3> DEFINE e == TransferError(p, control_from_peer[p] < call[p].size)
    <3>1. e \in Errors \cup {NoError}
      BY TransferErrorType
    <3>2. TransferRead(p, e, "copy")
      BY <2>1 DEF SendRead
    <3> HIDE DEF e
    <3> QED
      BY <3>1, <3>2, TypeTransferRead DEF PC
  <2>2. CASE ReceiveRead(p)
    <3> DEFINE e == TransferError(p, control_from_peer[p] > call[p].size)
    <3>1. e \in Errors \cup {NoError}
      BY TransferErrorType
    <3>2. TransferRead(p, e, "sequence2")
      BY <2>2 DEF ReceiveRead
    <3> HIDE DEF e
    <3> QED
      BY <3>1, <3>2, TypeTransferRead DEF PC
  <2> QED
    BY <1>8, <2>1, <2>2
<1>9. ASSUME NEW p \in Peer, CopyData(p) PROVE TypeOK'
  BY <1>9 DEF CopyData, Goto, endpointVars, locals, TypeOK, Call, PC
<1>10. ASSUME NEW p \in Peer, PostSecond(p) PROVE TypeOK'
  BY <1>10 DEF PostSecond, StoreSequence, Goto, locals, TypeOK, PC
<1>11. ASSUME NEW p \in Peer, SecondExit(p) PROVE TypeOK'
  <2>1. /\ call[p].size \in Control \cup {-1}
        /\ size_from_peer[p] \in Control \cup {-1}
    BY DEF TypeOK, Call
  <2> QED
    BY <1>11, <2>1, ReturnType DEF SecondExit, TypeOK
<1>12. CASE UNCHANGED vars
  BY <1>12 DEF vars, TypeOK
<1> QED
  BY <1>1, <1>2, <1>3, <1>4, <1>5, <1>6, <1>7, <1>8, <1>9, <1>10, <1>11,
     <1>12 DEF Next, Calls, Steps, x_sync_send, x_sync_receive

(* Every reachable state is well typed; in particular the sequence numbers   *)
(* stay within their width, and a stored buffer address is always global.    *)
THEOREM TypeCorrect == Spec => []TypeOK
BY TypeInit, TypeStep, PTL DEF Spec

-----------------------------------------------------------------------------
(* Lockstep is inductive relative to type correctness.  Its last conjunct    *)
(* is what carries the induction: the peer that is a round ahead is still in *)
(* its spin loop, so it cannot post again and get two rounds ahead.          *)
LEMMA LockstepInit == Init => Lockstep
BY SuccFacts, PeerFacts, SeqAssumption
   DEF Init, Lockstep, Ahead, Posted, Spinning, Sequence

(* A step that stores no sequence number, and whose own peer neither leaves  *)
(* a spin loop nor advances its sequence.                                    *)
LEMMA LockstepQuiet ==
    ASSUME TypeOK, Lockstep, NEW p \in Peer,
           NEW l \in PC, pc[p] \notin Spinning \cup {"read"},
           l \notin Spinning \cup {"read"},
           pc' = [pc EXCEPT ![p] = l],
           \/ new_sequence' = new_sequence /\ (pc[p] # "idle" \/ l = "idle")
           \/ new_sequence' = [new_sequence EXCEPT ![p] = Succ(sequence[p])],
           sequence' = sequence,
           sequence_from_peer' = sequence_from_peer
    PROVE  Lockstep'
BY PeerFacts DEF TypeOK, Lockstep, Ahead, Posted, Spinning

(* A step that posts the next sequence number and enters a spin loop. *)
LEMMA LockstepPost ==
    ASSUME TypeOK, Lockstep, NEW p \in Peer, NEW l \in Spinning,
           pc[p] \notin Spinning \cup {"idle", "read"},
           pc' = [pc EXCEPT ![p] = l],
           UNCHANGED <<new_sequence, sequence>>,
           StoreSequence(p, new_sequence[p])
    PROVE  Lockstep'
<1> DEFINE q == Other(p)
<1>1. q \in Peer /\ q # p /\ Other(q) = p /\ Peer = {p, q}
  BY PeerFacts
<1>2. /\ Posted(p)' = new_sequence[p]
      /\ Posted(q)' = Posted(q)
  BY <1>1 DEF StoreSequence, Posted, TypeOK
<1>3. new_sequence[p] = Succ(Posted(p)) /\ Posted(p) = sequence[p]
  BY DEF Lockstep, Spinning
<1>4. ~Ahead(p) /\ (Posted(p) = Posted(q) \/ Ahead(q))
  BY <1>1 DEF Lockstep
<1>5. Posted(p) \in Sequence /\ Posted(q) \in Sequence
  BY <1>1 DEF Posted, TypeOK
<1>6. pc'[p] \in Spinning /\ pc'[q] = pc[q]
  BY <1>1 DEF TypeOK
<1>7. CASE Posted(p) = Posted(q)
  <2>1. Ahead(p)' /\ ~Ahead(q)'
    BY <1>1, <1>2, <1>3, <1>5, <1>7, SuccFacts DEF Ahead
  <2> QED
    BY <1>1, <1>2, <1>3, <1>6, <2>1 DEF Lockstep
<1>8. CASE Ahead(q)
  <2>1. ~Ahead(p)' /\ ~Ahead(q)' /\ Posted(p)' = Posted(q)'
    BY <1>1, <1>2, <1>3, <1>5, <1>8, SuccFacts DEF Ahead
  <2> QED
    BY <1>1, <1>2, <1>3, <1>6, <2>1 DEF Lockstep
<1> QED
  BY <1>4, <1>7, <1>8

(* A step that finds the awaited number and leaves a spin loop. *)
LEMMA LockstepLeave ==
    ASSUME TypeOK, Lockstep, NEW p \in Peer,
           pc[p] \in Spinning, sequence_from_peer[p] = new_sequence[p],
           UNCHANGED <<new_sequence, sequence_from_peer>>,
           \/ pc' = [pc EXCEPT ![p] = "read"] /\ sequence' = sequence
           \/ /\ pc' = [pc EXCEPT ![p] = "idle"]
              /\ sequence' = [sequence EXCEPT ![p] = new_sequence[p]]
    PROVE  Lockstep'
<1> DEFINE q == Other(p)
<1>1. q \in Peer /\ q # p /\ Other(q) = p /\ Peer = {p, q}
  BY PeerFacts
<1>2. Posted(p)' = Posted(p) /\ Posted(q)' = Posted(q)
  BY DEF Posted
<1>3. Posted(p) = new_sequence[p] /\ Posted(q) = new_sequence[p]
  BY <1>1 DEF Lockstep, Posted
<1>4. ~Ahead(p)' /\ ~Ahead(q)'
  BY <1>1, <1>2, <1>3, SuccFacts DEF Ahead, TypeOK
<1>5. pc'[q] = pc[q] /\ sequence'[q] = sequence[q]
  BY <1>1 DEF TypeOK
<1> QED
  BY <1>1, <1>2, <1>3, <1>4, <1>5 DEF Lockstep, TypeOK, Spinning

(* The step that loads the control word and advances the sequence. *)
LEMMA LockstepRead ==
    ASSUME TypeOK, Lockstep, NEW p \in Peer, NEW l \in PC, Read(p),
           l \notin Spinning \cup {"read"},
           pc' = [pc EXCEPT ![p] = l],
           \/ l = "idle" /\ new_sequence' = new_sequence
           \/ new_sequence' = [new_sequence EXCEPT ![p] = Succ(@)]
    PROVE  Lockstep'
BY PeerFacts DEF TypeOK, Lockstep, Ahead, Posted, Spinning, Read

(* Every action is of one of those four kinds. *)
LEMMA ActionKinds ==
    ASSUME TypeOK, NEW p \in Peer, Calls(p) \/ Steps(p)
    PROVE  \E l \in PC :
             /\ pc' = [pc EXCEPT ![p] = l]
             /\ \/ /\ pc[p] \notin Spinning \cup {"read"}
                   /\ l \notin Spinning \cup {"read"}
                   /\ \/ /\ new_sequence' = new_sequence
                         /\ pc[p] # "idle" \/ l = "idle"
                      \/ new_sequence' =
                           [new_sequence EXCEPT ![p] = Succ(sequence[p])]
                   /\ UNCHANGED <<sequence, sequence_from_peer>>
                \/ /\ pc[p] \in {"sequence", "sequence2"}
                   /\ l \in Spinning
                   /\ UNCHANGED <<new_sequence, sequence>>
                   /\ StoreSequence(p, new_sequence[p])
                \/ /\ pc[p] \in Spinning
                   /\ sequence_from_peer[p] = new_sequence[p]
                   /\ UNCHANGED <<new_sequence, sequence_from_peer>>
                   /\ \/ l = "read" /\ sequence' = sequence
                      \/ /\ l = "idle"
                         /\ sequence' = [sequence EXCEPT ![p] = new_sequence[p]]
                \/ /\ Read(p)
                   /\ l \notin Spinning \cup {"read"}
                   /\ \/ l = "idle" /\ new_sequence' = new_sequence
                      \/ new_sequence' = [new_sequence EXCEPT ![p] = Succ(@)]
<1> USE DEF PC, Spinning, Goto, Return
<1>1. CASE x_sync(p)
  BY <1>1 DEF x_sync, Begin
<1>2. CASE \E size \in Sizes, buf \in Buffers :
             \/ x_sync_receive(p, size, buf)
             \/ \E data \in Payloads : x_sync_send(p, size, buf, data)
  BY <1>2 DEF x_sync_receive, x_sync_send, BeginTransfer, Begin
<1>3. CASE ModeMismatch(p)
  BY <1>3 DEF ModeMismatch, endpointVars
<1>4. CASE PostControl(p)
  BY <1>4 DEF PostControl, locals
<1>5. CASE PostSequence(p)
  BY <1>5 DEF PostSequence, locals
<1>6. CASE SpinExit(p)
  BY <1>6 DEF SpinExit, endpointVars, locals
<1>7. CASE SyncRead(p)
  BY <1>7 DEF SyncRead
<1>8. CASE SendRead(p)
  BY <1>8 DEF SendRead, TransferRead
<1>9. CASE ReceiveRead(p)
  BY <1>9 DEF ReceiveRead, TransferRead
<1>10. CASE CopyData(p)
  BY <1>10 DEF CopyData, endpointVars, locals
<1>11. CASE PostSecond(p)
  BY <1>11 DEF PostSecond, locals
<1>12. CASE SecondExit(p)
  BY <1>12 DEF SecondExit
<1> QED
  BY <1>1, <1>2, <1>3, <1>4, <1>5, <1>6, <1>7, <1>8, <1>9, <1>10, <1>11,
     <1>12 DEF Calls, Steps

LEMMA LockstepStep == TypeOK /\ Lockstep /\ [Next]_vars => Lockstep'
<1> SUFFICES ASSUME TypeOK, Lockstep, [Next]_vars PROVE Lockstep'
  OBVIOUS
<1>1. CASE UNCHANGED vars
  BY <1>1 DEF vars, Lockstep, Ahead, Posted
<1>2. CASE Next
  <2>1. PICK p \in Peer : Calls(p) \/ Steps(p)
    BY <1>2 DEF Next
  <2> QED
    BY <2>1, ActionKinds, LockstepQuiet, LockstepPost, LockstepLeave,
       LockstepRead DEF Spinning
<1> QED
  BY <1>1, <1>2

(* However the two cores interleave, interrupted or not, no call gets past a *)
(* spin loop before its peer has posted the same round, and the sequence     *)
(* numbers of the two ends never drift further than one round apart.         *)
THEOREM LockstepAlways == Spec => []Lockstep
BY TypeInit, TypeStep, LockstepInit, LockstepStep, PTL DEF Spec

(* Lockstep makes the comparison in x_endpoint_ready exact. *)
LEMMA ReadyFromLockstep == TypeOK /\ Lockstep => ReadyExact
BY PeerFacts, SuccFacts
   DEF ReadyExact, Lockstep, Ahead, Posted, x_endpoint_ready, Spinning

(* x_endpoint_ready answers correctly at every sequence number, those next   *)
(* to the rollover included.                                                 *)
THEOREM ReadyAlwaysExact == Spec => []ReadyExact
BY TypeInit, TypeStep, LockstepInit, LockstepStep, ReadyFromLockstep, PTL
   DEF Spec

-----------------------------------------------------------------------------
(* The refinement of Rendezvous. *)
LEMMA RendezvousInit == Init => R!Init
BY SuccFacts, PeerFacts, SeqAssumption
   DEF Init, R!Init, Ahead, Posted, Spinning, Sequence

LEMMA RendezvousStep ==
    TypeOK /\ Lockstep /\ [Next]_vars => [R!Next]_R!vars
<1> SUFFICES ASSUME TypeOK, Lockstep, [Next]_vars PROVE [R!Next]_R!vars
  OBVIOUS
<1> DEFINE waiting == {p \in Peer : pc[p] \in Spinning}
           ahead   == {p \in Peer : Ahead(p)}
<1>1. CASE UNCHANGED vars
  BY <1>1 DEF vars, R!vars, Ahead, Posted
<1>2. CASE Next
  <2>1. PICK p \in Peer : Calls(p) \/ Steps(p)
    BY <1>2 DEF Next
  <2> DEFINE q == Other(p)
  <2>2. q \in Peer /\ q # p /\ Other(q) = p /\ Peer = {p, q}
    BY PeerFacts
  <2>3. PICK l \in PC :
          /\ pc' = [pc EXCEPT ![p] = l]
          /\ \/ /\ pc[p] \notin Spinning /\ l \notin Spinning
                /\ sequence_from_peer' = sequence_from_peer
             \/ /\ pc[p] \in {"sequence", "sequence2"} /\ l \in Spinning
                /\ StoreSequence(p, new_sequence[p])
             \/ /\ pc[p] \in Spinning /\ l \notin Spinning
                /\ sequence_from_peer[p] = new_sequence[p]
                /\ sequence_from_peer' = sequence_from_peer
    BY <2>1, ActionKinds DEF Read, Spinning
  <2>4. pc'[p] = l /\ pc'[q] = pc[q]
    BY <2>2, <2>3 DEF TypeOK
  <2>5. Posted(p) \in Sequence /\ Posted(q) \in Sequence
    BY <2>2 DEF Posted, TypeOK
  <2>6. CASE /\ pc[p] \notin Spinning /\ l \notin Spinning
             /\ sequence_from_peer' = sequence_from_peer
    <3>1. waiting' = waiting
      BY <2>2, <2>4, <2>6
    <3>2. ahead' = ahead
      BY <2>6 DEF Ahead, Posted
    <3> QED
      BY <3>1, <3>2 DEF R!vars
  <2>7. CASE /\ pc[p] \in {"sequence", "sequence2"} /\ l \in Spinning
             /\ StoreSequence(p, new_sequence[p])
    <3>1. p \notin waiting /\ waiting' = waiting \cup {p}
      BY <2>2, <2>4, <2>7 DEF Spinning
    <3>2. /\ Posted(p)' = Succ(Posted(p))
          /\ Posted(q)' = Posted(q)
      BY <2>2, <2>7 DEF StoreSequence, Posted, TypeOK, Lockstep, Spinning
    <3>3. ~Ahead(p) /\ (Posted(p) = Posted(q) \/ Ahead(q))
      BY <2>2, <2>7 DEF Lockstep, Spinning
    <3>4. CASE Posted(p) = Posted(q)
      <4>1. ahead = {} /\ ahead' = {p}
        BY <2>2, <2>5, <3>2, <3>4, SuccFacts DEF Ahead
      <4> QED
        BY <3>1, <4>1 DEF R!Next, R!Arrive
    <3>5. CASE Ahead(q)
      <4>1. ahead # {} /\ ahead' = {}
        BY <2>2, <2>5, <3>2, <3>5, SuccFacts DEF Ahead
      <4> QED
        BY <3>1, <4>1 DEF R!Next, R!Arrive
    <3> QED
      BY <3>3, <3>4, <3>5
  <2>8. CASE /\ pc[p] \in Spinning /\ l \notin Spinning
             /\ sequence_from_peer[p] = new_sequence[p]
             /\ sequence_from_peer' = sequence_from_peer
    <3>1. p \in waiting /\ waiting' = waiting \ {p}
      BY <2>2, <2>4, <2>8
    <3>2. ahead' = ahead
      BY <2>8 DEF Ahead, Posted
    <3>3. Posted(p) = Posted(q)
      BY <2>2, <2>8 DEF Lockstep, Posted
    <3>4. p \notin ahead
      BY <2>5, <3>3, SuccFacts DEF Ahead
    <3> QED
      BY <3>1, <3>2, <3>4 DEF R!Next, R!Depart
  <2> QED
    BY <2>3, <2>6, <2>7, <2>8
<1> QED
  BY <1>1, <1>2

(* A connection implements the two-party rendezvous, with any number of      *)
(* sequence values from three up and whatever calls the tasks make.          *)
THEOREM ImplementsRendezvous == Spec => IsRendezvous
BY TypeInit, TypeStep, LockstepInit, LockstepStep, RendezvousInit,
   RendezvousStep, PTL DEF Spec, IsRendezvous, R!Spec
-----------------------------------------------------------------------------
(***************************************************************************)
(* Without interrupts: an awaited number is taken out before the peer      *)
(* stores again (MayStore), and then the two ends agree.                   *)
(***************************************************************************)
(* Before a call's first rendezvous, at it, and between its two.             *)
Before == {"idle", "control", "sequence"}
First == {"spin", "read"}
Between == {"copy", "sequence2"}

TransferKind(p) == IF p = "source" THEN "x_sync_send" ELSE "x_sync_receive"
Agree == Agreed(call["source"], call["sink"])
Level == Posted("source") = Posted("sink")

(* A peer makes the transfers of its own mode, and only the sender copies.   *)
OwnCall ==
    \A p \in Peer :
        /\ call[p].kind \in {"none", "x_sync", TransferKind(p)}
        /\ call[p].kind # TransferKind(p) => call[p].size = 0
        /\ call[p].kind = TransferKind(p) => call[p].buf \in Buffers
        /\ pc[p] = "copy" => p = "source"

(* What the peer finds in its endpoint is what the call announced.           *)
Announced ==
    \A p \in Peer :
        /\ pc[p] # "control" => control_from_peer[Other(p)] = call[p].size
        /\ call[p].kind = TransferKind(p) =>
              address_from_peer[Other(p)] = Globalise(p, call[p].buf)

(* The peers are at the same rendezvous of their calls, first or second.     *)
Together ==
    \A p \in Peer :
        LET here == pc[p]
            there == pc[Other(p)]
        IN  /\ Ahead(p) => \/ here = "spin" /\ there \in Before
                           \/ here = "spin2" /\ there \in Between
            /\ Level =>
                  \/ here \in Before /\ there \in Before
                  \/ here \in First /\ there \in First \cup Between \cup {"idle"}
                  \/ here \in Between /\ there \in First \cup Between
                  \/ here = "spin2" /\ there \in {"spin2", "idle"}
                  \/ here = "idle" /\ there \in First \cup {"spin2"}

(* Who goes on to the second rendezvous, or returns, is decided alike.       *)
Outcome ==
    \A p \in Peer :
        /\ pc[p] \in Between \cup {"spin2"} => Agree
        /\ pc[p] \in First /\ Level /\ pc[Other(p)] = "idle" => ~Agree
        /\ pc[p] \in Between \cup {"read", "spin2"} => met[p] = call[Other(p)]
        /\ pc[p] \in Between \cup {"spin2"} =>
              size_from_peer[p] = call[Other(p)].size

(* From the copy until the receiver returns, its buffer holds the data.      *)
Delivered ==
    \/ pc["source"] \in {"sequence2", "spin2"}
    \/ pc["source"] = "idle" /\ pc["sink"] = "spin2"
    => mem[Deref("sink", call["sink"].buf)] = call["source"].data

Agreement == OwnCall /\ Announced /\ Together /\ Outcome /\ Delivered
Inv == TypeOK /\ Lockstep /\ Agreement

(* The two peers, from either's point of view.                               *)
LEMMA TwoPeers ==
    ASSUME NEW p \in Peer
    PROVE  /\ Other(p) \in Peer /\ Other(p) # p /\ Other(Other(p)) = p
           /\ Peer = {p, Other(p)}
           /\ Level <=> Posted(p) = Posted(Other(p))
           /\ Agree <=> IF p = "source" THEN Agreed(call[p], call[Other(p)])
                        ELSE Agreed(call[Other(p)], call[p])
           /\ "source" \in Peer /\ "sink" \in Peer
BY DEF Peer, Other, Level, Agree

(* The numbers are level, or one peer is ahead.                              *)
LEMMA LevelOrAhead ==
    ASSUME TypeOK, Lockstep, NEW p \in Peer
    PROVE  /\ Level \/ Ahead(p) \/ Ahead(Other(p))
           /\ Level => ~Ahead(p)
           /\ pc[p] \in Spinning =>
                (sequence_from_peer[p] = new_sequence[p] <=> Level)
           /\ Ahead(p) => ~Level /\ ~Ahead(Other(p))
<1>1. /\ Other(p) \in Peer /\ Other(Other(p)) = p
      /\ Level <=> Posted(p) = Posted(Other(p))
  BY TwoPeers
<1>2. Posted(p) \in Sequence /\ Posted(Other(p)) \in Sequence
  BY <1>1 DEF Posted, TypeOK
<1>3. Level \/ Ahead(p) \/ Ahead(Other(p))
  BY <1>1 DEF Lockstep
<1>4. Level => ~Ahead(p)
  BY <1>1, <1>2, SuccFacts DEF Ahead
<1>5. pc[p] \in Spinning => (sequence_from_peer[p] = new_sequence[p] <=> Level)
  BY <1>1 DEF Lockstep, Posted
<1>6. Ahead(p) => ~Level /\ ~Ahead(Other(p))
  BY <1>1, <1>2, <1>4, SuccFacts DEF Ahead
<1> QED
  BY <1>3, <1>4, <1>5, <1>6

(* Who may store finds the peer before a rendezvous, or waiting in vain.     *)
LEMMA StoreFacts ==
    ASSUME TypeOK, Lockstep, ~Interruptible, NEW p \in Peer, MayStore(p)
    PROVE  /\ pc[Other(p)] # "read"
           /\ pc[Other(p)] \in Spinning => ~Level
<1>1. Other(p) \in Peer
  BY TwoPeers
<1> QED
  BY <1>1, LevelOrAhead DEF MayStore, Sampling

LEMMA AgreementInit == Init => Agreement
<1> SUFFICES ASSUME Init PROVE Agreement
  OBVIOUS
<1>1. OwnCall /\ Announced
  BY PeerFacts DEF Init, OwnCall, Announced, Bare, TransferKind
<1>2. ~Ahead("source") /\ ~Ahead("sink")
  BY SuccFacts, SeqAssumption DEF Init, Ahead, Posted, Other, Sequence, Peer
<1>3. Together
  BY <1>2 DEF Init, Together, Before, Peer, Other
<1>4. Outcome /\ Delivered
  BY DEF Init, Outcome, Delivered, Between, First, Peer, Other
<1> QED
  BY <1>1, <1>3, <1>4 DEF Agreement

(* A step that stores no sequence number leaves who is ahead as it was.      *)
LEMMA SameRound ==
    ASSUME UNCHANGED sequence_from_peer
    PROVE  (Level' <=> Level) /\ \A p : Ahead(p)' <=> Ahead(p)
BY DEF Level, Ahead, Posted

(* A call begins: the peer, too, is before a first rendezvous or waits there.*)
LEMMA AgreementBegin ==
    ASSUME Inv, ~Interruptible, NEW p \in Peer, NEW c \in Call, Begin(p, c),
           NEW l \in {"control", "sequence"}, pc' = [pc EXCEPT ![p] = l],
           c.kind \in {"x_sync", TransferKind(p)},
           c.kind = "x_sync" => c.size = 0,
           c.kind = TransferKind(p) => c.buf \in Buffers,
           UNCHANGED <<sequence_from_peer, mem, met, size_from_peer>>,
           l # "control" => control_from_peer' =
                              [control_from_peer EXCEPT ![Other(p)] = c.size],
           l = "control" => UNCHANGED control_from_peer,
           c.kind = TransferKind(p) => address_from_peer' =
             [address_from_peer EXCEPT ![Other(p)] = Globalise(p, c.buf)],
           c.kind # TransferKind(p) => UNCHANGED address_from_peer
    PROVE  Agreement'
<1> DEFINE q == Other(p)
<1>1. q \in Peer /\ q # p /\ Other(q) = p /\ Peer = {p, q}
  BY TwoPeers
<1>2. /\ pc[p] = "idle" /\ pc'[p] = l /\ pc'[q] = pc[q]
      /\ call'[p] = c /\ call'[q] = call[q]
      /\ \A r : Ahead(r)' <=> Ahead(r)
      /\ Level' <=> Level
  BY <1>1, SameRound DEF Inv, TypeOK, Begin
<1>3. pc[q] # "read" /\ (pc[q] \in Spinning => ~Level)
  BY StoreFacts DEF Inv, Begin
<1>4. pc[q] \in Before \cup {"spin"} /\ (pc[q] = "spin" => Ahead(q))
  BY <1>1, <1>2, <1>3, LevelOrAhead
     DEF Inv, Agreement, Together, Before, First, Between, Spinning
<1>5. OwnCall'
  BY <1>1, <1>2 DEF Inv, Agreement, OwnCall, TransferKind
<1>6. Announced'
  <2>1. pc'[p] # "control" => control_from_peer'[q] = call'[p].size
    BY <1>1, <1>2 DEF Inv, TypeOK
  <2>2. call'[p].kind = TransferKind(p) =>
          address_from_peer'[q] = Globalise(p, call'[p].buf)
    BY <1>1, <1>2 DEF Inv, TypeOK
  <2>3. /\ control_from_peer'[p] = control_from_peer[p]
        /\ address_from_peer'[p] = address_from_peer[p]
    BY <1>1, <1>2 DEF Inv, TypeOK
  <2> QED
    BY <1>1, <1>2, <2>1, <2>2, <2>3 DEF Inv, Agreement, Announced
<1>7. Together'
  <2>1. ~Ahead(p)
    BY <1>2 DEF Inv, Lockstep, Spinning
  <2>2. pc[q] = "spin" => ~Level
    BY <1>3 DEF Spinning
  <2> QED
    BY <1>1, <1>2, <1>4, <2>1, <2>2
       DEF Inv, Agreement, Together, Before, First, Between
<1>8. Outcome'
  BY <1>1, <1>2, <1>4 DEF Outcome, Before, First, Between
<1>9. Delivered'
  BY <1>1, <1>2, <1>4 DEF Delivered, Before, Peer
<1> QED
  BY <1>5, <1>6, <1>7, <1>8, <1>9 DEF Agreement

(* A step within a call that stores no sequence number and no announcement,  *)
(* or stores the control word, or returns early.                             *)
LEMMA AgreementQuiet ==
    ASSUME Inv, ~Interruptible, NEW p \in Peer,
           \/ ModeMismatch(p) \/ PostControl(p) \/ SpinExit(p)
    PROVE  Agreement'
<1> DEFINE q == Other(p)
<1>1. q \in Peer /\ q # p /\ Other(q) = p /\ Peer = {p, q}
  BY TwoPeers
<1>2. /\ UNCHANGED <<sequence_from_peer, call, mem, size_from_peer,
                     address_from_peer>>
      /\ Agree' <=> Agree
  BY DEF ModeMismatch, PostControl, SpinExit, endpointVars, locals, Agree
<1>3. (Level' <=> Level) /\ \A r : Ahead(r)' <=> Ahead(r)
  BY <1>2, SameRound
<1>4. CASE ModeMismatch(p)
  <2>1. pc' = pc /\ control_from_peer' = control_from_peer
    BY <1>4 DEF ModeMismatch, Return, Goto, endpointVars, Inv, TypeOK
  <2>2. met'[q] = met[q] /\ pc[p] = "idle"
    BY <1>1, <1>4 DEF ModeMismatch, Return, Inv, TypeOK
  <2>3. OwnCall' /\ Announced' /\ Together' /\ Delivered'
    BY <1>2, <1>3, <2>1
       DEF Inv, Agreement, OwnCall, Announced, Together, Delivered
  <2>4. Outcome'
    BY <1>1, <1>2, <1>3, <2>1, <2>2
       DEF Inv, Agreement, Outcome, First, Between
  <2> QED
    BY <2>3, <2>4 DEF Agreement
<1>5. CASE PostControl(p)
  <2>1. /\ pc[p] = "control" /\ pc'[p] = "sequence" /\ pc'[q] = pc[q]
        /\ met' = met
        /\ control_from_peer'[q] = call[p].size
        /\ control_from_peer'[p] = control_from_peer[p]
    BY <1>1, <1>5 DEF PostControl, StoreControl, Goto, Inv, TypeOK
  <2>2. OwnCall' /\ Announced'
    BY <1>1, <1>2, <2>1 DEF Inv, Agreement, OwnCall, Announced
  <2>3. Together'
    BY <1>1, <1>3, <2>1
       DEF Inv, Agreement, Together, Before, First, Between
  <2>4. Outcome' /\ Delivered'
    BY <1>1, <1>2, <1>3, <2>1
       DEF Inv, Agreement, Outcome, Delivered, First, Between, Peer, Other
  <2> QED
    BY <2>2, <2>3, <2>4 DEF Agreement
<1>6. CASE SpinExit(p)
  <2>1. /\ pc[p] = "spin" /\ pc'[p] = "read" /\ pc'[q] = pc[q]
        /\ met'[p] = call[q] /\ met'[q] = met[q]
        /\ control_from_peer' = control_from_peer
        /\ sequence_from_peer[p] = new_sequence[p]
    BY <1>1, <1>6 DEF SpinExit, Goto, endpointVars, Inv, TypeOK
  <2>2. Level /\ ~Ahead(p) /\ ~Ahead(q)
    BY <1>1, <2>1, LevelOrAhead DEF Inv, Spinning
  <2>3. OwnCall' /\ Announced'
    BY <1>1, <1>2, <2>1 DEF Inv, Agreement, OwnCall, Announced
  <2>4. Together'
    BY <1>1, <1>3, <2>1, <2>2
       DEF Inv, Agreement, Together, Before, First, Between
  <2>5. Outcome' /\ Delivered'
    BY <1>1, <1>2, <1>3, <2>1
       DEF Inv, Agreement, Outcome, Delivered, First, Between, Peer, Other
  <2> QED
    BY <2>3, <2>4, <2>5 DEF Agreement
<1> QED
  BY <1>4, <1>5, <1>6

(* The number of a rendezvous is stored: the first one while the peer is     *)
(* before its first, the second while it is between the two.                 *)
LEMMA AgreementPost ==
    ASSUME Inv, ~Interruptible, NEW p \in Peer,
           PostSequence(p) \/ PostSecond(p)
    PROVE  Agreement'
<1> DEFINE q == Other(p)
<1>1. q \in Peer /\ q # p /\ Other(q) = p /\ Peer = {p, q}
  BY TwoPeers
<1>2. /\ UNCHANGED <<call, mem, met, size_from_peer, address_from_peer,
                     control_from_peer>>
      /\ Agree' <=> Agree
      /\ pc[p] \in {"sequence", "sequence2"}
      /\ pc'[p] = IF pc[p] = "sequence" THEN "spin" ELSE "spin2"
      /\ pc'[q] = pc[q]
  BY <1>1 DEF PostSequence, PostSecond, Goto, locals, Agree, Inv, TypeOK
<1>3. pc[q] # "read" /\ (pc[q] \in Spinning => ~Level)
  BY StoreFacts DEF PostSequence, PostSecond, Inv
<1>4. Posted(p)' = Succ(Posted(p)) /\ Posted(q)' = Posted(q)
  BY <1>1 DEF PostSequence, PostSecond, StoreSequence, Posted, Inv, TypeOK,
              Lockstep, Spinning
<1>5. Posted(p) \in Sequence /\ Posted(q) \in Sequence
  BY <1>1 DEF Posted, Inv, TypeOK
<1>6. ~Ahead(p)
  BY <1>2 DEF Inv, Lockstep, Spinning
<1>7. Level' <=> Posted(p)' = Posted(q)'
  BY <1>1 DEF Level, Peer, Other
<1>8. Level => Ahead(p)' /\ ~Ahead(q)' /\ ~Level'
  BY <1>1, <1>4, <1>5, <1>7, TwoPeers, SuccFacts DEF Ahead
<1>9. Ahead(q) => Level' /\ ~Ahead(p)' /\ ~Ahead(q)'
  BY <1>1, <1>4, <1>5, <1>7, SuccFacts DEF Ahead
<1>10. Level \/ Ahead(q)
  BY <1>6, LevelOrAhead DEF Inv
<1>11. OwnCall' /\ Announced'
  BY <1>1, <1>2 DEF Inv, Agreement, OwnCall, Announced
<1>12. Together'
  <2>1. CASE Level
    <3>1. \/ pc[p] = "sequence" /\ pc[q] \in Before
          \/ pc[p] = "sequence2" /\ pc[q] \in Between
      BY <1>1, <1>2, <1>3, <2>1
         DEF Inv, Agreement, Together, Before, First, Between, Spinning
    <3> QED
      BY <1>1, <1>2, <1>8, <2>1, <3>1 DEF Together, Before, Between
  <2>2. CASE Ahead(q)
    <3>1. \/ pc[p] = "sequence" /\ pc[q] = "spin"
          \/ pc[p] = "sequence2" /\ pc[q] = "spin2"
      BY <1>1, <1>2, <2>2
         DEF Inv, Agreement, Together, Before, Between
    <3> QED
      BY <1>1, <1>2, <1>9, <2>2, <3>1 DEF Together, First
  <2> QED
    BY <1>10, <2>1, <2>2
<1>13. Outcome'
  <2>1. /\ pc'[p] \in First => pc'[q] # "idle" \/ ~Level'
        /\ pc'[q] \in First => pc'[p] # "idle"
    <3>1. CASE Level
      BY <1>2, <1>8, <3>1
    <3>2. CASE Ahead(q)
      <4>1. pc[q] # "idle"
        BY <1>1, <3>2 DEF Inv, Lockstep, Spinning
      <4> QED
        BY <1>2, <4>1
    <3> QED
      BY <1>10, <3>1, <3>2
  <2> QED
    BY <1>1, <1>2, <2>1 DEF Inv, Agreement, Outcome, First, Between
<1>14. Delivered'
  <2>1. pc[p] = "sequence" => pc[q] # "sequence2" /\ pc[q] # "spin2"
    BY <1>1, <1>2, <1>3, <1>10
       DEF Inv, Agreement, Together, Before, First, Between, Spinning
  <2>2. pc[p] = "sequence2" => pc[q] \in Between \cup {"spin2"}
    BY <1>1, <1>2, <1>3, <1>10
       DEF Inv, Agreement, Together, Before, First, Between, Spinning
  <2> QED
    BY <1>1, <1>2, <2>1, <2>2
       DEF Inv, Agreement, Delivered, Between, Peer, Other
<1> QED
  BY <1>11, <1>12, <1>13, <1>14 DEF Agreement

(* A core that has seen its peer's number finds the peer's announcement, and *)
(* both calls decide on the same two sizes.                                  *)
LEMMA ReadDecision ==
    ASSUME Inv, NEW p \in Peer, pc[p] = "read"
    PROVE  /\ Level /\ ~Ahead(p) /\ ~Ahead(Other(p))
           /\ pc[Other(p)] \in First \cup Between \cup {"idle"}
           /\ control_from_peer[p] = call[Other(p)].size
           /\ pc[Other(p)] = "idle" => ~Agree
           /\ pc[Other(p)] \in Between => Agree
<1> DEFINE q == Other(p)
<1>1. q \in Peer /\ q # p /\ Other(q) = p /\ Peer = {p, q}
  BY TwoPeers
<1>2. ~Ahead(p) /\ ~Ahead(q)
  BY <1>1 DEF Inv, Agreement, Together, Before, Between
<1>3. Level
  BY <1>2, LevelOrAhead DEF Inv
<1>4. pc[q] \in First \cup Between \cup {"idle"}
  BY <1>1, <1>3 DEF Inv, Agreement, Together, Before, First, Between
<1>5. control_from_peer[p] = call[q].size
  BY <1>1, <1>4 DEF Inv, Agreement, Announced, First, Between
<1>6. (pc[q] = "idle" => ~Agree) /\ (pc[q] \in Between => Agree)
  BY <1>1, <1>3 DEF Inv, Agreement, Outcome, First
<1> QED
  BY <1>2, <1>3, <1>4, <1>5, <1>6

(* What the checks after the first rendezvous decide.                        *)
LEMMA ReadOutcome ==
    ASSUME Inv, NEW p \in Peer, SyncRead(p) \/ SendRead(p) \/ ReceiveRead(p)
    PROVE  /\ pc[p] = "read"
           /\ UNCHANGED <<sequence_from_peer, control_from_peer,
                          address_from_peer, call, mem>>
           /\ size_from_peer' = [size_from_peer EXCEPT ![p] =
                                   call[Other(p)].size]
           /\ \/ /\ ~Agree /\ pc' = [pc EXCEPT ![p] = "idle"]
                 /\ met' = [met EXCEPT ![p] = Bare("none")]
                 /\ result'[p] = IF call[p].kind = "x_sync" /\ met[p].size = 0
                                 THEN 0 ELSE -1
              \/ /\ Agree /\ met' = met
                 /\ pc' = [pc EXCEPT ![p] = IF p = "source" THEN "copy"
                                            ELSE "sequence2"]
<1> DEFINE q == Other(p)
<1>1. q \in Peer /\ q # p /\ Other(q) = p /\ Peer = {p, q}
  BY TwoPeers
<1>2. Read(p)
  BY DEF SyncRead, SendRead, ReceiveRead, TransferRead
<1>3. /\ pc[p] = "read"
      /\ UNCHANGED <<sequence_from_peer, control_from_peer,
                     address_from_peer, call, mem>>
      /\ size_from_peer' = [size_from_peer EXCEPT ![p] = control_from_peer[p]]
  BY <1>2 DEF Read
<1>4. control_from_peer[p] = call[q].size
  BY <1>3, ReadDecision
<1>5. met[p] = call[q]
  BY <1>3 DEF Inv, Agreement, Outcome
<1>6. /\ call[p].kind \in {"none", "x_sync", TransferKind(p)}
      /\ call[q].kind \in {"none", "x_sync", TransferKind(q)}
      /\ call[q].kind # TransferKind(q) => call[q].size = 0
  BY <1>1 DEF Inv, Agreement, OwnCall
<1>7. call[p].size \in Nat /\ call[q].size \in Nat
  <2>1. call[p] \in Call /\ call[q] \in Call
    BY <1>1 DEF Inv, TypeOK
  <2>2. call[p].size \in Control /\ call[q].size \in Control
    BY <2>1 DEF Call
  <2>3. Control \subseteq Nat
    BY SizesAssumption DEF Control, SYNC_CONTROL
  <2> QED
    BY <2>2, <2>3
<1>8. result \in [Peer -> Control \cup {-1}]
  BY DEF Inv, TypeOK
<1>9. CASE SyncRead(p)
  <2>1. /\ call[p].kind = "x_sync" /\ pc' = [pc EXCEPT ![p] = "idle"]
        /\ met' = [met EXCEPT ![p] = Bare("none")]
        /\ result'[p] = IF met[p].size = 0 THEN 0 ELSE -1
    BY <1>4, <1>5, <1>8, <1>9 DEF SyncRead, Return, Goto, SYNC_CONTROL
  <2>2. ~Agree
    BY <2>1, TwoPeers DEF Agreed
  <2> QED
    BY <1>3, <1>4, <2>1, <2>2
<1>10. CASE SendRead(p)
  <2>1. /\ call[p].kind = "x_sync_send" /\ p = "source" /\ q = "sink"
        /\ TransferRead(p, TransferError(p, call[q].size < call[p].size),
                        "copy")
    BY <1>1, <1>4, <1>6, <1>10 DEF SendRead, TransferKind, Peer, Other
  <2>2. Agree <=> TransferError(p, call[q].size < call[p].size) = NoError
    BY <1>4, <1>6, <1>7, <2>1
       DEF TransferError, NoError, SYNC_CONTROL, Agree, Agreed, TransferKind
  <2> QED
    BY <1>3, <1>4, <1>8, <2>1, <2>2 DEF TransferRead, Return, Goto
<1>11. CASE ReceiveRead(p)
  <2>1. /\ call[p].kind = "x_sync_receive" /\ p = "sink" /\ q = "source"
        /\ TransferRead(p, TransferError(p, call[q].size > call[p].size),
                        "sequence2")
    BY <1>1, <1>4, <1>6, <1>11 DEF ReceiveRead, TransferKind, Peer, Other
  <2>2. Agree <=> TransferError(p, call[q].size > call[p].size) = NoError
    BY <1>4, <1>6, <1>7, <2>1
       DEF TransferError, NoError, SYNC_CONTROL, Agree, Agreed, TransferKind
  <2> QED
    BY <1>3, <1>4, <1>8, <2>1, <2>2 DEF TransferRead, Return, Goto
<1> QED
  BY <1>9, <1>10, <1>11

(* A call leaves its first rendezvous: both go on, or both return.           *)
LEMMA AgreementRead ==
    ASSUME Inv, NEW p \in Peer, SyncRead(p) \/ SendRead(p) \/ ReceiveRead(p)
    PROVE  Agreement'
<1> DEFINE q == Other(p)
<1>1. q \in Peer /\ q # p /\ Other(q) = p /\ Peer = {p, q}
  BY TwoPeers
<1>2. /\ pc[p] = "read"
      /\ UNCHANGED <<sequence_from_peer, control_from_peer,
                     address_from_peer, call, mem>>
      /\ size_from_peer'[p] = call[q].size
      /\ size_from_peer'[q] = size_from_peer[q]
      /\ pc'[q] = pc[q] /\ met'[q] = met[q]
      /\ \/ ~Agree /\ pc'[p] = "idle"
         \/ /\ Agree /\ met'[p] = met[p]
            /\ pc'[p] = IF p = "source" THEN "copy" ELSE "sequence2"
  BY <1>1, ReadOutcome DEF Inv, TypeOK
<1>3. /\ Level /\ ~Ahead(p) /\ ~Ahead(q)
      /\ pc[q] \in First \cup Between \cup {"idle"}
      /\ pc[q] = "idle" => ~Agree
      /\ pc[q] \in Between => Agree
  BY <1>2, ReadDecision
<1>4. /\ (Level' <=> Level) /\ (\A r : Ahead(r)' <=> Ahead(r))
      /\ Agree' <=> Agree
  BY <1>2, SameRound DEF Agree
<1>5. OwnCall' /\ Announced'
  BY <1>1, <1>2 DEF Inv, Agreement, OwnCall, Announced
<1>6. Together'
  <2>1. CASE ~Agree
    <3>1. pc'[p] = "idle" /\ pc'[q] \in First \cup {"idle"}
      BY <1>2, <1>3, <2>1
    <3> QED
      BY <1>1, <1>3, <1>4, <3>1 DEF Together, Before, First
  <2>2. CASE Agree
    <3>1. pc'[p] \in Between /\ pc'[q] \in First \cup Between
      BY <1>2, <1>3, <2>2 DEF Between
    <3> QED
      BY <1>1, <1>3, <1>4, <3>1 DEF Together, First, Between
  <2> QED
    BY <2>1, <2>2
<1>7. Outcome'
  <2>1. met[p] = call[q]
    BY <1>2 DEF Inv, Agreement, Outcome
  <2>2. CASE ~Agree
    <3>1. pc'[p] = "idle" /\ pc'[q] \in First \cup {"idle"}
      BY <1>2, <1>3, <2>2
    <3> QED
      BY <1>1, <1>2, <1>3, <1>4, <2>2, <3>1
         DEF Inv, Agreement, Outcome, First, Between
  <2>3. CASE Agree
    <3>1. pc'[p] \in Between /\ pc'[q] \in First \cup Between
      BY <1>2, <1>3, <2>3 DEF Between
    <3> QED
      BY <1>1, <1>2, <1>3, <1>4, <2>1, <2>3, <3>1
         DEF Inv, Agreement, Outcome, First, Between
  <2> QED
    BY <2>2, <2>3
<1>8. Delivered'
  BY <1>1, <1>2, <1>3
     DEF Inv, Agreement, Delivered, First, Between, Peer, Other
<1> QED
  BY <1>5, <1>6, <1>7, <1>8 DEF Agreement

(* The address a receiver sends, masked with its own core, reaches from the  *)
(* sender the memory that the receiver's buffer lies in.                     *)
LEMMA GlobalAddressed ==
    ASSUME NEW b \in Buffers
    PROVE  /\ Deref("source", Globalise("sink", b)) = Deref("sink", b)
           /\ Deref("sink", b) \in GlobalAddress
<1>1. PICK w \in Where, o \in Offsets : b = [where |-> w, off |-> o]
  BY DEF Buffers
<1>2. w \in {"local", "dram"}
  BY WhereAssumption
<1>3. CASE w = "local"
  <2>1. /\ Deref("sink", b) = [where |-> "sink", off |-> o]
        /\ Globalise("sink", b) = [where |-> "sink", off |-> o]
    BY <1>1, <1>3 DEF Deref, Globalise
  <2> QED
    BY <2>1 DEF Deref, GlobalAddress, Memories, Peer
<1>4. CASE w = "dram"
  <2>1. /\ Deref("sink", b) = [where |-> "dram", off |-> o]
        /\ Globalise("sink", b) = [where |-> "dram", off |-> o]
    BY <1>1, <1>4 DEF Deref, Globalise
  <2> QED
    BY <2>1 DEF Deref, GlobalAddress, Memories, Peer
<1> QED
  BY <1>2, <1>3, <1>4

(* The sender copies while the receive is open, into the receive buffer.     *)
LEMMA CopyTarget ==
    ASSUME Inv, NEW p \in Peer, CopyData(p)
    PROVE  /\ p = "source" /\ Agree
           /\ pc["sink"] \in {"spin", "read", "sequence2", "spin2"}
           /\ Deref(p, address_from_peer[p]) = Deref("sink", call["sink"].buf)
           /\ Deref("sink", call["sink"].buf) \in GlobalAddress
<1>1. p = "source" /\ pc["source"] = "copy" /\ Agree
  BY DEF CopyData, Inv, Agreement, OwnCall, Outcome, Between
<1>2. "source" \in Peer /\ "sink" \in Peer
      /\ Other("source") = "sink" /\ Other("sink") = "source"
  BY DEF Peer, Other
<1>3. pc["sink"] \in {"spin", "read", "sequence2", "spin2"}
  <2>1. pc["sink"] # "copy"
    BY <1>2 DEF Inv, Agreement, OwnCall
  <2>2. Level \/ Ahead("source") \/ Ahead("sink")
    BY <1>2, LevelOrAhead DEF Inv
  <2> QED
    BY <1>1, <1>2, <2>1, <2>2
       DEF Inv, Agreement, Together, Before, First, Between
<1>4. call["sink"].kind = "x_sync_receive"
  BY <1>1 DEF Agree, Agreed
<1>5. /\ call["sink"].buf \in Buffers
      /\ address_from_peer["source"] = Globalise("sink", call["sink"].buf)
  BY <1>2, <1>4 DEF Inv, Agreement, OwnCall, Announced, TransferKind
<1> QED
  BY <1>1, <1>3, <1>5, GlobalAddressed

LEMMA AgreementCopy ==
    ASSUME Inv, NEW p \in Peer, CopyData(p)
    PROVE  Agreement'
<1> DEFINE a == Deref("sink", call["sink"].buf)
<1>1. /\ p = "source" /\ Agree
      /\ mem' = [mem EXCEPT ![a] = call["source"].data] /\ a \in GlobalAddress
  BY CopyTarget DEF CopyData
<1>2. /\ pc["source"] = "copy" /\ pc' = [pc EXCEPT !["source"] = "sequence2"]
      /\ UNCHANGED <<sequence_from_peer, control_from_peer, address_from_peer,
                     call, met, size_from_peer>>
      /\ pc \in [Peer -> PC] /\ mem \in [GlobalAddress -> Payloads \cup {NoData}]
  BY <1>1 DEF CopyData, Goto, endpointVars, locals, Inv, TypeOK
<1>3. /\ "source" \in Peer /\ "sink" \in Peer /\ Peer = {"source", "sink"}
      /\ Other("source") = "sink" /\ Other("sink") = "source"
  BY DEF Peer, Other
<1>4. pc'["source"] = "sequence2" /\ pc'["sink"] = pc["sink"]
  BY <1>2, <1>3
<1>5. /\ (Level' <=> Level) /\ (\A r : Ahead(r)' <=> Ahead(r))
      /\ Agree' <=> Agree
  BY <1>2, SameRound DEF Agree
<1>6. OwnCall' /\ Announced'
  BY <1>2, <1>3, <1>4 DEF Inv, Agreement, OwnCall, Announced
<1>7. Together'
  BY <1>2, <1>3, <1>4, <1>5
     DEF Inv, Agreement, Together, Before, First, Between
<1>8. Outcome'
  BY <1>1, <1>2, <1>3, <1>4, <1>5 DEF Inv, Agreement, Outcome, First, Between
<1>9. Delivered'
  <2>1. mem'[a] = call["source"].data
    BY <1>1, <1>2
  <2> QED
    BY <1>2, <2>1 DEF Delivered
<1> QED
  BY <1>6, <1>7, <1>8, <1>9 DEF Agreement

(* At the end of the second rendezvous the peer is there, or has returned.   *)
LEMMA SecondDecision ==
    ASSUME Inv, NEW p \in Peer, SecondExit(p)
    PROVE  /\ Level /\ ~Ahead(p) /\ ~Ahead(Other(p)) /\ Agree
           /\ pc[p] = "spin2" /\ pc[Other(p)] \in {"spin2", "idle"}
           /\ met[p] = call[Other(p)]
           /\ size_from_peer[p] = call[Other(p)].size
<1>1. Other(p) \in Peer /\ Other(Other(p)) = p
  BY TwoPeers
<1>2. pc[p] = "spin2" /\ Level
  BY LevelOrAhead DEF SecondExit, Inv, Spinning
<1>3. ~Ahead(p) /\ ~Ahead(Other(p))
  BY <1>1, <1>2, LevelOrAhead DEF Inv
<1>4. pc[Other(p)] \in {"spin2", "idle"}
  BY <1>1, <1>2 DEF Inv, Agreement, Together, Before, First, Between
<1>5. /\ Agree /\ met[p] = call[Other(p)]
      /\ size_from_peer[p] = call[Other(p)].size
  BY <1>2 DEF Inv, Agreement, Outcome
<1> QED
  BY <1>2, <1>3, <1>4, <1>5

LEMMA AgreementExit ==
    ASSUME Inv, NEW p \in Peer, SecondExit(p)
    PROVE  Agreement'
<1> DEFINE q == Other(p)
<1>1. q \in Peer /\ q # p /\ Other(q) = p /\ Peer = {p, q}
  BY TwoPeers
<1>2. /\ UNCHANGED <<sequence_from_peer, control_from_peer,
                     address_from_peer, call, mem, size_from_peer>>
      /\ pc'[p] = "idle" /\ pc'[q] = pc[q] /\ met'[q] = met[q]
  BY <1>1 DEF SecondExit, Return, Goto, Inv, TypeOK
<1>3. /\ Level /\ ~Ahead(p) /\ ~Ahead(q) /\ Agree
      /\ pc[p] = "spin2" /\ pc[q] \in {"spin2", "idle"}
  BY SecondDecision
<1>4. /\ (Level' <=> Level) /\ (\A r : Ahead(r)' <=> Ahead(r))
      /\ Agree' <=> Agree
  BY <1>2, SameRound DEF Agree
<1>5. OwnCall' /\ Announced'
  BY <1>1, <1>2, <1>3 DEF Inv, Agreement, OwnCall, Announced
<1>6. Together'
  BY <1>1, <1>2, <1>3, <1>4 DEF Together, Before, First
<1>7. Outcome'
  BY <1>1, <1>2, <1>3, <1>4 DEF Inv, Agreement, Outcome, First, Between
<1>8. Delivered'
  BY <1>1, <1>2, <1>3 DEF Inv, Agreement, Delivered, Peer, Other
<1> QED
  BY <1>5, <1>6, <1>7, <1>8 DEF Agreement

LEMMA AgreementStep ==
    ~Interruptible => (Inv /\ [Next]_vars => Agreement')
<1> SUFFICES ASSUME ~Interruptible, Inv, [Next]_vars PROVE Agreement'
  OBVIOUS
<1>1. CASE UNCHANGED vars
  BY <1>1 DEF vars, Inv, Agreement, OwnCall, Announced, Together, Outcome,
              Delivered, Agree, Level, Ahead, Posted
<1>2. ASSUME NEW p \in Peer, x_sync(p) PROVE Agreement'
  <2>1. Bare("x_sync") \in Call
    BY BareType
  <2>2. /\ Begin(p, Bare("x_sync")) /\ pc' = [pc EXCEPT ![p] = "sequence"]
        /\ control_from_peer' = [control_from_peer EXCEPT ![Other(p)] = 0]
        /\ UNCHANGED <<sequence_from_peer, mem, met, size_from_peer>>
        /\ UNCHANGED address_from_peer
    BY <1>2 DEF x_sync, Goto, StoreControl, SYNC_CONTROL
  <2>3. /\ Bare("x_sync").kind = "x_sync" /\ Bare("x_sync").size = 0
        /\ TransferKind(p) # "x_sync"
    BY DEF Bare, TransferKind
  <2> QED
    BY <2>1, <2>2, <2>3, AgreementBegin
<1>3. ASSUME NEW p \in Peer, NEW size \in Sizes, NEW buf \in Buffers,
             NEW data \in Payloads \cup {NoData}, NEW k,
             k = TransferKind(p), BeginTransfer(p, k, size, buf, data)
      PROVE  Agreement'
  <2> DEFINE c == [kind |-> k, size |-> size, buf |-> buf, data |-> data]
  <2>1. c \in Call
    BY <1>3 DEF Call, Control, TransferKind
  <2>2. c.kind = TransferKind(p) /\ c.buf = buf /\ TransferKind(p) # "x_sync"
    BY <1>3 DEF TransferKind
  <2>3. /\ Begin(p, c) /\ pc' = [pc EXCEPT ![p] = "control"]
        /\ address_from_peer' =
              [address_from_peer EXCEPT ![Other(p)] = Globalise(p, buf)]
        /\ UNCHANGED <<sequence_from_peer, mem, met, size_from_peer>>
        /\ UNCHANGED control_from_peer
    BY <1>3 DEF BeginTransfer, Goto
  <2> HIDE DEF c
  <2> QED
    BY <2>1, <2>2, <2>3, AgreementBegin
<1>4. ASSUME NEW p \in Peer, NEW size \in Sizes, NEW buf \in Buffers,
             x_sync_receive(p, size, buf)
      PROVE  Agreement'
  <2>1. TransferKind(p) = "x_sync_receive"
    BY <1>4 DEF x_sync_receive, Mode, TransferKind
  <2> QED
    BY <1>3, <1>4, <2>1 DEF x_sync_receive
<1>5. ASSUME NEW p \in Peer, NEW size \in Sizes, NEW buf \in Buffers,
             NEW data \in Payloads, x_sync_send(p, size, buf, data)
      PROVE  Agreement'
  <2>1. TransferKind(p) = "x_sync_send"
    BY <1>5 DEF x_sync_send, Mode, TransferKind
  <2> QED
    BY <1>3, <1>5, <2>1 DEF x_sync_send
<1>6. CASE Next
  <2>1. PICK p \in Peer : Calls(p) \/ Steps(p)
    BY <1>6 DEF Next
  <2>2. CASE Calls(p)
    BY <1>2, <1>4, <1>5, <2>2, AgreementQuiet DEF Calls
  <2>3. CASE Steps(p)
    BY <2>3, AgreementQuiet, AgreementPost, AgreementRead, AgreementCopy,
       AgreementExit DEF Steps
  <2> QED
    BY <2>1, <2>2, <2>3
<1> QED
  BY <1>1, <1>6

(* The inductive invariant of the uninterrupted connection. *)
LEMMA InvInit == Init => Inv
BY TypeInit, LockstepInit, AgreementInit DEF Inv

LEMMA InvStep == ~Interruptible => (Inv /\ [Next]_vars => Inv')
BY TypeStep, LockstepStep, AgreementStep DEF Inv

LEMMA NoneMissed == Inv => NoMissedRendezvous
<1> SUFFICES ASSUME Inv, NEW p \in Peer, pc[p] \in Spinning
             PROVE  sequence_from_peer[p] \in {sequence[p], new_sequence[p]}
  BY DEF NoMissedRendezvous
<1> DEFINE q == Other(p)
<1>1. q \in Peer /\ Other(q) = p /\ (Level <=> Posted(p) = Posted(q))
  BY TwoPeers
<1>2. /\ Posted(p) = new_sequence[p] /\ Posted(q) = sequence_from_peer[p]
      /\ new_sequence[p] = Succ(sequence[p])
  BY <1>1 DEF Inv, Lockstep, Posted, Spinning
<1>3. CASE Level
  BY <1>1, <1>2, <1>3
<1>4. CASE Ahead(p)
  <2>1. Succ(sequence[p]) = Succ(sequence_from_peer[p])
    BY <1>1, <1>2, <1>4 DEF Ahead
  <2> QED
    BY <2>1, SuccFacts DEF Inv, TypeOK
<1>5. CASE Ahead(q)
  BY <1>1, <1>5 DEF Inv, Agreement, Together, Before, Between, Spinning
<1> QED
  BY <1>3, <1>4, <1>5, LevelOrAhead DEF Inv

(* Every step that returns leaves a first rendezvous where the calls did not *)
(* agree, or the second one of a transfer.                                   *)
LEMMA ReturnSteps ==
    ASSUME TypeOK, [Next]_vars, NEW p \in Peer, Returns(p)
    PROVE  SyncRead(p) \/ SendRead(p) \/ ReceiveRead(p) \/ SecondExit(p)
<1>1. Next
  BY DEF Returns, vars
<1>2. PICK r \in Peer : Calls(r) \/ Steps(r)
  BY <1>1 DEF Next
<1>3. \E l \in PC : pc' = [pc EXCEPT ![r] = l]
  BY <1>2, ActionKinds
<1>4. r = p
  BY <1>3 DEF Returns, TypeOK
<1>5. pc[p] # "idle" /\ pc'[p] = "idle" /\ pc \in [Peer -> PC]
  BY DEF Returns, TypeOK
<1>6. ~Calls(p)
  BY <1>5 DEF Calls, x_sync, ModeMismatch, x_sync_receive, x_sync_send,
              BeginTransfer, Begin
<1>7. ~PostControl(p) /\ ~PostSequence(p) /\ ~PostSecond(p)
  BY <1>5 DEF PostControl, PostSequence, PostSecond, Goto
<1>8. ~SpinExit(p) /\ ~CopyData(p)
  BY <1>5 DEF SpinExit, CopyData, Goto
<1> QED
  BY <1>2, <1>4, <1>6, <1>7, <1>8 DEF Steps

(* What a returning call returns, where it leaves the peers and memory.      *)
LEMMA ReturnValue ==
    ASSUME Inv, [Next]_vars, NEW p \in Peer, Returns(p)
    PROVE  /\ met[p] = call[Other(p)]
           /\ \/ /\ ~Agree
                 /\ result'[p] = IF call[p].kind = "x_sync" /\ met[p].size = 0
                                 THEN 0 ELSE -1
              \/ /\ Agree /\ UNCHANGED mem
                 /\ pc[p] = "spin2" /\ pc[Other(p)] \in {"spin2", "idle"}
                 /\ result'[p] = call["source"].size
<1>1. CASE SecondExit(p)
  <2>1. /\ Agree /\ met[p] = call[Other(p)] /\ pc[p] = "spin2"
        /\ pc[Other(p)] \in {"spin2", "idle"}
        /\ size_from_peer[p] = call[Other(p)].size
    BY <1>1, SecondDecision
  <2>2. /\ UNCHANGED mem
        /\ result'[p] = IF call[p].kind = "x_sync_send" THEN call[p].size
                        ELSE size_from_peer[p]
    BY <1>1 DEF SecondExit, Return, Inv, TypeOK
  <2> QED
    BY <2>1, <2>2 DEF Agree, Agreed, Peer, Other
<1>2. CASE SyncRead(p) \/ SendRead(p) \/ ReceiveRead(p)
  <2>1. pc[p] = "read" /\ pc'[p] = "idle" /\ pc \in [Peer -> PC]
    BY <1>2, ReadOutcome DEF Returns, Inv, TypeOK
  <2>2. met[p] = call[Other(p)]
    BY <2>1 DEF Inv, Agreement, Outcome
  <2> QED
    BY <1>2, <2>1, <2>2, ReadOutcome
<1> QED
  BY <1>1, <1>2, ReturnSteps DEF Inv

(* The step that PeersAgree, DataDelivered and OnlyOpenBuffers each allow.   *)
AgreeAction ==
    \A p \in Peer : Returns(p) => result'[p] \in Allowed(call[p], met[p])
DeliverAction ==
    Returns("sink") /\ result'["sink"] > 0 =>
       mem'[Deref("sink", call["sink"].buf)] = met["sink"].data
OpenAction ==
    \A a \in GlobalAddress : mem'[a] # mem[a] =>
       /\ pc["sink"] \in {"spin", "read", "sequence2", "spin2"}
       /\ Agreed(call["source"], call["sink"])
       /\ a = Deref("sink", call["sink"].buf)

LEMMA AgreeStep == Inv /\ [Next]_vars => AgreeAction
<1> SUFFICES ASSUME Inv, [Next]_vars, NEW p \in Peer, Returns(p)
             PROVE  result'[p] \in Allowed(call[p], met[p])
  BY DEF AgreeAction
<1> DEFINE q == Other(p)
<1>1. q \in Peer /\ Other(q) = p /\ (p = "source" <=> q # "source")
  BY DEF Peer, Other
<1>2. met[p] = call[q]
  BY ReturnValue
<1>3. /\ call[p].kind \in {"none", "x_sync", TransferKind(p)}
      /\ call[q].kind \in {"none", "x_sync", TransferKind(q)}
  BY <1>1 DEF Inv, Agreement, OwnCall
<1>4. Agreed(call[p], met[p]) <=> Agree /\ p = "source"
  BY <1>1, <1>2, <1>3 DEF Agree, Agreed, TransferKind, Peer, Other
<1>5. Agreed(met[p], call[p]) <=> Agree /\ p = "sink"
  BY <1>1, <1>2, <1>3 DEF Agree, Agreed, TransferKind, Peer, Other
<1>6. CASE Agree
  <2>1. result'[p] = call["source"].size
    BY <1>6, ReturnValue
  <2>2. CASE p = "source"
    <3>1. call[p].kind = "x_sync_send"
      BY <1>4, <1>6, <2>2 DEF Agreed
    <3> QED
      BY <1>4, <1>5, <1>6, <2>1, <2>2, <3>1 DEF Allowed
  <2>3. CASE p = "sink"
    <3>1. call[p].kind = "x_sync_receive" /\ met[p].kind = "x_sync_send"
      BY <1>5, <1>6, <2>3 DEF Agreed
    <3>2. met[p].size = call["source"].size
      BY <1>2, <2>3 DEF Other
    <3> QED
      BY <1>4, <1>5, <1>6, <2>1, <2>3, <3>1, <3>2 DEF Allowed
  <2> QED
    BY <2>2, <2>3 DEF Peer
<1>7. CASE ~Agree
  <2>1. result'[p] = IF call[p].kind = "x_sync" /\ met[p].size = 0
                     THEN 0 ELSE -1
    BY <1>7, ReturnValue
  <2> QED
    BY <1>4, <1>5, <1>7, <2>1 DEF Allowed
<1> QED
  BY <1>6, <1>7

LEMMA DeliverStep == Inv /\ [Next]_vars => DeliverAction
<1> SUFFICES ASSUME Inv, [Next]_vars, Returns("sink"), result'["sink"] > 0
             PROVE  mem'[Deref("sink", call["sink"].buf)] = met["sink"].data
  BY DEF DeliverAction
<1>1. "sink" \in Peer /\ Other("sink") = "source"
  BY DEF Peer, Other
<1>2. /\ met["sink"] = call["source"]
      /\ \/ result'["sink"] = 0 \/ result'["sink"] = -1
         \/ /\ UNCHANGED mem
            /\ pc["sink"] = "spin2" /\ pc["source"] \in {"spin2", "idle"}
  BY <1>1, ReturnValue
<1>3. /\ UNCHANGED mem
      /\ pc["sink"] = "spin2" /\ pc["source"] \in {"spin2", "idle"}
  BY <1>2
<1> QED
  BY <1>2, <1>3 DEF Inv, Agreement, Delivered

(* Only the sender's copy changes a buffer.                                  *)
LEMMA OnlyCopies ==
    ASSUME [Next]_vars, mem' # mem
    PROVE  \E p \in Peer : CopyData(p)
<1>1. PICK p \in Peer : Calls(p) \/ Steps(p)
  BY DEF Next, vars
<1>2. ~Calls(p)
  BY DEF Calls, x_sync, ModeMismatch, x_sync_receive, x_sync_send,
         BeginTransfer
<1>3. ~PostControl(p) /\ ~PostSequence(p) /\ ~PostSecond(p) /\ ~SpinExit(p)
  BY DEF PostControl, PostSequence, PostSecond, SpinExit
<1>4. ~SyncRead(p) /\ ~SendRead(p) /\ ~ReceiveRead(p) /\ ~SecondExit(p)
  BY DEF SyncRead, SendRead, ReceiveRead, TransferRead, Read, SecondExit
<1> QED
  BY <1>1, <1>2, <1>3, <1>4 DEF Steps

LEMMA OpenStep == Inv /\ [Next]_vars => OpenAction
<1> SUFFICES ASSUME Inv, [Next]_vars, NEW a \in GlobalAddress,
                    mem'[a] # mem[a]
             PROVE  /\ pc["sink"] \in {"spin", "read", "sequence2", "spin2"}
                    /\ Agreed(call["source"], call["sink"])
                    /\ a = Deref("sink", call["sink"].buf)
  BY DEF OpenAction
<1>1. PICK p \in Peer : CopyData(p)
  BY OnlyCopies
<1>2. mem' = [mem EXCEPT ![Deref("sink", call["sink"].buf)] = call[p].data]
  BY <1>1, CopyTarget DEF CopyData
<1> QED
  BY <1>1, <1>2, CopyTarget DEF Inv, TypeOK, Agree

(* Without interrupts a spinning core never misses the number it waits for:  *)
(* with any number of sequence values and any calls at the two ends.         *)
THEOREM NoRendezvousMissed == ~Interruptible => (Spec => []NoMissedRendezvous)
<1> SUFFICES ASSUME ~Interruptible PROVE Spec => []NoMissedRendezvous
  OBVIOUS
<1>1. Inv /\ [Next]_vars => Inv'
  BY InvStep
<1> QED
  BY <1>1, InvInit, NoneMissed, PTL DEF Spec

(* Without interrupts what a call returns is decided alike at both ends, by  *)
(* the two calls that met.                                                   *)
THEOREM PeersAlwaysAgree == ~Interruptible => (Spec => PeersAgree)
<1> SUFFICES ASSUME ~Interruptible PROVE Spec => PeersAgree
  OBVIOUS
<1>1. Inv /\ [Next]_vars => Inv' /\ [AgreeAction]_vars
  BY InvStep, AgreeStep
<1>2. Spec => [][AgreeAction]_vars
  BY <1>1, InvInit, PTL DEF Spec
<1> QED
  BY <1>2 DEF PeersAgree, AgreeAction

(* Without interrupts a successful receive finds in its buffer what the send *)
(* it met has sent.                                                          *)
THEOREM DataAlwaysDelivered == ~Interruptible => (Spec => DataDelivered)
<1> SUFFICES ASSUME ~Interruptible PROVE Spec => DataDelivered
  OBVIOUS
<1>1. Inv /\ [Next]_vars => Inv' /\ [DeliverAction]_vars
  BY InvStep, DeliverStep
<1>2. Spec => [][DeliverAction]_vars
  BY <1>1, InvInit, PTL DEF Spec
<1> QED
  BY <1>2 DEF DataDelivered, DeliverAction

(* Without interrupts the sender only ever stores into the buffer of a       *)
(* receive that is in progress and has room for the data.                    *)
THEOREM BuffersStayOpen == ~Interruptible => (Spec => OnlyOpenBuffers)
<1> SUFFICES ASSUME ~Interruptible PROVE Spec => OnlyOpenBuffers
  OBVIOUS
<1>1. Inv /\ [Next]_vars => Inv' /\ [OpenAction]_vars
  BY InvStep, OpenStep
<1>2. Spec => [][OpenAction]_vars
  BY <1>1, InvInit, PTL DEF Spec
<1> QED
  BY <1>2 DEF OnlyOpenBuffers, OpenAction
-----------------------------------------------------------------------------
(***************************************************************************)
(* With interrupts, between tasks that make only transfers, all of one     *)
(* size: a rendezvous may be missed, and then a core spins for good, but   *)
(* the data of a receive that returns is that of the send it met.  All     *)
(* control words are equal here, so nothing is said of what the peers      *)
(* decide from them; with two sizes they need not decide alike, since the  *)
(* control word of the peer's next call can be read for this one's.        *)
(***************************************************************************)
MatchedTransfers == "x_sync" \notin Kinds /\ \A a, b \in Sizes : 0 < a /\ a = b

(* p has posted the first number of its call and not yet the second.         *)
Halfway(p) == pc[p] \in First \cup Between

(* The numbers are level when the peers have posted equally often: what is   *)
(* left of Together once a peer may begin a new call while the other still   *)
(* has to take out the number that ends the old one.                         *)
Paired == Level <=> (Halfway("source") <=> Halfway("sink"))

Transfers ==
    \A p \in Peer :
        /\ pc[p] # "idle" => /\ call[p].kind = TransferKind(p)
                             /\ call[p].size \in Sizes /\ call[p].buf \in Buffers
        /\ pc[p] = "copy" => p = "source"

(* What a peer is told by the other, be it by this call or the next, is of   *)
(* the one size.                                                             *)
Told ==
    \A p \in Peer :
        /\ pc[p] \notin {"idle", "control"} =>
              control_from_peer[Other(p)] \in Sizes
        /\ pc[p] # "idle" =>
              address_from_peer[Other(p)] = Globalise(p, call[p].buf)
        /\ pc[p] \in Between \cup {"spin2"} => size_from_peer[p] \in Sizes
        /\ pc[p] \in Between \cup {"read", "spin2"} =>
              met[p].kind = TransferKind(Other(p)) /\ met[p].size \in Sizes

Target == mem[Deref("sink", call["sink"].buf)]

(* Until the receiver returns its buffer holds what the send it met has      *)
(* copied, unless that send's successor has overtaken it.                    *)
Arrived ==
    /\ pc["source"] = "sequence2" => Target = call["source"].data
    /\ \/ pc["sink"] \in {"read", "sequence2"}
       \/ pc["sink"] = "spin2" /\ ~Ahead("source")
       => /\ Halfway("source") => met["sink"] = call["source"]
          /\ pc["source"] \notin {"spin", "read", "copy"} =>
                Target = met["sink"].data

Matching == Paired /\ Transfers /\ Told /\ Arrived
MInv == TypeOK /\ Lockstep /\ Matching

LEMMA MatchingInit == Init => Matching
<1> SUFFICES ASSUME Init PROVE Matching
  OBVIOUS
<1>1. \A p \in Peer : pc[p] = "idle"
  BY DEF Init
<1>2. "source" \in Peer /\ "sink" \in Peer
  BY DEF Peer
<1>3. Paired
  BY <1>1, <1>2
     DEF Init, Paired, Level, Posted, Other, Peer, Halfway, First, Between
<1>4. Transfers /\ Told
  BY <1>1 DEF Transfers, Told, Between
<1>5. Arrived
  BY <1>1, <1>2 DEF Arrived
<1> QED
  BY <1>3, <1>4, <1>5 DEF Matching

(* Where the other peer can be, seen from one of them.                       *)
LEMMA MatchFacts ==
    ASSUME MInv, NEW p \in Peer
    PROVE  /\ Level <=> (Halfway(p) <=> Halfway(Other(p)))
           /\ pc[p] \in Before =>
                pc[Other(p)] \in Before \cup {"spin", "spin2"}
           /\ pc[p] \in Between \cup {"read"} =>
                pc[Other(p)] \notin Before
<1> DEFINE q == Other(p)
<1>1. q \in Peer /\ q # p /\ Other(q) = p
  BY TwoPeers
<1>2. Level <=> (Halfway(p) <=> Halfway(q))
  BY <1>1 DEF MInv, Matching, Paired, Peer, Other
<1>3. /\ Level \/ Ahead(p) \/ Ahead(q)
      /\ Ahead(p) => pc[p] \in Spinning
      /\ Ahead(q) => pc[q] \in Spinning
  BY <1>1, LevelOrAhead DEF MInv, Lockstep
<1>4. pc[p] \in PC /\ pc[q] \in PC
  BY <1>1 DEF MInv, TypeOK
<1> QED
  BY <1>2, <1>3, <1>4
     DEF Halfway, Before, First, Between, Spinning, PC

(* A step outside the rendezvous: a call begins, is refused by the mode      *)
(* check, or stores its control word.                                        *)
LEMMA MatchingQuiet ==
    ASSUME MInv, NEW p \in Peer, NEW l \in {"idle", "control", "sequence"},
           pc[p] \in {"idle", "control"}, pc' = [pc EXCEPT ![p] = l],
           UNCHANGED <<sequence_from_peer, mem, size_from_peer>>,
           l # "idle" => /\ call'[p].kind = TransferKind(p)
                         /\ call'[p].size \in Sizes /\ call'[p].buf \in Buffers
                         /\ address_from_peer'[Other(p)] =
                              Globalise(p, call'[p].buf),
           call'[Other(p)] = call[Other(p)], met'[Other(p)] = met[Other(p)],
           address_from_peer'[p] = address_from_peer[p],
           control_from_peer'[p] = control_from_peer[p],
           pc[p] = "idle" \/ call' = call,
           l = "sequence" => control_from_peer'[Other(p)] \in Sizes
    PROVE  Matching'
<1> DEFINE q == Other(p)
<1>1. q \in Peer /\ q # p /\ Other(q) = p /\ Peer = {p, q}
  BY TwoPeers
<1>2. pc'[p] = l /\ pc'[q] = pc[q]
  BY <1>1 DEF MInv, TypeOK
<1>3. (Level' <=> Level) /\ (\A r : Ahead(r)' <=> Ahead(r))
  BY SameRound
<1>4. /\ ~Halfway(p) /\ ~Halfway(p)' /\ (Halfway(q)' <=> Halfway(q))
  BY <1>2 DEF Halfway, First, Between
<1>5. Paired'
  <2>1. Level <=> (Halfway(p) <=> Halfway(q))
    BY MatchFacts
  <2>2. Level' <=> (Halfway(p)' <=> Halfway(q)')
    BY <1>3, <1>4, <2>1
  <2> QED
    BY <2>2 DEF Paired, Peer, Other
<1>6. Transfers'
  BY <1>1, <1>2 DEF MInv, Matching, Transfers
<1>7. Told'
  BY <1>1, <1>2 DEF MInv, Matching, Told, Between
<1>8. Arrived'
  <2>1. CASE p = "source"
    <3>1. q = "sink"
      BY <2>1 DEF Other
    <3>2. Target' = Target
      BY <3>1 DEF Target
    <3> QED
      BY <1>2, <1>3, <1>4, <2>1, <3>1, <3>2 DEF MInv, Matching, Arrived
  <2>2. CASE p = "sink"
    <3>1. q = "source"
      BY <2>2 DEF Other
    <3>2. pc["source"] # "sequence2"
      BY <3>1, MatchFacts DEF Before, Between
    <3> QED
      BY <1>2, <2>2, <3>1, <3>2 DEF Arrived
  <2> QED
    BY <2>1, <2>2 DEF Peer
<1> QED
  BY <1>5, <1>6, <1>7, <1>8 DEF Matching

(* A step that posts a sequence number: the peers change sides.              *)
LEMMA PostFlips ==
    ASSUME MInv, NEW p \in Peer, PostSequence(p) \/ PostSecond(p)
    PROVE  /\ Level' <=> ~Level
           /\ Ahead(p)' <=> Level
           /\ ~Ahead(Other(p))' /\ ~Ahead(p)
           /\ Halfway(p)' <=> ~Halfway(p)
           /\ Halfway(Other(p))' <=> Halfway(Other(p))
           /\ Paired'
<1> DEFINE q == Other(p)
<1>1. q \in Peer /\ q # p /\ Other(q) = p
      /\ (Level <=> Posted(p) = Posted(q)) /\ (Level' <=> Posted(p)' = Posted(q)')
  BY DEF Peer, Other, Level
<1>2. /\ pc[p] \notin Spinning \cup {"idle", "read"}
      /\ StoreSequence(p, new_sequence[p])
  BY DEF PostSequence, PostSecond, Spinning
<1>3. Posted(p)' = new_sequence[p] /\ Posted(q)' = Posted(q)
  BY <1>1, <1>2 DEF StoreSequence, Posted, MInv, TypeOK
<1>4. new_sequence[p] = Succ(Posted(p))
  BY <1>2 DEF MInv, Lockstep
<1>5. ~Ahead(p) /\ (Level \/ Ahead(q))
  BY <1>1, <1>2, LevelOrAhead DEF MInv, Lockstep
<1>6. Posted(p) \in Sequence /\ Posted(q) \in Sequence
  BY <1>1 DEF Posted, MInv, TypeOK
<1>7. (Level' <=> ~Level) /\ (Ahead(p)' <=> Level) /\ ~Ahead(q)'
  <2>1. CASE Level
    BY <1>1, <1>3, <1>4, <1>6, <2>1, SuccFacts DEF Ahead
  <2>2. CASE Ahead(q)
    BY <1>1, <1>3, <1>4, <1>6, <2>2, SuccFacts DEF Ahead
  <2> QED
    BY <1>5, <2>1, <2>2
<1>8. /\ Halfway(p)' <=> ~Halfway(p)
      /\ Halfway(q)' <=> Halfway(q)
  BY <1>1 DEF PostSequence, PostSecond, Goto, Halfway, First, Between, MInv,
              TypeOK
<1>9. Paired'
  <2>1. Level <=> (Halfway(p) <=> Halfway(q))
    BY MatchFacts
  <2>2. Level' <=> (Halfway(p)' <=> Halfway(q)')
    BY <1>7, <1>8, <2>1
  <2> QED
    BY <2>2 DEF Paired, Peer, Other
<1> QED
  BY <1>5, <1>7, <1>8, <1>9

LEMMA MatchingPost ==
    ASSUME MInv, NEW p \in Peer, PostSequence(p) \/ PostSecond(p)
    PROVE  Matching'
<1> DEFINE q == Other(p)
<1>1. q \in Peer /\ q # p /\ Other(q) = p /\ Peer = {p, q}
  BY TwoPeers
<1>2. /\ UNCHANGED <<control_from_peer, address_from_peer, call,
                     size_from_peer, mem, met>>
      /\ \/ pc[p] = "sequence" /\ pc'[p] = "spin"
         \/ pc[p] = "sequence2" /\ pc'[p] = "spin2"
      /\ pc'[q] = pc[q]
  BY <1>1 DEF PostSequence, PostSecond, Goto, locals, MInv, TypeOK
<1>3. Paired' /\ ~Ahead(p) /\ (Ahead(p)' <=> Level)
      /\ (Halfway(p)' <=> ~Halfway(p)) /\ (Halfway(q)' <=> Halfway(q))
  BY PostFlips
<1>4. Transfers'
  BY <1>1, <1>2 DEF MInv, Matching, Transfers
<1>5. Told'
  BY <1>1, <1>2 DEF MInv, Matching, Told, Between
<1>6. Target' = Target
  BY <1>2 DEF Target
<1>7. CASE p = "source"
  <2>1. q = "sink"
    BY <1>7 DEF Other
  <2>2. CASE pc[p] = "sequence"
    <3>1. pc["sink"] \notin {"read", "sequence2"}
      BY <1>1, <1>7, <2>1, <2>2, MatchFacts DEF Before, Between
    <3>2. pc["sink"] = "spin2" => Level
      BY <1>7, <2>1, <2>2, MatchFacts DEF Halfway, First, Between
    <3> QED
      BY <1>2, <1>3, <1>4, <1>5, <1>7, <2>1, <2>2, <3>1, <3>2
         DEF Matching, Arrived
  <2>3. CASE pc[p] = "sequence2"
    <3>1. Halfway(p)
      BY <2>3 DEF Halfway, Between
    <3> QED
      BY <1>2, <1>3, <1>4, <1>5, <1>6, <1>7, <2>1, <2>3, <3>1
         DEF MInv, Matching, Arrived
  <2> QED
    BY <1>2, <2>2, <2>3
<1>8. CASE p = "sink"
  <2>1. q = "source"
    BY <1>8 DEF Other
  <2> QED
    BY <1>2, <1>3, <1>4, <1>5, <1>6, <1>8, <2>1 DEF MInv, Matching, Arrived
<1> QED
  BY <1>7, <1>8 DEF Peer

(* The first rendezvous: the call that is met is the one the peer is in.     *)
LEMMA MatchingSpinExit ==
    ASSUME MInv, NEW p \in Peer, SpinExit(p)
    PROVE  Matching'
<1> DEFINE q == Other(p)
<1>1. q \in Peer /\ q # p /\ Other(q) = p /\ Peer = {p, q}
  BY TwoPeers
<1>2. /\ UNCHANGED <<sequence_from_peer, control_from_peer,
                     address_from_peer, call, size_from_peer, mem>>
      /\ pc[p] = "spin" /\ pc'[p] = "read" /\ pc'[q] = pc[q]
      /\ met'[p] = call[q] /\ met'[q] = met[q]
  BY <1>1 DEF SpinExit, Goto, locals, endpointVars, MInv, TypeOK
<1>3. (Level' <=> Level) /\ (\A r : Ahead(r)' <=> Ahead(r)) /\ Target' = Target
  BY <1>2, SameRound DEF Target
<1>4. Level /\ Halfway(p) /\ Halfway(p)' /\ Halfway(q) /\ Halfway(q)'
  <2>1. Level
    BY <1>2, LevelOrAhead DEF SpinExit, MInv, Spinning
  <2>2. Halfway(p) /\ Halfway(p)'
    BY <1>2 DEF Halfway, First
  <2>3. Halfway(q)
    BY <2>1, <2>2, MatchFacts
  <2> QED
    BY <1>2, <2>1, <2>2, <2>3 DEF Halfway
<1>5. Paired'
  BY <1>3, <1>4 DEF Paired, Peer, Other
<1>6. Transfers'
  BY <1>1, <1>2 DEF MInv, Matching, Transfers
<1>7. call[q].kind = TransferKind(q) /\ call[q].size \in Sizes
  BY <1>1, <1>4 DEF MInv, Matching, Transfers, Halfway, First, Between
<1>8. Told'
  BY <1>1, <1>2, <1>7 DEF MInv, Matching, Told, Between
<1>9. CASE p = "source"
  <2>1. q = "sink"
    BY <1>9 DEF Other
  <2> QED
    BY <1>2, <1>3, <1>4, <1>5, <1>6, <1>8, <1>9, <2>1
       DEF MInv, Matching, Arrived
<1>10. CASE p = "sink"
  <2>1. q = "source"
    BY <1>10 DEF Other
  <2>2. pc["source"] \in {"spin", "read", "copy", "sequence2"}
    BY <1>4, <2>1 DEF Halfway, First, Between
  <2> QED
    BY <1>2, <1>3, <1>4, <1>5, <1>6, <1>8, <1>10, <2>1, <2>2
       DEF MInv, Matching, Arrived
<1> QED
  BY <1>9, <1>10 DEF Peer

(* With one size the checks on the control word find no error, whichever of  *)
(* the peer's calls stored it.                                               *)
LEMMA MatchedRead ==
    ASSUME MInv, MatchedTransfers, NEW p \in Peer,
           SyncRead(p) \/ SendRead(p) \/ ReceiveRead(p)
    PROVE  /\ control_from_peer[p] \in Sizes
           /\ pc[p] = "read"
           /\ TransferRead(p, NoError, IF p = "source" THEN "copy"
                                                       ELSE "sequence2")
<1> DEFINE q == Other(p)
<1>1. q \in Peer /\ Other(q) = p
  BY TwoPeers
<1>2. pc[p] = "read"
  BY DEF SyncRead, SendRead, ReceiveRead, TransferRead, Read
<1>3. call[p].kind = TransferKind(p) /\ call[p].size \in Sizes
  BY <1>2 DEF MInv, Matching, Transfers
<1>4. control_from_peer[p] \in Sizes
  <2>1. pc[q] \notin {"idle", "control"}
    BY <1>2, MatchFacts DEF Before
  <2> QED
    BY <1>1, <2>1 DEF MInv, Matching, Told
<1>5. /\ call[p].size = control_from_peer[p] /\ 0 < call[p].size
      /\ call[p].size \in Nat /\ control_from_peer[p] \in Nat
  BY <1>3, <1>4, SizesAssumption DEF MatchedTransfers
<1>6. /\ ~(control_from_peer[p] < call[p].size)
      /\ ~(control_from_peer[p] > call[p].size)
      /\ call[p].size # SYNC_CONTROL /\ control_from_peer[p] # SYNC_CONTROL
  BY <1>5 DEF SYNC_CONTROL
<1>7. /\ TransferError(p, control_from_peer[p] < call[p].size) = NoError
      /\ TransferError(p, control_from_peer[p] > call[p].size) = NoError
  BY <1>6 DEF TransferError
<1>8. CASE p = "source"
  BY <1>2, <1>3, <1>4, <1>7, <1>8
     DEF SyncRead, SendRead, ReceiveRead, TransferKind
<1>9. CASE p = "sink"
  BY <1>2, <1>3, <1>4, <1>7, <1>9
     DEF SyncRead, SendRead, ReceiveRead, TransferKind
<1> QED
  BY <1>8, <1>9 DEF Peer

LEMMA MatchingRead ==
    ASSUME MInv, MatchedTransfers, NEW p \in Peer,
           SyncRead(p) \/ SendRead(p) \/ ReceiveRead(p)
    PROVE  Matching'
<1> DEFINE q == Other(p)
           l == IF p = "source" THEN "copy" ELSE "sequence2"
<1>1. q \in Peer /\ q # p /\ Other(q) = p /\ Peer = {p, q}
  BY TwoPeers
<1>2. /\ control_from_peer[p] \in Sizes /\ pc[p] = "read"
      /\ TransferRead(p, NoError, l)
  BY MatchedRead
<1>3. /\ UNCHANGED <<sequence_from_peer, control_from_peer,
                     address_from_peer, call, mem, met>>
      /\ pc'[p] = l /\ pc'[q] = pc[q]
      /\ size_from_peer'[p] = control_from_peer[p]
      /\ size_from_peer'[q] = size_from_peer[q]
  BY <1>1, <1>2 DEF TransferRead, Read, Goto, MInv, TypeOK
<1>4. (Level' <=> Level) /\ (\A r : Ahead(r)' <=> Ahead(r)) /\ Target' = Target
  BY <1>3, SameRound DEF Target
<1>5. Halfway(p) /\ Halfway(p)' /\ (Halfway(q)' <=> Halfway(q))
  BY <1>2, <1>3 DEF Halfway, First, Between
<1>6. Paired'
  <2>1. Level <=> (Halfway(p) <=> Halfway(q))
    BY MatchFacts
  <2>2. Level' <=> (Halfway(p)' <=> Halfway(q)')
    BY <1>4, <1>5, <2>1
  <2> QED
    BY <2>2 DEF Paired, Peer, Other
<1>7. Transfers'
  BY <1>1, <1>2, <1>3 DEF MInv, Matching, Transfers
<1>8. Told'
  BY <1>1, <1>2, <1>3 DEF MInv, Matching, Told, Between
<1>9. CASE p = "source"
  <2>1. q = "sink"
    BY <1>9 DEF Other
  <2> QED
    BY <1>2, <1>3, <1>4, <1>5, <1>6, <1>7, <1>8, <1>9, <2>1
       DEF MInv, Matching, Arrived
<1>10. CASE p = "sink"
  <2>1. q = "source"
    BY <1>10 DEF Other
  <2> QED
    BY <1>2, <1>3, <1>4, <1>5, <1>6, <1>7, <1>8, <1>10, <2>1
       DEF MInv, Matching, Arrived
<1> QED
  BY <1>9, <1>10 DEF Peer

(* The sender copies into the buffer of the receive the peer is in.          *)
LEMMA MatchedTarget ==
    ASSUME MInv, NEW p \in Peer, CopyData(p)
    PROVE  /\ p = "source"
           /\ pc["sink"] \in {"spin", "read", "sequence2", "spin2"}
           /\ Deref(p, address_from_peer[p]) = Deref("sink", call["sink"].buf)
           /\ Deref("sink", call["sink"].buf) \in GlobalAddress
<1>1. p = "source" /\ pc["source"] = "copy"
  BY DEF CopyData, MInv, Matching, Transfers
<1>2. "source" \in Peer /\ "sink" \in Peer
      /\ Other("source") = "sink" /\ Other("sink") = "source"
  BY DEF Peer, Other
<1>3. pc["sink"] \in {"spin", "read", "sequence2", "spin2"}
  <2>1. pc["sink"] # "copy" /\ pc["sink"] \in PC
    BY <1>2 DEF MInv, Matching, Transfers, TypeOK
  <2>2. pc["sink"] \notin Before
    BY <1>1, <1>2, MatchFacts DEF Between
  <2> QED
    BY <2>1, <2>2 DEF PC, Before
<1>4. /\ call["sink"].buf \in Buffers
      /\ address_from_peer["source"] = Globalise("sink", call["sink"].buf)
  BY <1>2, <1>3 DEF MInv, Matching, Transfers, Told
<1> QED
  BY <1>1, <1>3, <1>4, GlobalAddressed

LEMMA MatchingCopy ==
    ASSUME MInv, NEW p \in Peer, CopyData(p)
    PROVE  Matching'
<1> DEFINE a == Deref("sink", call["sink"].buf)
<1>1. /\ p = "source"
      /\ Deref(p, address_from_peer[p]) = a /\ a \in GlobalAddress
  BY MatchedTarget
<1> HIDE DEF a
<1>2. /\ UNCHANGED <<sequence_from_peer, control_from_peer, address_from_peer,
                     call, size_from_peer, met>>
      /\ pc["source"] = "copy"
      /\ mem' = [mem EXCEPT ![a] = call["source"].data]
      /\ pc' = [pc EXCEPT !["source"] = "sequence2"] /\ pc \in [Peer -> PC]
      /\ mem \in [GlobalAddress -> Payloads \cup {NoData}]
  BY <1>1 DEF CopyData, Goto, endpointVars, locals, MInv, TypeOK
<1>3. /\ "source" \in Peer /\ "sink" \in Peer /\ Peer = {"source", "sink"}
      /\ Other("source") = "sink" /\ Other("sink") = "source"
  BY DEF Peer, Other
<1>4. pc'["source"] = "sequence2" /\ pc'["sink"] = pc["sink"]
  BY <1>2, <1>3
<1>5. (Level' <=> Level) /\ (\A r : Ahead(r)' <=> Ahead(r))
  BY <1>2, SameRound
<1>6. /\ Halfway("source") /\ Halfway("source")'
      /\ Halfway("sink")' <=> Halfway("sink")
  BY <1>2, <1>4 DEF Halfway, Between
<1>7. Target' = call["source"].data
  BY <1>1, <1>2 DEF Target, a
<1>8. Paired'
  BY <1>5, <1>6 DEF MInv, Matching, Paired
<1>9. Transfers'
  BY <1>2, <1>3, <1>4 DEF MInv, Matching, Transfers
<1>10. Told'
  BY <1>2, <1>3, <1>4 DEF MInv, Matching, Told, Between
<1>11. Arrived'
  BY <1>2, <1>4, <1>5, <1>6, <1>7 DEF MInv, Matching, Arrived
<1> QED
  BY <1>8, <1>9, <1>10, <1>11 DEF Matching

(* The second rendezvous: the peer has left the first one, too.              *)
LEMMA MatchedExit ==
    ASSUME MInv, NEW p \in Peer, SecondExit(p)
    PROVE  /\ Level /\ ~Ahead(Other(p))
           /\ pc[p] = "spin2" /\ ~Halfway(Other(p))
<1>1. Other(p) \in Peer
  BY TwoPeers
<1>2. pc[p] = "spin2" /\ Level
  BY LevelOrAhead DEF SecondExit, MInv, Spinning
<1>3. ~Ahead(Other(p))
  BY <1>1, <1>2, LevelOrAhead DEF MInv
<1>4. ~Halfway(p)
  BY <1>2 DEF Halfway, First, Between
<1> QED
  BY <1>2, <1>3, <1>4, MatchFacts

LEMMA MatchingExit ==
    ASSUME MInv, NEW p \in Peer, SecondExit(p)
    PROVE  Matching'
<1> DEFINE q == Other(p)
<1>1. q \in Peer /\ q # p /\ Other(q) = p /\ Peer = {p, q}
  BY TwoPeers
<1>2. /\ UNCHANGED <<sequence_from_peer, control_from_peer,
                     address_from_peer, call, mem, size_from_peer>>
      /\ pc[p] = "spin2" /\ pc'[p] = "idle" /\ pc'[q] = pc[q]
      /\ met'[q] = met[q]
  BY <1>1 DEF SecondExit, Return, Goto, MInv, TypeOK
<1>3. (Level' <=> Level) /\ (\A r : Ahead(r)' <=> Ahead(r)) /\ Target' = Target
  BY <1>2, SameRound DEF Target
<1>4. ~Halfway(p) /\ ~Halfway(p)' /\ ~Halfway(q) /\ ~Halfway(q)' /\ Level
  BY <1>2, MatchedExit DEF Halfway, First, Between
<1>5. Paired'
  BY <1>3, <1>4 DEF Paired, Peer, Other
<1>6. Transfers' /\ Told'
  BY <1>1, <1>2 DEF MInv, Matching, Transfers, Told, Between
<1>7. CASE p = "source"
  <2>1. q = "sink"
    BY <1>7 DEF Other
  <2> QED
    BY <1>2, <1>3, <1>4, <1>5, <1>6, <1>7, <2>1 DEF MInv, Matching, Arrived
<1>8. CASE p = "sink"
  <2>1. q = "source"
    BY <1>8 DEF Other
  <2> QED
    BY <1>2, <1>3, <1>5, <1>6, <1>8, <2>1 DEF MInv, Matching, Arrived
<1> QED
  BY <1>7, <1>8 DEF Peer

LEMMA MatchingStep == MatchedTransfers => (MInv /\ [Next]_vars => Matching')
<1> SUFFICES ASSUME MatchedTransfers, MInv, [Next]_vars PROVE Matching'
  OBVIOUS
<1>1. CASE UNCHANGED vars
  BY <1>1 DEF vars, MInv, Matching, Paired, Transfers, Told, Arrived, Target,
              Halfway, Level, Ahead, Posted
<1>2. ASSUME NEW p \in Peer, NEW size \in Sizes, NEW buf \in Buffers,
             NEW data, BeginTransfer(p, TransferKind(p), size, buf, data)
      PROVE  Matching'
  <2>1. Other(p) \in Peer /\ Other(p) # p
    BY TwoPeers
  <2>2. /\ pc[p] = "idle" /\ pc' = [pc EXCEPT ![p] = "control"]
        /\ UNCHANGED <<sequence_from_peer, control_from_peer, mem,
                       size_from_peer, met>>
    BY <1>2 DEF BeginTransfer, Begin, Goto
  <2>3. /\ call'[p] = [kind |-> TransferKind(p), size |-> size, buf |-> buf,
                       data |-> data]
        /\ call'[Other(p)] = call[Other(p)]
    BY <1>2, <2>1 DEF BeginTransfer, Begin, MInv, TypeOK
  <2>4. /\ address_from_peer'[Other(p)] = Globalise(p, buf)
        /\ address_from_peer'[p] = address_from_peer[p]
    BY <1>2, <2>1 DEF BeginTransfer, MInv, TypeOK
  <2>5. /\ call'[p].kind = TransferKind(p)
        /\ call'[p].size = size /\ call'[p].buf = buf
    BY <2>3
  <2> HIDE DEF MInv
  <2> QED
    BY <2>2, <2>3, <2>4, <2>5, MatchingQuiet
<1>3. ASSUME NEW p \in Peer, PostControl(p) PROVE Matching'
  <2>1. Other(p) \in Peer /\ Other(p) # p
    BY TwoPeers
  <2>2. /\ pc[p] = "control" /\ pc' = [pc EXCEPT ![p] = "sequence"]
        /\ UNCHANGED <<sequence_from_peer, address_from_peer, mem, call,
                       size_from_peer, met>>
    BY <1>3 DEF PostControl, Goto, locals
  <2>3. /\ control_from_peer'[Other(p)] = call[p].size
        /\ control_from_peer'[p] = control_from_peer[p]
    BY <1>3, <2>1 DEF PostControl, StoreControl, MInv, TypeOK
  <2>4. /\ call[p].kind = TransferKind(p)
        /\ call[p].size \in Sizes /\ call[p].buf \in Buffers
        /\ address_from_peer[Other(p)] = Globalise(p, call[p].buf)
    BY <2>2 DEF MInv, Matching, Transfers, Told
  <2> QED
    BY <2>2, <2>3, <2>4, MatchingQuiet
<1>4. ASSUME NEW p \in Peer, ModeMismatch(p) PROVE Matching'
  <2>1. Other(p) \in Peer /\ Other(p) # p
    BY TwoPeers
  <2>2. /\ pc[p] = "idle" /\ pc' = [pc EXCEPT ![p] = "idle"]
        /\ UNCHANGED <<endpointVars, call, size_from_peer, mem>>
        /\ met'[Other(p)] = met[Other(p)]
    BY <1>4, <2>1 DEF ModeMismatch, Return, Goto, MInv, TypeOK
  <2> QED
    BY <2>2, MatchingQuiet DEF endpointVars
<1>5. ASSUME NEW p \in Peer, Calls(p) PROVE Matching'
  <2>1. ~x_sync(p)
    BY DEF x_sync, MatchedTransfers
  <2>2. ASSUME NEW size \in Sizes, NEW buf \in Buffers,
               x_sync_receive(p, size, buf)
        PROVE  Matching'
    <3>1. TransferKind(p) = "x_sync_receive"
      BY <2>2 DEF x_sync_receive, Mode, TransferKind
    <3> QED
      BY <1>2, <2>2, <3>1 DEF x_sync_receive
  <2>3. ASSUME NEW size \in Sizes, NEW buf \in Buffers, NEW data \in Payloads,
               x_sync_send(p, size, buf, data)
        PROVE  Matching'
    <3>1. TransferKind(p) = "x_sync_send"
      BY <2>3 DEF x_sync_send, Mode, TransferKind
    <3> QED
      BY <1>2, <2>3, <3>1 DEF x_sync_send
  <2> QED
    BY <1>4, <1>5, <2>1, <2>2, <2>3 DEF Calls
<1>6. ASSUME NEW p \in Peer, Steps(p) PROVE Matching'
  BY <1>3, <1>6, MatchingPost, MatchingSpinExit, MatchingRead, MatchingCopy,
     MatchingExit DEF Steps
<1> QED
  BY <1>1, <1>5, <1>6 DEF Next

LEMMA MInvInit == Init => MInv
BY TypeInit, LockstepInit, MatchingInit DEF MInv

LEMMA MInvStep == MatchedTransfers => (MInv /\ [Next]_vars => MInv')
BY TypeStep, LockstepStep, MatchingStep DEF MInv

(* A transfer returns only from its second rendezvous.                       *)
LEMMA MatchedReturn ==
    ASSUME MatchedTransfers, MInv, [Next]_vars, NEW p \in Peer, Returns(p)
    PROVE  SecondExit(p) /\ UNCHANGED mem
<1>1. ASSUME SyncRead(p) \/ SendRead(p) \/ ReceiveRead(p) PROVE FALSE
  <2> DEFINE l == IF p = "source" THEN "copy" ELSE "sequence2"
  <2>1. TransferRead(p, NoError, l)
    BY <1>1, MatchedRead
  <2>2. pc'[p] = l /\ l # "idle"
    BY <2>1 DEF TransferRead, Goto, MInv, TypeOK
  <2> QED
    BY <2>2 DEF Returns
<1>2. SecondExit(p)
  BY <1>1, ReturnSteps DEF MInv
<1> QED
  BY <1>2 DEF SecondExit

LEMMA MatchedDeliver ==
    MatchedTransfers => (MInv /\ [Next]_vars => DeliverAction)
<1> SUFFICES ASSUME MatchedTransfers, MInv, [Next]_vars, Returns("sink")
             PROVE  mem'[Deref("sink", call["sink"].buf)] = met["sink"].data
  BY DEF DeliverAction
<1>1. "sink" \in Peer /\ Other("sink") = "source"
  BY DEF Peer, Other
<1>2. SecondExit("sink") /\ UNCHANGED mem
  BY <1>1, MatchedReturn
<1>3. /\ pc["sink"] = "spin2" /\ ~Ahead("source") /\ ~Halfway("source")
  BY <1>1, <1>2, MatchedExit
<1>4. pc["source"] \notin {"spin", "read", "copy"}
  BY <1>3 DEF Halfway, First, Between
<1>5. Target = met["sink"].data
  BY <1>3, <1>4 DEF MInv, Matching, Arrived
<1> QED
  BY <1>2, <1>5 DEF Target

LEMMA MatchedOpen == MatchedTransfers => (MInv /\ [Next]_vars => OpenAction)
<1> SUFFICES ASSUME MatchedTransfers, MInv, [Next]_vars,
                    NEW a \in GlobalAddress, mem'[a] # mem[a]
             PROVE  /\ pc["sink"] \in {"spin", "read", "sequence2", "spin2"}
                    /\ Agreed(call["source"], call["sink"])
                    /\ a = Deref("sink", call["sink"].buf)
  BY DEF OpenAction
<1>1. PICK p \in Peer : CopyData(p)
  BY OnlyCopies
<1>2. /\ p = "source" /\ pc["source"] = "copy"
      /\ pc["sink"] \in {"spin", "read", "sequence2", "spin2"}
      /\ Deref(p, address_from_peer[p]) = Deref("sink", call["sink"].buf)
      /\ Deref("sink", call["sink"].buf) \in GlobalAddress
  BY <1>1, MatchedTarget DEF CopyData
<1>3. mem' = [mem EXCEPT ![Deref("sink", call["sink"].buf)] = call[p].data]
  BY <1>1, <1>2 DEF CopyData
<1>4. /\ call["source"].kind = "x_sync_send" /\ call["source"].size \in Sizes
      /\ call["sink"].kind = "x_sync_receive" /\ call["sink"].size \in Sizes
  BY <1>2 DEF MInv, Matching, Transfers, TransferKind, Peer
<1>5. Agreed(call["source"], call["sink"])
  BY <1>4, SizesAssumption DEF MatchedTransfers, Agreed
<1> QED
  BY <1>2, <1>3, <1>5 DEF MInv, TypeOK

(* Interrupted or not, a receive of the one size that returns has in its     *)
(* buffer what the send it met has sent, and not its successor's data.       *)
THEOREM MatchedDataDelivered == MatchedTransfers => (Spec => DataDelivered)
<1> SUFFICES ASSUME MatchedTransfers PROVE Spec => DataDelivered
  OBVIOUS
<1>1. MInv /\ [Next]_vars => MInv' /\ [DeliverAction]_vars
  BY MInvStep, MatchedDeliver
<1>2. Spec => [][DeliverAction]_vars
  BY <1>1, MInvInit, PTL DEF Spec
<1> QED
  BY <1>2 DEF DataDelivered, DeliverAction

(* Interrupted or not, a sender of the one size only ever stores into the    *)
(* buffer of a receive that is in progress, and that has room for the data.  *)
THEOREM MatchedBuffersOpen == MatchedTransfers => (Spec => OnlyOpenBuffers)
<1> SUFFICES ASSUME MatchedTransfers PROVE Spec => OnlyOpenBuffers
  OBVIOUS
<1>1. MInv /\ [Next]_vars => MInv' /\ [OpenAction]_vars
  BY MInvStep, MatchedOpen
<1>2. Spec => [][OpenAction]_vars
  BY <1>1, MInvInit, PTL DEF Spec
<1> QED
  BY <1>2 DEF OnlyOpenBuffers, OpenAction
=============================================================================
