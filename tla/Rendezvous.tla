----------------------------- MODULE Rendezvous -----------------------------
(***************************************************************************)
(* What one connection promises its two tasks: a repeatable two-party      *)
(* rendezvous.  A task arrives at its next round and may depart from it    *)
(* only once its peer has arrived at that round too.  The peer need not    *)
(* have departed: it may still be on its way out of the round when the     *)
(* faster task arrives at the following one, but it can never be left two  *)
(* rounds behind.                                                          *)
(*                                                                         *)
(* x_sync is one round of this; a completed transfer is two, the second    *)
(* one telling the receiver that the data is in its buffer.                *)
(***************************************************************************)

CONSTANT Peer                \* the two tasks at the ends of the connection

VARIABLES waiting,           \* the peers that have arrived and not departed
          ahead              \* the peers that have arrived at a round their
                             \* peer has not yet arrived at

vars == <<waiting, ahead>>

TypeOK == waiting \subseteq Peer /\ ahead \subseteq Peer

Init == waiting = {} /\ ahead = {}

(* p arrives: it draws level with a peer that was ahead, or gets ahead. *)
Arrive(p) ==
    /\ p \notin waiting
    /\ waiting' = waiting \cup {p}
    /\ ahead' = IF ahead = {} THEN {p} ELSE {}

(* p departs, which it may not do while its peer has still to arrive. *)
Depart(p) ==
    /\ p \in waiting
    /\ p \notin ahead
    /\ waiting' = waiting \ {p}
    /\ UNCHANGED ahead

Next == \E p \in Peer : Arrive(p) \/ Depart(p)

Spec == Init /\ [][Next]_vars
=============================================================================
