------------------------------- MODULE XCopy --------------------------------
(***************************************************************************)
(* The copying loops of x_sync_send (x-lib/src/x_sync.c).                  *)
(*                                                                         *)
(* The data goes from buf to address_from_peer in accesses of 8, 4 or 1    *)
(* bytes, in unrolled loops.  An Epiphany load or store must be aligned on *)
(* its own width, the peer's buffer must not be overrun, and each byte has *)
(* to arrive at its place.  One step is one pass through a loop body, or   *)
(* the test that leaves the loop.                                          *)
(*                                                                         *)
(* Addresses are natural numbers; the two buffers lie in different         *)
(* memories and do not overlap.                                            *)
(***************************************************************************)
EXTENDS Naturals

CONSTANTS Addresses,         \* where the two buffers may start
          Lengths            \* the transfer sizes

ASSUME AddressesAssumption == Addresses \subseteq Nat
ASSUME LengthsAssumption == Lengths \subseteq Nat \ {0}

VARIABLES
    buf, dest, size,         \* the source, the destination, and the length
    pc,                      \* the loop the sender is in
    src_ptr, dest_ptr,       \* its registers of those names
    written,                 \* destination byte -> the source byte now in it
    width                    \* history: the width of the last accesses

vars == <<buf, dest, size, pc, src_ptr, dest_ptr, written, width>>

after_end_ptr == dest + size
Remaining == after_end_ptr - dest_ptr

(* The bytes that a program copying all of them in order has written when  *)
(* its destination pointer is at d.                                        *)
CopiedTo(d) == [a \in dest .. d - 1 |-> buf + (a - dest)]

PC == {"test", "dwords", "words4", "words", "bytes8", "bytes", "done"}

TypeOK ==
    /\ buf \in Nat /\ dest \in Nat /\ size \in Nat \ {0}
    /\ pc \in PC
    /\ src_ptr \in Nat /\ dest_ptr \in Nat
    /\ width \in {1, 4, 8}

Init ==
    /\ buf \in Addresses /\ dest \in Addresses /\ size \in Lengths
    /\ pc = "test"
    /\ src_ptr = buf /\ dest_ptr = dest
    /\ written = [a \in {} |-> 0]
    /\ width = 1

-----------------------------------------------------------------------------
(* Bit tests on addresses, as arithmetic. *)
WordAligned(a) == a % 4 = 0                   \* (a & 0x3) == 0
OddWord(a) == (a \div 4) % 2 = 1              \* a & 0x4

(* n accesses of w bytes each, at consecutive addresses. *)
Copy(w, n) ==
    /\ written' = [a \in DOMAIN written \cup (dest_ptr .. dest_ptr + w * n - 1) |->
                     IF a < dest_ptr THEN written[a]
                                     ELSE src_ptr + (a - dest_ptr)]
    /\ src_ptr' = src_ptr + w * n
    /\ dest_ptr' = dest_ptr + w * n
    /\ width' = w

(* Variants with a plausible mistake are named ..._bug: see XSync. *)

(* Doublewords as soon as both buffers are word-aligned. *)
DoubleWordsPossible_bug == size >= 32

(* "size >= 32 and both buffers have the same even or odd word alignment" *)
DoubleWordsPossible == size >= 32 /\ (OddWord(src_ptr) <=> OddWord(dest_ptr))

(* The choice of loop; an odd first word is copied on its own. *)
StartCopy ==
    /\ pc = "test"
    /\ \/ /\ WordAligned(buf) /\ WordAligned(dest)
          /\ DoubleWordsPossible
          /\ pc' = "dwords"
          /\ \/ OddWord(dest_ptr) /\ Copy(4, 1)
             \/ ~OddWord(dest_ptr) /\ UNCHANGED <<src_ptr, dest_ptr, written, width>>
       \/ /\ WordAligned(buf) /\ WordAligned(dest)
          /\ ~DoubleWordsPossible
          /\ pc' = "words4"
          /\ UNCHANGED <<src_ptr, dest_ptr, written, width>>
       \/ /\ ~(WordAligned(buf) /\ WordAligned(dest))
          /\ pc' = "bytes8"
          /\ UNCHANGED <<src_ptr, dest_ptr, written, width>>
    /\ UNCHANGED <<buf, dest, size>>

(* while (after_end_ptr - dest_ptr >= w * n) { n accesses of w bytes } *)
LoopPass(l, w, n) ==
    /\ pc = l
    /\ Remaining >= w * n
    /\ Copy(w, n)
    /\ UNCHANGED <<buf, dest, size, pc>>

LoopExit(l, w, n, next) ==
    /\ pc = l
    /\ ~(Remaining >= w * n)
    /\ pc' = next
    /\ UNCHANGED <<buf, dest, size, src_ptr, dest_ptr, written, width>>

(* The bound tested is that of one doubleword, not of the four copied. *)
DoubleWords_bug ==
    \/ /\ pc = "dwords" /\ Remaining >= 8
       /\ Copy(8, 4)
       /\ UNCHANGED <<buf, dest, size, pc>>
    \/ LoopExit("dwords", 8, 1, "words4")

DoubleWords == LoopPass("dwords", 8, 4) \/ LoopExit("dwords", 8, 4, "words4")
Words4      == LoopPass("words4", 4, 4) \/ LoopExit("words4", 4, 4, "words")
Words       == LoopPass("words", 4, 1)  \/ LoopExit("words", 4, 1, "bytes")

(* The unrolled loop is thought to leave nothing over. *)
Bytes8_bug == LoopPass("bytes8", 1, 8) \/ LoopExit("bytes8", 1, 8, "done")

Bytes8      == LoopPass("bytes8", 1, 8) \/ LoopExit("bytes8", 1, 8, "bytes")

(* A pass that forgets to advance the pointers. *)
Bytes_bug ==
    \/ /\ pc = "bytes" /\ Remaining >= 1
       /\ UNCHANGED vars
    \/ LoopExit("bytes", 1, 1, "done")

Bytes       == LoopPass("bytes", 1, 1)  \/ LoopExit("bytes", 1, 1, "done")

Next == StartCopy \/ DoubleWords \/ Words4 \/ Words \/ Bytes8 \/ Bytes

Spec == Init /\ [][Next]_vars
FairSpec == Spec /\ WF_vars(Next)

-----------------------------------------------------------------------------
(* Every load and store of the copying loops is aligned on its own width,   *)
(* as the Epiphany requires, whatever the alignment of the two buffers.     *)
AlignedAccess ==
    [][dest_ptr' # dest_ptr =>
          dest_ptr % width' = 0 /\ src_ptr % width' = 0]_vars

(* At every moment exactly the bytes up to dest_ptr have been written, each *)
(* from its place in the source, and never one beyond the transfer size.    *)
NoOverrun ==
    /\ dest <= dest_ptr /\ dest_ptr <= after_end_ptr
    /\ src_ptr - buf = dest_ptr - dest
    /\ written = CopiedTo(dest_ptr)

(* x_sync_send goes on to the second rendezvous with all of the data copied. *)
CopiesAll == pc = "done" => written = CopiedTo(after_end_ptr)

(* The copying loops end. *)
CopyEnds == <>(pc = "done")
=============================================================================
