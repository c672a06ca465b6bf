---------------------------- MODULE XCopyProofs -----------------------------
(***************************************************************************)
(* The copying loops of x_sync_send are correct for every pair of buffer   *)
(* addresses and every transfer size.                                      *)
(***************************************************************************)
EXTENDS XCopy, TLAPS

(* What each loop may rely on when it is entered: the doubleword loop that   *)
(* both pointers are doubleword-aligned, the word loops that they are        *)
(* word-aligned, and the end that nothing is left to copy.                   *)
LoopReady ==
    /\ pc = "test" => src_ptr = buf /\ dest_ptr = dest
    /\ pc = "dwords" => src_ptr % 8 = 0 /\ dest_ptr % 8 = 0
    /\ pc \in {"words4", "words"} => src_ptr % 4 = 0 /\ dest_ptr % 4 = 0
    /\ pc = "done" => dest_ptr = after_end_ptr

(* The inductive invariant. *)
IInv == TypeOK /\ NoOverrun /\ LoopReady

LEMMA InitIInv == Init => IInv
<1> SUFFICES ASSUME Init PROVE IInv
  OBVIOUS
<1>1. TypeOK /\ LoopReady
  BY AddressesAssumption, LengthsAssumption DEF Init, TypeOK, PC, LoopReady
<1>2. dest .. dest_ptr - 1 = {}
  BY <1>1 DEF Init, TypeOK
<1>3. written = CopiedTo(dest_ptr)
  BY <1>2 DEF Init, CopiedTo
<1> QED
  BY <1>1, <1>3 DEF IInv, NoOverrun, Init, TypeOK, after_end_ptr

(* Copying k bytes that still fit extends the prefix that has been copied. *)
LEMMA CopyExtends ==
    ASSUME TypeOK, NoOverrun, NEW k \in Nat, dest_ptr + k <= after_end_ptr,
           written' = [a \in DOMAIN written \cup (dest_ptr .. dest_ptr + k - 1) |->
                         IF a < dest_ptr THEN written[a]
                                         ELSE src_ptr + (a - dest_ptr)],
           src_ptr' = src_ptr + k, dest_ptr' = dest_ptr + k,
           UNCHANGED <<buf, dest, size>>
    PROVE  NoOverrun'
<1> USE DEF TypeOK, NoOverrun, after_end_ptr
<1>1. DOMAIN written = dest .. dest_ptr - 1
  BY DEF CopiedTo
<1>2. dest_ptr >= dest
  OBVIOUS
<1>3. DOMAIN written \cup (dest_ptr .. dest_ptr + k - 1)
        = dest .. dest_ptr + k - 1
  BY <1>1, <1>2
<1>4. ASSUME NEW a \in dest .. dest_ptr + k - 1
      PROVE  (IF a < dest_ptr THEN written[a] ELSE src_ptr + (a - dest_ptr))
                = buf + (a - dest)
  BY <1>2 DEF CopiedTo
<1>5. written' = [a \in dest .. dest_ptr + k - 1 |-> buf + (a - dest)]
  BY <1>3, <1>4
<1>6. written' = CopiedTo(dest_ptr)'
  BY <1>5 DEF CopiedTo
<1> QED
  BY <1>6

(* A word-aligned odd word is followed by a doubleword boundary. *)
LEMMA AfterOddWord ==
    ASSUME NEW a \in Nat, WordAligned(a), OddWord(a)
    PROVE  (a + 4) % 8 = 0
BY DEF WordAligned, OddWord

LEMMA StartPreserves == IInv /\ StartCopy => IInv'
<1> SUFFICES ASSUME IInv, StartCopy PROVE IInv'
  OBVIOUS
<1> USE DEF IInv, StartCopy
<1>1. CASE UNCHANGED <<src_ptr, dest_ptr, written, width>>
  <2>1. TypeOK'
    BY <1>1 DEF TypeOK, PC
  <2>2. NoOverrun'
    BY <1>1 DEF NoOverrun, CopiedTo, after_end_ptr
  <2>3. ASSUME pc' = "dwords" PROVE src_ptr % 8 = 0 /\ dest_ptr % 8 = 0
    <3>1. /\ WordAligned(src_ptr) /\ WordAligned(dest_ptr)
          /\ DoubleWordsPossible
      BY <2>3 DEF LoopReady
    <3>2. ~OddWord(dest_ptr)
      BY <1>1, <2>3 DEF Copy, TypeOK
    <3> QED
      BY <3>1, <3>2
         DEF DoubleWordsPossible, WordAligned, OddWord, TypeOK
  <2>4. LoopReady'
    BY <1>1, <2>3 DEF LoopReady, WordAligned
  <2> QED
    BY <2>1, <2>2, <2>4
<1>2. CASE /\ WordAligned(buf) /\ WordAligned(dest)
           /\ DoubleWordsPossible /\ pc' = "dwords"
           /\ OddWord(dest_ptr) /\ Copy(4, 1)
           /\ UNCHANGED <<buf, dest, size>>
  <2>1. TypeOK'
    BY <1>2 DEF Copy, TypeOK, PC
  <2>2. dest_ptr + 4 <= after_end_ptr
    BY <1>2 DEF DoubleWordsPossible, LoopReady, after_end_ptr, TypeOK
  <2>3. NoOverrun'
    BY <1>2, <2>2, CopyExtends DEF Copy
  <2>4. src_ptr' % 8 = 0 /\ dest_ptr' % 8 = 0
    <3>1. /\ WordAligned(src_ptr) /\ OddWord(src_ptr) /\ src_ptr \in Nat
          /\ WordAligned(dest_ptr) /\ OddWord(dest_ptr) /\ dest_ptr \in Nat
      BY <1>2 DEF DoubleWordsPossible, LoopReady, TypeOK
    <3>2. src_ptr' = src_ptr + 4 /\ dest_ptr' = dest_ptr + 4
      BY <1>2 DEF Copy
    <3> QED
      BY <3>1, <3>2, AfterOddWord
  <2> QED
    BY <1>2, <2>1, <2>3, <2>4 DEF LoopReady
<1> QED
  BY <1>1, <1>2

(* A pass through a loop whose body copies k = w * n bytes. *)
LEMMA PassPreserves ==
    ASSUME IInv, NEW l \in PC \ {"test", "done"},
           NEW w \in {1, 4, 8}, NEW n \in {1, 4, 8},
           NEW k \in Nat, k = w * n,
           l = "dwords" => k % 8 = 0,
           l \in {"words4", "words"} => k % 4 = 0,
           LoopPass(l, w, n)
    PROVE  IInv'
<1> USE DEF IInv
<1>1. /\ pc = l /\ pc' = l
      /\ src_ptr' = src_ptr + k /\ dest_ptr' = dest_ptr + k
      /\ UNCHANGED <<buf, dest, size>>
      /\ width' = w
  BY DEF LoopPass, Copy
<1>2. dest_ptr + k <= after_end_ptr
  BY DEF LoopPass, Remaining, TypeOK, after_end_ptr
<1>3. TypeOK'
  BY <1>1 DEF TypeOK, PC
<1>4. NoOverrun'
  BY <1>1, <1>2, CopyExtends DEF LoopPass, Copy
<1>5. LoopReady'
  BY <1>1 DEF LoopReady, TypeOK
<1> QED
  BY <1>3, <1>4, <1>5

(* Leaving a loop for one that asks no more of the pointers. *)
LEMMA ExitPreserves ==
    ASSUME IInv, NEW l \in PC, NEW l2 \in PC \ {"test", "dwords"},
           NEW w, NEW n, LoopExit(l, w, n, l2),
           l2 \in {"words4", "words"} => l \in {"dwords", "words4"},
           l2 = "done" => w * n = 1
    PROVE  IInv'
<1> USE DEF IInv
<1>1. pc = l /\ pc' = l2
      /\ UNCHANGED <<buf, dest, size, src_ptr, dest_ptr, written, width>>
  BY DEF LoopExit
<1>2. TypeOK'
  BY <1>1 DEF TypeOK
<1>3. NoOverrun'
  BY <1>1 DEF NoOverrun, CopiedTo, after_end_ptr
<1>4. l2 = "done" => dest_ptr = after_end_ptr
  BY DEF LoopExit, Remaining, TypeOK, NoOverrun, after_end_ptr
<1>5. LoopReady'
  BY <1>1, <1>4 DEF LoopReady, TypeOK, PC, after_end_ptr
<1> QED
  BY <1>2, <1>3, <1>5

LEMMA NextPreserves == IInv /\ [Next]_vars => IInv'
<1> SUFFICES ASSUME IInv, [Next]_vars PROVE IInv'
  OBVIOUS
<1>1. CASE StartCopy
  BY <1>1, StartPreserves
<1>2. CASE DoubleWords
  <2>1. CASE LoopPass("dwords", 8, 4)
    BY <2>1, PassPreserves, 32 = 8 * 4, 32 % 8 = 0 DEF PC
  <2>2. CASE LoopExit("dwords", 8, 4, "words4")
    BY <2>2, ExitPreserves DEF PC
  <2> QED
    BY <1>2, <2>1, <2>2 DEF DoubleWords
<1>3. CASE Words4
  <2>1. CASE LoopPass("words4", 4, 4)
    BY <2>1, PassPreserves, 16 = 4 * 4, 16 % 4 = 0 DEF PC
  <2>2. CASE LoopExit("words4", 4, 4, "words")
    BY <2>2, ExitPreserves DEF PC
  <2> QED
    BY <1>3, <2>1, <2>2 DEF Words4
<1>4. CASE Words
  <2>1. CASE LoopPass("words", 4, 1)
    BY <2>1, PassPreserves, 4 = 4 * 1, 4 % 4 = 0 DEF PC
  <2>2. CASE LoopExit("words", 4, 1, "bytes")
    BY <2>2, ExitPreserves DEF PC
  <2> QED
    BY <1>4, <2>1, <2>2 DEF Words
<1>5. CASE Bytes8
  <2>1. CASE LoopPass("bytes8", 1, 8)
    BY <2>1, PassPreserves, 8 = 1 * 8 DEF PC
  <2>2. CASE LoopExit("bytes8", 1, 8, "bytes")
    BY <2>2, ExitPreserves DEF PC
  <2> QED
    BY <1>5, <2>1, <2>2 DEF Bytes8
<1>6. CASE Bytes
  <2>1. CASE LoopPass("bytes", 1, 1)
    BY <2>1, PassPreserves, 1 = 1 * 1 DEF PC
  <2>2. CASE LoopExit("bytes", 1, 1, "done")
    BY <2>2, ExitPreserves, 1 * 1 = 1 DEF PC
  <2> QED
    BY <1>6, <2>1, <2>2 DEF Bytes
<1>7. CASE UNCHANGED vars
  BY <1>7 DEF vars, IInv, TypeOK, NoOverrun, LoopReady, CopiedTo, after_end_ptr
<1> QED
  BY <1>1, <1>2, <1>3, <1>4, <1>5, <1>6, <1>7 DEF Next

(* No transfer writes outside the receive buffer, and every byte written is  *)
(* the right one, whatever the addresses and the size.                       *)
THEOREM NeverOverruns == Spec => []NoOverrun
<1>1. IInv => NoOverrun
  BY DEF IInv
<1> QED
  BY <1>1, InitIInv, NextPreserves, PTL DEF Spec

(* When the loops end, all of the data has been copied. *)
THEOREM AlwaysCopiesAll == Spec => []CopiesAll
<1>1. IInv => CopiesAll
  BY DEF IInv, LoopReady, NoOverrun, CopiesAll
<1> QED
  BY <1>1, InitIInv, NextPreserves, PTL DEF Spec

(* Every access is aligned: LoopReady is what each loop's width needs. *)
LEMMA StepAligned ==
    IInv /\ [Next]_vars =>
      (dest_ptr' # dest_ptr => dest_ptr % width' = 0 /\ src_ptr % width' = 0)
<1> SUFFICES ASSUME IInv, [Next]_vars, dest_ptr' # dest_ptr
             PROVE  dest_ptr % width' = 0 /\ src_ptr % width' = 0
  OBVIOUS
<1> USE DEF IInv
<1>1. CASE StartCopy
  <2>1. width' = 4 /\ WordAligned(src_ptr) /\ WordAligned(dest_ptr)
    BY <1>1 DEF StartCopy, Copy, LoopReady
  <2> QED
    BY <2>1 DEF WordAligned
<1>2. CASE DoubleWords
  BY <1>2 DEF DoubleWords, LoopPass, LoopExit, Copy, LoopReady
<1>3. CASE Words4 \/ Words
  BY <1>3 DEF Words4, Words, LoopPass, LoopExit, Copy, LoopReady
<1>4. CASE Bytes8 \/ Bytes
  <2>1. width' = 1
    BY <1>4 DEF Bytes8, Bytes, LoopPass, LoopExit, Copy
  <2> QED
    BY <2>1 DEF TypeOK
<1>5. CASE UNCHANGED vars
  BY <1>5 DEF vars
<1> QED
  BY <1>1, <1>2, <1>3, <1>4, <1>5 DEF Next

(* The Epiphany never sees a misaligned load or store from x_sync_send. *)
THEOREM AlwaysAligned == Spec => AlignedAccess
BY InitIInv, NextPreserves, StepAligned, PTL DEF Spec, AlignedAccess
=============================================================================
