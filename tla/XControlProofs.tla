--------------------------- MODULE XControlProofs ---------------------------
(***************************************************************************)
(* Proofs about XControl: mappings that fail at any call, for any number   *)
(* of external segments, and the translation of addresses for any platform *)
(* whose memory map keeps its parts apart.                                 *)
(***************************************************************************)
EXTENDS XControl, FiniteSetTheorems, TLAPS

(* A structure that has not been allocated has nothing.                     *)
Blank ==
  \A c \in Controls \ allocated :
    ~initialized[c] /\ num_external_memory_mappings[c] = 0 /\ c \notin open

(* The inductive invariant.                                                 *)
CInv == TypeOK /\ Blank /\ Usable /\ NothingLeaked

-----------------------------------------------------------------------------
(* The trimmed workgroup fits the device.                                   *)
LEMMA TrimmedFacts ==
  ASSUME NEW first \in Nat, NEW size \in Nat, NEW platform \in Nat,
         first < platform
  PROVE  /\ Trimmed(first, size, platform) \in Nat \ {0}
         /\ first + Trimmed(first, size, platform) <= platform
BY DEF Trimmed

LEMMA SegmentFacts ==
  /\ NumEmems \in Nat /\ IsFiniteSet(Segments)
  /\ Cardinality(Segments) = NumEmems
<1>1. NumEmems \in Nat
  BY ControlAssumption
<1>2. /\ IsFiniteSet(0 .. NumEmems - 1)
      /\ Cardinality(0 .. NumEmems - 1) =
           IF 0 > NumEmems - 1 THEN 0 ELSE (NumEmems - 1) - 0 + 1
  BY <1>1, FS_Interval
<1> QED
  BY <1>1, <1>2 DEF Segments

(* The segments acquired before the first failing e_alloc are the first     *)
(* ones, so that the cleanup, which counts them, offers back exactly those. *)
LEMMA CleanupFreesAll ==
  ASSUME NEW fails \in Int, NEW fail,
         NEW acquired, acquired = {s \in Segments : fails > ALLOC(s)}
  PROVE  /\ Cardinality(acquired) \in Nat
         /\ Cleanup(acquired, Cardinality(acquired), fail) = acquired \cap fail
         /\ acquired = Segments => Cardinality(acquired) = NumEmems
<1>1. NumEmems \in Nat
  BY SegmentFacts
<1> DEFINE k == IF fails <= 3 THEN 0
                ELSE IF fails - 3 > NumEmems THEN NumEmems ELSE fails - 3
<1>2. k \in Nat
  BY <1>1
<1>3. acquired = 0 .. k - 1
  BY <1>1 DEF Segments, ALLOC
<1> HIDE DEF k
<1>4. Cardinality(acquired) = k
  <2>1. k - 1 \in Int
    BY <1>2
  <2>2. Cardinality(0 .. k - 1) = IF 0 > k - 1 THEN 0 ELSE (k - 1) - 0 + 1
    BY <2>1, FS_Interval
  <2>3. (IF 0 > k - 1 THEN 0 ELSE (k - 1) - 0 + 1) = k
    BY <1>2
  <2> QED
    BY <1>3, <2>2, <2>3
<1>5. Cleanup(acquired, k, fail) = acquired \cap fail
  BY <1>2, <1>3 DEF Cleanup
<1> QED
  BY <1>2, <1>4, <1>5, SegmentFacts

LEMMA ControlInit == Init => CInv
BY DEF Init, CInv, TypeOK, Blank, Usable, NothingLeaked, Workgroup

(* A mapping, whichever of its calls is the first to fail, and whatever     *)
(* fails in its cleanup.                                                    *)
LEMMA MapInv ==
  ASSUME CInv, NEW c \in Controls, NEW r \in Origins, NEW k \in Origins,
         NEW rows \in Extents, NEW cols \in Extents,
         NEW f \in CALLOC .. LastCall + 1,
         NEW closes \in BOOLEAN, NEW fail \in SUBSET Segments,
         x_map_epiphany_resources(c, r, k, rows, cols, f, closes, fail)
  PROVE  CInv'
<1> DEFINE opened == f > OPEN
           acquired == {s \in Segments : opened /\ f > ALLOC(s)}
           n == Cardinality(acquired)
           ok == opened /\ acquired = Segments
           refused == opened /\ ~ok /\ ~closes
           new == [row  |-> PlatformRow + r, col  |-> PlatformCol + k,
                   rows |-> Trimmed(r, rows, PlatformRows),
                   cols |-> Trimmed(k, cols, PlatformCols)]
<1>1. /\ c \in Controls \ allocated /\ r >= 0 /\ k >= 0
      /\ allocated' = allocated \cup {c}
      /\ \/ workgroup' = [workgroup EXCEPT ![c] = new]
         \/ workgroup' = workgroup /\ ~(f > INFO /\ opened)
      /\ num_external_memory_mappings' =
           [num_external_memory_mappings EXCEPT ![c] = @ + n]
      /\ initialized' = [initialized EXCEPT ![c] = ok]
      /\ open' = IF ok \/ refused THEN open \cup {c} ELSE open
      /\ mapped' = [mapped EXCEPT ![c] =
                      IF ok THEN acquired ELSE Cleanup(acquired, n, fail)]
      /\ closeRefused' = IF refused THEN closeRefused \cup {c} ELSE closeRefused
      /\ freeRefused' = [freeRefused EXCEPT ![c] =
                           IF ok THEN @ ELSE @ \cup (acquired \cap fail)]
      /\ UNCHANGED reported
  BY DEF x_map_epiphany_resources
<1>2. /\ r \in Nat /\ k \in Nat /\ rows \in Nat /\ cols \in Nat
      /\ r < PlatformRows /\ k < PlatformCols
      /\ PlatformRows \in Nat /\ PlatformCols \in Nat
      /\ PlatformRow \in Nat /\ PlatformCol \in Nat
  BY <1>1, ControlAssumption
<1>3. f \in Int /\ (opened => f > INFO)
  BY SegmentFacts DEF CALLOC, LastCall, OPEN, INFO
<1>4. /\ new.row = PlatformRow + r /\ new.col = PlatformCol + k
      /\ new.rows = Trimmed(r, rows, PlatformRows)
      /\ new.cols = Trimmed(k, cols, PlatformCols)
      /\ new.rows \in Nat /\ new.cols \in Nat
      /\ r + new.rows <= PlatformRows /\ k + new.cols <= PlatformCols
  BY <1>2, TrimmedFacts
<1>5. new \in Workgroup
  BY <1>2, <1>4 DEF Workgroup
<1>6. /\ n \in Nat /\ Cleanup(acquired, n, fail) = acquired \cap fail
      /\ acquired = Segments => n = NumEmems
  <2>1. CASE opened
    BY <1>3, <2>1, CleanupFreesAll
  <2>2. CASE ~opened
    <3>1. acquired = {} /\ n = 0
      BY <2>2, FS_EmptySet
    <3> QED
      BY <3>1, SegmentFacts, FS_EmptySet DEF Cleanup
  <2> QED
    BY <2>1, <2>2
<1>7. ok \in BOOLEAN /\ acquired \in SUBSET Segments
  OBVIOUS
<1>8. ok => workgroup' = [workgroup EXCEPT ![c] = new]
  BY <1>1, <1>3
<1>9. ok => n = NumEmems /\ acquired = Segments
  BY <1>6
<1> HIDE DEF new, n, ok, acquired, refused
<1>10. TypeOK'
  BY <1>1, <1>5, <1>6, <1>7 DEF CInv, TypeOK
<1>11. /\ initialized'[c] = ok
       /\ mapped'[c] = IF ok THEN Segments ELSE acquired \cap fail
       /\ ~ok => mapped'[c] \subseteq freeRefused'[c]
       /\ num_external_memory_mappings'[c] = n
       /\ ok => workgroup'[c] = new
       /\ \A d \in Controls : d # c =>
            /\ initialized'[d] = initialized[d] /\ mapped'[d] = mapped[d]
            /\ freeRefused'[d] = freeRefused[d]
            /\ num_external_memory_mappings'[d] = num_external_memory_mappings[d]
            /\ workgroup'[d] = workgroup[d]
  BY <1>1, <1>6, <1>8, <1>9 DEF CInv, TypeOK, Blank
<1>12. Blank'
  BY <1>1, <1>11 DEF CInv, Blank
<1>13. Usable'
  <2> SUFFICES ASSUME NEW d \in Controls, initialized'[d]
               PROVE  /\ d \in open' /\ mapped'[d] = Segments
                      /\ num_external_memory_mappings'[d] = NumEmems
                      /\ workgroup'[d].row >= PlatformRow
                      /\ workgroup'[d].row + workgroup'[d].rows
                           <= PlatformRow + PlatformRows
                      /\ workgroup'[d].col >= PlatformCol
                      /\ workgroup'[d].col + workgroup'[d].cols
                           <= PlatformCol + PlatformCols
    BY DEF Usable
  <2>1. CASE d = c
    <3>1. ok
      BY <1>11, <2>1
    <3>2. /\ new.row >= PlatformRow /\ new.col >= PlatformCol
          /\ new.row + new.rows <= PlatformRow + PlatformRows
          /\ new.col + new.cols <= PlatformCol + PlatformCols
      BY <1>2, <1>4
    <3> QED
      BY <1>1, <1>9, <1>11, <2>1, <3>1, <3>2
  <2>2. CASE d # c
    BY <1>1, <1>11, <2>2 DEF CInv, Usable
  <2> QED
    BY <2>1, <2>2
<1>14. NothingLeaked'
  <2> SUFFICES ASSUME NEW d \in Controls, ~initialized'[d]
               PROVE  /\ d \in open' => d \in closeRefused'
                      /\ \A s \in mapped'[d] :
                           \/ s \in freeRefused'[d]
                           \/ d \in closeRefused' /\ d \in reported'
    BY DEF NothingLeaked
  <2>1. CASE d = c
    <3>1. ~ok /\ c \notin open
      BY <1>1, <1>11, <2>1 DEF CInv, Blank
    <3> QED
      BY <1>1, <1>11, <2>1, <3>1
  <2>2. CASE d # c
    BY <1>1, <1>11, <2>2 DEF CInv, NothingLeaked
  <2> QED
    BY <2>1, <2>2
<1> QED
  BY <1>10, <1>12, <1>13, <1>14 DEF CInv

(* An unmapping, whichever of its calls fail.                               *)
LEMMA UnmapInv ==
  ASSUME CInv, NEW c \in Controls, NEW closes \in BOOLEAN,
         NEW fail \in SUBSET Segments,
         x_unmap_epiphany_resources(c, closes, fail)
  PROVE  CInv'
<1>1. /\ initialized[c] /\ initialized' = [initialized EXCEPT ![c] = FALSE]
      /\ open' = IF closes THEN open \ {c} ELSE open
      /\ mapped' = IF closes
                   THEN [mapped EXCEPT ![c] = Releases(mapped[c], c, fail)]
                   ELSE mapped
      /\ reported' = IF ~closes \/ fail \cap mapped[c] # {}
                     THEN reported \cup {c} ELSE reported
      /\ closeRefused' = IF closes THEN closeRefused ELSE closeRefused \cup {c}
      /\ freeRefused' = [freeRefused EXCEPT ![c] =
                           IF closes THEN @ \cup (fail \cap mapped[c]) ELSE @]
      /\ UNCHANGED <<allocated, num_external_memory_mappings, workgroup>>
  BY DEF x_unmap_epiphany_resources
<1>2. mapped[c] = Segments /\ num_external_memory_mappings[c] = NumEmems
  BY <1>1 DEF CInv, Usable
<1>3. Releases(mapped[c], c, fail) = fail
  <2>1. \A s \in Segments : ~(s >= NumEmems)
    BY SegmentFacts DEF Segments
  <2> QED
    BY <1>2, <2>1 DEF Releases
<1>4. TypeOK'
  <2>1. mapped' \in [Controls -> SUBSET Segments]
    BY <1>1, <1>3 DEF CInv, TypeOK
  <2> QED
    BY <1>1, <2>1 DEF CInv, TypeOK
<1>5. /\ ~initialized'[c]
      /\ \A d \in Controls : d # c =>
           /\ initialized'[d] = initialized[d] /\ mapped'[d] = mapped[d]
           /\ freeRefused'[d] = freeRefused[d]
      /\ mapped'[c] = IF closes THEN fail ELSE mapped[c]
      /\ closes => fail \subseteq freeRefused'[c]
  BY <1>1, <1>2, <1>3 DEF CInv, TypeOK
<1>6. Blank'
  BY <1>1, <1>5 DEF CInv, Blank
<1>7. Usable'
  BY <1>1, <1>5 DEF CInv, Usable
<1>8. NothingLeaked'
  <2> SUFFICES ASSUME NEW d \in Controls, ~initialized'[d]
               PROVE  /\ d \in open' => d \in closeRefused'
                      /\ \A s \in mapped'[d] :
                           \/ s \in freeRefused'[d]
                           \/ d \in closeRefused' /\ d \in reported'
    BY DEF NothingLeaked
  <2>1. CASE d = c
    BY <1>1, <1>5, <2>1
  <2>2. CASE d # c
    BY <1>1, <1>5, <2>2 DEF CInv, NothingLeaked
  <2> QED
    BY <2>1, <2>2
<1> QED
  BY <1>4, <1>6, <1>7, <1>8 DEF CInv

LEMMA ControlStep == CInv /\ [Next]_controlVars => CInv'
<1> SUFFICES ASSUME CInv, [Next]_controlVars PROVE CInv'
  OBVIOUS
<1>1. CASE UNCHANGED controlVars
  BY <1>1 DEF controlVars, CInv, TypeOK, Blank, Usable, NothingLeaked
<1>2. CASE Next
  BY <1>2, MapInv, UnmapInv DEF Next
<1> QED
  BY <1>1, <1>2

-----------------------------------------------------------------------------
(* Quotient and remainder of a number that is put together from them.       *)
LEMMA DivMod ==
  ASSUME NEW a \in Nat, NEW b \in Nat \ {0}, NEW r \in 0 .. b - 1
  PROVE  (a * b + r) \div b = a /\ (a * b + r) % b = r
OBVIOUS

LEMMA NatProduct == ASSUME NEW a \in Nat, NEW b \in Nat PROVE a * b \in Nat
OBVIOUS

LEMMA ProductMonotone ==
  ASSUME NEW a \in Nat, NEW b \in Nat, NEW k \in Nat, a <= b
  PROVE  a * k <= b * k
OBVIOUS

(* A global address is translated to the place that it names.               *)
LEMMA GlobalTranslated ==
  ASSUME CInv, NEW c \in Controls, initialized[c],
         NEW row \in 0 .. workgroup[c].rows - 1,
         NEW col \in 0 .. workgroup[c].cols - 1,
         NEW orow, NEW ocol, NEW offset \in 1 .. CoreSpan - 1
  PROVE  x_epiphany_to_host_address(c, orow, ocol,
           GlobalAddress(workgroup[c], row, col, offset))
         = InCore(row, col, offset)
<1> DEFINE wg == workgroup[c]
           r == wg.row + row
           k == wg.col + col
           id == r * IdCols + k
           address == id * CoreSpan + offset
<1>1. /\ PlatformRows \in Nat /\ PlatformCols \in Nat
      /\ PlatformRow \in Nat /\ PlatformCol \in Nat
      /\ CoreSpan \in Nat \ {0} /\ IdCols \in Nat \ {0} /\ EmemBase \in Nat
      /\ EmemSize \in [Segments -> Nat]
      /\ PlatformCol + PlatformCols <= IdCols
      /\ PlatformRow > 0 \/ PlatformCol > 0
  BY ControlAssumption, MemoryMapAssumption
<1>2. wg \in Workgroup
  BY DEF CInv, TypeOK
<1>3. /\ wg.row \in Int /\ wg.col \in Int /\ wg.rows \in Int /\ wg.cols \in Int
  BY <1>2 DEF Workgroup
<1>4. /\ wg.row >= PlatformRow /\ wg.row + wg.rows <= PlatformRow + PlatformRows
      /\ wg.col >= PlatformCol /\ wg.col + wg.cols <= PlatformCol + PlatformCols
      /\ num_external_memory_mappings[c] = NumEmems
  BY DEF CInv, Usable
<1>5. row \in Nat /\ col \in Nat /\ row < wg.rows /\ col < wg.cols
  BY <1>3
<1> HIDE DEF wg
<1>6. /\ r \in PlatformRow .. PlatformRow + PlatformRows - 1
      /\ k \in PlatformCol .. PlatformCol + PlatformCols - 1
      /\ r \in Nat /\ k \in Nat /\ k \in 0 .. IdCols - 1
      /\ r > 0 \/ k > 0
      /\ r - wg.row = row /\ k - wg.col = col
  BY <1>1, <1>3, <1>4, <1>5
<1> HIDE DEF r, k
<1>7. r * IdCols \in Nat /\ id \in Nat
  BY <1>1, <1>6, NatProduct
<1>8. id # 0
  <2>1. CASE k > 0
    BY <1>6, <1>7, <2>1
  <2>2. CASE r > 0
    <3>1. 1 * IdCols <= r * IdCols
      BY <1>1, <1>6, <2>2, ProductMonotone
    <3> QED
      BY <1>1, <1>6, <1>7, <3>1
  <2> QED
    BY <1>6, <2>1, <2>2
<1>9. id \div IdCols = r /\ id % IdCols = k
  BY <1>1, <1>6, DivMod
<1>10. /\ \A s \in Segments : (id + 1) * CoreSpan <= EmemBase
                              \/ EmemBase + EmemSize[s] <= id * CoreSpan
  BY <1>6, MemoryMapAssumption
<1> HIDE DEF id
<1>11. offset \in 0 .. CoreSpan - 1 /\ offset \in Nat /\ offset > 0
  BY <1>1
<1>12. address \div CoreSpan = id /\ address % CoreSpan = offset
  BY <1>1, <1>7, <1>11, DivMod
<1>13. id * CoreSpan \in Nat /\ address \in Nat /\ address # 0
  BY <1>1, <1>7, <1>11, NatProduct
<1>14. (id + 1) * CoreSpan = id * CoreSpan + CoreSpan
  BY <1>1, <1>7
<1>15. ~ \E s \in 0 .. num_external_memory_mappings[c] - 1 :
            InMapping(c, s, address)
  <2> SUFFICES ASSUME NEW s \in Segments, InMapping(c, s, address)
               PROVE  FALSE
    BY <1>4 DEF Segments
  <2>1. EmemSize[s] \in Nat
    BY <1>1
  <2>2. address >= EmemBase /\ address < EmemBase + EmemSize[s]
    BY <1>1, <1>13, <2>1 DEF InMapping
  <2>3. address < id * CoreSpan + CoreSpan /\ address >= id * CoreSpan
    BY <1>1, <1>11, <1>13
  <2> HIDE DEF address
  <2>4. CASE (id + 1) * CoreSpan <= EmemBase
    BY <1>1, <1>13, <1>14, <2>2, <2>3, <2>4
  <2>5. CASE EmemBase + EmemSize[s] <= id * CoreSpan
    BY <1>1, <1>13, <2>1, <2>2, <2>3, <2>5
  <2> QED
    BY <1>10, <2>4, <2>5
<1>16. GlobalAddress(workgroup[c], row, col, offset) = address
  BY <1>3, <1>5, <1>6, <1>7 DEF GlobalAddress, wg, id, r, k
<1> HIDE DEF address
<1>17. OtherCore(workgroup[c], address) = InCore(row, col, offset)
  BY <1>3, <1>5, <1>6, <1>9, <1>12
     DEF OtherCore, X_EPIPHANY_ADDRESS_COREID, wg
<1> QED
  BY <1>8, <1>12, <1>13, <1>15, <1>16, <1>17
     DEF x_epiphany_to_host_address, X_EPIPHANY_ADDRESS_COREID

LEMMA TranslationAgrees == CInv => OneHostAddress
<1> SUFFICES ASSUME CInv, NEW c \in Controls, initialized[c],
                    NEW row \in 0 .. workgroup[c].rows - 1,
                    NEW col \in 0 .. workgroup[c].cols - 1,
                    NEW orow \in 0 .. workgroup[c].rows - 1,
                    NEW ocol \in 0 .. workgroup[c].cols - 1,
                    NEW offset \in 1 .. CoreSpan - 1
             PROVE  x_epiphany_to_host_address(c, row, col, offset) =
                    x_epiphany_to_host_address(c, orow, ocol,
                      GlobalAddress(workgroup[c], row, col, offset))
  BY DEF OneHostAddress
<1>1. CoreSpan \in Nat \ {0} /\ offset \in Nat /\ offset < CoreSpan
      /\ offset # 0
  BY ControlAssumption
<1>2. offset \div CoreSpan = 0
  BY <1>1
<1>3. x_epiphany_to_host_address(c, row, col, offset) = InCore(row, col, offset)
  BY <1>1, <1>2 DEF x_epiphany_to_host_address, X_EPIPHANY_ADDRESS_COREID
<1> QED
  BY <1>3, GlobalTranslated

-----------------------------------------------------------------------------
(* A structure marked as initialised can be used, for every device, every   *)
(* workgroup asked for and every call of the eSDK that fails.               *)
THEOREM InitializedIsUsable == Spec => []Usable
<1>1. CInv => Usable
  BY DEF CInv
<1> QED
  BY <1>1, ControlInit, ControlStep, PTL DEF Spec

(* A mapping or unmapping that fails at any call, its cleanup included,     *)
(* leaves nothing mapped that it has not tried to give back, unless it has  *)
(* returned X_ERROR, for any number of external segments.                   *)
THEOREM NothingStaysMapped == Spec => []NothingLeaked
<1>1. CInv => NothingLeaked
  BY DEF CInv
<1> QED
  BY <1>1, ControlInit, ControlStep, PTL DEF Spec

(* Local and global addresses of a word are translated alike, on every      *)
(* platform whose memory map keeps cores and external memory apart.         *)
THEOREM TranslationIsUnique == Spec => []OneHostAddress
BY TranslationAgrees, ControlInit, ControlStep, PTL DEF Spec
=============================================================================
