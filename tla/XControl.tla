------------------------------ MODULE XControl ------------------------------
(***************************************************************************)
(* The host's side of the Epiphany device (x_epiphany_control.c): mapping  *)
(* and unmapping a workgroup with the external memory segments, where any  *)
(* call of the eSDK may fail, and the translation of Epiphany addresses.   *)
(* Every caller passes NULL to x_map_epiphany_resources, so that each      *)
(* mapping gets a structure of its own; Controls bounds their number.      *)
(***************************************************************************)
EXTENDS Integers, FiniteSets

CONSTANTS
  Controls,         \* the x_epiphany_control_t structures calloc can yield
  PlatformRows, PlatformCols,  \* size of the device
  PlatformRow, PlatformCol,    \* core id of its first core
  NumEmems,         \* e_platform.num_emems
  EmemBase,         \* Epiphany address of the shared memory e_alloc maps
  EmemSize,         \* EmemSize[s]: size of external segment s
  CoreSpan,         \* size of a core's slice of the address space (2^20)
  IdCols,           \* core ids per row of the address space (2^6)
  Origins, Extents  \* workgroup origins and sizes the callers ask for

Segments == 0 .. NumEmems - 1

ASSUME ControlAssumption ==
  /\ PlatformRows \in Nat \ {0} /\ PlatformCols \in Nat \ {0}
  /\ PlatformRow \in Nat /\ PlatformCol \in Nat
  /\ NumEmems \in Nat
  /\ EmemBase \in Nat /\ EmemSize \in [Segments -> Nat]
  /\ CoreSpan \in Nat \ {0} /\ IdCols \in Nat \ {0}
  /\ Origins \subseteq Int
  /\ \A i \in Origins : i < PlatformRows /\ i < PlatformCols
  /\ Extents \subseteq Nat

(* External: the memory map of the platform. The columns of the device fit  *)
(* the column part of a core id, no core has the id zero, which marks a     *)
(* local address, and no core's slice overlaps the external memory.         *)
ASSUME MemoryMapAssumption ==
  /\ PlatformCol + PlatformCols <= IdCols
  /\ PlatformRow > 0 \/ PlatformCol > 0
  /\ \A row \in PlatformRow .. PlatformRow + PlatformRows - 1,
        col \in PlatformCol .. PlatformCol + PlatformCols - 1, s \in Segments :
       \/ (row * IdCols + col + 1) * CoreSpan <= EmemBase
       \/ EmemBase + EmemSize[s] <= (row * IdCols + col) * CoreSpan

VARIABLES
  allocated,    \* the structures that have been allocated (none is freed)
  initialized,  \* the field of that name
  num_external_memory_mappings,
  workgroup,    \* the e_epiphany_t: [row, col, rows, cols]
  open,         \* external: structures whose workgroup e_open has mapped
  mapped,       \* external: the segments e_alloc has mapped, per structure
  reported,     \* history: structures whose unmapping returned X_ERROR
  closeRefused, \* history: structures whose e_close has failed
  freeRefused   \* history: the segments whose e_free has failed

controlVars == <<allocated, initialized, num_external_memory_mappings,
                 workgroup, open, mapped, reported, closeRefused, freeRefused>>

Workgroup == [row : Int, col : Int, rows : Int, cols : Int]

TypeOK ==
  /\ allocated \subseteq Controls
  /\ initialized \in [Controls -> BOOLEAN]
  /\ num_external_memory_mappings \in [Controls -> Nat]
  /\ workgroup \in [Controls -> Workgroup]
  /\ open \subseteq Controls
  /\ mapped \in [Controls -> SUBSET Segments]
  /\ reported \subseteq Controls
  /\ closeRefused \subseteq Controls
  /\ freeRefused \in [Controls -> SUBSET Segments]

Init ==
  /\ allocated = {}
  /\ initialized = [c \in Controls |-> FALSE]
  /\ num_external_memory_mappings = [c \in Controls |-> 0]
  /\ workgroup = [c \in Controls |->
                    [row |-> 0, col |-> 0, rows |-> 0, cols |-> 0]]
  /\ open = {}
  /\ mapped = [c \in Controls |-> {}]
  /\ reported = {}
  /\ closeRefused = {}
  /\ freeRefused = [c \in Controls |-> {}]

-----------------------------------------------------------------------------
(* The eSDK calls of a mapping in their order; call number n succeeds if    *)
(* n < fails, so fails = LastCall + 1 is a mapping without a failure.       *)
CALLOC == 0
INFO == 1
OPEN == 2
ALLOC(s) == 3 + s
LastCall == 2 + NumEmems

Trimmed_bug(first, size, platform) ==
  IF first + size > platform + 1 \/ size = 0 THEN platform - first ELSE size

(* A dimension of the workgroup, cut to fit the device.                     *)
Trimmed(first, size, platform) ==
  IF first + size > platform \/ size = 0 THEN platform - first ELSE size

Cleanup_bug(segments, n, fail) ==
  {s \in segments : s >= n - 1 \/ s \in fail}

(* What stays mapped after the best-effort cleanup has tried to free n      *)
(* mappings: nothing looks at the result of its e_free.                     *)
Cleanup(segments, n, fail) ==
  {s \in segments : s >= n \/ s \in fail}

(* A structure for which NULL was passed: with a negative origin nothing is *)
(* done, otherwise it is allocated and the calls are made up to the first   *)
(* that fails. A structure allocated by a failing call is not freed. After  *)
(* a failing e_alloc comes the cleanup, in which e_free fails too for the   *)
(* segments in fail, and e_close unless closes.                             *)
x_map_epiphany_resources(c, first_row, first_col, rows, cols, fails, closes, fail) ==
  LET opened == fails > OPEN
      acquired == {s \in Segments : opened /\ fails > ALLOC(s)}
      n == Cardinality(acquired)
      ok == opened /\ acquired = Segments
      refused == opened /\ ~ok /\ ~closes
  IN
  /\ c \in Controls \ allocated
  /\ first_row >= 0 /\ first_col >= 0 /\ fails > CALLOC
  /\ allocated' = allocated \cup {c}
  /\ workgroup' =
       IF fails > INFO /\ opened
       THEN [workgroup EXCEPT ![c] =
              [row  |-> PlatformRow + first_row,
               col  |-> PlatformCol + first_col,
               rows |-> Trimmed(first_row, rows, PlatformRows),
               cols |-> Trimmed(first_col, cols, PlatformCols)]]
       ELSE workgroup
  /\ num_external_memory_mappings' =
       [num_external_memory_mappings EXCEPT ![c] = @ + n]
  /\ initialized' = [initialized EXCEPT ![c] = ok]
  /\ open' = IF ok \/ refused THEN open \cup {c} ELSE open
  /\ mapped' = [mapped EXCEPT ![c] =
                  IF ok THEN acquired ELSE Cleanup(acquired, n, fail)]
  /\ closeRefused' = IF refused THEN closeRefused \cup {c} ELSE closeRefused
  /\ freeRefused' = [freeRefused EXCEPT ![c] =
                       IF ok THEN @ ELSE @ \cup (acquired \cap fail)]
  /\ UNCHANGED reported

(* What stays mapped when the recorded mappings are freed: the ones whose   *)
(* e_free fails.                                                            *)
Releases(segments, c, fail) ==
  {s \in segments : s >= num_external_memory_mappings[c] \/ s \in fail}

(* The workgroup is closed and, if that succeeds, the mappings are freed.   *)
(* The structure is uninitialised afterwards in any case. (For one that is  *)
(* not initialised the call only returns X_WARNING.)                        *)
x_unmap_epiphany_resources(c, closes, fail) ==
  /\ initialized[c]
  /\ initialized' = [initialized EXCEPT ![c] = FALSE]
  /\ open' = IF closes THEN open \ {c} ELSE open
  /\ mapped' = IF closes
               THEN [mapped EXCEPT ![c] = Releases(@, c, fail)]
               ELSE mapped
  /\ reported' = IF ~closes \/ fail \cap mapped[c] # {}
                 THEN reported \cup {c} ELSE reported
  /\ closeRefused' = IF closes THEN closeRefused ELSE closeRefused \cup {c}
  /\ freeRefused' = [freeRefused EXCEPT ![c] =
                       IF closes THEN @ \cup (fail \cap mapped[c]) ELSE @]
  /\ UNCHANGED <<allocated, num_external_memory_mappings, workgroup>>

Next ==
  \E c \in Controls :
    \E closes \in BOOLEAN, fail \in SUBSET Segments :
      \/ \E r, k \in Origins, rows, cols \in Extents,
            f \in CALLOC .. LastCall + 1 :
           x_map_epiphany_resources(c, r, k, rows, cols, f, closes, fail)
      \/ x_unmap_epiphany_resources(c, closes, fail)

Spec == Init /\ [][Next]_controlVars

-----------------------------------------------------------------------------
(* Address translation. A host address is NULL, a place in a core's memory  *)
(* or a place in the external memory.                                       *)
NULL == [kind |-> "null", row |-> 0, col |-> 0, offset |-> 0]
InCore(row, col, offset) ==
  [kind |-> "core", row |-> row, col |-> col, offset |-> offset]
InEmem(offset) ==
  [kind |-> "emem", row |-> 0, col |-> 0, offset |-> offset]

X_EPIPHANY_ADDRESS_COREID(address) == address \div CoreSpan

OtherCore_bug(wg, address) ==
  LET id == X_EPIPHANY_ADDRESS_COREID(address)
      row == (id \div IdCols) - wg.col
      col == (id % IdCols) - wg.row
  IN IF row \in 0 .. wg.rows - 1 /\ col \in 0 .. wg.cols - 1
     THEN InCore(row, col, address % CoreSpan) ELSE NULL

(* A global address in the internal memory of a core of the workgroup.      *)
OtherCore(wg, address) ==
  LET id == X_EPIPHANY_ADDRESS_COREID(address)
      row == (id \div IdCols) - wg.row
      col == (id % IdCols) - wg.col
  IN IF row \in 0 .. wg.rows - 1 /\ col \in 0 .. wg.cols - 1
     THEN InCore(row, col, address % CoreSpan) ELSE NULL

(* e_alloc can only map the first shared memory, so all mappings have the   *)
(* same Epiphany base and differ in size.                                   *)
InMapping(c, s, address) ==
  address \in EmemBase .. EmemBase + EmemSize[s] - 1

x_epiphany_to_host_address(c, row, col, address) ==
  IF address = 0 THEN NULL
  ELSE IF X_EPIPHANY_ADDRESS_COREID(address) = 0 THEN InCore(row, col, address)
  ELSE IF \E s \in 0 .. num_external_memory_mappings[c] - 1 :
            InMapping(c, s, address)
       THEN InEmem(address - EmemBase)
       ELSE OtherCore(workgroup[c], address)

-----------------------------------------------------------------------------
(* A structure marked as initialised can be used: the workgroup is open,    *)
(* fits the device, and every external segment is mapped and counted.       *)
Usable ==
  \A c \in Controls : initialized[c] =>
    /\ c \in open /\ mapped[c] = Segments
    /\ num_external_memory_mappings[c] = NumEmems
    /\ LET wg == workgroup[c] IN
       /\ wg.row >= PlatformRow
       /\ wg.row + wg.rows <= PlatformRow + PlatformRows
       /\ wg.col >= PlatformCol
       /\ wg.col + wg.cols <= PlatformCol + PlatformCols

(* Whatever call fails, and in whatever state a mapping is given up, all    *)
(* that had been acquired has been offered back: what stays behind is a     *)
(* workgroup whose e_close, or a segment whose e_free, has itself failed;   *)
(* or segments not tried because e_close failed in an unmapping, which then *)
(* has returned X_ERROR.                                                    *)
NothingLeaked ==
  \A c \in Controls : ~initialized[c] =>
    /\ c \in open => c \in closeRefused
    /\ \A s \in mapped[c] : \/ s \in freeRefused[c]
                            \/ c \in closeRefused /\ c \in reported

GlobalAddress(wg, row, col, offset) ==
  ((wg.row + row) * IdCols + wg.col + col) * CoreSpan + offset

(* A word of a core's memory has one host address, whether the core itself  *)
(* names it by a local address or any other core by a global one.           *)
OneHostAddress ==
  \A c \in Controls : initialized[c] =>
    LET wg == workgroup[c]
        Rows == 0 .. wg.rows - 1
        Cols == 0 .. wg.cols - 1
    IN \A row \in Rows, col \in Cols, otherrow \in Rows, othercol \in Cols,
          offset \in 1 .. CoreSpan - 1 :
         x_epiphany_to_host_address(c, row, col, offset) =
           x_epiphany_to_host_address(c, otherrow, othercol,
                               GlobalAddress(wg, row, col, offset))
=============================================================================
