------------------------- MODULE XApplicationProofs -------------------------
(***************************************************************************)
(* Working memory: for every size of memory, of structures and of the      *)
(* workgroup, blocks never overlap unless memory ran out. And the launch.  *)
(***************************************************************************)
EXTENDS XApplication, TLAPS

-----------------------------------------------------------------------------
(* Arithmetic.                                                              *)

(* A product of natural numbers is one.                                     *)
LEMMA Product == \A a, b \in Nat : a * b \in Nat
  OBVIOUS

(* AlignDown goes down, and to a multiple of Align.                         *)
LEMMA AlignDownFacts ==
  ASSUME NEW a \in Int
  PROVE  /\ AlignDown(a) \in Int /\ AlignDown(a) <= a
         /\ AlignDown(a) % Align = 0
<1>1. Align \in Nat \ {0}
  BY ApplicationAssumption
<1>2. a % Align \in 0 .. Align - 1 /\ a \div Align \in Int
  BY <1>1
<1>3. a = Align * (a \div Align) + (a % Align)
  BY <1>1, Z3
<1>4. (Align * (a \div Align)) % Align = 0
  BY <1>1, <1>2, Z3
<1>5. QED
  BY <1>1, <1>2, <1>3, <1>4 DEF AlignDown

(* What xawm_allocz returns; if the block fits it ends where the memory     *)
(* still available ended.                                                   *)
LEMMA AllocFacts ==
  ASSUME NEW end \in Int, NEW size \in Nat
  PROVE  /\ xawm_alloc(end, size) \in Int
         /\ Fits(end, size) \in BOOLEAN
         /\ Fits(end, size) => /\ xawm_alloc(end, size) >= MemStart
                               /\ xawm_alloc(end, size) + size <= end
                               /\ xawm_alloc(end, size) % Align = 0
<1>1. end - size \in Int
  OBVIOUS
<1>2. /\ AlignDown(end - size) \in Int /\ AlignDown(end - size) <= end - size
      /\ AlignDown(end - size) % Align = 0
  BY <1>1, AlignDownFacts
<1>3. MemStart \in Nat
  BY ApplicationAssumption
<1>4. QED
  BY <1>2, <1>3 DEF xawm_alloc, Fits

-----------------------------------------------------------------------------
(* The inductive invariant. Where the loops are in the workgroup:           *)
Shape ==
  /\ x_application = "valid" =>
       <<workgroup_rows, workgroup_columns>> \in Workgroups
  /\ pc \in MeshPhases \cup LaunchPhases => x_application = "valid"
  /\ pc = "indexes" => slot \in Slots
  /\ pc \in {"count", "load", "start"} => slot \in Members

(* All blocks lie above the memory that is still available.                 *)
Room ==
  /\ \A b \in blocks : b.start \in Int /\ b.size \in Nat
  /\ ~exhausted => /\ available_working_memory_end <= MemEnd
                   /\ \A b \in blocks : b.start >= available_working_memory_end

IInv == TypeOK /\ Shape /\ Room /\ Exclusive

(* The sizes of the workgroup.                                              *)
LEMMA Dimensions ==
  ASSUME NEW w \in Workgroups
  PROVE  /\ w[1] \in Nat \ {0} /\ w[2] \in Nat \ {0}
         /\ w[1] * w[2] \in Nat \ {0}
         /\ w[1] * w[2] + HostSlots \in Nat
         /\ 0 .. w[1] * w[2] + HostSlots - 1 \subseteq AllSlots
<1>1. w \in (Nat \ {0}) \X (Nat \ {0}) /\ HostSlots \in Nat \ {0}
  BY ApplicationAssumption
<1>2. w[1] \in Nat \ {0} /\ w[2] \in Nat \ {0}
  BY <1>1
<1>3. w[1] * w[2] \in Nat /\ w[1] * w[2] # 0
  BY <1>2, Product, Z3
<1>4. 0 .. w[1] * w[2] + HostSlots - 1 \subseteq AllSlots
  BY DEF AllSlots
<1>5. QED
  BY <1>1, <1>2, <1>3, <1>4

(* The same of the workgroup that has been mapped.                          *)
LEMMA SlotsFacts ==
  ASSUME Shape, TypeOK, x_application = "valid"
  PROVE  /\ workgroup_rows \in Nat \ {0} /\ workgroup_columns \in Nat \ {0}
         /\ workgroup_size \in Nat \ {0}
         /\ HostSlots \in Nat \ {0}
         /\ Members \subseteq Slots /\ Slots \subseteq AllSlots
         /\ 0 \in Members /\ 0 \in Slots
<1> DEFINE w == <<workgroup_rows, workgroup_columns>>
<1>1. w \in Workgroups /\ w[1] = workgroup_rows /\ w[2] = workgroup_columns
  BY DEF Shape
<1>2. HostSlots \in Nat \ {0}
  BY ApplicationAssumption
<1> HIDE DEF w
<1>3. /\ w[1] \in Nat \ {0} /\ w[2] \in Nat \ {0}
      /\ w[1] * w[2] \in Nat \ {0}
      /\ 0 .. w[1] * w[2] + HostSlots - 1 \subseteq AllSlots
  BY <1>1, Dimensions
<1>4. workgroup_size \in Nat \ {0} /\ Slots \subseteq AllSlots
  BY <1>1, <1>3 DEF workgroup_size, Slots
<1>5. Members \subseteq Slots /\ 0 \in Members /\ 0 \in Slots
  BY <1>2, <1>4 DEF Members, Slots
<1>6. QED
  BY <1>1, <1>2, <1>3, <1>4, <1>5

(* One allocation keeps the blocks apart.                                   *)
LEMMA AllocateKeeps ==
  ASSUME TypeOK, Room, Exclusive, ~exhausted,
         NEW owner, NEW size \in Nat, Allocate(owner, size)
  PROVE  /\ available_working_memory_end' \in Int /\ exhausted' \in BOOLEAN
         /\ Room' /\ Exclusive'
<1> DEFINE end == available_working_memory_end
           new == [owner |-> owner, start |-> xawm_alloc(end, size), size |-> size]
<1>1. end \in Int /\ MemEnd \in Int /\ MemStart \in Nat
  BY ApplicationAssumption DEF TypeOK, MemoryType, MemEnd
<1>2. /\ end' = xawm_alloc(end, size) /\ exhausted' = ~Fits(end, size)
      /\ blocks' = blocks \cup {new}
  BY DEF Allocate, Block
<1>3. /\ xawm_alloc(end, size) \in Int
      /\ Fits(end, size) \in BOOLEAN
      /\ Fits(end, size) => /\ xawm_alloc(end, size) >= MemStart
                            /\ xawm_alloc(end, size) + size <= end
                            /\ xawm_alloc(end, size) % Align = 0
  BY <1>1, AllocFacts
<1>4. new.start = xawm_alloc(end, size) /\ new.size = size
  OBVIOUS
<1>5. MemEnd' = MemEnd
  BY DEF MemEnd
<1> HIDE DEF new
<1>6. /\ end <= MemEnd
      /\ \A b \in blocks : /\ b.start \in Int /\ b.size \in Nat
                            /\ b.start >= end
                            /\ b.start % Align = 0 /\ b.start >= MemStart
                            /\ b.start + b.size <= MemEnd
      /\ \A b, c \in blocks : b # c => \/ b.start + b.size <= c.start
                                       \/ c.start + c.size <= b.start
  BY DEF Room, Exclusive
<1>7. Room'
  <2>1. \A b \in blocks' : b.start \in Int /\ b.size \in Nat
    BY <1>2, <1>3, <1>4, <1>6
  <2>2. ASSUME ~exhausted'
        PROVE  end' <= MemEnd /\ \A b \in blocks' : b.start >= end'
    <3>1. Fits(end, size)
      BY <2>2, <1>2, <1>3
    <3>2. xawm_alloc(end, size) <= end
      BY <3>1, <1>1, <1>3
    <3>3. QED
      BY <3>2, <1>1, <1>2, <1>3, <1>4, <1>6
  <2>3. QED
    BY <2>1, <2>2, <1>5 DEF Room
<1>8. Exclusive'
  <2>1. SUFFICES ASSUME ~exhausted'
                 PROVE  /\ \A b \in blocks' : /\ b.start % Align = 0
                                               /\ b.start >= MemStart
                                               /\ b.start + b.size <= MemEnd
                        /\ \A b, c \in blocks' : b # c =>
                              \/ b.start + b.size <= c.start
                              \/ c.start + c.size <= b.start
    BY <1>5 DEF Exclusive
  <2>2. /\ new.start >= MemStart /\ new.start + size <= end
        /\ new.start % Align = 0
    BY <2>1, <1>2, <1>3, <1>4
  <2>3. \A b \in blocks' : /\ b.start % Align = 0
                           /\ b.start >= MemStart
                           /\ b.start + b.size <= MemEnd
    BY <2>2, <1>1, <1>2, <1>3, <1>4, <1>6
  <2>4. \A b \in blocks : new.start + new.size <= b.start
    BY <2>2, <1>1, <1>3, <1>4, <1>6
  <2>5. QED
    BY <2>3, <2>4, <1>2, <1>6
<1>9. QED
  BY <1>2, <1>3, <1>7, <1>8

(* Steps that leave working memory alone.                                   *)
LEMMA MemoryUnchanged ==
  ASSUME Room, Exclusive, UNCHANGED memory
  PROVE  Room' /\ Exclusive'
BY DEF Room, Exclusive, memory, MemEnd

(* The parts of the type invariant that a step leaves alone.                *)
LEMMA TypesUnchanged ==
  ASSUME TypeOK
  PROVE  /\ UNCHANGED app => AppType'
         /\ UNCHANGED memory => MemoryType'
         /\ UNCHANGED descriptors => DescriptorsType'
         /\ UNCHANGED shared => SharedType'
         /\ UNCHANGED lists => ListsType'
         /\ UNCHANGED cores => CoresType'
         /\ UNCHANGED history => HistoryType'
<1>1. UNCHANGED app => AppType'
  BY DEF TypeOK, AppType, app
<1>2. UNCHANGED memory => MemoryType'
  BY DEF TypeOK, MemoryType, memory
<1>3. UNCHANGED descriptors => DescriptorsType'
  BY DEF TypeOK, DescriptorsType, descriptors
<1>4. UNCHANGED shared => SharedType'
  BY DEF TypeOK, SharedType, shared
<1>5. UNCHANGED lists => ListsType'
  BY DEF TypeOK, ListsType, lists
<1>6. UNCHANGED cores => CoresType'
  BY DEF TypeOK, CoresType, cores
<1>7. UNCHANGED history => HistoryType'
  BY DEF TypeOK, HistoryType, history
<1>8. QED
  BY <1>1, <1>2, <1>3, <1>4, <1>5, <1>6, <1>7

(* Slots and Members while the workgroup stays the same.                    *)
LEMMA SlotsUnchanged ==
  ASSUME UNCHANGED app
  PROVE  Slots' = Slots /\ Members' = Members /\ workgroup_size' = workgroup_size
BY DEF app, Slots, Members, workgroup_size

-----------------------------------------------------------------------------
(* xc_add_task_endpoint keeps the type of the index.                        *)
LEMMA AddType ==
  ASSUME NEW f \in [AllSlots -> Seq(Nat)], NEW t, NEW n \in Nat
  PROVE  [f EXCEPT ![t] = Append(@, n)] \in [AllSlots -> Seq(Nat)]
<1>1. CASE t \in AllSlots
  <2>1. Append(f[t], n) \in Seq(Nat)
    <3>1. f[t] \in Seq(Nat)
      BY <1>1
    <3>2. QED
      BY <3>1
  <2>2. QED
    BY <1>1, <2>1
<1>2. CASE t \notin AllSlots
  BY <1>2
<1>3. QED
  BY <1>1, <1>2

(* The lists stay lists when a connection is added.                         *)
LEMMA ConnectType ==
  ASSUME TypeOK, NEW c \in Connection, NEW cf \in BOOLEAN, NEW lucky \in BOOLEAN
  PROVE  /\ xc_connect_by_task_id(Lists, c, cf, lucky).master \in Seq(Connection)
         /\ xc_connect_by_task_id(Lists, c, cf, lucky).index \in
              [AllSlots -> Seq(Nat)]
<1> DEFINE n == Len(master) + 1
           x == [index EXCEPT ![c.source_task] = Append(@, n)]
           y == [x EXCEPT ![c.sink_task] = Append(@, n)]
           added == [master |-> Append(master, c), index |-> y,
                     result |-> "X_SUCCESS"]
           refused == [Lists EXCEPT !.result = "X_ERROR"]
<1>1. master \in Seq(Connection) /\ index \in [AllSlots -> Seq(Nat)]
  BY DEF TypeOK, ListsType
<1>2. n \in Nat
  BY <1>1
<1> HIDE DEF n
<1>3. x \in [AllSlots -> Seq(Nat)]
  BY <1>1, <1>2, AddType
<1> HIDE DEF x
<1>4. y \in [AllSlots -> Seq(Nat)]
  BY <1>2, <1>3, AddType
<1>5. Append(master, c) \in Seq(Connection)
  BY <1>1
<1>6. refused.master = master /\ refused.index = index
  BY DEF Lists
<1>7. added.master = Append(master, c) /\ added.index = y
  OBVIOUS
<1>8. \/ xc_connect_by_task_id(Lists, c, cf, lucky) = added
      \/ xc_connect_by_task_id(Lists, c, cf, lucky) = refused
  BY DEF xc_connect_by_task_id, xc_add_task_endpoint, Lists, n, x
<1> HIDE DEF added, refused
<1>9. QED
  BY <1>1, <1>4, <1>5, <1>6, <1>7, <1>8

(* The connections of a mesh are connections.                               *)
LEMMA MeshConnectionType ==
  ASSUME TypeOK, workgroup_rows # 0, workgroup_columns # 0
  PROVE  xc_connect_by_workgroup_coords(Row(slot), Col(slot), Side(slot))
           \in Connection
<1>1. /\ workgroup_rows \in Nat \ {0} /\ workgroup_columns \in Nat \ {0}
      /\ slot \in Nat
  BY DEF TypeOK, AppType, LoopType
<1>2. slot \div 4 \in Nat /\ slot % 4 \in 0 .. 3
  BY <1>1
<1>3. Row(slot) \in Int /\ Col(slot) \in Int
  BY <1>1, <1>2 DEF Row, Col
<1>4. /\ Side(slot).down \in Int /\ Side(slot).right \in Int
      /\ Side(slot).to \in MeshKeys /\ Side(slot).from \in MeshKeys
  <2>1. (slot % 4) + 1 \in {1, 2, 3, 4}
    BY <1>2
  <2>2. QED
    BY <2>1 DEF Side, Directions, MeshKeys
<1>5. \A r, k \in Int : x_workgroup_member_task(r, k) \in Int
  BY <1>1 DEF x_workgroup_member_task, X_NULL_TASK
<1>6. /\ (Row(slot) + Side(slot).down + workgroup_rows) % workgroup_rows \in Int
      /\ (Col(slot) + Side(slot).right + workgroup_columns) % workgroup_columns
           \in Int
  BY <1>1, <1>3, <1>4
<1>7. QED
  BY <1>3, <1>4, <1>5, <1>6 DEF xc_connect_by_workgroup_coords, Connection

-----------------------------------------------------------------------------
(* The invariant holds initially.                                           *)
LEMMA InitInv == Init => IInv
<1> SUFFICES ASSUME Init PROVE IInv
  OBVIOUS
<1>1. MemEnd \in Int
  BY ApplicationAssumption DEF MemEnd
<1>2. TypeOK
  <2>1. ListsType
    <3>1. <<>> \in Seq(Connection) /\ <<>> \in Seq(Nat)
      OBVIOUS
    <3>2. QED
      BY <3>1 DEF Init, ListsType
  <2>2. AppType /\ FlagsType
    BY DEF Init, AppType, FlagsType
  <2>3. DescriptorsType /\ SharedType
    BY DEF Init, DescriptorsType, SharedType
  <2>4. MemoryType /\ LoopType /\ CoresType /\ HistoryType
    BY <1>1 DEF Init, MemoryType, LoopType, CoresType, HistoryType
  <2>5. QED
    BY <2>1, <2>2, <2>3, <2>4 DEF TypeOK
<1>3. Shape
  BY DEF Init, Shape, MeshPhases, LaunchPhases
<1>4. Room /\ Exclusive
  BY <1>1 DEF Init, Room, Exclusive
<1>5. QED
  BY <1>2, <1>3, <1>4 DEF IInv

-----------------------------------------------------------------------------
(* A loop goes to its next iteration or to the next phase.                  *)
LEMMA IterateFacts ==
  ASSUME NEW n, NEW phase, Iterate(n, phase)
  PROVE  \/ slot + 1 < n /\ slot' = slot + 1 /\ pc' = pc
         \/ slot' = 0 /\ pc' = phase
BY DEF Iterate

(* Steps of a loop over the members keep Shape.                             *)
LEMMA MemberLoop ==
  ASSUME TypeOK, Shape, x_application = "valid", UNCHANGED app,
         pc \in {"count", "load", "start"},
         NEW phase \in {"load", "start", "return"},
         Iterate(workgroup_size, phase)
  PROVE  Shape' /\ slot' \in Nat /\ pc' \in LaunchPhases
<1>1. workgroup_size \in Nat \ {0} /\ Members = 0 .. workgroup_size - 1
  BY SlotsFacts DEF Members
<1>2. slot \in Nat /\ 0 \in Members
  BY SlotsFacts DEF TypeOK, LoopType
<1>3. /\ slot' \in Members
      /\ pc' \in {"count", "load", "start", "return"}
  <2>1. CASE slot + 1 < workgroup_size /\ slot' = slot + 1 /\ pc' = pc
    BY <1>1, <1>2, <2>1
  <2>2. CASE slot' = 0 /\ pc' = phase
    BY <1>2, <2>2
  <2>3. QED
    BY <2>1, <2>2, IterateFacts
<1>4. slot' \in Nat
  BY <1>1, <1>3
<1>5. QED
  BY <1>3, <1>4, SlotsUnchanged DEF Shape, LaunchPhases, MeshPhases, app

(* Each action keeps the invariant. Initialisation.                         *)
LEMMA InitializeInv ==
  ASSUME IInv, NEW w \in Workgroups, NEW named \in BOOLEAN,
         x_initialize_application(w, named)
  PROVE  IInv'
<1> USE DEF IInv
<1> DEFINE tsize == (w[1] * w[2] + HostSlots) * DescriptorSize
           table == xawm_alloc(MemEnd, tsize)
           name == xawm_alloc(table, CallerNameSize)
           tb == [owner |-> <<"table", 0>>, start |-> table, size |-> tsize]
           nb == [owner |-> <<"caller", 0>>, start |-> name,
                  size |-> CallerNameSize]
<1>1. /\ w[1] \in Nat \ {0} /\ w[2] \in Nat \ {0}
      /\ w[1] * w[2] + HostSlots \in Nat
      /\ w = <<w[1], w[2]>>
  BY Dimensions, ApplicationAssumption
<1>2. /\ MemEnd \in Int /\ MemEnd' = MemEnd /\ tsize \in Nat
      /\ CallerNameSize \in Nat /\ MemStart \in Nat
  BY <1>1, Product, ApplicationAssumption DEF MemEnd
<1> HIDE DEF tsize
<1>3. /\ table \in Int
      /\ Fits(MemEnd, tsize) \in BOOLEAN
      /\ Fits(MemEnd, tsize) => /\ table >= MemStart
                                /\ table + tsize <= MemEnd
                                /\ table % Align = 0
  BY <1>2, AllocFacts
<1> HIDE DEF table
<1>4. /\ name \in Int
      /\ Fits(table, CallerNameSize) \in BOOLEAN
      /\ Fits(table, CallerNameSize) => /\ name >= MemStart
                                        /\ name + CallerNameSize <= table
                                        /\ name % Align = 0
  BY <1>2, <1>3, AllocFacts
<1> HIDE DEF name
<1>5. /\ available_working_memory_end' = IF named THEN name ELSE table
      /\ blocks' = {tb} \cup {nb : n \in {TRUE} \cap {named}}
      /\ exhausted' = \/ ~Fits(MemEnd, tsize)
                      \/ named /\ ~Fits(table, CallerNameSize)
  BY DEF x_initialize_application, Block, tsize, table, name
<1>6. /\ tb.start = table /\ tb.size = tsize
      /\ nb.start = name /\ nb.size = CallerNameSize
  OBVIOUS
<1>7. blocks' \subseteq {tb, nb} /\ (tb # nb /\ nb \in blocks' => named)
  BY <1>5
<1> HIDE DEF tb, nb
<1>8. TypeOK'
  <2>1. DescriptorsType'
    BY <1>4 DEF x_initialize_application, DescriptorsType, table, name, tsize
  <2>2. MemoryType'
    BY <1>3, <1>4, <1>5 DEF MemoryType
  <2>3. AppType' /\ CoresType'
    BY <1>1 DEF x_initialize_application, AppType, CoresType
  <2>4. SharedType' /\ ListsType' /\ HistoryType'
    BY TypesUnchanged DEF x_initialize_application
  <2>5. LoopType' /\ FlagsType'
    BY DEF x_initialize_application, TypeOK, LoopType, FlagsType, launch
  <2>6. QED
    BY <2>1, <2>2, <2>3, <2>4, <2>5 DEF TypeOK
<1>9. Shape'
  BY <1>1 DEF x_initialize_application, Idle, Shape, MeshPhases, LaunchPhases
<1>10. Room'
  BY <1>2, <1>3, <1>4, <1>5, <1>6, <1>7 DEF Room
<1>11. Exclusive'
  BY <1>2, <1>3, <1>4, <1>5, <1>6, <1>7 DEF Exclusive
<1>12. QED
  BY <1>8, <1>9, <1>10, <1>11

(* Connections made by the caller.                                          *)
LEMMA ConnectInv ==
  ASSUME IInv, NEW a \in Tasks, NEW b \in Tasks, NEW ak \in Keys, NEW bk \in Keys,
         NEW lucky \in Luck, x_connect_tasks(a, ak, b, bk, lucky)
  PROVE  IInv'
<1> USE DEF IInv
<1> DEFINE c == [source_task |-> a, source_key |-> ak,
                 sink_task |-> b, sink_key |-> bk]
           cf == Configured(a) /\ Configured(b)
           l == xc_connect_by_task_id(Lists, c, cf, lucky)
<1>1. c \in Connection /\ lucky \in BOOLEAN /\ cf \in BOOLEAN
  BY ApplicationAssumption DEF Connection, Configured
<1>2. l.master \in Seq(Connection) /\ l.index \in [AllSlots -> Seq(Nat)]
  BY <1>1, ConnectType
<1>3. \/ master' = l.master /\ index' = l.index /\ UNCHANGED pc
      \/ pc' \in {"idle", "crashed"} /\ UNCHANGED <<master, index>>
  BY DEF x_connect_tasks, lists
<1> HIDE DEF l, c, cf
<1>4. /\ Idle
      /\ connects' = connects + Len(master') - Len(master)
      /\ UNCHANGED <<app, memory, descriptors, shared, launch, cores, mesh,
                     launched, launches, prepares>>
  BY DEF x_connect_tasks
<1>5. ListsType'
  BY <1>2, <1>3 DEF ListsType, TypeOK
<1>6. HistoryType'
  <2>1. Len(master') >= Len(master) /\ Len(master) \in Nat /\ Len(master') \in Nat
    <3>1. Len(l.master) >= Len(master)
      BY <1>1 DEF l, xc_connect_by_task_id, Lists, TypeOK, ListsType
    <3>2. Len(master) \in Nat /\ Len(master') \in Nat
      BY <1>5 DEF ListsType, TypeOK
    <3>3. QED
      BY <1>3, <3>1, <3>2
  <2>2. QED
    BY <1>4, <2>1 DEF TypeOK, HistoryType
<1>7. LoopType'
  BY <1>3, <1>4 DEF TypeOK, LoopType, launch
<1>8. FlagsType'
  BY <1>4 DEF TypeOK, FlagsType, launch
<1>9. TypeOK'
  BY <1>4, <1>5, <1>6, <1>7, <1>8, TypesUnchanged DEF TypeOK
<1>10. Shape'
  BY <1>3, <1>4, SlotsUnchanged
  DEF Shape, Idle, MeshPhases, LaunchPhases, app, launch
<1>11. Room' /\ Exclusive'
  BY <1>4, MemoryUnchanged
<1>12. QED
  BY <1>9, <1>10, <1>11

(* The mesh.                                                                *)
LEMMA PrepareInv ==
  ASSUME IInv, NEW wrap \in BOOLEAN, x_prepare_mesh_application(wrap)
  PROVE  IInv'
<1> USE DEF IInv
<1>1. /\ Idle /\ x_application = "valid"
      /\ Allocate(<<"name", available_working_memory_end>>, NameSize)
      /\ prepares' = prepares + 1
      /\ pc' = "mesh" /\ slot' = 0 /\ errors' = FALSE /\ wraparound' = wrap
      /\ UNCHANGED <<app, shared, lists, to_start, cores, launches, connects>>
  BY DEF x_prepare_mesh_application
<1>2. NameSize \in Nat /\ ~exhausted /\ available_working_memory_end \in Int
  BY <1>1, ApplicationAssumption DEF Idle, TypeOK, MemoryType
<1>3. /\ available_working_memory_end' \in Int /\ exhausted' \in BOOLEAN
      /\ Room' /\ Exclusive'
  BY <1>1, <1>2, AllocateKeeps
<1>4. DescriptorsType'
  <2>1. xawm_alloc(available_working_memory_end, NameSize) \in Int
    BY <1>2, AllocFacts
  <2>2. QED
    BY <2>1 DEF x_prepare_mesh_application, TypeOK, DescriptorsType
<1>5. LoopType'
  BY <1>1 DEF TypeOK, LoopType, MeshPhases
<1>6. FlagsType' /\ MemoryType'
  BY <1>1, <1>3 DEF FlagsType, MemoryType
<1>7. HistoryType'
  BY <1>1 DEF TypeOK, HistoryType
<1>8. TypeOK'
  BY <1>1, <1>4, <1>5, <1>6, <1>7, TypesUnchanged DEF TypeOK
<1>9. Shape'
  BY <1>1, SlotsUnchanged DEF Shape, MeshPhases, LaunchPhases, app
<1>10. QED
  BY <1>3, <1>8, <1>9

LEMMA MeshConnectInv ==
  ASSUME IInv, NEW lucky \in Luck, MeshConnect(lucky)
  PROVE  IInv'
<1> USE DEF IInv
<1> DEFINE c == xc_connect_by_workgroup_coords(Row(slot), Col(slot), Side(slot))
           l == xc_connect_by_task_id(Lists, c, TRUE, lucky)
<1>1. pc = "mesh" /\ x_application = "valid"
  BY DEF MeshConnect, Shape, MeshPhases
<1>2. c \in Connection /\ lucky \in BOOLEAN /\ TRUE \in BOOLEAN
  BY <1>1, SlotsFacts, MeshConnectionType, ApplicationAssumption
<1>3. l.master \in Seq(Connection) /\ l.index \in [AllSlots -> Seq(Nat)]
  BY <1>2, ConnectType
<1>4. /\ \/ errors' = TRUE /\ UNCHANGED <<master, index>>
         \/ /\ master' = l.master /\ index' = l.index
            /\ errors' = (errors \/ l.result = "X_ERROR")
      /\ \/ slot' = slot + 1 /\ pc' = "mesh"
         \/ slot' = 0 /\ pc' = "mesh result"
         \/ slot' = slot /\ pc' = "crashed"
      /\ UNCHANGED <<app, memory, descriptors, shared, to_start, wraparound,
                     cores, history>>
  BY <1>1 DEF MeshConnect, Iterate, lists
<1> HIDE DEF l, c
<1>5. ListsType'
  BY <1>3, <1>4 DEF ListsType, TypeOK
<1>6. FlagsType'
  BY <1>4 DEF TypeOK, FlagsType
<1>7. LoopType'
  <2>1. slot \in Nat /\ to_start \in Nat /\ to_start' = to_start
    BY <1>4 DEF TypeOK, LoopType
  <2>2. slot' \in Nat /\ pc' \in {"mesh", "mesh result", "crashed"}
    <3>1. CASE slot' = slot + 1 /\ pc' = "mesh"
      BY <2>1, <3>1
    <3>2. CASE slot' = 0 /\ pc' = "mesh result"
      BY <3>2
    <3>3. CASE slot' = slot /\ pc' = "crashed"
      BY <2>1, <3>3
    <3>4. QED
      BY <1>4, <3>1, <3>2, <3>3
  <2>3. QED
    BY <2>1, <2>2 DEF LoopType, MeshPhases, LaunchPhases
<1>8. TypeOK'
  BY <1>4, <1>5, <1>6, <1>7, TypesUnchanged DEF TypeOK
<1>9. Shape'
  BY <1>1, <1>4, SlotsUnchanged DEF Shape, MeshPhases, LaunchPhases, app
<1>10. Room' /\ Exclusive'
  BY <1>4, MemoryUnchanged
<1>11. QED
  BY <1>8, <1>9, <1>10

LEMMA MeshSkipInv == ASSUME IInv, MeshSkip PROVE IInv'
<1> USE DEF IInv
<1>1. pc = "mesh" /\ x_application = "valid"
  BY DEF MeshSkip, Shape, MeshPhases
<1>2. /\ errors' = errors \/ errors' = TRUE
      /\ Iterate(4 * workgroup_size, "mesh result")
      /\ UNCHANGED <<app, memory, descriptors, shared, lists, to_start,
                     wraparound, cores, history>>
  BY DEF MeshSkip
<1>3. /\ slot' = slot + 1 \/ slot' = 0
      /\ pc' \in {"mesh", "mesh result"}
  BY <1>1, <1>2, IterateFacts
<1>4. FlagsType'
  BY <1>2 DEF TypeOK, FlagsType
<1>5. LoopType'
  <2>1. slot \in Nat /\ to_start \in Nat /\ to_start' = to_start
    BY <1>2 DEF TypeOK, LoopType
  <2>2. slot' \in Nat
    <3>1. CASE slot' = slot + 1
      BY <2>1, <3>1
    <3>2. CASE slot' = 0
      BY <3>2
    <3>3. QED
      BY <1>3, <3>1, <3>2
  <2>3. QED
    BY <1>3, <2>1, <2>2 DEF LoopType, MeshPhases, LaunchPhases
<1>6. TypeOK'
  BY <1>2, <1>4, <1>5, TypesUnchanged DEF TypeOK
<1>7. Shape'
  BY <1>1, <1>2, <1>3, SlotsUnchanged DEF Shape, MeshPhases, LaunchPhases, app
<1>8. Room' /\ Exclusive'
  BY <1>2, MemoryUnchanged
<1>9. QED
  BY <1>6, <1>7, <1>8

(* Steps that only change pc, to "idle" or "done", and the history.         *)
LEMMA ReturnInv ==
  ASSUME IInv, pc' \in {"idle", "done"}, HistoryType', AppType',
         UNCHANGED <<x_application, workgroup_rows, workgroup_columns, memory,
                     descriptors, shared, lists, launch, cores>>
  PROVE  IInv'
<1> USE DEF IInv
<1>1. LoopType'
  BY DEF TypeOK, LoopType, launch
<1>2. FlagsType'
  BY DEF TypeOK, FlagsType, launch
<1>3. TypeOK'
  BY <1>1, <1>2, TypesUnchanged DEF TypeOK
<1>4. Shape'
  BY DEF Shape, MeshPhases, LaunchPhases
<1>5. QED
  BY <1>3, <1>4, MemoryUnchanged

(* The launch: the lists are copied to shared memory.                       *)
LEMMA LaunchInv == ASSUME IInv, x_launch_application PROVE IInv'
<1> USE DEF IInv
<1>1. /\ Idle /\ x_application = "valid"
      /\ slot' = 0 /\ to_start' = 0 /\ errors' = FALSE /\ wraparound' = wraparound
      /\ pc' \in {"count", "indexes"}
      /\ UNCHANGED <<app, descriptors, lists, cores, history>>
  BY DEF x_launch_application
<1>2. LoopType'
  BY <1>1 DEF LoopType, LaunchPhases
<1>3. FlagsType'
  BY <1>1 DEF TypeOK, FlagsType
<1>4. Shape'
  BY <1>1, SlotsFacts, SlotsUnchanged DEF Shape, MeshPhases, LaunchPhases, app
<1>5. MemoryType' /\ SharedType' /\ Room' /\ Exclusive'
  <2>1. CASE UNCHANGED <<memory, shared>>
    BY <2>1, MemoryUnchanged, TypesUnchanged
  <2>2. CASE /\ Allocate(<<"list", 0>>, Len(master) * ConnectionSize)
             /\ connection_list_offset' = available_working_memory_end'
             /\ connection_list_length' = Len(master)
             /\ UNCHANGED <<connection_index, num_connections>>
    <3>1. Len(master) \in Nat
      BY DEF TypeOK, ListsType
    <3>2. Len(master) * ConnectionSize \in Nat
      BY <3>1, Product, ApplicationAssumption
    <3>3. ~exhausted
      BY <1>1 DEF Idle
    <3>4. \E size \in Nat : Allocate(<<"list", 0>>, size)
      BY <2>2, <3>2
    <3>5. /\ available_working_memory_end' \in Int /\ exhausted' \in BOOLEAN
          /\ Room' /\ Exclusive'
      BY <3>3, <3>4, AllocateKeeps
    <3>6. SharedType'
      BY <2>2, <3>1, <3>5 DEF TypeOK, SharedType
    <3>7. QED
      BY <3>5, <3>6 DEF MemoryType
  <2>3. QED
    BY <2>1, <2>2 DEF x_launch_application
<1>6. TypeOK'
  BY <1>1, <1>2, <1>3, <1>5, TypesUnchanged DEF TypeOK
<1>7. QED
  BY <1>4, <1>5, <1>6

LEMMA SetupIndexInv == ASSUME IInv, SetupIndex PROVE IInv'
<1> USE DEF IInv
<1>1. /\ pc = "indexes" /\ ~exhausted /\ x_application = "valid"
      /\ Iterate(workgroup_size + HostSlots, "count")
      /\ UNCHANGED <<app, descriptors, lists, to_start, errors, wraparound,
                     cores, history>>
  BY DEF SetupIndex, Shape, LaunchPhases
<1>2. /\ workgroup_size \in Nat \ {0} /\ HostSlots \in Nat \ {0}
      /\ slot \in Nat /\ slot \in AllSlots
      /\ 0 \in Members
  BY <1>1, SlotsFacts DEF Shape, TypeOK, LoopType
<1>3. \/ pc' = "indexes" /\ slot' \in Slots /\ slot' \in Nat
      \/ pc' = "count" /\ slot' = 0
  BY <1>1, <1>2, IterateFacts DEF Slots
<1>4. LoopType'
  BY <1>1, <1>3 DEF TypeOK, LoopType, LaunchPhases
<1>5. FlagsType'
  BY <1>1 DEF TypeOK, FlagsType
<1>6. Shape'
  BY <1>1, <1>2, <1>3, SlotsUnchanged DEF Shape, MeshPhases, LaunchPhases, app
<1>7. MemoryType' /\ SharedType' /\ Room' /\ Exclusive'
  <2>1. CASE UNCHANGED <<memory, shared>>
    BY <2>1, MemoryUnchanged, TypesUnchanged
  <2>2. CASE /\ Allocate(<<"index", slot>>, Len(index[slot]) * IndexSize)
             /\ connection_index' = [connection_index EXCEPT
                                       ![slot] = available_working_memory_end']
             /\ num_connections' =
                  [num_connections EXCEPT ![slot] = Len(index[slot])]
             /\ UNCHANGED <<connection_list_offset, connection_list_length>>
    <3>1. Len(index[slot]) \in Nat
      <4>1. index[slot] \in Seq(Nat)
        BY <1>2 DEF TypeOK, ListsType
      <4>2. QED
        BY <4>1
    <3>2. Len(index[slot]) * IndexSize \in Nat
      BY <3>1, Product, ApplicationAssumption
    <3>3. \E size \in Nat : Allocate(<<"index", slot>>, size)
      BY <2>2, <3>2
    <3>4. /\ available_working_memory_end' \in Int /\ exhausted' \in BOOLEAN
          /\ Room' /\ Exclusive'
      BY <1>1, <3>3, AllocateKeeps
    <3>5. SharedType'
      BY <2>2, <3>1, <3>4 DEF TypeOK, SharedType
    <3>6. QED
      BY <3>4, <3>5 DEF MemoryType
  <2>3. QED
    BY <2>1, <2>2 DEF SetupIndex
<1>8. TypeOK'
  BY <1>1, <1>4, <1>5, <1>7, TypesUnchanged DEF TypeOK
<1>9. QED
  BY <1>6, <1>7, <1>8

(* Steps of the loops over the members that leave working memory alone.     *)
LEMMA MemberLoopInv ==
  ASSUME IInv, x_application = "valid", pc \in {"count", "load", "start"},
         NEW phase \in {"load", "start", "return"},
         Iterate(workgroup_size, phase),
         to_start' \in Nat, errors' \in {errors, TRUE}, CoresType',
         UNCHANGED <<app, memory, descriptors, shared, lists, wraparound, history>>
  PROVE  IInv'
<1> USE DEF IInv
<1>1. Shape' /\ slot' \in Nat /\ pc' \in LaunchPhases
  BY MemberLoop
<1>2. LoopType'
  BY <1>1 DEF LoopType
<1>3. FlagsType'
  BY DEF TypeOK, FlagsType
<1>4. TypeOK'
  BY <1>2, <1>3, TypesUnchanged DEF TypeOK
<1>5. QED
  BY <1>1, <1>4, MemoryUnchanged

(* A step that leaves such a loop for a later phase.                        *)
LEMMA GroupInv ==
  ASSUME IInv, pc \in {"load", "start"}, pc' \in {"start", "return"},
         errors' \in {errors, TRUE}, CoresType',
         UNCHANGED <<app, memory, descriptors, shared, lists, slot, to_start,
                     wraparound, history>>
  PROVE  IInv'
<1> USE DEF IInv
<1>1. LoopType'
  BY DEF TypeOK, LoopType, LaunchPhases
<1>2. FlagsType'
  BY DEF TypeOK, FlagsType
<1>3. TypeOK'
  BY <1>1, <1>2, TypesUnchanged DEF TypeOK
<1>4. Shape'
  BY SlotsUnchanged DEF Shape, MeshPhases, LaunchPhases, app
<1>5. QED
  BY <1>3, <1>4, MemoryUnchanged

(* Every step preserves the invariant.                                      *)
LEMMA StepInv == IInv /\ [Next]_vars => IInv'
<1> SUFFICES ASSUME IInv, [Next]_vars PROVE IInv'
  OBVIOUS
<1> USE DEF IInv
<1>0. pc \in LaunchPhases =>
        /\ x_application = "valid"
        /\ Members \subseteq AllSlots
        /\ pc \in {"count", "load", "start"} => slot \in AllSlots
  BY SlotsFacts DEF Shape
<1>1. ASSUME NEW w \in Workgroups, NEW named \in BOOLEAN,
             x_initialize_application(w, named)
      PROVE  IInv'
  BY <1>1, InitializeInv
<1>2. CASE InitializeFails
  <2>1. AppType' /\ HistoryType' /\ pc' = "idle"
    BY <1>2, TypesUnchanged DEF InitializeFails, Idle, TypeOK, AppType
  <2>2. QED
    BY <1>2, <2>1, ReturnInv DEF InitializeFails
<1>3. ASSUME NEW a \in Tasks, NEW b \in Tasks, NEW ak \in Keys, NEW bk \in Keys,
             NEW lucky \in Luck, x_connect_tasks(a, ak, b, bk, lucky)
      PROVE  IInv'
  BY <1>3, ConnectInv
<1>4. ASSUME NEW wrap \in BOOLEAN, x_prepare_mesh_application(wrap)
      PROVE  IInv'
  BY <1>4, PrepareInv
<1>5. ASSUME NEW lucky \in Luck, MeshConnect(lucky)
      PROVE  IInv'
  BY <1>5, MeshConnectInv
<1>6. CASE MeshSkip
  BY <1>6, MeshSkipInv
<1>7. CASE MeshResult
  <2>1. HistoryType' /\ AppType'
    BY <1>7, TypesUnchanged DEF MeshResult, TypeOK, HistoryType
  <2>2. QED
    BY <1>7, <2>1, ReturnInv DEF MeshResult, app
<1>8. CASE x_launch_application
  BY <1>8, LaunchInv
<1>9. CASE SetupIndex
  BY <1>9, SetupIndexInv
<1>10. CASE CountMember
  <2>1. to_start' \in Nat /\ CoresType' /\ x_application = "valid"
    BY <1>0, <1>10, TypesUnchanged
    DEF CountMember, TypeOK, LoopType, LaunchPhases
  <2>2. QED
    BY <1>10, <2>1, MemberLoopInv DEF CountMember
<1>11. CASE LoadGroup
  <2>1. CoresType'
    BY <1>0, <1>11 DEF LoadGroup, TypeOK, CoresType, LaunchPhases
  <2>2. pc = "load" /\ pc' \in {"start", "return"} /\ errors' \in {errors, TRUE}
    BY <1>11 DEF LoadGroup, AfterLoad
  <2>3. QED
    BY <1>11, <2>1, <2>2, GroupInv DEF LoadGroup
<1>12. CASE LoadMember
  <2>1. CoresType' /\ x_application = "valid" /\ to_start' \in Nat
    BY <1>0, <1>12
    DEF LoadMember, TypeOK, CoresType, LoopType, LaunchPhases
  <2>2. PICK phase \in {"start", "return"} : Iterate(workgroup_size, phase)
    BY <1>12 DEF LoadMember, AfterLoad
  <2>3. pc = "load" /\ errors' \in {errors, TRUE}
    BY <1>12 DEF LoadMember
  <2>4. UNCHANGED <<app, memory, descriptors, shared, lists, wraparound, history>>
    BY <1>12 DEF LoadMember
  <2>5. QED
    BY <2>1, <2>2, <2>3, <2>4, MemberLoopInv
<1>13. CASE StartGroup
  <2>1. CoresType'
    BY <1>0, <1>13 DEF StartGroup, TypeOK, CoresType, LaunchPhases
  <2>2. pc = "start" /\ pc' = "return" /\ errors' \in {errors, TRUE}
    BY <1>13 DEF StartGroup
  <2>3. QED
    BY <1>13, <2>1, <2>2, GroupInv DEF StartGroup
<1>14. CASE StartMember
  <2>1. CoresType' /\ x_application = "valid" /\ to_start' \in Nat
    BY <1>0, <1>14
    DEF StartMember, TypeOK, CoresType, LoopType, LaunchPhases
  <2>2. pc = "start" /\ errors' \in {errors, TRUE}
    BY <1>14 DEF StartMember
  <2>3. QED
    BY <1>14, <2>1, <2>2, MemberLoopInv DEF StartMember
<1>15. CASE LaunchResult
  <2>1. HistoryType' /\ AppType'
    BY <1>15, TypesUnchanged DEF LaunchResult, TypeOK, HistoryType
  <2>2. QED
    BY <1>15, <2>1, ReturnInv DEF LaunchResult, app
<1>16. ASSUME NEW t \in AllSlots, x_launch_task(t)
       PROVE  IInv'
  <2>1. CoresType'
    BY <1>16 DEF x_launch_task, TypeOK, CoresType
  <2>2. LoopType'
    BY <1>16 DEF x_launch_task, TypeOK, LoopType, launch
  <2>3. FlagsType'
    BY <1>16 DEF x_launch_task, TypeOK, FlagsType, launch
  <2>4. TypeOK'
    BY <1>16, <2>1, <2>2, <2>3, TypesUnchanged DEF x_launch_task, TypeOK
  <2>5. Shape'
    BY <1>16, SlotsUnchanged DEF x_launch_task, Shape, app, launch
  <2>6. QED
    BY <1>16, <2>4, <2>5, MemoryUnchanged DEF x_launch_task
<1>17. CASE x_finalize_application
  <2>1. AppType' /\ HistoryType'
    BY <1>17, TypesUnchanged DEF x_finalize_application, TypeOK, AppType
  <2>2. QED
    BY <1>17, <2>1, ReturnInv DEF x_finalize_application
<1>18. ASSUME NEW t \in AllSlots, TaskStep(t)
       PROVE  IInv'
  <2>1. DescriptorsType'
    BY <1>18 DEF TaskStep, TypeOK, DescriptorsType
  <2>2. LoopType'
    BY <1>18 DEF TaskStep, TypeOK, LoopType, launch
  <2>3. FlagsType'
    BY <1>18 DEF TaskStep, TypeOK, FlagsType, launch
  <2>4. TypeOK'
    BY <1>18, <2>1, <2>2, <2>3, TypesUnchanged DEF TaskStep, TypeOK
  <2>5. Shape'
    BY <1>18, SlotsUnchanged DEF TaskStep, Shape, app, launch
  <2>6. QED
    BY <1>18, <2>4, <2>5, MemoryUnchanged DEF TaskStep
<1>19. CASE UNCHANGED vars
  <2>1. LoopType'
    BY <1>19 DEF vars, TypeOK, LoopType, launch
  <2>2. FlagsType'
    BY <1>19 DEF vars, TypeOK, FlagsType, launch
  <2>3. TypeOK'
    BY <1>19, <2>1, <2>2, TypesUnchanged DEF vars, TypeOK
  <2>4. Shape'
    BY <1>19, SlotsUnchanged DEF vars, Shape, app, launch
  <2>5. QED
    BY <1>19, <2>3, <2>4, MemoryUnchanged DEF vars
<1>20. QED
  BY <1>1, <1>2, <1>3, <1>4, <1>5, <1>6, <1>7, <1>8, <1>9, <1>10, <1>11, <1>12,
     <1>13, <1>14, <1>15, <1>16, <1>17, <1>18, <1>19
  DEF Next, Host

-----------------------------------------------------------------------------
LEMMA InvHolds == Spec => []IInv
<1>1. Init => IInv
  BY InitInv
<1>2. IInv /\ [Next]_vars => IInv'
  BY StepInv
<1>3. QED
  BY <1>1, <1>2, PTL DEF Spec

(* The state of the host's side of an application has its type at every     *)
(* step, for every workgroup and every size of memory.                      *)
THEOREM ApplicationTypes == Spec => []TypeOK
<1>1. IInv => TypeOK
  BY DEF IInv
<1>2. QED
  BY <1>1, InvHolds, PTL

(* Blocks that xawm_allocz and xawm_alloc_string hand out never overlap and *)
(* never leave working memory, however many tables, names, lists and        *)
(* indexes are allocated, unless one did not fit.                           *)
THEOREM MemoryExclusive == Spec => []Exclusive
<1>1. IInv => Exclusive
  BY DEF IInv
<1>2. QED
  BY <1>1, InvHolds, PTL

-----------------------------------------------------------------------------
(***************************************************************************)
(* The launch: it starts no core that was not loaded, and all configured   *)
(* cores run when it returns X_SUCCESS, whichever loads and starts fail,   *)
(* however often the launch is repeated, and whenever tasks that run       *)
(* already change their state between its loops.                           *)
(***************************************************************************)
(* The cores that were loaded, or that x_launch_task let loose as they were. *)
Provided == loaded \cup unloaded

(* What the launch knows of a member it has counted.                        *)
Counted(t) == ToStart(t) \/ t \in Provided

(* The inductive invariant. When all members were counted, a member that is *)
(* no longer virgin had been provided for; after the loads, what is still   *)
(* to be started is so too.                                                 *)
LInv ==
  /\ started \subseteq Members /\ started \subseteq Provided
  /\ pc = "indexes" => to_start = 0
  /\ pc = "count" =>
       /\ to_start <= slot
       /\ to_start = slot => \A t \in 0 .. slot - 1 : Counted(t)
  /\ pc = "load" =>
       /\ to_start = workgroup_size => \A t \in Members : Counted(t)
       /\ ~errors => \A t \in 0 .. slot - 1 : ToStart(t) => t \in Provided
  /\ pc = "start" =>
       /\ \A t \in Members : ToStart(t) => t \in Provided
       /\ to_start = workgroup_size => Members \subseteq Provided

(* What the steps of the launch's loops can rely on.                        *)
LEMMA LoopFacts ==
  ASSUME IInv, pc \in {"count", "load", "start"}
  PROVE  /\ x_application = "valid"
         /\ workgroup_size \in Nat \ {0} /\ Members = 0 .. workgroup_size - 1
         /\ slot \in Members /\ slot \in Nat /\ to_start \in Nat
<1>1. x_application = "valid" /\ slot \in Members
  BY DEF IInv, Shape, LaunchPhases
<1>2. workgroup_size \in Nat \ {0}
  BY <1>1, SlotsFacts DEF IInv
<1>3. QED
  BY <1>1, <1>2 DEF IInv, TypeOK, LoopType, Members

(* A step that leaves pc outside the loops, the workgroup and the     *)
(* cores alone keeps LInv.                                                  *)
LEMMA OutsideLoops ==
  ASSUME LInv, UNCHANGED <<workgroup_rows, workgroup_columns, cores>>,
         pc' \notin {"indexes", "count", "load", "start"}
  PROVE  LInv'
<1>1. Members' = Members
  BY DEF Members, workgroup_size
<1>2. QED
  BY <1>1 DEF LInv, cores, Provided

(* Steps that do not touch descriptors or the workgroup.                    *)
LEMMA SameTasks ==
  ASSUME UNCHANGED <<app, descriptors>>
  PROVE  /\ Members' = Members /\ workgroup_size' = workgroup_size
         /\ \A t : ToStart(t)' <=> ToStart(t)
BY DEF app, descriptors, ToStart, Members, workgroup_size

LEMMA CountMemberL == ASSUME IInv, LInv, CountMember PROVE LInv'
<1>1. /\ pc = "count"
      /\ to_start' = IF ToStart(slot) THEN to_start + 1 ELSE to_start
      /\ Iterate(workgroup_size, "load")
      /\ UNCHANGED <<app, descriptors>> /\ UNCHANGED <<Provided, started, errors>>
  BY DEF CountMember, cores, Provided
<1>2. /\ workgroup_size \in Nat \ {0} /\ Members = 0 .. workgroup_size - 1
      /\ slot \in Members /\ slot \in Nat /\ to_start \in Nat
  BY <1>1, LoopFacts
<1>3. /\ Members' = Members /\ workgroup_size' = workgroup_size
      /\ \A t : ToStart(t)' <=> ToStart(t)
  BY <1>1, SameTasks
<1>4. started' \subseteq Members' /\ started' \subseteq Provided'
  BY <1>1, <1>3 DEF LInv
<1>5. to_start <= slot
  BY <1>1 DEF LInv
<1>6. to_start' <= slot + 1
  BY <1>1, <1>2, <1>5
<1>7. ASSUME to_start' = slot + 1
      PROVE  \A t \in 0 .. slot : Counted(t)'
  <2>1. ToStart(slot) /\ to_start = slot
    BY <1>1, <1>2, <1>5, <1>7
  <2>2. \A t \in 0 .. slot - 1 : Counted(t)
    BY <1>1, <2>1 DEF LInv
  <2>3. \A t \in 0 .. slot : Counted(t)
    BY <1>2, <2>1, <2>2 DEF Counted
  <2>4. QED
    BY <1>1, <1>3, <2>3 DEF Counted
<1>8. CASE slot + 1 < workgroup_size /\ slot' = slot + 1 /\ pc' = pc
  <2>1. (slot + 1) - 1 = slot
    BY <1>2
  <2>2. QED
    BY <1>1, <1>4, <1>6, <1>7, <1>8, <2>1 DEF LInv
<1>9. CASE ~(slot + 1 < workgroup_size) /\ slot' = 0 /\ pc' = "load"
  <2>1. slot + 1 = workgroup_size /\ Members = 0 .. slot
    BY <1>2, <1>9
  <2>2. to_start' = workgroup_size' => \A t \in Members' : Counted(t)'
    BY <1>3, <1>7, <2>1
  <2>3. \A t \in 0 .. slot' - 1 : FALSE
    BY <1>9
  <2>4. QED
    BY <1>4, <1>9, <2>2, <2>3 DEF LInv
<1>10. QED
  BY <1>1, <1>8, <1>9 DEF Iterate

LEMMA LoadGroupL == ASSUME IInv, LInv, LoadGroup PROVE LInv'
<1>1. /\ pc = "load" /\ pc' \in {"start", "return"}
      /\ UNCHANGED <<app, descriptors>> /\ started' = started
      /\ unloaded' = unloaded
  BY DEF LoadGroup, AfterLoad
<1>2. Members' = Members
  BY <1>1, SameTasks
<1>3. CASE loaded' = Members /\ pc' = AfterLoad(FALSE)
  BY <1>1, <1>2, <1>3 DEF LInv, Provided
<1>4. CASE (\E some \in SUBSET Members : loaded' = loaded \cup some)
              /\ pc' = AfterLoad(TRUE)
  BY <1>1, <1>2, <1>4 DEF LInv, AfterLoad, Provided
<1>5. QED
  BY <1>3, <1>4 DEF LoadGroup

LEMMA LoadMemberL == ASSUME IInv, LInv, LoadMember PROVE LInv'
<1>1. /\ pc = "load"
      /\ \/ /\ loaded' = IF ToStart(slot) THEN loaded \cup {slot} ELSE loaded
            /\ errors' = errors
         \/ ToStart(slot) /\ errors' = TRUE /\ loaded' = loaded
      /\ Iterate(workgroup_size, AfterLoad(errors'))
      /\ UNCHANGED <<app, descriptors>> /\ UNCHANGED <<started, to_start, unloaded>>
  BY DEF LoadMember
<1>2. /\ workgroup_size \in Nat \ {0} /\ Members = 0 .. workgroup_size - 1
      /\ slot \in Members /\ slot \in Nat
  BY <1>1, LoopFacts
<1>3. /\ Members' = Members /\ workgroup_size' = workgroup_size
      /\ \A t : ToStart(t)' <=> ToStart(t)
  BY <1>1, SameTasks
<1>4. Provided \subseteq Provided'
  BY <1>1 DEF Provided
<1>5. started' \subseteq Members' /\ started' \subseteq Provided'
  BY <1>1, <1>3, <1>4 DEF LInv
<1>6. to_start' = workgroup_size' => \A t \in Members' : Counted(t)'
  BY <1>1, <1>3, <1>4 DEF LInv, Counted
<1>7. ASSUME ~errors'
      PROVE  \A t \in 0 .. slot : ToStart(t)' => t \in Provided'
  <2>1. ~errors /\ (ToStart(slot) => slot \in Provided')
    BY <1>1, <1>7 DEF Provided
  <2>2. \A t \in 0 .. slot - 1 : ToStart(t) => t \in Provided'
    BY <1>1, <1>4, <2>1 DEF LInv
  <2>3. \A t \in 0 .. slot : ToStart(t) => t \in Provided'
    BY <1>2, <2>1, <2>2
  <2>4. QED
    BY <1>3, <2>3
<1>8. CASE slot + 1 < workgroup_size /\ slot' = slot + 1 /\ pc' = pc
  <2>1. (slot + 1) - 1 = slot
    BY <1>2
  <2>2. QED
    BY <1>1, <1>5, <1>6, <1>7, <1>8, <2>1 DEF LInv
<1>9. CASE ~(slot + 1 < workgroup_size) /\ pc' = AfterLoad(errors')
  <2>1. Members = 0 .. slot
    BY <1>2, <1>9
  <2>2. CASE pc' = "start"
    <3>1. ~errors'
      BY <1>9, <2>2 DEF AfterLoad
    <3>2. \A t \in Members' : ToStart(t)' => t \in Provided'
      BY <1>3, <1>7, <2>1, <3>1
    <3>3. to_start' = workgroup_size' => Members' \subseteq Provided'
      BY <1>6, <3>2 DEF Counted
    <3>4. QED
      BY <1>5, <2>2, <3>2, <3>3 DEF LInv
  <2>3. CASE pc' = "return"
    BY <1>5, <2>3 DEF LInv
  <2>4. QED
    BY <1>9, <2>2, <2>3 DEF AfterLoad
<1>10. QED
  BY <1>1, <1>8, <1>9 DEF Iterate

LEMMA StartGroupL == ASSUME IInv, LInv, StartGroup PROVE LInv'
<1>1. /\ pc = "start" /\ pc' = "return" /\ to_start = workgroup_size
      /\ UNCHANGED <<app, descriptors>> /\ Provided' = Provided
      /\ \/ started' = Members
         \/ \E some \in SUBSET Members : started' = started \cup some
  BY DEF StartGroup, Provided
<1>2. Members' = Members
  BY <1>1, SameTasks
<1>3. QED
  BY <1>1, <1>2 DEF LInv

LEMMA StartMemberL == ASSUME IInv, LInv, StartMember PROVE LInv'
<1>1. /\ pc = "start" /\ pc' \in {"start", "return"}
      /\ \/ started' = started
         \/ ToStart(slot) /\ started' = started \cup {slot}
      /\ UNCHANGED <<app, descriptors>> /\ UNCHANGED <<Provided, to_start>>
  BY DEF StartMember, Iterate, Provided
<1>2. slot \in Members
  BY <1>1, LoopFacts
<1>3. /\ Members' = Members /\ workgroup_size' = workgroup_size
      /\ \A t : ToStart(t)' <=> ToStart(t)
  BY <1>1, SameTasks
<1>4. started' \subseteq Members' /\ started' \subseteq Provided'
  BY <1>1, <1>2, <1>3 DEF LInv
<1>5. QED
  BY <1>1, <1>3, <1>4 DEF LInv

(* A task that runs was provided for; its step can only make it not virgin. *)
LEMMA TaskStepL == ASSUME LInv, NEW u \in AllSlots, TaskStep(u), IInv PROVE LInv'
<1>1. /\ u \in Provided
      /\ UNCHANGED app /\ UNCHANGED <<executable_file_name, pc, Provided, started>>
      /\ UNCHANGED <<slot, to_start, errors>>
      /\ \/ state' = [state EXCEPT ![u] = "active"]
         \/ state' = [state EXCEPT ![u] = "ended"]
  BY DEF TaskStep, launch, cores, LInv, Provided
<1>2. Members' = Members /\ workgroup_size' = workgroup_size
  BY <1>1, SlotsUnchanged
<1>3. \A t \in AllSlots : t # u => (ToStart(t)' <=> ToStart(t))
  BY <1>1 DEF ToStart, IInv, TypeOK, DescriptorsType
<1>4. \A t \in AllSlots : ToStart(t)' => ToStart(t) \/ t \in Provided'
  BY <1>1, <1>3
<1>5. \A t \in AllSlots : Counted(t) => Counted(t)'
  BY <1>1, <1>3 DEF Counted
<1>6. CASE pc \in {"count", "load", "start"}
  <2>1. /\ workgroup_size \in Nat \ {0} /\ Members = 0 .. workgroup_size - 1
        /\ slot \in Members /\ slot \in Nat /\ x_application = "valid"
    BY <1>6, LoopFacts
  <2>2. Members \subseteq AllSlots
    BY <2>1, SlotsFacts DEF IInv
  <2>3. 0 .. slot - 1 \subseteq AllSlots
    BY <2>1, <2>2
  <2>4. QED
    BY <1>1, <1>2, <1>4, <1>5, <2>2, <2>3 DEF LInv
<1>7. CASE pc \notin {"count", "load", "start"}
  BY <1>1, <1>2, <1>7 DEF LInv
<1>8. QED
  BY <1>6, <1>7

(* Every step keeps LInv.                                                   *)
LEMMA LaunchStep == IInv /\ LInv /\ [Next]_vars => LInv'
<1> SUFFICES ASSUME IInv, LInv, [Next]_vars PROVE LInv'
  OBVIOUS
<1>1. ASSUME NEW w \in Workgroups, NEW named \in BOOLEAN,
             x_initialize_application(w, named)
      PROVE  LInv'
  BY <1>1 DEF x_initialize_application, Idle, LInv
<1>2. CASE InitializeFails
  BY <1>2, OutsideLoops DEF InitializeFails, Idle
<1>3. ASSUME NEW a \in Tasks, NEW b \in Tasks, NEW ak \in Keys, NEW bk \in Keys,
             NEW lucky \in Luck, x_connect_tasks(a, ak, b, bk, lucky)
      PROVE  LInv'
  <2>1. pc' \in {"idle", "crashed"} /\ UNCHANGED <<app, cores>>
    BY <1>3 DEF x_connect_tasks, Idle
  <2>2. QED
    BY <2>1, OutsideLoops DEF app
<1>4. ASSUME NEW wrap \in BOOLEAN, x_prepare_mesh_application(wrap)
      PROVE  LInv'
  BY <1>4, OutsideLoops DEF x_prepare_mesh_application, app
<1>5. ASSUME NEW lucky \in Luck, MeshConnect(lucky)
      PROVE  LInv'
  <2>1. pc' \in {"mesh", "mesh result", "crashed"} /\ UNCHANGED <<app, cores>>
    BY <1>5 DEF MeshConnect, Iterate
  <2>2. QED
    BY <2>1, OutsideLoops DEF app
<1>6. CASE MeshSkip
  <2>1. pc' \in {"mesh", "mesh result"} /\ UNCHANGED <<app, cores>>
    BY <1>6 DEF MeshSkip, Iterate
  <2>2. QED
    BY <2>1, OutsideLoops DEF app
<1>7. CASE MeshResult
  BY <1>7, OutsideLoops DEF MeshResult, app
<1>8. CASE x_launch_application
  <2>1. /\ slot' = 0 /\ to_start' = 0 /\ pc' \in {"count", "indexes"}
        /\ UNCHANGED <<app, cores>>
    BY <1>8 DEF x_launch_application
  <2>2. Members' = Members
    BY <2>1, SlotsUnchanged
  <2>3. \A t \in 0 .. slot' - 1 : FALSE
    BY <2>1
  <2>4. QED
    BY <2>1, <2>2, <2>3 DEF LInv, cores, Provided
<1>9. CASE SetupIndex
  <2>1. /\ pc' \in {"indexes", "count"}
        /\ pc' = "count" => slot' = 0
        /\ UNCHANGED <<app, cores, to_start>> /\ pc = "indexes"
    BY <1>9 DEF SetupIndex, Iterate
  <2>2. Members' = Members
    BY <2>1, SlotsUnchanged
  <2>3. to_start' = 0
    BY <2>1 DEF LInv
  <2>4. CASE pc' = "indexes"
    BY <2>1, <2>2, <2>3, <2>4 DEF LInv, cores, Provided
  <2>5. CASE pc' = "count"
    <3>1. slot' = 0 /\ \A t \in 0 .. slot' - 1 : FALSE
      BY <2>1, <2>5
    <3>2. QED
      BY <2>1, <2>2, <2>3, <2>5, <3>1 DEF LInv, cores, Provided
  <2>6. QED
    BY <2>1, <2>4, <2>5
<1>10. CASE CountMember
  BY <1>10, CountMemberL
<1>11. CASE LoadGroup
  BY <1>11, LoadGroupL
<1>12. CASE LoadMember
  BY <1>12, LoadMemberL
<1>13. CASE StartGroup
  BY <1>13, StartGroupL
<1>14. CASE StartMember
  BY <1>14, StartMemberL
<1>15. CASE LaunchResult
  BY <1>15, OutsideLoops DEF LaunchResult, app
<1>16. ASSUME NEW t \in AllSlots, x_launch_task(t)
       PROVE  LInv'
  <2>1. /\ t \in Members /\ pc' = "idle" /\ UNCHANGED app
        /\ started' = started \cup {t} /\ Provided' = Provided \cup {t}
    BY <1>16 DEF x_launch_task, x_is_workgroup_task, Idle, Provided
  <2>2. Members' = Members
    BY <2>1, SlotsUnchanged
  <2>3. QED
    BY <2>1, <2>2 DEF LInv
<1>17. CASE x_finalize_application
  BY <1>17, OutsideLoops DEF x_finalize_application
<1>18. ASSUME NEW t \in AllSlots, TaskStep(t)
       PROVE  LInv'
  BY <1>18, TaskStepL
<1>19. CASE UNCHANGED vars
  <2>1. /\ Members' = Members /\ workgroup_size' = workgroup_size
        /\ \A t : ToStart(t)' <=> ToStart(t)
    BY <1>19, SameTasks DEF vars
  <2>2. QED
    BY <1>19, <2>1 DEF LInv, Counted, vars, launch, cores, Provided
<1>20. QED
  BY <1>1, <1>2, <1>3, <1>4, <1>5, <1>6, <1>7, <1>8, <1>9, <1>10, <1>11, <1>12,
     <1>13, <1>14, <1>15, <1>16, <1>17, <1>18, <1>19
  DEF Next, Host

-----------------------------------------------------------------------------
(* x_launch_application starts only cores that were loaded, or that         *)
(* x_launch_task had already started as they were: in all workgroups, for   *)
(* all failures and all repetitions.                                        *)
THEOREM NeverStartedUnloaded == Spec => []LoadedFirst
<1>1. Init => LInv
  BY DEF Init, LInv
<1>2. IInv /\ LInv /\ [Next]_vars => LInv'
  BY LaunchStep
<1>3. LInv => LoadedFirst
  BY DEF LInv, LoadedFirst, Provided
<1>4. QED
  BY <1>1, <1>2, <1>3, InvHolds, PTL DEF Spec
-----------------------------------------------------------------------------
(***************************************************************************)
(* What X_SUCCESS means.                                                   *)
(***************************************************************************)
(* A configured member waits to be started or has been; or has been.        *)
Covered(t) == executable_file_name[t] # 0 => ToStart(t) \/ t \in started
Running(t) == executable_file_name[t] # 0 => t \in started

(* The inductive invariant. Each loop has established its part for the      *)
(* members it has passed, unless an error was counted, and what a launch    *)
(* has said stays true until a mesh is prepared again.                      *)
SInv ==
  /\ x_application = "valid" /\ pc # "done" => mapped
  /\ x_application = "null" => launched = "none"
  /\ x_application = "valid" => \A t \in Members : Covered(t)
  /\ pc = "count" /\ to_start = 0 => \A t \in 0 .. slot - 1 : ~ToStart(t)
  /\ pc = "load" /\ to_start = 0 => \A t \in Members : ~ToStart(t)
  /\ pc = "start" /\ ~errors /\ to_start # workgroup_size =>
       \A t \in 0 .. slot - 1 : Running(t)
  /\ pc = "return" /\ ~errors => \A t \in Members : Running(t)
  /\ launched = "X_SUCCESS" => \A t \in Members : Running(t)

(* A step outside the loops that leaves the members, their descriptors and  *)
(* the cores alone, and says nothing new of a launch.                       *)
LEMMA SOutside ==
  ASSUME SInv, UNCHANGED <<workgroup_rows, workgroup_columns, x_application>>,
         UNCHANGED descriptors, UNCHANGED started, UNCHANGED launched,
         pc' \notin {"count", "load", "start", "return"},
         pc # "done",
         mapped' = mapped \/ pc' = "done" \/ x_application = "null"
  PROVE  SInv'
<1>1. Members' = Members
  BY DEF Members, workgroup_size
<1>2. \A t : (Covered(t)' <=> Covered(t)) /\ (Running(t)' <=> Running(t))
  BY DEF Covered, Running, ToStart, descriptors
<1>3. x_application' = "valid" /\ pc' # "done" => mapped'
  BY DEF SInv
<1> QED
  BY <1>1, <1>2, <1>3 DEF SInv

LEMMA InitializeS ==
  ASSUME IInv, SInv, NEW w \in Workgroups, NEW named \in BOOLEAN,
         x_initialize_application(w, named)
  PROVE  SInv'
<1> DEFINE first == w[1] * w[2]
<1>1. /\ pc = "idle" /\ pc' = pc /\ ~mapped /\ mapped' = TRUE
      /\ x_application' = "valid" /\ launched' = launched
      /\ workgroup_rows' = w[1] /\ workgroup_columns' = w[2]
      /\ \A t \in AllSlots : executable_file_name'[t] # 0 => t = first
  BY DEF x_initialize_application, Idle, history
<1>2. launched = "none"
  BY <1>1 DEF IInv, TypeOK, AppType, SInv
<1>3. first \in Nat /\ HostSlots \in Nat \ {0}
  <2>1. w[1] \in Nat /\ w[2] \in Nat
    BY ApplicationAssumption
  <2> QED
    BY <2>1, Product, ApplicationAssumption
<1>4. Members' = 0 .. first - 1
  BY <1>1 DEF Members, workgroup_size
<1>5. 0 .. first - 1 \subseteq AllSlots
  <2>1. 0 .. first + HostSlots - 1 \subseteq AllSlots
    BY DEF AllSlots
  <2> HIDE DEF first
  <2> QED
    BY <1>3, <2>1
<1> HIDE DEF first
<1>6. \A t \in Members' : executable_file_name'[t] = 0
  BY <1>1, <1>3, <1>4, <1>5
<1>7. \A t \in Members' : Covered(t)'
  BY <1>6 DEF Covered
<1> QED
  BY <1>1, <1>2, <1>7 DEF SInv

LEMMA PrepareS ==
  ASSUME IInv, SInv, NEW wrap \in BOOLEAN, x_prepare_mesh_application(wrap)
  PROVE  SInv'
<1> DEFINE fresh == {t \in Members : executable_file_name[t] = 0}
           name == xawm_alloc(available_working_memory_end, NameSize)
<1>1. /\ pc = "idle" /\ x_application = "valid" /\ UNCHANGED app
      /\ pc' = "mesh" /\ launched' = "none" /\ started' = started
      /\ executable_file_name' =
           [t \in AllSlots |-> IF t \in fresh THEN name
                               ELSE executable_file_name[t]]
      /\ state' = [t \in AllSlots |-> IF t \in fresh THEN "virgin"
                                      ELSE state[t]]
  BY DEF x_prepare_mesh_application, Idle, cores
<1> HIDE DEF name
<1>2. Members' = Members /\ Members \subseteq AllSlots
  BY <1>1, SlotsFacts, SlotsUnchanged DEF IInv
<1>3. ASSUME NEW t \in Members' PROVE Covered(t)'
  <2>1. t \in AllSlots /\ t \in Members /\ Covered(t)
    BY <1>1, <1>2, <1>3 DEF SInv
  <2>2. CASE t \in fresh
    BY <1>1, <2>1, <2>2 DEF Covered, ToStart
  <2>3. CASE t \notin fresh
    <3>1. executable_file_name'[t] = executable_file_name[t]
          /\ state'[t] = state[t]
      BY <1>1, <2>1, <2>3
    <3> QED
      BY <1>1, <2>1, <3>1 DEF Covered, ToStart
  <2> QED
    BY <2>2, <2>3
<1> QED
  BY <1>1, <1>3 DEF SInv, app

LEMMA CountMemberS == ASSUME IInv, SInv, CountMember PROVE SInv'
<1>1. /\ pc = "count" /\ pc' \in {"count", "load"}
      /\ to_start' = IF ToStart(slot) THEN to_start + 1 ELSE to_start
      /\ Iterate(workgroup_size, "load")
      /\ UNCHANGED <<app, descriptors>>
      /\ UNCHANGED started /\ UNCHANGED launched
  BY DEF CountMember, Iterate, cores, history
<1>2. /\ workgroup_size \in Nat \ {0} /\ Members = 0 .. workgroup_size - 1
      /\ slot \in Members /\ slot \in Nat /\ to_start \in Nat
  BY <1>1, LoopFacts
<1>3. /\ Members' = Members /\ workgroup_size' = workgroup_size
      /\ \A t : ToStart(t)' <=> ToStart(t)
  BY <1>1, SameTasks
<1>4. \A t : (Covered(t)' <=> Covered(t)) /\ (Running(t)' <=> Running(t))
  BY <1>1, <1>3 DEF Covered, Running, descriptors
<1>5. to_start' = 0 => \A t \in 0 .. slot : ~ToStart(t)
  <2>1. to_start' = 0 => to_start = 0 /\ ~ToStart(slot)
    BY <1>1, <1>2
  <2>2. to_start' = 0 => \A t \in 0 .. slot - 1 : ~ToStart(t)
    BY <1>1, <2>1 DEF SInv
  <2> QED
    BY <1>2, <2>1, <2>2
<1>6. CASE slot + 1 < workgroup_size /\ slot' = slot + 1 /\ pc' = pc
  <2>1. (slot + 1) - 1 = slot
    BY <1>2
  <2> QED
    BY <1>1, <1>3, <1>4, <1>5, <1>6, <2>1 DEF SInv, app
<1>7. CASE ~(slot + 1 < workgroup_size) /\ slot' = 0 /\ pc' = "load"
  <2>1. Members = 0 .. slot
    BY <1>2, <1>7
  <2> QED
    BY <1>1, <1>3, <1>4, <1>5, <1>7, <2>1 DEF SInv, app
<1> QED
  BY <1>1, <1>6, <1>7 DEF Iterate

(* After the loads: with nothing to start, all configured members run.      *)
LEMMA AfterLoadS ==
  ASSUME IInv, SInv, pc = "load", NEW failed \in BOOLEAN, pc' = AfterLoad(failed),
         ~errors' => ~failed,
         UNCHANGED <<app, descriptors>>, UNCHANGED <<started, launched, to_start>>,
         pc' = "start" => to_start = workgroup_size \/ slot' = 0
  PROVE  SInv'
<1>1. /\ Members' = Members /\ workgroup_size' = workgroup_size
      /\ \A t : ToStart(t)' <=> ToStart(t)
  BY SameTasks
<1>2. \A t : (Covered(t)' <=> Covered(t)) /\ (Running(t)' <=> Running(t))
  BY <1>1 DEF Covered, Running, descriptors
<1>3. CASE pc' = "return" /\ (failed \/ to_start = 0)
  <2>1. ~errors' => to_start = 0
    BY <1>3
  <2>2. ~errors' => \A t \in Members : Running(t)
    BY <2>1, LoopFacts DEF SInv, Covered, Running
  <2> QED
    BY <1>1, <1>2, <1>3, <2>2 DEF SInv, app
<1>4. CASE pc' = "start"
  <2>1. slot' = 0 => \A t \in 0 .. slot' - 1 : FALSE
    OBVIOUS
  <2> QED
    BY <1>1, <1>2, <1>4, <2>1 DEF SInv, app
<1> QED
  BY <1>3, <1>4 DEF AfterLoad

LEMMA LoadGroupS == ASSUME IInv, SInv, LoadGroup PROVE SInv'
<1>1. /\ pc = "load" /\ to_start = workgroup_size
      /\ UNCHANGED <<app, descriptors>>
      /\ UNCHANGED <<started, launched, to_start>>
      /\ errors \in BOOLEAN
  BY DEF LoadGroup, GroupLoad, history, IInv, TypeOK, FlagsType
<1>2. CASE pc' = AfterLoad(FALSE) /\ errors' = errors
  BY <1>1, <1>2, AfterLoadS
<1>3. CASE pc' = AfterLoad(TRUE) /\ errors' = TRUE
  BY <1>1, <1>3, AfterLoadS
<1> QED
  BY <1>2, <1>3 DEF LoadGroup

LEMMA LoadMemberS == ASSUME IInv, SInv, LoadMember PROVE SInv'
<1>1. /\ pc = "load" /\ Iterate(workgroup_size, AfterLoad(errors'))
      /\ UNCHANGED <<app, descriptors>>
      /\ UNCHANGED <<started, launched, to_start>>
      /\ errors' \in BOOLEAN
  BY DEF LoadMember, history, IInv, TypeOK, FlagsType
<1>2. CASE slot' = slot + 1 /\ pc' = pc
  <2>1. /\ Members' = Members /\ workgroup_size' = workgroup_size
        /\ \A t : ToStart(t)' <=> ToStart(t)
    BY <1>1, SameTasks
  <2>2. \A t : (Covered(t)' <=> Covered(t)) /\ (Running(t)' <=> Running(t))
    BY <1>1, <2>1 DEF Covered, Running, descriptors
  <2> QED
    BY <1>1, <1>2, <2>1, <2>2 DEF SInv, app
<1>3. CASE slot' = 0 /\ pc' = AfterLoad(errors')
  BY <1>1, <1>3, AfterLoadS
<1> QED
  BY <1>1, <1>2, <1>3 DEF Iterate

LEMMA StartGroupS == ASSUME IInv, SInv, StartGroup PROVE SInv'
<1>1. /\ pc = "start" /\ pc' = "return"
      /\ UNCHANGED <<app, descriptors>> /\ UNCHANGED launched
      /\ started \subseteq started' \/ started' = Members
      /\ ~errors' => started' = Members
  BY DEF StartGroup, history
<1>2. Members' = Members /\ \A t : ToStart(t)' <=> ToStart(t)
  BY <1>1, SameTasks
<1>3. \A t \in Members : /\ Covered(t) => Covered(t)'
                         /\ Running(t) => Running(t)'
                         /\ ~errors' => Running(t)'
  BY <1>1, <1>2 DEF Covered, Running, descriptors
<1> QED
  BY <1>1, <1>2, <1>3 DEF SInv, app

LEMMA StartMemberS == ASSUME IInv, SInv, StartMember PROVE SInv'
<1>1. /\ pc = "start" /\ pc' \in {"start", "return"}
      /\ to_start # workgroup_size /\ to_start' = to_start
      /\ UNCHANGED <<app, descriptors>> /\ UNCHANGED launched
      /\ Iterate(workgroup_size, "return")
      /\ started \subseteq started'
      /\ ~errors' => ~errors /\ (ToStart(slot) => slot \in started')
  BY DEF StartMember, Iterate, history
<1>2. /\ Members' = Members /\ workgroup_size' = workgroup_size
      /\ \A t : ToStart(t)' <=> ToStart(t)
  BY <1>1, SameTasks
<1>3. /\ workgroup_size \in Nat \ {0} /\ Members = 0 .. workgroup_size - 1
      /\ slot \in Members /\ slot \in Nat
  BY <1>1, LoopFacts
<1>4. \A t : (Covered(t) => Covered(t)') /\ (Running(t) => Running(t)')
  BY <1>1, <1>2 DEF Covered, Running, descriptors
<1>5. ~errors' => \A t \in 0 .. slot : Running(t)'
  <2>1. Covered(slot) /\ x_application = "valid"
    BY <1>1, <1>3, LoopFacts DEF SInv
  <2>2. ~errors' => (executable_file_name[slot] # 0 => slot \in started')
    BY <1>1, <2>1 DEF Covered
  <2>3. ~errors' => \A t \in 0 .. slot - 1 : Running(t)
    BY <1>1 DEF SInv
  <2>4. ASSUME ~errors', NEW t \in 0 .. slot PROVE Running(t)'
    <3>1. CASE t = slot
      BY <1>1, <2>2, <2>4, <3>1 DEF Running, descriptors
    <3>2. CASE t \in 0 .. slot - 1
      BY <1>4, <2>3, <2>4, <3>2
    <3> QED
      BY <1>3, <3>1, <3>2
  <2> QED
    BY <2>4
<1>6. CASE slot + 1 < workgroup_size /\ slot' = slot + 1 /\ pc' = pc
  <2>1. (slot + 1) - 1 = slot
    BY <1>3
  <2> QED
    BY <1>1, <1>2, <1>4, <1>5, <1>6, <2>1 DEF SInv, app
<1>7. CASE ~(slot + 1 < workgroup_size) /\ pc' = "return"
  <2>1. Members = 0 .. slot
    BY <1>3, <1>7
  <2> QED
    BY <1>1, <1>2, <1>4, <1>5, <1>7, <2>1 DEF SInv, app
<1> QED
  BY <1>1, <1>6, <1>7 DEF Iterate

(* A task's step, or x_launch_task: a member is started or stays so, and no *)
(* member becomes virgin.                                                   *)
LEMMA TaskS ==
  ASSUME IInv, SInv, LInv, UNCHANGED app, UNCHANGED <<launched, pc, slot>>,
         UNCHANGED <<executable_file_name, to_start, errors>>,
         started \subseteq started',
         \A t \in AllSlots : state'[t] = state[t] \/
            (t \in started /\ state'[t] # "virgin")
  PROVE  SInv'
<1>1. Members' = Members /\ workgroup_size' = workgroup_size
  BY SlotsUnchanged
<1>2. \A t \in AllSlots :
        /\ ToStart(t)' => ToStart(t)
        /\ Covered(t) => Covered(t)'
        /\ Running(t) => Running(t)'
  BY DEF ToStart, Covered, Running
<1>3. CASE x_application = "valid"
  <2>1. Members \subseteq AllSlots
    BY <1>3, SlotsFacts DEF IInv
  <2>2. pc \in {"count", "start"} => 0 .. slot - 1 \subseteq AllSlots
    <3>1. pc \in {"count", "start"} =>
            /\ slot \in Members /\ slot \in Nat /\ workgroup_size \in Nat \ {0}
            /\ Members = 0 .. workgroup_size - 1
      BY LoopFacts
    <3> QED
      BY <2>1, <3>1
  <2> QED
    BY <1>1, <1>2, <2>1, <2>2 DEF SInv, app
<1>4. CASE x_application = "null"
  <2>1. pc \notin {"count", "load", "start", "return"}
    BY <1>4 DEF IInv, Shape, LaunchPhases
  <2> QED
    BY <1>1, <1>4, <2>1 DEF SInv, app
<1> QED
  BY <1>3, <1>4 DEF IInv, TypeOK, AppType

(* Every step keeps SInv.                                                   *)
LEMMA SuccessStep == IInv /\ LInv /\ SInv /\ [Next]_vars => SInv'
<1> SUFFICES ASSUME IInv, LInv, SInv, [Next]_vars PROVE SInv'
  OBVIOUS
<1>1. ASSUME NEW w \in Workgroups, NEW named \in BOOLEAN,
             x_initialize_application(w, named)
      PROVE  SInv'
  BY <1>1, InitializeS
<1>2. CASE InitializeFails
  <2>1. x_application = "null"
    BY <1>2 DEF InitializeFails, Idle, SInv, IInv, TypeOK, AppType
  <2> QED
    BY <1>2, <2>1, SOutside DEF InitializeFails, Idle, cores, history
<1>3. ASSUME NEW a \in Tasks, NEW b \in Tasks, NEW ak \in Keys, NEW bk \in Keys,
             NEW lucky \in Luck, x_connect_tasks(a, ak, b, bk, lucky)
      PROVE  SInv'
  <2>1. /\ pc = "idle" /\ pc' \in {"idle", "crashed"} /\ UNCHANGED <<app, cores>>
        /\ UNCHANGED descriptors /\ UNCHANGED launched
    BY <1>3 DEF x_connect_tasks, Idle
  <2> QED
    BY <2>1, SOutside DEF app, cores
<1>4. ASSUME NEW wrap \in BOOLEAN, x_prepare_mesh_application(wrap)
      PROVE  SInv'
  BY <1>4, PrepareS
<1>5. ASSUME NEW lucky \in Luck, MeshConnect(lucky)
      PROVE  SInv'
  <2>1. /\ pc = "mesh" /\ pc' \in {"mesh", "mesh result", "crashed"}
        /\ UNCHANGED <<app, cores>> /\ UNCHANGED descriptors
        /\ UNCHANGED launched
    BY <1>5 DEF MeshConnect, Iterate, history
  <2> QED
    BY <2>1, SOutside DEF app, cores
<1>6. CASE MeshSkip
  <2>1. /\ pc = "mesh" /\ pc' \in {"mesh", "mesh result"}
        /\ UNCHANGED <<app, cores>> /\ UNCHANGED descriptors
        /\ UNCHANGED launched
    BY <1>6 DEF MeshSkip, Iterate, history
  <2> QED
    BY <2>1, SOutside DEF app, cores
<1>7. CASE MeshResult
  BY <1>7, SOutside DEF MeshResult, app, cores
<1>8. CASE x_launch_application \/ SetupIndex
  <2>1. /\ pc' \in {"count", "indexes"} /\ pc # "done"
        /\ pc' = "count" => slot' = 0
        /\ UNCHANGED <<app, descriptors>> /\ UNCHANGED <<started, launched>>
    BY <1>8 DEF x_launch_application, SetupIndex, Iterate, Idle, cores, history
  <2>2. /\ Members' = Members
        /\ \A t : ToStart(t)' <=> ToStart(t)
    BY <2>1, SameTasks
  <2>3. \A t : (Covered(t)' <=> Covered(t)) /\ (Running(t)' <=> Running(t))
    BY <2>1, <2>2 DEF Covered, Running, descriptors
  <2>4. slot' = 0 => \A t \in 0 .. slot' - 1 : FALSE
    OBVIOUS
  <2> QED
    BY <2>1, <2>2, <2>3, <2>4 DEF SInv, app
<1>9. CASE CountMember
  BY <1>9, CountMemberS
<1>10. CASE LoadGroup \/ LoadMember
  BY <1>10, LoadGroupS, LoadMemberS
<1>11. CASE StartGroup \/ StartMember
  BY <1>11, StartGroupS, StartMemberS
<1>12. CASE LaunchResult
  <2>1. /\ pc = "return" /\ pc' = "idle" /\ UNCHANGED <<app, descriptors>>
        /\ started' = started
        /\ launched' = IF errors THEN "X_ERROR" ELSE "X_SUCCESS"
    BY <1>12 DEF LaunchResult, cores
  <2>2. Members' = Members /\ \A t : ToStart(t)' <=> ToStart(t)
    BY <2>1, SameTasks
  <2>3. \A t : (Covered(t)' <=> Covered(t)) /\ (Running(t)' <=> Running(t))
    BY <2>1, <2>2 DEF Covered, Running, descriptors
  <2>4. x_application = "valid"
    BY <2>1 DEF IInv, Shape, LaunchPhases
  <2> QED
    BY <2>1, <2>2, <2>3, <2>4 DEF SInv, app
<1>13. ASSUME NEW t \in AllSlots, x_launch_task(t)
       PROVE  SInv'
  <2>1. /\ UNCHANGED app /\ UNCHANGED <<launched, pc, slot>>
        /\ UNCHANGED <<executable_file_name, to_start, errors>>
        /\ started \subseteq started' /\ state' = state
    BY <1>13 DEF x_launch_task, descriptors, launch, history
  <2> QED
    BY <2>1, TaskS
<1>14. CASE x_finalize_application
  BY <1>14, SOutside DEF x_finalize_application, Idle, cores, history
<1>15. ASSUME NEW u \in AllSlots, TaskStep(u)
       PROVE  SInv'
  <2>1. /\ u \in started /\ UNCHANGED app /\ UNCHANGED <<launched, pc, slot>>
        /\ UNCHANGED <<executable_file_name, to_start, errors>>
        /\ started' = started
        /\ \/ state' = [state EXCEPT ![u] = "active"]
           \/ state' = [state EXCEPT ![u] = "ended"]
    BY <1>15 DEF TaskStep, launch, cores, history
  <2>2. \A t \in AllSlots : state'[t] = state[t] \/
            (t \in started /\ state'[t] # "virgin")
    BY <2>1 DEF IInv, TypeOK, DescriptorsType
  <2> QED
    BY <2>1, <2>2, TaskS
<1>16. CASE UNCHANGED vars
  <2>1. \A t \in AllSlots : state'[t] = state[t]
    BY <1>16 DEF vars, descriptors
  <2> QED
    BY <1>16, <2>1, TaskS DEF vars, launch, cores, history, descriptors
<1> QED
  BY <1>1, <1>2, <1>3, <1>4, <1>5, <1>6, <1>7, <1>8, <1>9, <1>10, <1>11, <1>12,
     <1>13, <1>14, <1>15, <1>16
  DEF Next, Host

(* When x_launch_application returns X_SUCCESS, all configured members of   *)
(* the workgroup have been loaded and started, but for cores that           *)
(* x_launch_task had started without a load: for every workgroup, all       *)
(* failures of earlier launches and all interleavings with running tasks.   *)
THEOREM SuccessMeansLaunched == Spec => []LaunchComplete
<1>1. Init => LInv /\ SInv
  BY DEF Init, LInv, SInv
<1>2. LInv /\ SInv => LaunchComplete
  BY DEF LInv, SInv, LaunchComplete, Running, Provided
<1> QED
  BY <1>1, <1>2, LaunchStep, SuccessStep, InvHolds, PTL DEF Spec
=============================================================================
