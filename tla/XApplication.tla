---------------------------- MODULE XApplication ----------------------------
(***************************************************************************)
(* The host's side of an application (x_application.c): initialisation,    *)
(* the working memory, task descriptors, the temporary connection lists,   *)
(* the mesh, the transfer of the lists to shared memory, loading, starting *)
(* and finalisation. The host is one thread. Its calls are steps, but the  *)
(* launch is a step per iteration of its loops, since tasks that run       *)
(* already change their descriptors meanwhile.                             *)
(*                                                                         *)
(* The host's library is built without optimisation (build.sh), so that a  *)
(* function that ends without a return yields what its last expression     *)
(* left in a register: the right result of xc_validate_task_key and        *)
(* xc_add_task_endpoint where "result = 0" comes last, and an arbitrary    *)
(* one, here "lucky", where a message was printed last.                    *)
(*                                                                         *)
(* The host's malloc succeeds, and a process makes one application: both   *)
(* are assumptions of this module.                                         *)
(***************************************************************************)
EXTENDS Integers, Sequences, FiniteSets

CONSTANTS
  Workgroups,       \* sizes <<rows, columns>> that mapping can yield
  HostSlots,        \* host_task_slots
  MemStart, MemSize,           \* of working memory
  Align,                       \* of the allocated blocks
  DescriptorSize, ConnectionSize, IndexSize,   \* of the structures
  NameSize, CallerNameSize,    \* of the file names, with the final zero
  Tasks, Keys,      \* arguments of x_connect_tasks
  Luck,             \* TRUE in it: an arbitrary result may be zero
  MaxConnects,      \* bound: connections that x_connect_tasks makes
  MaxMesh,          \* bound: connections when a mesh is added to others
  MaxPrepares,      \* bound: calls of x_prepare_mesh_application
  MaxLaunches       \* bound: calls of x_launch_application

X_NULL_TASK == -1
AllSlots ==
  UNION {0 .. w[1] * w[2] + HostSlots - 1 : w \in Workgroups}

ASSUME ApplicationAssumption ==
  /\ Workgroups \subseteq (Nat \ {0}) \X (Nat \ {0})
  /\ HostSlots \in Nat \ {0} /\ Tasks \subseteq Int
  /\ Luck \subseteq BOOLEAN
  /\ MemStart \in Nat \ {0} /\ MemSize \in Nat /\ Align \in Nat \ {0}
  /\ DescriptorSize \in Nat \ {0} /\ ConnectionSize \in Nat \ {0}
  /\ IndexSize \in Nat \ {0}
  /\ NameSize \in Nat \ {0} /\ CallerNameSize \in Nat \ {0}
  /\ MaxConnects \in Nat /\ MaxMesh \in Nat /\ MaxPrepares \in Nat
  /\ MaxLaunches \in Nat

VARIABLES
  x_application,    \* "null" or "valid"
  mapped,           \* x_epiphany_control is initialised
  workgroup_rows, workgroup_columns,
  available_working_memory_end,
  executable_file_name,    \* of each slot: an offset, zero for no task
  state,            \* of each task: "virgin", "active" or "ended"
  connection_list_offset, connection_list_length,
  connection_index, num_connections,   \* of each slot, in shared memory
  master,           \* xc_master_connection_list
  index,            \* xc_task_connection_index: per slot, positions in master
  pc,               \* "idle", a phase of a call, "done" or "crashed"
  slot,             \* the loop variable of that phase
  to_start,         \* workgroup_members_to_start
  errors,           \* errors > 0; in preparing a mesh, the result is X_ERROR
  wraparound,       \* mesh_options & X_WRAPAROUND_MESH
  loaded, started,  \* external: the cores that were loaded, and started
  unloaded,         \* history: cores x_launch_task started without a load
  blocks,           \* history: the blocks taken from working memory
  exhausted,        \* history: a block did not fit
  mesh,             \* history: the options of the mesh that was prepared
  launched,         \* history: what the last launch returned
  launches,         \* history: their number
  prepares,         \* history: calls of x_prepare_mesh_application
  connects          \* history: connections made by x_connect_tasks

memory == <<available_working_memory_end, blocks, exhausted>>
descriptors == <<executable_file_name, state>>
shared == <<connection_list_offset, connection_list_length, connection_index,
            num_connections>>
lists == <<master, index>>
launch == <<slot, to_start, errors, wraparound>>
cores == <<loaded, started, unloaded>>
app == <<x_application, mapped, workgroup_rows, workgroup_columns>>
history == <<mesh, launched, launches, prepares, connects>>
vars == <<app, memory, descriptors, shared, lists, pc, launch, cores, history>>

workgroup_size == workgroup_rows * workgroup_columns
Members == 0 .. workgroup_size - 1
Slots == 0 .. workgroup_size + HostSlots - 1
MemEnd == MemStart + MemSize

MeshKeys == {"X_TO_LEFT", "X_FROM_LEFT", "X_TO_RIGHT", "X_FROM_RIGHT",
             "X_TO_ABOVE", "X_FROM_ABOVE", "X_TO_BELOW", "X_FROM_BELOW"}
Connection == [source_task : Int, source_key : Keys \cup MeshKeys,
               sink_task : Int, sink_key : Keys \cup MeshKeys]
MeshPhases == {"mesh", "mesh result"}
LaunchPhases == {"indexes", "count", "load", "start", "return"}

Init ==
  /\ x_application = "null" /\ mapped = FALSE
  /\ workgroup_rows = 0 /\ workgroup_columns = 0
  /\ available_working_memory_end = MemEnd
  /\ executable_file_name = [t \in AllSlots |-> 0]
  /\ state = [t \in AllSlots |-> "none"]
  /\ connection_list_offset = 0 /\ connection_list_length = 0
  /\ connection_index = [t \in AllSlots |-> 0]
  /\ num_connections = [t \in AllSlots |-> 0]
  /\ master = <<>> /\ index = [t \in AllSlots |-> <<>>]
  /\ pc = "idle" /\ slot = 0 /\ to_start = 0 /\ errors = FALSE
  /\ wraparound = FALSE
  /\ loaded = {} /\ started = {} /\ unloaded = {}
  /\ blocks = {} /\ exhausted = FALSE
  /\ mesh = "none" /\ launched = "none" /\ launches = 0 /\ prepares = 0
  /\ connects = 0

-----------------------------------------------------------------------------
(* Working memory is handed out from its end, downwards.                    *)
AlignDown(address) == address - (address % Align)
Fits(end, size) == AlignDown(end - size) >= MemStart

xawm_alloc_bug(end, size) ==
  IF Fits(end, size) THEN AlignDown(end - size + 1) ELSE end

(* xawm_allocz and xawm_alloc_string: the offset of the block, which is     *)
(* also the new end of the available memory. If the block does not fit the  *)
(* offset returned is that of the last one, not zero.                       *)
xawm_alloc(end, size) ==
  IF Fits(end, size) THEN AlignDown(end - size) ELSE end

Block(owner, end, size) ==
  [owner |-> owner, start |-> xawm_alloc(end, size), size |-> size]

(* One block is allocated.                                                  *)
Allocate(owner, size) ==
  /\ available_working_memory_end' =
       xawm_alloc(available_working_memory_end, size)
  /\ blocks' = blocks \cup {Block(owner, available_working_memory_end, size)}
  /\ exhausted' = ~Fits(available_working_memory_end, size)

(* The host can make a call. Once a block has not fitted, the lists are     *)
(* copied over other structures; what happens then is not described.        *)
Idle == pc = "idle" /\ ~exhausted

-----------------------------------------------------------------------------
(* x_initialize_application when every call it makes succeeds: the table of *)
(* descriptors is allocated and, if the caller passed a file name, that is  *)
(* copied and the first host slot initialised.                              *)
x_initialize_application(w, named) ==
  LET slots == w[1] * w[2] + HostSlots
      table == xawm_alloc(MemEnd, slots * DescriptorSize)
      name == xawm_alloc(table, CallerNameSize)
      first == w[1] * w[2]  \* xtdt_next_available_host_task_descriptor
  IN
  /\ Idle /\ ~mapped
  /\ x_application' = "valid" /\ mapped' = TRUE
  /\ workgroup_rows' = w[1] /\ workgroup_columns' = w[2]
  /\ available_working_memory_end' = IF named THEN name ELSE table
  /\ blocks' = {Block(<<"table", 0>>, MemEnd, slots * DescriptorSize)} \cup
               {Block(<<"caller", 0>>, table, CallerNameSize) :
                                                n \in {TRUE} \cap {named}}
  /\ exhausted' = \/ ~Fits(MemEnd, slots * DescriptorSize)
                  \/ named /\ ~Fits(table, CallerNameSize)
  /\ executable_file_name' =
       [t \in AllSlots |-> IF named /\ t = first THEN name ELSE 0]
  /\ state' = [t \in AllSlots |-> IF named /\ t = first THEN "virgin" ELSE "none"]
  /\ loaded' = {} /\ started' = {} /\ unloaded' = {}  \* e_reset_system
  /\ UNCHANGED <<shared, lists, pc, launch, history>>

(* The device or its mapping fails; or it is mapped without the shared      *)
(* memory, after which the application cannot be initialised any more.      *)
InitializeFails ==
  /\ Idle /\ ~mapped
  /\ mapped' \in BOOLEAN
  /\ UNCHANGED <<x_application, workgroup_rows, workgroup_columns, memory,
                 descriptors, shared, lists, pc, launch, cores, history>>

-----------------------------------------------------------------------------
(* Connections.                                                             *)
Configured(t) == t \in Slots /\ executable_file_name[t] # 0

(* xc_validate_task_key in the role of source: no connection of the task    *)
(* has the key as its source key.                                           *)
NewSourceKey(m, x, t, key) ==
  \A i \in 1 .. Len(x[t]) :
    ~(m[x[t][i]].source_task = t /\ m[x[t][i]].source_key = key)

(* In the role of sink the loop tests the task's first connection each time. *)
NewSinkKey(m, x, t, key) ==
  x[t] # <<>> =>
    ~(m[x[t][1]].sink_task = t /\ m[x[t][1]].sink_key = key)

xc_add_task_endpoint_bug(x, t, n) == IF x[t] = <<>> THEN [x EXCEPT ![t] = <<n>>] ELSE x

xc_add_task_endpoint(x, t, n) == [x EXCEPT ![t] = Append(@, n)]

(* xc_connect_by_task_id: the lists with connection c if it is accepted. A  *)
(* duplicate key, or a task that is not configured, is reported but refused *)
(* only when the value that happens to be returned is not zero.             *)
xc_connect_by_task_id(l, c, configured, lucky) ==
  IF lucky \/ ( /\ configured
                /\ NewSourceKey(l.master, l.index, c.source_task, c.source_key)
                /\ NewSinkKey(l.master, l.index, c.sink_task, c.sink_key))
  THEN LET n == Len(l.master) + 1 IN
       [master |-> Append(l.master, c),
        index |-> xc_add_task_endpoint(
                    xc_add_task_endpoint(l.index, c.source_task, n),
                    c.sink_task, n),
        result |-> "X_SUCCESS"]
  ELSE [l EXCEPT !.result = "X_ERROR"]

Lists == [master |-> master, index |-> index, result |-> "X_SUCCESS"]

(* With a task id outside the table, or before the initialisation, memory   *)
(* that is no descriptor is taken for one.                                  *)
x_connect_tasks(sender, sender_key, receiver, receiver_key, lucky) ==
  LET c == [source_task |-> sender, source_key |-> sender_key,
            sink_task |-> receiver, sink_key |-> receiver_key]
      known == x_application = "valid" /\ {sender, receiver} \subseteq Slots
      l == xc_connect_by_task_id(Lists, c,
             Configured(sender) /\ Configured(receiver), lucky)
  IN
  /\ Idle
  /\ connects < MaxConnects
  /\ IF known
     THEN master' = l.master /\ index' = l.index /\ UNCHANGED pc
     ELSE pc' \in {"idle", "crashed"} /\ UNCHANGED lists
  /\ connects' = connects + Len(master') - Len(master)
  /\ UNCHANGED <<app, memory, descriptors, shared, launch, cores, mesh, launched,
                 launches, prepares>>

-----------------------------------------------------------------------------
(* The mesh.                                                                *)
(* The row is compared with the number of columns.                          *)
WithinRows(row) == row < workgroup_columns

x_workgroup_member_task(row, column) ==
  IF WithinRows(row) THEN row * workgroup_columns + column ELSE X_NULL_TASK

(* Member (row, col) sends with one key to its neighbour at distance        *)
(* (down, right), which receives with another, in the order of the code.    *)
Directions ==
  <<[down |-> 0,  right |-> -1, to |-> "X_TO_LEFT",  from |-> "X_FROM_RIGHT"],
    [down |-> -1, right |-> 0,  to |-> "X_TO_ABOVE", from |-> "X_FROM_BELOW"],
    [down |-> 0,  right |-> 1,  to |-> "X_TO_RIGHT", from |-> "X_FROM_LEFT"],
    [down |-> 1,  right |-> 0,  to |-> "X_TO_BELOW", from |-> "X_FROM_ABOVE"]>>

xc_connect_by_workgroup_coords(row, col, d) ==
  LET wrapped_row == (row + d.down + workgroup_rows) % workgroup_rows
      wrapped_col == (col + d.right + workgroup_columns) % workgroup_columns
  IN [source_task |-> x_workgroup_member_task(row, col),
      source_key |-> d.to,
      sink_task |-> x_workgroup_member_task(wrapped_row, wrapped_col),
      sink_key |-> d.from]

Wanted_bug(row, col, d, wrap) ==
  \/ wrap
  \/ /\ row + d.down >= 0 /\ row + d.down < workgroup_rows
     /\ col + d.right > 0 /\ col + d.right < workgroup_columns

(* The member has a neighbour on that side, or the mesh wraps around.       *)
Wanted(row, col, d, wrap) ==
  \/ wrap
  \/ /\ row + d.down >= 0 /\ row + d.down < workgroup_rows
     /\ col + d.right >= 0 /\ col + d.right < workgroup_columns

(* x_prepare_mesh_application: the file name is stored, and members without *)
(* a task get one. Then its loops go through the members, and in each       *)
(* through the four sides; slot counts the sides.                           *)
x_prepare_mesh_application(wrap) ==
  LET fresh == {t \in Members : executable_file_name[t] = 0}
      name == xawm_alloc(available_working_memory_end, NameSize)
  IN
  /\ Idle /\ x_application = "valid"
  /\ master # <<>> => Len(master) + 4 * workgroup_size <= MaxMesh
  /\ prepares < MaxPrepares /\ prepares' = prepares + 1
  /\ Allocate(<<"name", available_working_memory_end>>, NameSize)
  /\ executable_file_name' =
       [t \in AllSlots |-> IF t \in fresh THEN name ELSE executable_file_name[t]]
  /\ state' = [t \in AllSlots |-> IF t \in fresh THEN "virgin" ELSE state[t]]
  /\ pc' = "mesh" /\ slot' = 0 /\ errors' = FALSE
  /\ wraparound' = wrap
  /\ mesh' = IF master = <<>> THEN "preparing" ELSE mesh
  /\ launched' = "none"
  /\ UNCHANGED <<app, shared, lists, to_start, cores, launches, connects>>

Row(n) == (n \div 4) \div workgroup_columns
Col(n) == (n \div 4) % workgroup_columns
Side(n) == Directions[(n % 4) + 1]
SideWanted(n) == Wanted(Row(n), Col(n), Side(n), wraparound)

(* The next iteration of a loop over n slots, or the next phase.            *)
Iterate(n, phase) ==
  IF slot + 1 < n THEN slot' = slot + 1 /\ UNCHANGED pc
  ELSE slot' = 0 /\ pc' = phase

(* One connection of the mesh. The null task as one of its ends is refused, *)
(* or taken for a pointer that ends the process.                            *)
MeshConnect(lucky) ==
  LET c == xc_connect_by_workgroup_coords(Row(slot), Col(slot), Side(slot))
      l == xc_connect_by_task_id(Lists, c, TRUE, lucky)
      null == X_NULL_TASK \in {c.source_task, c.sink_task}
  IN
  /\ pc = "mesh" /\ ~exhausted
  /\ SideWanted(slot)
  /\ IF null THEN errors' = TRUE /\ UNCHANGED lists
     ELSE /\ master' = l.master /\ index' = l.index
          /\ errors' = (errors \/ l.result = "X_ERROR")
  /\ \/ Iterate(4 * workgroup_size, "mesh result")
     \/ null /\ pc' = "crashed" /\ UNCHANGED slot
  /\ UNCHANGED <<app, memory, descriptors, shared, to_start, wraparound, cores,
                 history>>

(* No connection on this side: the result variable of the side is looked at *)
(* even so, and is uninitialised until a first connection has been made.    *)
MeshSkip ==
  /\ pc = "mesh" /\ ~exhausted
  /\ ~SideWanted(slot)
  /\ \/ UNCHANGED errors
     \/ /\ \A n \in 0 .. slot - 1 : n % 4 = slot % 4 => ~SideWanted(n)
        /\ errors' = TRUE
  /\ Iterate(4 * workgroup_size, "mesh result")
  /\ UNCHANGED <<app, memory, descriptors, shared, lists, to_start, wraparound,
                 cores, history>>

MeshResult ==
  /\ pc = "mesh result"
  /\ pc' = "idle"
  /\ mesh' = IF mesh # "preparing" THEN mesh
             ELSE IF errors THEN "none"
             ELSE IF wraparound THEN "wraparound" ELSE "plain"
  /\ UNCHANGED <<app, memory, descriptors, shared, lists, launch, cores,
                 launched, launches, prepares, connects>>

-----------------------------------------------------------------------------
(* x_launch_application. First xc_setup_application_connections: the list   *)
(* is copied to shared memory, once, then the indexes of all tasks.         *)
x_launch_application ==
  /\ Idle /\ x_application = "valid"
  /\ launches < MaxLaunches
  /\ slot' = 0 /\ to_start' = 0 /\ errors' = FALSE /\ UNCHANGED wraparound
  /\ IF connection_list_offset # 0 \/ master = <<>>
     THEN pc' = "count" /\ UNCHANGED <<memory, shared>>
     ELSE /\ pc' = "indexes"
          /\ Allocate(<<"list", 0>>, Len(master) * ConnectionSize)
          /\ connection_list_offset' = available_working_memory_end'
          /\ connection_list_length' = Len(master)
          /\ UNCHANGED <<connection_index, num_connections>>
  /\ UNCHANGED <<app, descriptors, lists, cores, history>>

SetupIndex ==
  /\ pc = "indexes" /\ ~exhausted
  /\ IF index[slot] = <<>> THEN UNCHANGED <<memory, shared>>
     ELSE /\ Allocate(<<"index", slot>>, Len(index[slot]) * IndexSize)
          /\ connection_index' =
               [connection_index EXCEPT ![slot] = available_working_memory_end']
          /\ num_connections' =
               [num_connections EXCEPT ![slot] = Len(index[slot])]
          /\ UNCHANGED <<connection_list_offset, connection_list_length>>
  /\ Iterate(workgroup_size + HostSlots, "count")
  /\ UNCHANGED <<app, descriptors, lists, to_start, errors, wraparound, cores,
                 history>>

ToStart(t) == executable_file_name[t] # 0 /\ state[t] = "virgin"

CountMember ==
  /\ pc = "count" /\ ~exhausted
  /\ to_start' = IF ToStart(slot) THEN to_start + 1 ELSE to_start
  /\ Iterate(workgroup_size, "load")
  /\ UNCHANGED <<app, memory, descriptors, shared, lists, errors, wraparound,
                 cores, history>>

SameExecutable ==
  \A t \in Members : executable_file_name[t] = executable_file_name[0]
GroupLoad == to_start = workgroup_size /\ SameExecutable

AfterLoad_bug(failed) == IF to_start = 0 THEN "return" ELSE "start"

(* No core is started when loading failed.                                  *)
AfterLoad(failed) == IF failed \/ to_start = 0 THEN "return" ELSE "start"

(* e_load_group may fail half way.                                          *)
LoadGroup ==
  /\ pc = "load" /\ GroupLoad
  /\ \/ loaded' = Members /\ pc' = AfterLoad(FALSE) /\ UNCHANGED errors
     \/ /\ \E some \in SUBSET Members : loaded' = loaded \cup some
        /\ pc' = AfterLoad(TRUE) /\ errors' = TRUE
  /\ UNCHANGED <<app, memory, descriptors, shared, lists, slot, to_start,
                 wraparound, started, unloaded, history>>

LoadMember ==
  /\ pc = "load" /\ ~GroupLoad
  /\ \/ /\ loaded' = IF ToStart(slot) THEN loaded \cup {slot} ELSE loaded
        /\ UNCHANGED errors
     \/ ToStart(slot) /\ errors' = TRUE /\ UNCHANGED loaded
  /\ Iterate(workgroup_size, AfterLoad(errors'))
  /\ UNCHANGED <<app, memory, descriptors, shared, lists, to_start, wraparound,
                 started, unloaded, history>>

(* e_start_group may fail half way.                                         *)
StartGroup ==
  /\ pc = "start" /\ to_start = workgroup_size
  /\ \/ started' = Members /\ UNCHANGED errors
     \/ /\ \E some \in SUBSET Members : started' = started \cup some
        /\ errors' = TRUE
  /\ pc' = "return"
  /\ UNCHANGED <<app, memory, descriptors, shared, lists, slot, to_start,
                 wraparound, loaded, unloaded, history>>

StartMember_bug ==
  /\ pc = "start" /\ to_start # workgroup_size
  /\ \/ started' = IF ToStart(slot) THEN started \cup {slot} ELSE started
     \/ ToStart(slot) /\ UNCHANGED started
  /\ Iterate(workgroup_size, "return")
  /\ UNCHANGED <<app, memory, descriptors, shared, lists, to_start, errors,
                 wraparound, loaded, unloaded, history>>

StartMember ==
  /\ pc = "start" /\ to_start # workgroup_size
  /\ \/ /\ started' = IF ToStart(slot) THEN started \cup {slot} ELSE started
        /\ UNCHANGED errors
     \/ ToStart(slot) /\ errors' = TRUE /\ UNCHANGED started
  /\ Iterate(workgroup_size, "return")
  /\ UNCHANGED <<app, memory, descriptors, shared, lists, to_start, wraparound,
                 loaded, unloaded, history>>

LaunchResult ==
  /\ pc = "return"
  /\ pc' = "idle"
  /\ launched' = IF errors THEN "X_ERROR" ELSE "X_SUCCESS"
  /\ launches' = launches + 1
  /\ UNCHANGED <<app, memory, descriptors, shared, lists, launch, cores, mesh,
                 prepares, connects>>

-----------------------------------------------------------------------------
x_is_workgroup_task(task_id) == task_id \in Members

(* x_launch_task starts a virgin task of the workgroup but does not load    *)
(* it: a core that is not loaded runs what its memory happens to hold.      *)
(* (For a host task it forks a process that only returns.)                  *)
x_launch_task(task_id) ==
  /\ Idle /\ x_application = "valid"
  /\ x_is_workgroup_task(task_id) /\ ToStart(task_id)
  /\ started' = started \cup {task_id}
  /\ unloaded' = unloaded \cup ({task_id} \ loaded)
  /\ UNCHANGED <<app, memory, descriptors, shared, lists, pc, launch, loaded,
                 history>>

(* All cores are halted and the device is unmapped; x_application keeps its *)
(* value, and the temporary lists are kept.                                 *)
x_finalize_application ==
  /\ Idle /\ x_application = "valid"
  /\ pc' = "done" /\ mapped' = FALSE
  /\ UNCHANGED <<x_application, workgroup_rows, workgroup_columns, memory,
                 descriptors, shared, lists, launch, cores, history>>

(* A started task sets the state in its descriptor, first when it starts    *)
(* and then when it ends (main in x_task.c). So may a core started without  *)
(* a load, when its memory holds the image of an earlier application.       *)
TaskStep(t) ==
  /\ t \in started /\ pc # "done"
  /\ \/ state[t] = "virgin" /\ state' = [state EXCEPT ![t] = "active"]
     \/ state[t] = "active" /\ state' = [state EXCEPT ![t] = "ended"]
  /\ UNCHANGED <<app, memory, executable_file_name, shared, lists, pc, launch,
                 cores, history>>

Host ==
  \/ \E w \in Workgroups, named \in BOOLEAN : x_initialize_application(w, named)
  \/ InitializeFails
  \/ \E s, r \in Tasks, sk, rk \in Keys, lucky \in Luck :
       x_connect_tasks(s, sk, r, rk, lucky)
  \/ \E wrap \in BOOLEAN : x_prepare_mesh_application(wrap)
  \/ \E lucky \in Luck : MeshConnect(lucky)
  \/ MeshSkip \/ MeshResult
  \/ x_launch_application
  \/ SetupIndex \/ CountMember \/ LoadGroup \/ LoadMember
  \/ StartGroup \/ StartMember \/ LaunchResult
  \/ \E t \in AllSlots : x_launch_task(t)
  \/ x_finalize_application

Next == Host \/ \E t \in AllSlots : TaskStep(t)

Spec == Init /\ [][Next]_vars

-----------------------------------------------------------------------------
(* The copy of a task's index in shared memory: index only grows after it.  *)
SharedIndex(t) == SubSeq(index[t], 1, num_connections[t])

(* The mode that task t gives its endpoint of connection n. The source is   *)
(* tested first, also for a task that is connected to itself.               *)
Mode(t, n) ==
  IF master[n].source_task = t THEN "X_SENDING_ENDPOINT"
  ELSE IF master[n].sink_task = t THEN "X_RECEIVING_ENDPOINT"
  ELSE "X_UNINITIALISED_ENDPOINT"

HasKey_bug(t, n, key) ==
  \/ Mode(t, n) = "X_SENDING_ENDPOINT" /\ master[n].sink_key = key
  \/ Mode(t, n) = "X_RECEIVING_ENDPOINT" /\ master[n].source_key = key

HasKey(t, n, key) ==
  \/ Mode(t, n) = "X_SENDING_ENDPOINT" /\ master[n].source_key = key
  \/ Mode(t, n) = "X_RECEIVING_ENDPOINT" /\ master[n].sink_key = key

(* The connection of the endpoint that task t gets for a key: the first in  *)
(* its index that has the key, or 0 for NULL.                               *)
x_get_endpoint(t, key) ==
  LET ix == SharedIndex(t)
      found == {i \in 1 .. Len(ix) : HasKey(t, ix[i], key)}
  IN IF found = {} THEN 0
     ELSE ix[CHOOSE i \in found : \A j \in found : i <= j]

-----------------------------------------------------------------------------
AppType ==
  /\ x_application \in {"null", "valid"} /\ mapped \in BOOLEAN
  /\ workgroup_rows \in Nat /\ workgroup_columns \in Nat
MemoryType == available_working_memory_end \in Int /\ exhausted \in BOOLEAN
DescriptorsType ==
  /\ executable_file_name \in [AllSlots -> Int]
  /\ state \in [AllSlots -> {"none", "virgin", "active", "ended"}]
SharedType ==
  /\ connection_list_offset \in Int /\ connection_list_length \in Nat
  /\ connection_index \in [AllSlots -> Int]
  /\ num_connections \in [AllSlots -> Nat]
ListsType == master \in Seq(Connection) /\ index \in [AllSlots -> Seq(Nat)]
LoopType ==
  /\ pc \in {"idle", "done", "crashed"} \cup MeshPhases \cup LaunchPhases
  /\ slot \in Nat /\ to_start \in Nat
FlagsType == errors \in BOOLEAN /\ wraparound \in BOOLEAN
CoresType ==
  /\ loaded \subseteq AllSlots /\ started \subseteq AllSlots
  /\ unloaded \subseteq AllSlots
HistoryType == launches \in Nat /\ prepares \in Nat /\ connects \in Nat

TypeOK ==
  /\ AppType /\ MemoryType /\ DescriptorsType /\ SharedType /\ ListsType
  /\ LoopType /\ FlagsType /\ CoresType /\ HistoryType

(* Blocks taken from working memory are aligned, lie inside it and do not   *)
(* overlap, in whatever order tables, names, lists and indexes are          *)
(* allocated, as long as there was room for all.                            *)
Exclusive ==
  ~exhausted =>
    /\ \A b \in blocks : /\ b.start % Align = 0
                         /\ b.start >= MemStart
                         /\ b.start + b.size <= MemEnd
    /\ \A b, c \in blocks : b # c => \/ b.start + b.size <= c.start
                                     \/ c.start + c.size <= b.start

(* The mesh as a relation between places, not as the code's loops: task t   *)
(* sends with key "to" to the task that is at a distance of down, right.    *)
Adjacent(t, u, down, right, wrap) ==
  LET drow == (t \div workgroup_columns) + down - (u \div workgroup_columns)
      dcol == (t % workgroup_columns) + right - (u % workgroup_columns)
  IN IF wrap THEN drow % workgroup_rows = 0 /\ dcol % workgroup_columns = 0
     ELSE drow = 0 /\ dcol = 0

MeshReference(wrap) ==
  LET Edges(down, right, to, from) ==
        {[source_task |-> e[1], source_key |-> to,
          sink_task |-> e[2], sink_key |-> from] :
         e \in {e \in Members \X Members : Adjacent(e[1], e[2], down, right, wrap)}}
  IN Edges(0, 1, "X_TO_RIGHT", "X_FROM_LEFT") \cup
     Edges(1, 0, "X_TO_BELOW", "X_FROM_ABOVE") \cup
     Edges(0, -1, "X_TO_LEFT", "X_FROM_RIGHT") \cup
     Edges(-1, 0, "X_TO_ABOVE", "X_FROM_BELOW")

(* A mesh prepared with X_SUCCESS is the mesh: each task sends to, and      *)
(* receives from, each neighbour on the right keys, and every connection is *)
(* there once, for every shape of the workgroup.                            *)
MeshComplete ==
  mesh \in {"plain", "wraparound"} =>
    LET ref == MeshReference(mesh = "wraparound")
        n == Cardinality(ref)
    IN Len(master) >= n /\ {master[i] : i \in 1 .. n} = ref

(* Before x_launch_application loads and starts tasks, the index of each in *)
(* shared memory lists its endpoints in the shared list: one per connection *)
(* that it is the source of and one per connection that it is the sink of,  *)
(* also in a second launch with connections made since the first.           *)
EndpointsListed ==
  pc \in LaunchPhases \ {"indexes"} /\ ~exhausted =>
    \A t \in Slots :
      LET sources == {n \in 1 .. connection_list_length : master[n].source_task = t}
          sinks == {n \in 1 .. connection_list_length : master[n].sink_task = t}
          ix == SharedIndex(t)
      IN /\ num_connections[t] = Cardinality(sources) + Cardinality(sinks)
         /\ {ix[i] : i \in 1 .. Len(ix)} = sources \cup sinks

(* When the tasks of a mesh are loaded and started, neighbours that ask     *)
(* x_get_endpoint for their opposite keys get the two ends of one           *)
(* connection, also when the mesh was prepared a second time or other       *)
(* connections were added. (A task that is its own neighbour does not: both *)
(* of its endpoints are sending ones.)                                      *)
NeighboursMeet ==
  pc \in {"load", "start"} /\ mesh \in {"plain", "wraparound"} =>
    \A c \in MeshReference(mesh = "wraparound") :
      c.source_task # c.sink_task =>
        LET n == x_get_endpoint(c.source_task, c.source_key) IN
        /\ n \in 1 .. connection_list_length
        /\ n = x_get_endpoint(c.sink_task, c.sink_key)
        /\ master[n].source_task = c.source_task
        /\ master[n].sink_task = c.sink_task

(* When x_launch_application has returned X_SUCCESS every task configured   *)
(* in the workgroup has been loaded and started, also when the launch was   *)
(* repeated after errors while tasks it had started were running. A core    *)
(* that x_launch_task has started without a load is started, no more.       *)
LaunchComplete ==
  launched = "X_SUCCESS" /\ pc = "idle" =>
    \A t \in Members : executable_file_name[t] # 0 =>
      t \in started /\ t \in loaded \cup unloaded

(* x_launch_application starts no core that it could not load, whichever    *)
(* loads and starts of this and of earlier launches failed: the only cores  *)
(* that run without a load are those x_launch_task had started so.          *)
LoadedFirst == started \subseteq loaded \cup unloaded
=============================================================================
