# A TLA+ development for x-lib

x-lib is a message-passing library for the Adapteva Epiphany: a host program
sets up an *application* of tasks, one per core, in shared memory, connects
them, starts the cores and watches them; the tasks talk to each other over
point-to-point connections. This directory holds TLA+ models of it, TLC
configurations and TLAPS proofs. Paths below are relative to the repository
(`x-lib/src/x_sync.c` and so on).

## 1. Inventory

| Part | State | Operations | Hard behaviour | What makes it correct |
|---|---|---|---|---|
| Messaging (`x_sync.c`, `x_endpoint.c`) | an endpoint on each core: `sequence`, and `sequence_from_peer`, `control_from_peer`, `address_from_peer` written by the peer | `x_sync`, `x_sync_send`, `x_sync_receive`, `x_endpoint_ready` | two cores storing into each other's memory without locks; interrupts; rollover; alignment of copies | nobody passes a rendezvous alone; both ends decide alike; data lands complete in an open buffer; calls that meet end |
| Task start-up (`x_task.c`) | task descriptor, endpoint array on the stack, endpoint addresses in the shared connection list | `main`, `xt_initialise_endpoints`, `x_get_endpoint` | cores start at different times; a peer may already communicate | endpoints are linked to the right peers; no early sequence number is lost; the tasks that reach `task_main` are those not connected to themselves; results stay terminal |
| Application state (`x_application.c`, `x_application_display.c`) | the descriptors' states | `x_get_application_state`, `x_monitor_application`, `x_finalize_application` | a scan of states that change under it; 16-bit states | verdicts are sound for the tasks that have started; a failure and a start are never taken back; the monitor ends |
| Application set-up (`x_application.c`, `x_get_endpoint` of `x_task.c`) | shared data area with a downward allocator, descriptor table, connection lists | `x_initialize_application`, `x_prepare_mesh_application`, `x_connect_tasks`, `x_launch_application`, `x_launch_task`, `x_finalize_application` | exhaustion of working memory; loads and starts that fail half way; launches repeated while tasks run; functions without a return statement | blocks do not overlap; the mesh is complete for every shape; neighbours find the same connection; a launch that succeeds has started every task, and has started none unloaded |
| Last error (`x_error.c`) | the last code and two values | `x_error`, `x_last_error` | none | |
| Device mapping (`x_epiphany_control.c`) | the control structure: workgroup, mapped segments, `initialized` | `x_map_epiphany_resources`, `x_unmap_epiphany_resources`, `x_epiphany_to_host_address` | each of a row of acquisitions may fail, and so may each release | everything acquired is offered back; what is initialised is usable; a word has one host address |
| System calls (`x_epiphany_syscall.c`, `x_epiphany_exception.c`), simon (`src/simon.c`) | which cores have been seen to exit, their number, the position polled | decoding a halt, gathering parameters, the host's call, returning results, resuming the core | many cores polled in turn, restarted by others, trapping again after they were counted | the count is right; a result of 0 means that all have ended; a core gets the result and the output of its own call; polling ends and reaches every core |
| Sleep, diagnostics, display, examples | | | | output or delays only |

Interaction: the host writes the connection list and starts the cores; each
core publishes its endpoints there and polls for its peers'; after that cores
store straight into each other's endpoints and buffers. The host sees only the
descriptors' states. simon is a host program of its own, beside the one that
started the cores: it sees only halted cores. `PROJECT.json` lists the components with their status,
and the hazards, each at its line.

## 2. Plan

Done:

1. `Rendezvous`, `XSync`, `XCopy` with `XSyncProofs` and `XCopyProofs`.
2. `XTask` with `XTaskProofs`: start-up; `XMonitor` with `XMonitorProofs`: the
   host's view.
3. `XApplication` with `XApplicationProofs` (working memory and launch) and
   `XMeshProofs` (connections, mesh, and the search by key).
4. `XControl` with `XControlProofs`: the device; `XSyscall` and `XSimon` with
   `XSimonProofs`: system calls and the program monitor, composed with
   `XControl`.

Left:

* the connection list of an `XApplication` behaviour as the `Topologies` of
  `XTask`.

## 3. Modules

**`Rendezvous`** is the abstract promise of a connection: two peers arrive at
and depart from rounds, and none departs from a round its peer has not reached.

**`XSync`** is the code of the three calls on one connection, `source` and
`sink` being the two cores. The variables are the endpoint fields, the locals
`new_sequence` and `size_from_peer`, the last `result` and `last_error`, the
memories `mem`, and the history variable `met`: the peer's call that this call
met in its first rendezvous. Each store to the peer (`Begin...`,
`PostControl`, `PostSequence`, `PostSecond`) and each load of a field the peer
writes (`SpinExit`, `Read...`, `SecondExit`) is a step; local computation
goes with the load before it. A spin loop is the action that leaves it: passes
that change nothing are stuttering. A receive that meets an `x_sync` may by
`PeersAgree` return 0 or -1; which of the two is the subject of `sync_receive`. `ModeMismatch` is the early return. The
data is one value per buffer, copied in one step (`CopyData`): nobody looks at
the buffer in between, and `XCopy` has the loops.

Memory model: stores of one core to another arrive in program order (the
endpoint fields are `volatile`, the write mesh keeps the order between a pair
of cores), and a core never reads back what it stored remotely, so a late store
is the same as a slow writer. The same program order is assumed of `XTask`.

`Interruptible` separates two environments that the comment on `x_sync` names.
With `TRUE` the cores are fully asynchronous, which is all that the code by
itself guarantees. `FALSE` adds `MayStore`, a timing assumption that stands in
no line of the code: an awaited number that has arrived is taken out of a core's
own memory, and the control word with it, before the peer's next store arrives.
The comment relies on this when it proposes to disable interrupts. Mostly the
peer would first have to return, be called and begin to store; but the receiver
of a transfer posts its second number a few instructions after its first spin
loop, and there the assumption is only that the sender's spin loop is quicker
than those instructions. So the race itself is assumed away wherever
`Interruptible` is `FALSE`: the passing run shows that the protocol is right
given the timing, and the failing run `sync_race` what happens without it.

**`XCopy`** is the copying part of `x_sync_send`: one step per pass of a loop
body. `written` records which source byte each destination byte came from.

**`XTask`** has all cores running `main`: clear an endpoint, publish it, poll
for the peer's address, enter `task_main`, where `FirstSync` stands for the
first store of an `x_sync` on an endpoint, and return. The endpoint array
starts with stale stack contents. The size check at the start of
`xt_initialise_endpoints` cannot fail, as its only caller sizes the array by
the same count, and is left out. `task_main` may return at any time.

**`XMonitor`** has the host reading one descriptor per step while tasks move
from virgin to initialising, active and a result. `pc` tells which call of
`x_get_application_state` the host is in: the monitor's loop condition, the
one after the loop, or the one in `x_finalize_application`, which then halts
the cores. The application exists (`x_application` is not NULL), as it does
where the host programs call these functions, and all tasks are workgroup
tasks: launching a host task is not implemented in the code.

**`XApplication`** is the host's side of an application: one thread, whose
calls are steps, but with a step per pass for the mesh, the transfer of the
indexes and the loops of the launch, between which tasks that run already
change their descriptors (`TaskStep`). Working memory is a number, the end of
what is still available, and every block taken is recorded in `blocks`. The
temporary lists are `master` and `index`; `SharedIndex` is the part of a task's
index that the launch has copied to shared memory, and `x_get_endpoint` the
search a task makes in it. `x_launch_task` starts any virgin task of the
workgroup; `unloaded` records the cores it started that nothing was loaded into. `Luck` stands for the functions that end without a
`return` after printing a message: the caller then finds an arbitrary value, and
the connection that was to be refused is made if that is zero. Uninitialised
results in the mesh loops are choices in the same way (`MeshSkip`). What happens
once memory is exhausted is not described: the code goes on writing over other
blocks (`Idle` has `~exhausted`).

**`XControl`** is the mapping of the device. A mapping is one step, with the
number of the first eSDK call that fails as its input, so every prefix of the
acquisitions is tried; what the error path gives back is `Cleanup`, in which any
of the releases may fail, as in the unmapping, and the failures are ignored.
`closeRefused` and `freeRefused` record them. The
addresses of the instances are small (`CoreSpan`, `IdCols`), the arithmetic is
that of the code.

**`XSyscall`** has no state: it says how a halt is decoded, which calls of the
host are made for a request, which of their results goes back and where the
output lands, the missing `break`s and the cases without a handler included.
`HostOutcomes` are the ways the host's calls can turn out.

**`XSimon`** composes both (`Device == INSTANCE XControl`): the command line,
mapping, one step per poll of a core, unmapping. The programs on the cores trap
with any of `Requests`, end with any of `Endings`, and other host programs start
`Restartable` cores again, at any time. `served` is what the last poll did for a
core. Polling a place outside the workgroup is `PollOutside`: an error, or a
read of registers that belong to no core, which may end the process or look like
a running core's, a stopped one's (counted, up to a result of 0), or a request
(served).

Definitions named `..._bug` are variants of the definition after them with a
plausible mistake. Nothing refers to them; putting one in place of the original
makes the property listed with it in `PROJECT.json` fail.

## 4. Runs

| Run | Checks | Bounds |
|---|---|---|
| `sync_uninterrupted` | all properties of `XSync`, any calls, no interrupts | modulus 3, sizes 0..2, two payloads |
| `sync_interrupted` | delivery of transfers of one size, and `IsRendezvous`, fully asynchronous | modulus 4, one size, buffers in core and shared memory, two payloads |
| `sync_race` | `NoMissedRendezvous` fails when cores may be interrupted | sends and receives of one size |
| `sync_receive` | `ReceiveOfSyncIsZero` fails, without interrupts | `x_sync` and receives of one size |
| `copy` | `NoOverrun`, `CopiesAll`, `AlignedAccess`, `CopyEnds` | every pair of alignments modulo 8, sizes 1 to 76 |
| `startup` | `TypeOK`, `EarlyPostKept`, `PeersLinked`, `TerminalResult`, `EveryTaskActivates` | 3 tasks, 3 connections: a ring, and a pair connected both ways beside a task that is isolated, or connected to itself |
| `monitor` | `TypeOK`, `SuccessMeansEnded`, `VerdictNeverGoesBack`, `MonitorSeesSuccess` | 3 tasks and a free slot |
| `monitor_failed` | `MonitorEnds` fails | the same |
| `builder` | `Exclusive`, `MeshComplete`, `EndpointsListed`, `NeighboursMeet`, `LaunchComplete`, `LoadedFirst` | workgroups 1x3, 2x1, 2x2, one host slot; 2 meshes, 1 connection of the caller's (with the null task or a task to itself among the choices), 2 launches |
| `device` | `Usable`, `NothingLeaked`, `OneHostAddress` | 2x3 cores, 2 segments, 2 structures, sizes 0 to 3, origins -1 to 1 |
| `simon` | `CountExact`, `ZeroMeansHalted`, `SimonEnds`, `NoCoreForgotten` | 2x2 cores, 3 kinds of request, 2 kinds of ending, one core restartable |
| `simon_reply` | `ReplyIsOfTheCall` fails | the whole device, the requests of `simon` |

Bounds. The sequence numbers only meet in comparisons of numbers at most two
rounds apart, so a modulus of 3 or 4 has every case, rollover on every lap
included; the proofs cover every modulus from 3 on. The sizes tell apart the
sync value 0, equal, smaller and larger. For `XCopy` addresses matter modulo 8
and the largest stride is 32 bytes. Three tasks give an order in which one task
is in `task_main` while a second polls and the third clears. The task results
in `startup` lie on both sides of each bound and beyond 16 bits.

The workgroups of `builder` have one row, one column (more rows than columns,
where the row is checked against the wrong bound) or both; in 1x3 a member has
neighbours on two sides; where they wrap around, one member can be the neighbour
on two sides (2x2), or a member its own.
Memory is enough for all but the 2x2 mesh that wraps around, so exhaustion
happens while lists are transferred. Two launches allow the second to follow a
failure of the first, with tasks of the first running. In `device` the requested
sizes lie below, at and beyond what is left of the device, and the second
segment is smaller than the first. The requests in `simon` take each course of
serving: a reachable buffer, a call whose case runs on into the next, and an
output the host cannot deliver.

Deadlock checking is off where the modelled program may stop: tasks need not
call again, the copy ends, tasks return, the host program ends or crashes, the
programs on the cores end.

Fairness. A core that is in a call executes it (`WF` of `Steps`); nothing
obliges a task to make another call. All cores are started and run their
start-up (`WF` of `Boot`), but `task_main` owes nothing. The host program runs
(`WF` of `Host`; for simon, `WF` of `main`), and no fairness is assumed of the
tasks or cores it watches. `SimonEnds` therefore assumes that the cores stop,
and `NoCoreForgotten` that polling moves on: simon polls a core it has served
again at once, so one core with request after request can keep it to itself.

### What the failing runs show

* `sync_race`: the comment at `x-lib/src/x_sync.c:137` says the race of
  `x_sync` "should not arise because of the second sync". It does, within one
  transfer: a sender interrupted in its first spin loop (line 206), with number
  1 already there, is overtaken by the receiver's second post (line 356), number
  2 over the 1. Both cores then spin for ever.
* `sync_receive`: documented as "zero in the case of a sync from the sender"
  (`x-lib/src/x_sync.c:291`), the code returns -1 (line 349).
* `monitor_failed`: `x_application_state_t` is unsigned, so a failed
  application compares greater than `X_VIRGIN_APPLICATION` and the monitor
  never returns.
* `simon_reply`: `lseek` and `unlink` have no `break`
  (`x-lib/src/x_epiphany_syscall.c:690`): `fstat` is called after them and its
  result is the core's. After an `unlink` its descriptor is the address of the
  file name, so the core is told of a failure when the file is gone.

### Other disagreements seen while modelling

The models have these behaviours of the code, and the passing properties are
stated around them, as noted; no failing run is about them.

* "the peers make the same decision as to whether the second synchronisation is
  performed" (`x-lib/src/x_sync.c:129`). With two sizes and interrupts they need
  not: after a send that is too big the sender can return and store the control
  word of its next, smaller send before the receiver has loaded the first one,
  and the receiver takes it for a transfer that fits. `sync_interrupted` has one
  size, and so says nothing of what the peers decide.
* A task connected to itself publishes two source endpoints and no sink
  (`x-lib/src/x_task.c:258`) and polls for ever, in what the comment hopes "is
  not an eternal loop" (line 273). A mesh that wraps around in one row or column
  is made of such connections. `EveryTaskActivates` says that these tasks never
  become active, and all others do.
* Virgin tasks count with the successful ones (`x-lib/src/x_application.c:850`),
  against the rules in the comment (line 790): an application is reported
  successful while a core has yet to run, and that success is taken back when it
  runs. `SuccessMeansEnded` speaks of the started tasks only, and
  `VerdictNeverGoesBack` only of failures and starts.
* The monitor does not wait for a virgin application, so what it returns need not
  be "the terminal state of the application"
  (`x-lib/src/x_application_display.c:49`).
* "a core cannot have connections with duplicate keys"
  (`x-lib/src/x_application.c:1090`), but the search for a sink key tests the
  task's first connection each time round (line 521), and a duplicate of a later
  one is accepted. `NeighboursMeet` holds all the same.
* The row is compared with the number of columns
  (`x-lib/src/x_application.c:160`): with more rows than columns a mesh cannot
  be prepared. `MeshComplete` speaks of meshes reported as a success.
* The allocators are documented to return zero when memory is exhausted and
  return the last offset (`x-lib/src/x_application.c:342`), so the error
  branches of their callers are never taken. `Exclusive` says nothing of blocks
  after that.
* `x_launch_task` "loads and starts" by its comment
  (`x-lib/src/x_application.c:1113`), and only starts (line 1147): a core that
  was never loaded runs whatever its memory holds. `LoadedFirst` and
  `LaunchComplete` except the cores it has started so (`unloaded`), and no
  others.
* A repeated launch decides by the descriptor's state and so loads and starts
  again a core that has been started but has not yet run.
* `x_finalize_application` leaves `x_application` pointing at unmapped memory
  and keeps the temporary lists.
* `simon row column` (`src/simon.c:373`) maps a workgroup whose origin is that
  core and then polls the position (row, column) of the workgroup (line 465),
  which for any core but the first lies outside it. It may even return 0, if the
  registers found there look like a stopped core's, although "all cores have
  halted" (line 199) is not known then. `ZeroMeansHalted` is about polling that
  begins at (0,0), the whole device included.
* `close` and `lseek` through the system-call trap have no case for their
  parameters, and simon gives up polling. A file name's length is taken at the
  Epiphany address, not the host's.
* For a `read` into a buffer that the host cannot reach, the size to copy from
  the static area is taken from the wrong variable
  (`x-lib/src/x_epiphany_syscall.c:680`) and is zero: the core is told of bytes
  that it does not get. `ReplyIsOfTheCall` is false for this too.

## 5. Proofs

`XSyncProofs`, for every modulus from 3 on, every set of calls, sizes, buffers
and payloads, and both settings of `Interruptible`:

* `TypeCorrect`: `TypeOK` is inductive, given that the successor stays in range.
* `LockstepAlways`: `Lockstep` with `TypeOK` is inductive. Its parts need each
  other: what a peer has posted is a function of where it is in its call, the
  posted numbers are equal or successive, and the one in front is spinning; so
  when the other leaves a spin loop the numbers are equal. The modulus must be
  at least 3 for "one ahead" and "one behind" to differ.
* `ReadyAlwaysExact` follows from `Lockstep`.
* `ImplementsRendezvous`: every step of `XSync` maps to `Arrive`, `Depart` or
  stuttering of `Rendezvous` under the mapping at the end of `XSync`.

For `Interruptible = FALSE` (the hypothesis `~Interruptible` of the theorems;
`sync_race` shows that the first of them is false without it):

* `NoRendezvousMissed`, `PeersAlwaysAgree`, `DataAlwaysDelivered` and
  `BuffersStayOpen`: the four properties of the calls, `NoMissedRendezvous`,
  `PeersAgree`, `DataDelivered` and `OnlyOpenBuffers`. `Lockstep` counts rounds
  and does not know which of its two rendezvous a call is in, so it is
  strengthened by `Agreement`: what each call is (`OwnCall`), that the peer's
  fields hold what it announced (`Announced`), that the peers are at the same
  rendezvous of their calls (`Together`, which is where the timing of `MayStore`
  is used), that a call goes on to the second one only if both agree (`Outcome`),
  and that the data is in place from the copy until the receiver returns
  (`Delivered`).

For tasks that make only transfers, all of one positive size (the hypothesis
`MatchedTransfers`, the setting of `sync_interrupted`), and both settings of
`Interruptible`:

* `MatchedDataDelivered` and `MatchedBuffersOpen`: `DataDelivered` and
  `OnlyOpenBuffers` without the timing of `MayStore`. An interrupted core may
  miss a rendezvous and spin for good, but a receive that returns has the right
  data. `Together` is false here, since a peer may be in its next call while the
  other has yet to take out the number that ends the old one; `Matching` replaces
  it by what is left: the numbers are level exactly when both peers have posted
  the first number of a call and not the second, or neither has (`Paired`), each
  peer is told the one size, by whichever call told it (`Told`), and the receive
  buffer keeps the data of the send that was met unless the sender is ahead, and
  then the receive never returns (`Arrived`). `PeersAgree` is not among them:
  with one size and no `x_sync` there is nothing to disagree on, and with two
  sizes it is false when cores may be interrupted (section 4), as are the other
  two.

`XCopyProofs`, for all addresses and sizes: `NeverOverruns`,
`AlwaysCopiesAll`, `AlwaysAligned`. The inductive invariant is `IInv`: types,
`NoOverrun`, and `LoopReady`, which says for each loop how its pointers are
aligned and that the last one leaves nothing over; it is needed because the
alignment in a loop depends on which loops, and which odd first word, came
before it.

`XApplicationProofs`, for every set of workgroups, every size of memory and of
the structures, every alignment, and any number of calls:

* `ApplicationTypes`: `TypeOK` of `XApplication`.
* `MemoryExclusive`: `Exclusive`. The inductive invariant is `TypeOK`, `Shape`,
  `Room` and `Exclusive`: `Room` says that all blocks lie above the memory that
  is still available, so a new block lies below all of them; `Shape` ties the
  loop variables to the workgroup, without which the indexes that are transferred
  need not have a size.

* `NeverStartedUnloaded`: `LoadedFirst`, that is, whatever runs without a load was
  started by `x_launch_task` (section 4). It is
  not inductive: the launch counts
  in one loop, loads in the next and starts in a third, and tasks leave the
  virgin state in between. `LInv` says what each loop has established: a member
  counted is still to be started or was loaded before (`Counted`); if no load
  has failed, members passed by the load loop are loaded if they are still to be
  started; and when the count is that of the workgroup, so that the whole group
  is started at once, every member is loaded; each time, or is among those that
  `x_launch_task` started (`Provided`). A task that runs is one of these, which is
  why its steps do no harm.
* `SuccessMeansLaunched`: `LaunchComplete`. `SInv`, on top of the others, says
  that a configured member is virgin or started at all times, what a count of
  zero in each loop means, and that an end without errors has started all of
  them. It has to speak of every loop because a repeated launch counts only what
  an earlier one left over.

`XMeshProofs`, from the same assumptions, for every set of tasks and keys, and
whichever duplicate connections are accepted by luck:

* `EndpointsAlwaysListed`: `EndpointsListed`. The inductive invariant `CInv` says
  of the host's lists that the index of each slot describes the whole list, in
  ascending order (`Indexed`), and of shared memory that what the launch copied
  describes the part of the list copied with it (`Listed`): slot by slot while
  the loop that copies runs, and for all slots ever after. Connections made
  between two launches do no harm because lists only grow (`Grows`,
  `ListedGrows`), and the first launch with connections copies all of them.
* `MeshAlwaysComplete`: `MeshComplete`. `MInv` follows the loops: after k sides
  the list holds the connections of the wanted sides among them, each once, and
  nothing else (`Connected`), as long as no error was seen. After the last side
  they are those of `MeshReference`, which is a statement about places, not
  loops (`MadeAll`, over the arithmetic of `Place`, `Around` and
  `NeighbourFacts`). With more rows than columns some side has the null task as
  an end (the wrong bound in section 4), the call reports an error, and the
  theorem says nothing about that workgroup.
* `NeighboursAlwaysMeet`: `NeighboursMeet`. The mesh comes first in the list
  and, as part of `MInv`, in what is shared of it. A task's index is ascending,
  so the search meets its connections of the mesh before any that were added
  later with the same key; and a connection of the mesh is determined by
  either of its ends and the key used there (`RefEnds`), the receiving end
  because different members have different neighbours on the same side
  (`NeighbourOnce`). The proof needs `LeastNumber` for the first entry found.

`XTaskProofs`, for any number of tasks, any connections between them (several
between two tasks, and of a task to itself), any order of start-up and any
results:

* `TaskTypes`, `EarlyPostsAreKept`, `PeersAreLinked`: `TypeOK`, `EarlyPostKept`
  and `PeersLinked`. The inductive invariant `TInv` follows an address on its
  way: an endpoint that has been cleared has the mode of its task's role
  (`Modes`); an address in the connection list is that of a cleared endpoint in
  the mode of its place (`Published`); a link leads to the other end, cleared
  and in the other mode (`Links`); a pass of the polling loop without an
  unresolved endpoint has all of them linked (`Resolved`, `Placed`); and only
  tasks in `task_main` or beyond are reported active or have posted (`Reports`,
  `Posters`). A first post can then only go to an endpoint that will not be
  cleared again, and, as a connection has one other end (`OneOtherEnd`), to the
  right one.
* `OneOtherEnd` rests on what `Index` lists: a connection stands in the index of
  each task it connects, once unless it connects a task to itself
  (`IndexFacts`). `Index` is a recursive function; that it is well defined
  (`IndexExists`) and what it computes are proved by induction in the form of a
  least counterexample (`LeastNumber`), since the library's induction rules
  cannot be used.
* `ResultsAreTerminal`: `TerminalResult`, from the arithmetic of the two 16-bit
  conversions (`Int16Faithful`).

`XMonitorProofs`, for any number of tasks and free slots: `MonitorTypes`,
`SuccessIsTrue` and `ReportsGoForward`. `MInv` relates what has been read to
what is true now: a class read as ended or started stays true (`ReadIsTrue`), a
task that had started before the scan is not read as virgin (`StartedSeen`), and
a report of a failure or of a start has a task behind it that the next scan finds
again (`FailureKept`, `StartKept`).

`XControlProofs`, for every platform, number of segments and request:

* `InitializedIsUsable` and `NothingStaysMapped`: `Usable` and `NothingLeaked`
  are inductive with the types and `Blank` (a structure not yet allocated has no
  mappings, so that what the cleanup counts is what was acquired; that the
  acquired segments are the first ones is `CleanupFreesAll`). What a refused
  release leaves behind is what the history variables say was refused.
* `TranslationIsUnique`: `OneHostAddress`, from `Usable` and
  `MemoryMapAssumption`: columns fit a core id, no core has id zero and no core's
  slice of the addresses overlaps the external memory. These are facts of the
  platform, which the code takes for granted.

`XSimonProofs`, for a device of any size, any requests that simon serves, any
other endings, any restarts and any command line: `CountIsExact` and
`ZeroIsEarned`, the latter for polling that begins at core (0,0). `IInv` says that the position polled stays in the
rectangle asked for (`Within`), that the workgroup is the whole device or the one
core (`Placed`), so that a poll inside it reads the core whose flag it sets; that
a flagged core has ended or was restarted (`Flagged`, which holds only where no
place outside the workgroup is polled), and that only a complete
count leaves the result 0 (`ZeroEarned`). The end of the polling needs that equal
cardinalities of flagged and monitored cores mean equal sets.

The bounds on calls (`MaxConnects` and so on) are constants in these theorems, so
they hold for all of them.

Only model-checked: the liveness properties (`Progress`, `CopyEnds`,
`EveryTaskActivates`, `MonitorSeesSuccess`, `SimonEnds`, `NoCoreForgotten`),
since fairness is outside the prover's reach.

## 6. Not modelled

* Mapping into a control structure that exists already: no caller does it.
* A second application in the same process, and the failure of the host's
  `malloc`: assumptions of `XApplication`.
* `x_create_task`, a stub; the process forked for a host task, which only
  returns.
* `xt_initialise_task_control`, which computes the task's own id; heartbeat and
  status text, which reach only the display.
* simon's `post_io_countdown` and the exit statuses: they govern pauses and
  messages only. The data of system calls: only reachability and success matter
  to the properties.
* Diagnostics, displays and sleep produce output or delays. The example programs
  are users of the library. `x_exchange.h` declares functions that have no
  implementation.
