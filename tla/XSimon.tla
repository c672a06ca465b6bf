------------------------------- MODULE XSimon -------------------------------
(***************************************************************************)
(* simon (simon.c): a host program that maps the device, polls the cores,  *)
(* serves the system calls they trap for and ends when all have exited.    *)
(* It composes XControl, whose actions it takes for mapping and unmapping, *)
(* and XSyscall. A poll of a core is one step: a halted core does not move *)
(* until simon resumes it, and the other cores do not touch its registers. *)
(***************************************************************************)
EXTENDS XSyscall, FiniteSets

CONSTANTS
  Controls, PlatformRows, PlatformCols, PlatformRow, PlatformCol, NumEmems,
  EmemBase, EmemSize, CoreSpan, IdCols, Origins, Extents,  \* see XControl
  Arguments,    \* command lines: <<>> or <<row, column>>
  Requests,     \* the requests, served by simon, that programs on the cores make
  Endings,      \* the halts, other than a request, their programs end with
  Restartable   \* cores that other host programs start again

VARIABLES
  allocated, initialized, num_external_memory_mappings, workgroup, open,
  mapped, reported, closeRefused, freeRefused,  \* the device, see XControl
  core,                 \* what each core of the device is doing
  args,                 \* simon's command line
  first, last,          \* the first and last position polled, <<row, col>>
  row, col,             \* the position polled next
  exit_trapped, num_cores_exited,
  result,               \* of service_epiphany_traps and of main
  pc,                   \* "start", "polling", "unmap", "done" or "died"
  served,               \* the last poll's service of a core, if it was one
  restarted             \* cores started again after they were seen to exit

Device == INSTANCE XControl

device == <<allocated, initialized, num_external_memory_mappings, workgroup,
            open, mapped, reported, closeRefused, freeRefused>>
cores == <<core, restarted>>
loop == <<exit_trapped, num_cores_exited>>
vars == <<device, cores, args, first, last, row, col, loop,
          result, pc, served>>

Positions == (0 .. PlatformRows - 1) \X (0 .. PlatformCols - 1)
ASSUME SimonAssumption ==
  /\ PlatformRows \in Nat \ {0} /\ PlatformCols \in Nat \ {0}
  /\ PlatformRow \in Nat /\ PlatformCol \in Nat /\ NumEmems \in Nat
  /\ Requests \subseteq Request
  /\ \A q \in Requests : IsServed([type |-> "trap", value |-> q.trap])
  /\ Restartable \subseteq Positions
  /\ \A e \in Endings : /\ e.condition \in Condition \ {"running"}
                        /\ ~IsServed(x_catch_epiphany_exception(e))

Running == [condition |-> "running", value |-> 0]
Trapped(q) == [condition |-> "trap", value |-> q.trap, request |-> q]
Stopped(p) == core[p] \in Endings
NotServed == [core |-> <<>>]

Init ==
  /\ Device!Init
  /\ core = [p \in Positions |-> Running]
  /\ restarted = {}
  /\ args \in Arguments
  /\ first = <<0, 0>> /\ last = <<0, 0>> /\ row = 0 /\ col = 0
  /\ exit_trapped = [p \in Positions |-> FALSE]
  /\ num_cores_exited = 0
  /\ result = 1
  /\ pc = "start"
  /\ served = NotServed

Monitored == (first[1] .. last[1]) \X (first[2] .. last[2])
num_cores_monitored == (last[1] - first[1] + 1) * (last[2] - first[2] + 1)

-----------------------------------------------------------------------------
(* A program traps for a request, or ends.                                  *)
CoreHalts(p) ==
  /\ core[p] = Running
  /\ \/ \E q \in Requests : core' = [core EXCEPT ![p] = Trapped(q)]
     \/ \E e \in Endings : core' = [core EXCEPT ![p] = e]
  /\ UNCHANGED <<device, args, first, last, row, col, loop,
                 result, pc, served, restarted>>

(* Another host program loads and starts a core whose program has ended.    *)
Restart(p) ==
  /\ p \in Restartable /\ Stopped(p)
  /\ core' = [core EXCEPT ![p] = Running]
  /\ restarted' = IF exit_trapped[p] THEN restarted \cup {p} ELSE restarted
  /\ UNCHANGED <<device, args, first, last, row, col, loop,
                 result, pc, served>>

-----------------------------------------------------------------------------
(* The command line is right: none, or a core of the device.                *)
extract_args(a) == a = <<>> \/ a \in Positions

(* main up to the polling loop. Without the device, with a wrong command    *)
(* line or without a mapping the program ends with 1.                       *)
Fail ==
  /\ pc = "start"
  /\ pc' = "done"
  /\ UNCHANGED <<device, cores, args, first, last, row, col, loop,
                 result, served>>

Begin ==
  /\ pc = "start" /\ extract_args(args)
  /\ first' = IF args = <<>> THEN <<0, 0>> ELSE args
  /\ last' = IF args = <<>> THEN <<PlatformRows - 1, PlatformCols - 1>> ELSE args
  /\ \E c \in Controls, fails \in Device!CALLOC .. Device!LastCall + 1,
        closes \in BOOLEAN, fail \in SUBSET (0 .. NumEmems - 1) :
       /\ Device!x_map_epiphany_resources(c, first'[1], first'[2],
            last'[1] - first'[1] + 1, last'[2] - first'[2] + 1,
            fails, closes, fail)
       /\ pc' = IF initialized'[c] THEN "polling" ELSE "done"
  /\ row' = first'[1] /\ col' = first'[2]
  /\ UNCHANGED <<cores, args, loop, result, served>>

(* The structure main has mapped, and the core that stands at the position  *)
(* polled in its workgroup.                                                 *)
epiphany_control == CHOOSE c \in Controls : initialized[c]
wg == workgroup[epiphany_control]
Polled == <<wg.row - PlatformRow + row, wg.col - PlatformCol + col>>
InWorkgroup == row < wg.rows /\ col < wg.cols

Advance_bug ==
  /\ col' = IF col < last[2] THEN col + 1 ELSE first[2]
  /\ row' = IF col < last[2] THEN row
            ELSE IF row < last[1] THEN row + 1 ELSE last[1]

(* On to the next core, row by row, over and over.                          *)
Advance ==
  /\ col' = IF col < last[2] THEN col + 1 ELSE first[2]
  /\ row' = IF col < last[2] THEN row
            ELSE IF row < last[1] THEN row + 1 ELSE first[1]

StopPolling(r) == pc' = "unmap" /\ result' = r /\ UNCHANGED <<row, col>>

(* A poll of a core of the workgroup.                                       *)
Poll ==
  /\ pc = "polling"
  /\ InWorkgroup
  /\ UNCHANGED <<device, args, first, last>>

PollQuiet ==
  /\ Poll
  /\ x_catch_epiphany_exception(core[Polled]).type = "none"
  /\ Advance
  /\ served' = NotServed
  /\ UNCHANGED <<cores, loop, result, pc>>

PollError ==
  /\ Poll
  /\ x_catch_epiphany_exception(core[Polled]).type = "error"
  /\ StopPolling(-1)
  /\ served' = NotServed
  /\ UNCHANGED <<cores, loop>>

SeenStopped_bug(p) ==
  /\ exit_trapped' = [exit_trapped EXCEPT ![p] = TRUE]
  /\ num_cores_exited' = num_cores_exited + 1

(* A core that has exited, or halted for what cannot be handled, is counted *)
(* once.                                                                    *)
SeenStopped(p) ==
  IF exit_trapped[p] THEN UNCHANGED loop
  ELSE /\ exit_trapped' = [exit_trapped EXCEPT ![p] = TRUE]
       /\ num_cores_exited' = num_cores_exited + 1

AllSeenStopped_bug(p) ==
  ~exit_trapped[p] /\ num_cores_exited + 2 >= num_cores_monitored

AllSeenStopped(p) ==
  ~exit_trapped[p] /\ num_cores_exited + 1 = num_cores_monitored

TakenForStopped(p) ==
  /\ SeenStopped(p)
  /\ IF AllSeenStopped(p) THEN StopPolling(0)
     ELSE Advance /\ UNCHANGED <<result, pc>>

PollStopped ==
  LET e == x_catch_epiphany_exception(core[Polled]) IN
  /\ Poll
  /\ e.type \in {"trap", "software"} /\ ~IsServed(e)
  /\ TakenForStopped(<<row, col>>)
  /\ served' = NotServed
  /\ UNCHANGED cores

(* A core counted as exited that has a request is no longer counted.        *)
SignOfLife(p) ==
  IF exit_trapped[p]
  THEN /\ exit_trapped' = [exit_trapped EXCEPT ![p] = FALSE]
       /\ num_cores_exited' = num_cores_exited - 1
  ELSE UNCHANGED loop

(* process_syscall_trap and process_legacy_io_trap after the call has been  *)
(* handled: the results go to the core, which resumes.                      *)
Resume(q, p, ok, success) ==
  /\ core' = [core EXCEPT ![p] = Running]
  /\ served' = [core |-> p, request |-> q, calls |-> HostCalls(q), ok |-> ok,
                success |-> success,
                delivered |-> x_put_epiphany_syscall_results(q, success)]

(* A request: served and polled again at once; or something fails on the    *)
(* way, the core stays halted and polling is given up; or the process is    *)
(* killed by an access to an unmapped address.                              *)
PollRequest ==
  LET p == <<row, col>>
      q == core[Polled].request
  IN
  /\ Poll
  /\ IsServed(x_catch_epiphany_exception(core[Polled]))
  /\ \/ /\ StopPolling(-1)
        /\ served' = NotServed
        /\ UNCHANGED <<cores, loop>>
     \/ /\ x_get_epiphany_syscall_parameters(q)
        /\ \E ok \in HostOutcomes(q) :
             LET success == x_handle_epiphany_syscall(q, ok) IN
             \/ /\ TakesFileName(q) \/ PutFaults(q, success)
                /\ pc' = "died" /\ served' = NotServed
                /\ UNCHANGED <<cores, row, col, loop, result>>
             \/ /\ ~PutFaults(q, success)
                /\ x_put_epiphany_legacy_io_trap_results(q)
                /\ Resume(q, Polled, ok, success)
                /\ SignOfLife(p)
                /\ restarted' = restarted \ {Polled}
                /\ UNCHANGED <<row, col, result, pc>>

(* The exception of a core outside the workgroup is an error, but the check *)
(* admits the row and the column just beyond it: what is read there are no  *)
(* core's registers. They may look like those of a running core, of one     *)
(* that has stopped, or of one with a request, which is then performed;     *)
(* or the access ends the process.                                          *)
PollOutside ==
  /\ pc = "polling" /\ ~InWorkgroup
  /\ \/ StopPolling(-1) /\ UNCHANGED loop
     \/ /\ row <= wg.rows /\ col <= wg.cols
        /\ \/ Advance /\ UNCHANGED <<loop, result, pc>>
           \/ TakenForStopped(<<row, col>>)
           \/ SignOfLife(<<row, col>>) /\ UNCHANGED <<row, col, result, pc>>
           \/ pc' = "died" /\ UNCHANGED <<row, col, loop, result>>
  /\ served' = NotServed
  /\ UNCHANGED <<device, cores, args, first, last>>

Unmap ==
  /\ pc = "unmap"
  /\ \E closes \in BOOLEAN, fail \in SUBSET (0 .. NumEmems - 1) :
       Device!x_unmap_epiphany_resources(epiphany_control, closes, fail)
  /\ pc' = "done" /\ served' = NotServed
  /\ UNCHANGED <<cores, args, first, last, row, col, loop, result>>

main == Fail \/ Begin \/ PollQuiet \/ PollError \/ PollOutside \/ PollStopped
          \/ PollRequest \/ Unmap

Next == main \/ \E p \in Positions : CoreHalts(p) \/ Restart(p)

Spec == Init /\ [][Next]_vars

(* The host program runs; nothing is assumed of the cores.                  *)
FairSpec == Spec /\ WF_vars(main)

-----------------------------------------------------------------------------
(* The count that ends the polling is the number of cores flagged as        *)
(* stopped, also after cores have come back to life and stopped again; and  *)
(* polling goes on exactly until it has reached the number of cores.        *)
CountExact ==
  /\ num_cores_exited =
       Cardinality({p \in Monitored : exit_trapped[p]})
  /\ pc = "polling" => num_cores_exited < num_cores_monitored

(* simon without arguments, or for core (0,0), returns 0 only when every    *)
(* core it polls has ended its program: it still has, or some other host    *)
(* program has started the core again and the new program has made no       *)
(* request that simon served. For any other core on the command line the    *)
(* registers polled are not its own, and 0 means nothing: see PollOutside.  *)
ZeroMeansHalted ==
  pc \in {"unmap", "done"} /\ result = 0 /\ first = <<0, 0>> =>
    \A p \in Monitored : Stopped(p) \/ p \in restarted

(* "Perform the operation requested" (the comment on                        *)
(* x_handle_epiphany_syscall): the result that a core finds after its call  *)
(* is that of the operation it requested, and if the core is told of a      *)
(* success then the output of the call is in its buffer.                    *)
ReplyIsOfTheCall ==
  served # NotServed =>
    /\ \A i \in DOMAIN served.calls :
         served.calls[i] = CallOf(served.request) => served.success = served.ok[i]
    /\ served.success /\ HasOutput(CallOf(served.request)) => served.delivered

(* When all cores have stopped for good, simon polling the whole device     *)
(* notices and ends, however requests and exits were interleaved before.    *)
SimonEnds ==
  (args = <<>> /\ <>[](\A p \in Positions : Stopped(p)))
     => <>(pc \in {"done", "died"})

Waiting(p) == core[p].condition = "trap" /\ core[p] \notin Endings

(* A core's request waits for ever only if one other core keeps simon to    *)
(* itself: as long as the polling moves on, every core has its turn, also   *)
(* while others exit, come back to life and make requests all the time.     *)
NoCoreForgotten ==
  \A p \in Positions :
    args = <<>> /\ []<><<TRUE>>_<<row, col>> => []<>~Waiting(p)
=============================================================================
