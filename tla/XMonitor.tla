------------------------------ MODULE XMonitor ------------------------------
(***************************************************************************)
(* The host's view of a launched application: x_get_application_state and  *)
(* x_finalize_application (x-lib/src/x_application.c) and                  *)
(* x_monitor_application (x-lib/src/x_application_display.c), called in    *)
(* the order of src/test_controller.c, while the tasks run on their cores. *)
(*                                                                         *)
(* The host works out the application's state by reading the descriptors   *)
(* one at a time, so the tasks move on under it: each read is a step.      *)
(* The displays, which change nothing, are left out.                       *)
(***************************************************************************)
EXTENDS Integers, FiniteSets

CONSTANTS NumSlots,          \* the length of the task descriptor table
          Assigned,          \* the slots with an executable file name
          TaskResults        \* the terminal states tasks may report

Slot == 1 .. NumSlots

ASSUME SlotsAssumption == NumSlots \in Nat
ASSUME AssignedAssumption == Assigned \subseteq Slot
ASSUME ResultsAssumption == TaskResults \subseteq {n \in Int : n <= 0}

X_SUCCESSFUL_TASK == 0
X_VIRGIN_TASK == 1
X_INITIALIZING_TASK == 2
X_ACTIVE_TASK == 3

(* Variants with a plausible mistake are named ..._bug: see XSync. *)

(* The states are signed. *)
UInt16_bug(n) == n

(* x_application_state_t is a uint16_t, and so is whatever is stored in one. *)
UINT16_MAX == 65535
UInt16(n) == n % (UINT16_MAX + 1)
X_FAILED_APPLICATION == UInt16(-1)
X_SUCCESSFUL_APPLICATION == 0
X_VIRGIN_APPLICATION == 1
X_INITIALIZING_APPLICATION == 2
X_RUNNING_APPLICATION == 3

VARIABLES
    state,           \* the state in each descriptor
    halted,          \* the cores the host has halted
    pc,              \* which call of x_get_application_state the host is in
    next,            \* the next descriptor it reads
    class,           \* how it has classed the descriptors read so far
    reported,        \* what the last completed call returned
    monitored,       \* what x_monitor_application returned
    started          \* history: the tasks started when the call began

tasks == <<state, halted>>
vars == <<state, halted, pc, next, class, reported, monitored, started>>

(* In the monitor's while condition; after its loop; in x_finalize; halting *)
(* the cores; and at the end of the program.                                *)
PC == {"while", "last", "finalize", "halt", "end"}
Classes == {"unused", "active", "initializing", "virgin", "successful", "failed"}
None == -2                                      \* no call has returned yet

Started == {t \in Assigned : state[t] # X_VIRGIN_TASK}

(* x_launch_application has had the cores started; none has run yet. *)
Init ==
    /\ state = [t \in Assigned |-> X_VIRGIN_TASK]
    /\ halted = {}
    /\ pc = "while"
    /\ next = 1
    /\ class = [s \in Slot |-> "unused"]
    /\ reported = None
    /\ monitored = None
    /\ started = {}

-----------------------------------------------------------------------------
(* A task as main() in x_task.c reports it; module XTask has the detail. *)
TaskStep(t) ==
    /\ t \notin halted
    /\ \/ /\ state[t] = X_VIRGIN_TASK
          /\ state' = [state EXCEPT ![t] = X_INITIALIZING_TASK]
       \/ /\ state[t] = X_INITIALIZING_TASK
          /\ state' = [state EXCEPT ![t] = X_ACTIVE_TASK]
       \/ /\ state[t] = X_ACTIVE_TASK
          /\ \E r \in TaskResults : state' = [state EXCEPT ![t] = r]
    /\ UNCHANGED <<halted, pc, next, class, reported, monitored, started>>

(* The body of the loop over the descriptors. *)
Class(v) ==
    CASE v >= X_ACTIVE_TASK -> "active"
      [] v = X_INITIALIZING_TASK -> "initializing"
      [] v = X_VIRGIN_TASK -> "virgin"
      [] v = X_SUCCESSFUL_TASK -> "successful"
      [] OTHER -> "failed"

ReadDescriptor(s) ==
    /\ pc \in {"while", "last", "finalize"}
    /\ next = s
    /\ class' = [class EXCEPT ![s] = IF s \in Assigned THEN Class(state[s]) ELSE @]
    /\ next' = s + 1
    /\ started' = IF s = 1 THEN Started ELSE started
    /\ UNCHANGED <<tasks, pc, reported, monitored>>

num(c) == Cardinality({s \in Slot : class[s] = c})
num_descriptors_in_use == NumSlots - num("unused")

(* A failure is only looked for once no task is initialising. *)
Verdict_late_bug ==
    IF num("initializing") > 0 THEN X_INITIALIZING_APPLICATION
    ELSE IF num("failed") > 0 THEN X_FAILED_APPLICATION
    ELSE IF num("virgin") = num_descriptors_in_use THEN X_VIRGIN_APPLICATION
    ELSE IF num("successful") + num("virgin") = num_descriptors_in_use
         THEN X_SUCCESSFUL_APPLICATION
    ELSE X_RUNNING_APPLICATION

(* A task that is initialising is taken for one that is not there. *)
Verdict_early_bug ==
    IF num("failed") > 0 THEN X_FAILED_APPLICATION
    ELSE IF num("virgin") = num_descriptors_in_use THEN X_VIRGIN_APPLICATION
    ELSE IF num("active") = 0 THEN X_SUCCESSFUL_APPLICATION
    ELSE X_RUNNING_APPLICATION

(* Slots without a task are expected to succeed too. *)
Verdict_slots_bug ==
    IF num("failed") > 0 THEN X_FAILED_APPLICATION
    ELSE IF num("virgin") = num_descriptors_in_use THEN X_VIRGIN_APPLICATION
    ELSE IF num("successful") = NumSlots THEN X_SUCCESSFUL_APPLICATION
    ELSE IF num("initializing") > 0 THEN X_INITIALIZING_APPLICATION
    ELSE X_RUNNING_APPLICATION

(* The state made of the counts. *)
Verdict ==
    IF num("failed") > 0 THEN X_FAILED_APPLICATION
    ELSE IF num("virgin") = num_descriptors_in_use THEN X_VIRGIN_APPLICATION
    ELSE IF num("successful") + num("virgin") = num_descriptors_in_use
         THEN X_SUCCESSFUL_APPLICATION
    ELSE IF num("initializing") > 0 THEN X_INITIALIZING_APPLICATION
    ELSE X_RUNNING_APPLICATION

(* x_get_application_state returns, and the host goes on to l. *)
StateKnown(l) ==
    /\ next = NumSlots + 1
    /\ reported' = Verdict
    /\ pc' = l
    /\ next' = 1
    /\ class' = [s \in Slot |-> "unused"]
    /\ UNCHANGED <<tasks, started>>

(* while (x_get_application_state(NULL) > X_VIRGIN_APPLICATION) *)
KeepWaiting ==
    /\ pc = "while"
    /\ Verdict > X_VIRGIN_APPLICATION
    /\ StateKnown("while")
    /\ UNCHANGED monitored

StopWaiting ==
    /\ pc = "while"
    /\ Verdict <= X_VIRGIN_APPLICATION
    /\ StateKnown("last")
    /\ UNCHANGED monitored

(* last_state = x_get_application_state(NULL), which the monitor returns. *)
x_monitor_application ==
    /\ pc = "last"
    /\ StateKnown("finalize")
    /\ monitored' = Verdict

(* x_finalize_application reads the state once more, and halts every core. *)
x_finalize_application ==
    /\ pc = "finalize"
    /\ StateKnown("halt")
    /\ UNCHANGED monitored

Halt(s) ==
    /\ pc = "halt"
    /\ next = s
    /\ halted' = halted \cup {s}
    /\ next' = IF s = NumSlots THEN 1 ELSE s + 1
    /\ pc' = IF s = NumSlots THEN "end" ELSE pc
    /\ UNCHANGED <<state, class, reported, monitored, started>>

Host ==
    \/ \E s \in Slot : ReadDescriptor(s) \/ Halt(s)
    \/ KeepWaiting
    \/ StopWaiting
    \/ x_monitor_application
    \/ x_finalize_application

Next == Host \/ \E t \in Assigned : TaskStep(t)

Spec == Init /\ [][Next]_vars

(* The host program runs; nothing is assumed of the tasks. *)
FairSpec == Spec /\ WF_vars(Host)

-----------------------------------------------------------------------------
(***************************************************************************)
(* Properties.                                                             *)
(***************************************************************************)
TypeOK ==
    /\ state \in [Assigned -> TaskResults \cup
                     {X_VIRGIN_TASK, X_INITIALIZING_TASK, X_ACTIVE_TASK}]
    /\ halted \subseteq Slot
    /\ pc \in PC
    /\ next \in 1 .. NumSlots + 1
    /\ class \in [Slot -> Classes]
    /\ reported = None \/ reported \in 0 .. UINT16_MAX
    /\ monitored = None \/ monitored \in 0 .. UINT16_MAX
    /\ started \subseteq Assigned

(* x_get_application_state returns. *)
Returns == next = NumSlots + 1 /\ next' = 1

(* Although the descriptors are read one after the other, an application is  *)
(* reported successful only if every task that had started when the reading  *)
(* began has ended, and with success, by the time it is reported.            *)
SuccessMeansEnded ==
    [][Returns /\ reported' = X_SUCCESSFUL_APPLICATION =>
          \A t \in started : state[t] = X_SUCCESSFUL_TASK]_vars

(* What x_get_application_state returns never goes back: an application that *)
(* was reported failed stays failed, also while its other tasks start, run   *)
(* and end, and one that was reported as started is never virgin again.      *)
VerdictNeverGoesBack ==
    [][/\ reported = X_FAILED_APPLICATION => reported' = X_FAILED_APPLICATION
       /\ reported \notin {None, X_VIRGIN_APPLICATION} =>
             reported' # X_VIRGIN_APPLICATION]_vars

Completed == \A t \in Assigned : state[t] <= X_SUCCESSFUL_TASK
Failed == \E t \in Assigned : state[t] < 0

(* Once all tasks have ended with success the monitor's loop ends, although  *)
(* not every slot of the table need have a task.                             *)
MonitorSeesSuccess == (Completed /\ ~Failed) ~> (pc # "while")

(* "Values > X_VIRGIN_APPLICATION are at least partially active" (the comment *)
(* on x_application_state_t), which x_monitor_application's loop waits on: an *)
(* application whose tasks have all ended is not waited for.                  *)
MonitorEnds == Completed ~> (pc # "while")
=============================================================================
