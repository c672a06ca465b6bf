------------------------------- MODULE XTask --------------------------------
(***************************************************************************)
(* The start-up of x-lib tasks (main and xt_initialise_endpoints in        *)
(* x-lib/src/x_task.c), on all cores at once.                              *)
(*                                                                         *)
(* Each core runs the same main().  It lays out one endpoint per connection*)
(* of its task in its own memory, publishes their addresses in the         *)
(* connection list in shared memory, and polls that list for the addresses *)
(* of the peers' endpoints.  Cores start at different times, so one may    *)
(* already be inside task_main, storing into its peers' endpoints, while   *)
(* another is still initialising.  Each load or store of shared memory is  *)
(* a step.                                                                 *)
(*                                                                         *)
(* A call of x_sync in task_main is represented by its first store to the  *)
(* peer's sequence_from_peer; XSync has the rest.  The heartbeat and the   *)
(* status text, which nothing but the display reads, are left out.         *)
(***************************************************************************)
EXTENDS Integers, Sequences

CONSTANTS Task,              \* the tasks with a descriptor, one per core
          NumConnections,    \* the length of the master connection list
          Topologies,        \* the connection lists considered
          TaskResults        \* what task_main may return

Connection == 1 .. NumConnections

ASSUME NumAssumption == NumConnections \in Nat
ASSUME TopologiesAssumption ==
    Topologies \subseteq [Connection -> [source_task : Task, sink_task : Task]]
ASSUME ResultsAssumption == TaskResults \subseteq Int

(* An endpoint's global address: a core, and a slot of its endpoint array. *)
Endpoint == Task \X (1 .. 2 * NumConnections)
NULL == <<>>

X_VIRGIN_TASK == 1
X_INITIALIZING_TASK == 2
X_ACTIVE_TASK == 3
X_E_ERROR_CODES_START == -30000
X_E_TASK_RESULT_OUT_OF_RANGE == -30008
INT16_MAX == 32767
UINT16_MAX == 2 * INT16_MAX + 1

VARIABLES
    connection,              \* who is connected to whom
    connection_index,        \* the list of each task's connections
    source_endpoint, sink_endpoint,
                             \* the addresses published for each connection
    state,                   \* the state in each task's descriptor
    pc, slot, unresolved,    \* each core's place in xt_initialise_endpoints
    mode, remote_endpoint, sequence_from_peer,
                             \* the fields of the endpoints
    posted                   \* history: the endpoints used by an x_sync

wiring == <<connection, connection_index>>
shared == <<source_endpoint, sink_endpoint, state>>
fields == <<mode, remote_endpoint, sequence_from_peer>>
vars == <<connection, connection_index, source_endpoint, sink_endpoint, state,
          pc, slot, unresolved, mode, remote_endpoint, sequence_from_peer,
          posted>>

num_connections(t) == Len(connection_index[t])

(* A task's connection index, as the host lays it out: the connections it    *)
(* takes part in, in the order they were made.  A connection of a task to    *)
(* itself is in it twice.                                                    *)
Index(links, t) ==
    LET upto[n \in 0 .. NumConnections] ==
            IF n = 0 THEN <<>>
            ELSE upto[n - 1]
                 \o (IF links[n].source_task = t THEN <<n>> ELSE <<>>)
                 \o (IF links[n].sink_task = t THEN <<n>> ELSE <<>>)
    IN  upto[NumConnections]

(* The endpoint array is on the stack: it holds what was there before, which *)
(* may well be the 1 that a first x_sync waits for.                          *)
Init ==
    /\ connection \in Topologies
    /\ connection_index = [t \in Task |-> Index(connection, t)]
    /\ source_endpoint = [c \in Connection |-> NULL]
    /\ sink_endpoint = [c \in Connection |-> NULL]
    /\ state = [t \in Task |-> X_VIRGIN_TASK]
    /\ pc = [t \in Task |-> "halted"]
    /\ slot = [t \in Task |-> 1]
    /\ unresolved = [t \in Task |-> 0]
    /\ mode = [e \in Endpoint |-> "X_UNINITIALISED_ENDPOINT"]
    /\ remote_endpoint = [e \in Endpoint |-> NULL]
    /\ \E stale \in {0, 1} : sequence_from_peer = [e \in Endpoint |-> stale]
    /\ posted = {}

-----------------------------------------------------------------------------
Goto(t, l, i) ==
    /\ pc' = [pc EXCEPT ![t] = l]
    /\ slot' = [slot EXCEPT ![t] = i]

(* The slot after i, or the next loop when i was the last one. *)
NextSlot(t, l, i, next) ==
    IF i < num_connections(t) THEN Goto(t, l, i + 1) ELSE Goto(t, next, 1)

(* The core is started and main() reports that it is initialising. *)
Start(t) ==
    /\ pc[t] = "halted"
    /\ state' = [state EXCEPT ![t] = X_INITIALIZING_TASK]
    /\ NextSlot(t, "zero", 0, "resolve")
    /\ UNCHANGED <<wiring, source_endpoint, sink_endpoint, unresolved,
                   fields, posted>>

(* Variants with a plausible mistake are named ..._bug: see XSync. *)

(* Every task takes itself for the source of its connections. *)
EndpointMode_bug(t, c) == "X_SENDING_ENDPOINT"

(* The source test comes first: a task connected to itself has two sending   *)
(* endpoints and no receiving one.                                           *)
EndpointMode(t, c) ==
    IF c.source_task = t THEN "X_SENDING_ENDPOINT"
    ELSE IF c.sink_task = t THEN "X_RECEIVING_ENDPOINT"
    ELSE "X_UNINITIALISED_ENDPOINT"

(* The sequence number from the peer is left as it is. *)
ZeroEndpoint_bug(t) ==
    LET e == <<t, slot[t]>>
        c == connection[connection_index[t][slot[t]]]
    IN  /\ pc[t] = "zero"
        /\ remote_endpoint' = [remote_endpoint EXCEPT ![e] = NULL]
        /\ mode' = [mode EXCEPT ![e] = EndpointMode(t, c)]
        /\ Goto(t, "publish", slot[t])
        /\ UNCHANGED <<wiring, shared, unresolved, sequence_from_peer, posted>>

(* The first loop, for one endpoint: clear it and set its mode ... *)
ZeroEndpoint(t) ==
    LET e == <<t, slot[t]>>
        c == connection[connection_index[t][slot[t]]]
    IN  /\ pc[t] = "zero"
        /\ sequence_from_peer' = [sequence_from_peer EXCEPT ![e] = 0]
        /\ remote_endpoint' = [remote_endpoint EXCEPT ![e] = NULL]
        /\ mode' = [mode EXCEPT ![e] = EndpointMode(t, c)]
        /\ Goto(t, "publish", slot[t])
        /\ UNCHANGED <<wiring, shared, unresolved, posted>>

(* Every endpoint is published as the source. *)
PublishEndpoint_bug(t) ==
    LET n == connection_index[t][slot[t]]
        e == <<t, slot[t]>>
    IN  /\ pc[t] = "publish"
        /\ source_endpoint' = [source_endpoint EXCEPT ![n] = e]
        /\ UNCHANGED sink_endpoint
        /\ NextSlot(t, "zero", slot[t], "resolve")
        /\ UNCHANGED <<wiring, state, unresolved, fields, posted>>

(* ... and publish its address. *)
PublishEndpoint(t) ==
    LET n == connection_index[t][slot[t]]
        e == <<t, slot[t]>>
    IN  /\ pc[t] = "publish"
        /\ \/ /\ mode[e] = "X_SENDING_ENDPOINT"
              /\ source_endpoint' = [source_endpoint EXCEPT ![n] = e]
              /\ UNCHANGED sink_endpoint
           \/ /\ mode[e] = "X_RECEIVING_ENDPOINT"
              /\ sink_endpoint' = [sink_endpoint EXCEPT ![n] = e]
              /\ UNCHANGED source_endpoint
        /\ NextSlot(t, "zero", slot[t], "resolve")
        /\ UNCHANGED <<wiring, state, unresolved, fields, posted>>

(* A pass of the second loop, for one endpoint: pick up the peer's address. *)
PeerAddress(e, n) ==
    IF mode[e] = "X_SENDING_ENDPOINT" THEN sink_endpoint[n]
    ELSE source_endpoint[n]

ResolveEndpoint(t) ==
    LET e == <<t, slot[t]>>
        peer == PeerAddress(e, connection_index[t][slot[t]])
    IN  /\ pc[t] = "resolve"
        /\ num_connections(t) > 0
        /\ \/ /\ remote_endpoint[e] # NULL
              /\ UNCHANGED <<remote_endpoint, unresolved>>
           \/ /\ remote_endpoint[e] = NULL
              /\ peer # NULL
              /\ remote_endpoint' = [remote_endpoint EXCEPT ![e] = peer]
              /\ UNCHANGED unresolved
           \/ /\ remote_endpoint[e] = NULL
              /\ peer = NULL
              /\ unresolved' = [unresolved EXCEPT ![t] = @ + 1]
              /\ UNCHANGED remote_endpoint
        /\ NextSlot(t, "resolve", slot[t], "check")
        /\ UNCHANGED <<wiring, shared, mode, sequence_from_peer, posted>>

(* while (num_unresolved_endpoints > 0); then the task becomes active. *)
CheckUnresolved(t) ==
    /\ pc[t] = IF num_connections(t) = 0 THEN "resolve" ELSE "check"
    /\ \/ /\ unresolved[t] > 0
          /\ unresolved' = [unresolved EXCEPT ![t] = 0]
          /\ Goto(t, "resolve", 1)
          /\ UNCHANGED state
       \/ /\ unresolved[t] = 0
          /\ Goto(t, "task_main", 1)
          /\ state' = [state EXCEPT ![t] = X_ACTIVE_TASK]
          /\ UNCHANGED unresolved
    /\ UNCHANGED <<wiring, source_endpoint, sink_endpoint, fields, posted>>

(* task_main: an x_sync on one of the endpoints stores its sequence number, *)
(* 1, in the peer's endpoint.                                               *)
FirstSync(t, i) ==
    /\ pc[t] = "task_main"
    /\ i <= num_connections(t)
    /\ <<t, i>> \notin posted
    /\ sequence_from_peer' =
          [sequence_from_peer EXCEPT ![remote_endpoint[<<t, i>>]] = 1]
    /\ posted' = posted \cup {<<t, i>>}
    /\ UNCHANGED <<wiring, shared, pc, slot, unresolved, mode,
                   remote_endpoint>>

(* The uint16_t is stored as it is. *)
Int16_bug(n) == n

(* task_main returns; the result passes through a uint16_t into an int16_t. *)
Int16(n) == ((n + INT16_MAX + 1) % (UINT16_MAX + 1)) - (INT16_MAX + 1)

Reported_bug(r) == IF r > 0 \/ r < X_E_ERROR_CODES_START
                   THEN X_E_TASK_RESULT_OUT_OF_RANGE ELSE r
Reported(r) == IF r > 0 \/ r <= X_E_ERROR_CODES_START
               THEN X_E_TASK_RESULT_OUT_OF_RANGE ELSE r

Finish(t, r) ==
    /\ pc[t] = "task_main"
    /\ Goto(t, "returned", 1)
    /\ state' = [state EXCEPT ![t] = Int16(Reported(r) % (UINT16_MAX + 1))]
    /\ UNCHANGED <<wiring, source_endpoint, sink_endpoint, unresolved,
                   fields, posted>>

(* The steps of a core up to task_main, which it runs of its own accord. *)
Boot(t) ==
    \/ Start(t)
    \/ ZeroEndpoint(t)
    \/ PublishEndpoint(t)
    \/ ResolveEndpoint(t)
    \/ CheckUnresolved(t)

Next ==
    \E t \in Task :
        \/ Boot(t)
        \/ \E i \in 1 .. 2 * NumConnections : FirstSync(t, i)
        \/ \E r \in TaskResults : Finish(t, r)

Spec == Init /\ [][Next]_vars

(* All cores are started and keep running. *)
FairSpec == Spec /\ \A t \in Task : WF_vars(Boot(t))

-----------------------------------------------------------------------------
(***************************************************************************)
(* Properties.                                                             *)
(***************************************************************************)
(* The first loop of xt_initialise_endpoints has dealt with endpoint e. *)
Cleared(e) ==
    LET t == e[1]
        i == e[2]
    IN  /\ i <= num_connections(t)
        /\ \/ pc[t] \in {"resolve", "check", "task_main", "returned"}
           \/ pc[t] = "zero" /\ i < slot[t]
           \/ pc[t] = "publish" /\ i <= slot[t]

(* The two ends of one connection. *)
Ends(e, f) == /\ e # f
              /\ \A g \in {e, f} : g[2] <= num_connections(g[1])
              /\ connection_index[e[1]][e[2]] = connection_index[f[1]][f[2]]

TypeOK ==
    /\ connection \in Topologies
    /\ connection_index \in [Task -> Seq(Connection)]
    /\ source_endpoint \in [Connection -> Endpoint \cup {NULL}]
    /\ sink_endpoint \in [Connection -> Endpoint \cup {NULL}]
    /\ state \in [Task -> -(INT16_MAX + 1) .. INT16_MAX]
    /\ pc \in [Task -> {"halted", "zero", "publish", "resolve", "check",
                        "task_main", "returned"}]
    /\ slot \in [Task -> {1} \cup 1 .. 2 * NumConnections]
    /\ unresolved \in [Task -> 0 .. 2 * NumConnections]
    /\ mode \in [Endpoint -> {"X_UNINITIALISED_ENDPOINT", "X_SENDING_ENDPOINT",
                              "X_RECEIVING_ENDPOINT"}]
    /\ remote_endpoint \in [Endpoint -> Endpoint \cup {NULL}]
    /\ sequence_from_peer \in [Endpoint -> {0, 1}]
    /\ posted \subseteq Endpoint

(* The first sequence number of a peer is neither lost nor imagined: once an *)
(* endpoint is cleared it holds 1 exactly when the task at the other end has *)
(* made an x_sync, although that task may be in task_main while this one is  *)
(* still initialising, and the stack held anything before.                   *)
EarlyPostKept ==
    \A e, f \in Endpoint : Ends(e, f) /\ Cleared(e) =>
        (sequence_from_peer[e] = 1 <=> f \in posted)

(* An endpoint is only ever linked to the other end of its own connection,   *)
(* the two in opposite modes, and a task is reported active, or completed,   *)
(* only with every one of its endpoints linked.                              *)
PeersLinked ==
    \A e \in Endpoint : e[2] <= num_connections(e[1]) =>
        /\ Cleared(e) /\ remote_endpoint[e] # NULL =>
              /\ Ends(e, remote_endpoint[e])
              /\ mode[e] # mode[remote_endpoint[e]]
        /\ state[e[1]] \notin {X_VIRGIN_TASK, X_INITIALIZING_TASK} =>
              Cleared(e) /\ remote_endpoint[e] # NULL

(* "Non-terminal result values and values outside the uint16_t range are     *)
(* mapped to the value X_E_TASK_RESULT_OUT_OF_RANGE" (the comment on main):  *)
(* after the narrowing to 16 bits a task that has ended reads as ended, with *)
(* task_main's result if that lies above the codes reserved for x-lib, and   *)
(* never as successful, or failed for a reason only x-lib reports, if not.   *)
TerminalResult ==
    [][\A t \in Task, r \in TaskResults : Finish(t, r) =>
          state'[t] = IF r \in X_E_ERROR_CODES_START + 1 .. 0 THEN r
                      ELSE X_E_TASK_RESULT_OUT_OF_RANGE]_vars

(* A connection of the task to itself. *)
SelfConnected(t) ==
    \E c \in Connection : connection[c] = [source_task |-> t, sink_task |-> t]

(* However late the cores start, the tasks that get as far as task_main are  *)
(* exactly those without a connection to themselves: for them the loop that  *)
(* waits for the peers' addresses ends, also next to a task for which it     *)
(* does not; and a task connected to itself polls for ever, since it         *)
(* publishes the source of that connection twice and the sink never.         *)
EveryTaskActivates ==
    \A t \in Task :
        \/ ~SelfConnected(t) /\ <>(pc[t] \in {"task_main", "returned"})
        \/ SelfConnected(t) /\ [](pc[t] \notin {"task_main", "returned"})
=============================================================================
