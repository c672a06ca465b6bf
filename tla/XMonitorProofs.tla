--------------------------- MODULE XMonitorProofs ---------------------------
(***************************************************************************)
(* Proofs about XMonitor: what x_get_application_state says of tasks that  *)
(* move on while it reads their descriptors, for any number of slots and   *)
(* any tasks in them.                                                      *)
(***************************************************************************)
EXTENDS XMonitor, FiniteSetTheorems, TLAPS

(* The phases in which the host reads descriptors.                           *)
Scan == {"while", "last", "finalize"}

(* The class of a descriptor that has not been read, or that says that its   *)
(* task has not started.                                                     *)
Unstarted == {"unused", "virgin"}

(* What has been read stays true: a task that has ended has ended for good,  *)
(* and one that has started stays so.                                        *)
ReadIsTrue ==
    \A s \in Slot :
        /\ class[s] # "unused" => s \in Assigned
        /\ class[s] = "successful" => state[s] = X_SUCCESSFUL_TASK
        /\ class[s] = "failed" => state[s] < 0
        /\ class[s] \notin Unstarted => state[s] # X_VIRGIN_TASK

(* A task that ran when the reading began is not read as virgin.             *)
StartedSeen ==
    \A t \in started : /\ state[t] # X_VIRGIN_TASK
                       /\ pc \in Scan /\ t < next => class[t] \notin Unstarted

(* A report of failure, or of a start, has a task behind it, which the next  *)
(* reading will find as it was.                                              *)
FailureKept ==
    reported = X_FAILED_APPLICATION =>
        \E t \in Assigned : /\ state[t] < 0
                            /\ pc \in Scan /\ t < next => class[t] = "failed"
StartKept ==
    reported \notin {None, X_VIRGIN_APPLICATION} =>
        \E t \in Assigned :
            /\ state[t] # X_VIRGIN_TASK
            /\ pc \in Scan /\ t < next => class[t] \notin Unstarted

(* The inductive invariant.                                                  *)
MInv == TypeOK /\ ReadIsTrue /\ StartedSeen /\ FailureKept /\ StartKept

-----------------------------------------------------------------------------
(* Slots are numbers from 1.                                                 *)
LEMMA SlotFacts ==
    /\ NumSlots \in Nat /\ Slot \subseteq Nat \ {0} /\ Assigned \subseteq Slot
    /\ \A s \in Slot : s < NumSlots + 1
    /\ IsFiniteSet(Slot) /\ Cardinality(Slot) = NumSlots
<1>1. NumSlots \in Nat /\ Assigned \subseteq Slot
  BY SlotsAssumption, AssignedAssumption
<1>2. IsFiniteSet(1 .. NumSlots) /\ Cardinality(1 .. NumSlots) = NumSlots
  BY <1>1, FS_Interval
<1> QED
  BY <1>1, <1>2 DEF Slot

(* The counters that x_get_application_state keeps.                          *)
LEMMA NumFacts ==
    ASSUME NEW c
    PROVE  /\ num(c) \in Nat /\ IsFiniteSet({s \in Slot : class[s] = c})
           /\ num(c) > 0 <=> \E s \in Slot : class[s] = c
<1> DEFINE S == {s \in Slot : class[s] = c}
<1>1. IsFiniteSet(S)
  BY SlotFacts, FS_Subset
<1>2. Cardinality(S) \in Nat /\ (Cardinality(S) = 0 <=> S = {})
  BY <1>1, FS_CardinalityType, FS_EmptySet
<1> HIDE DEF S
<1>3. Cardinality(S) > 0 <=> S # {}
  BY <1>2
<1>4. num(c) = Cardinality(S)
  BY DEF num, S
<1> QED
  BY <1>1, <1>2, <1>3, <1>4 DEF S

(* Two or three counters add up to the number of slots exactly when every    *)
(* slot is in one of the classes.                                            *)
LEMMA NumAdd ==
    /\ num("virgin") = num_descriptors_in_use <=>
         \A s \in Slot : class[s] \in Unstarted
    /\ num("successful") + num("virgin") = num_descriptors_in_use <=>
         \A s \in Slot : class[s] \in Unstarted \cup {"successful"}
<1> DEFINE S(c) == {s \in Slot : class[s] = c}
           V == S("virgin")
           U == S("unused")
           W == S("successful")
<1>1. /\ IsFiniteSet(V) /\ IsFiniteSet(U) /\ IsFiniteSet(W)
      /\ num("virgin") \in Nat /\ num("unused") \in Nat
      /\ num("successful") \in Nat
  BY NumFacts
<1>2. /\ num("virgin") = Cardinality(V) /\ num("unused") = Cardinality(U)
      /\ num("successful") = Cardinality(W)
  BY DEF num
<1>3. V \cap U = {} /\ W \cap (V \cup U) = {}
  OBVIOUS
<1>4. V \cup U \subseteq Slot /\ W \cup (V \cup U) \subseteq Slot
  OBVIOUS
<1>5. /\ V \cup U = Slot <=> \A s \in Slot : class[s] \in Unstarted
      /\ W \cup (V \cup U) = Slot <=>
           \A s \in Slot : class[s] \in Unstarted \cup {"successful"}
  BY DEF Unstarted
<1> HIDE DEF V, U, W
<1>6. /\ IsFiniteSet(V \cup U)
      /\ Cardinality(V \cup U) = num("virgin") + num("unused")
  <2>1. /\ IsFiniteSet(V \cup U)
        /\ Cardinality(V \cup U) =
             Cardinality(V) + Cardinality(U) - Cardinality(V \cap U)
    BY <1>1, FS_Union
  <2>2. Cardinality(V \cap U) = 0
    BY <1>3, FS_EmptySet
  <2> QED
    BY <1>1, <1>2, <2>1, <2>2
<1>7. /\ IsFiniteSet(W \cup (V \cup U))
      /\ Cardinality(W \cup (V \cup U)) =
           num("successful") + (num("virgin") + num("unused"))
  <2> DEFINE X == V \cup U
  <2>1. IsFiniteSet(X) /\ W \cap X = {}
    BY <1>3, <1>6
  <2> HIDE DEF X
  <2>2. /\ IsFiniteSet(W \cup X)
        /\ Cardinality(W \cup X) =
             Cardinality(W) + Cardinality(X) - Cardinality(W \cap X)
    BY <1>1, <2>1, FS_Union
  <2>3. Cardinality(W \cap X) = 0
    BY <2>1, FS_EmptySet
  <2> QED
    BY <1>1, <1>2, <1>6, <2>2, <2>3 DEF X
<1>8. /\ Cardinality(V \cup U) = NumSlots <=> V \cup U = Slot
      /\ Cardinality(W \cup (V \cup U)) = NumSlots <=> W \cup (V \cup U) = Slot
  BY <1>4, SlotFacts, FS_Subset
<1> QED
  BY <1>1, <1>5, <1>6, <1>7, <1>8, SlotFacts DEF num_descriptors_in_use

(* -1 in unsigned arithmetic is the largest number.                          *)
LEMMA MinusOne == ASSUME NEW b \in Nat, b > 1 PROVE (-1) % b = b - 1
OBVIOUS

LEMMA FailedValue ==
    /\ UINT16_MAX \in Nat /\ UINT16_MAX > 3
    /\ X_FAILED_APPLICATION = UINT16_MAX
<1>1. UINT16_MAX \in Nat /\ UINT16_MAX > 3
  BY SMT DEF UINT16_MAX
<1>2. (-1) % (UINT16_MAX + 1) = (UINT16_MAX + 1) - 1
  BY <1>1, MinusOne
<1> QED
  BY <1>1, <1>2 DEF X_FAILED_APPLICATION, UInt16

(* What each report says of the classes.                                     *)
LEMMA VerdictFacts ==
    ASSUME class \in [Slot -> Classes]
    PROVE  /\ Verdict \in 0 .. UINT16_MAX
           /\ Verdict = X_FAILED_APPLICATION <=>
                \E s \in Slot : class[s] = "failed"
           /\ Verdict = X_VIRGIN_APPLICATION <=>
                \A s \in Slot : class[s] \in Unstarted
           /\ Verdict = X_SUCCESSFUL_APPLICATION =>
                \A s \in Slot : class[s] \in Unstarted \cup {"successful"}
<1>1. /\ UINT16_MAX \in Nat /\ UINT16_MAX > 3
      /\ X_FAILED_APPLICATION = UINT16_MAX
  BY FailedValue
<1>2. num("failed") > 0 <=> \E s \in Slot : class[s] = "failed"
  BY NumFacts
<1> USE <1>1, <1>2, NumAdd
    DEF X_VIRGIN_APPLICATION, X_SUCCESSFUL_APPLICATION,
        X_INITIALIZING_APPLICATION, X_RUNNING_APPLICATION, Verdict
<1>3. Verdict \in 0 .. UINT16_MAX
  OBVIOUS
<1>4. Verdict = X_FAILED_APPLICATION <=> \E s \in Slot : class[s] = "failed"
  OBVIOUS
<1>5. Verdict = X_VIRGIN_APPLICATION <=> \A s \in Slot : class[s] \in Unstarted
  BY DEF Unstarted
<1>6. Verdict = X_SUCCESSFUL_APPLICATION =>
        \A s \in Slot : class[s] \in Unstarted \cup {"successful"}
  OBVIOUS
<1> QED
  BY <1>3, <1>4, <1>5, <1>6

-----------------------------------------------------------------------------
(* The classes tell the states apart.                                        *)
LEMMA ClassFacts ==
    ASSUME NEW v \in Int
    PROVE  /\ Class(v) \in Classes /\ Class(v) # "unused"
           /\ Class(v) = "virgin" <=> v = X_VIRGIN_TASK
           /\ Class(v) = "successful" <=> v = X_SUCCESSFUL_TASK
           /\ Class(v) = "failed" <=> v < 0
BY DEF Class, Classes, X_VIRGIN_TASK, X_SUCCESSFUL_TASK, X_INITIALIZING_TASK,
       X_ACTIVE_TASK

LEMMA StateFacts ==
    ASSUME TypeOK, NEW t \in Assigned
    PROVE  state[t] \in Int
<1>1. state[t] \in TaskResults \cup
                    {X_VIRGIN_TASK, X_INITIALIZING_TASK, X_ACTIVE_TASK}
  BY DEF TypeOK
<1>2. TaskResults \subseteq Int
  BY ResultsAssumption
<1>3. {X_VIRGIN_TASK, X_INITIALIZING_TASK, X_ACTIVE_TASK} \subseteq Int
  BY DEF X_VIRGIN_TASK, X_INITIALIZING_TASK, X_ACTIVE_TASK
<1> QED
  BY <1>1, <1>2, <1>3

LEMMA MonitorInit == Init => MInv
<1> SUFFICES ASSUME Init PROVE MInv
  OBVIOUS
<1>1. TypeOK
  BY SlotFacts DEF Init, TypeOK, PC, Classes
<1>2. X_FAILED_APPLICATION # None
  BY FailedValue DEF None
<1> QED
  BY <1>1, <1>2
     DEF Init, MInv, ReadIsTrue, StartedSeen, FailureKept, StartKept, Unstarted

(* A task's step: virgin states are left and terminal ones kept.             *)
LEMMA TaskInv ==
    ASSUME MInv, NEW u \in Assigned, TaskStep(u)
    PROVE  MInv'
<1>1. /\ UNCHANGED <<halted, pc, next, class, reported, monitored, started>>
      /\ state[u] \in {X_VIRGIN_TASK, X_INITIALIZING_TASK, X_ACTIVE_TASK}
      /\ \E r \in TaskResults \cup {X_INITIALIZING_TASK, X_ACTIVE_TASK} :
            state' = [state EXCEPT ![u] = r]
  BY DEF TaskStep
<1>2. PICK r \in TaskResults \cup {X_INITIALIZING_TASK, X_ACTIVE_TASK} :
         state' = [state EXCEPT ![u] = r]
  BY <1>1
<1>3. TypeOK'
  BY <1>1, <1>2 DEF MInv, TypeOK
<1>4. r # X_VIRGIN_TASK
  BY ResultsAssumption DEF X_VIRGIN_TASK, X_INITIALIZING_TASK, X_ACTIVE_TASK
<1>5. \A t \in Assigned :
        /\ state[t] # X_VIRGIN_TASK => state'[t] # X_VIRGIN_TASK
        /\ state[t] = X_SUCCESSFUL_TASK => state'[t] = X_SUCCESSFUL_TASK
        /\ state[t] < 0 => state'[t] < 0
  BY <1>1, <1>2, <1>4, StateFacts
     DEF MInv, TypeOK, X_SUCCESSFUL_TASK, X_VIRGIN_TASK, X_INITIALIZING_TASK,
         X_ACTIVE_TASK
<1>6. ReadIsTrue'
  BY <1>1, <1>5 DEF MInv, ReadIsTrue, Unstarted
<1>7. StartedSeen'
  BY <1>1, <1>5 DEF MInv, StartedSeen, TypeOK
<1>8. FailureKept' /\ StartKept'
  BY <1>1, <1>5 DEF MInv, FailureKept, StartKept
<1> QED
  BY <1>3, <1>6, <1>7, <1>8 DEF MInv

(* One descriptor is read.                                                   *)
LEMMA ReadInv ==
    ASSUME MInv, NEW s \in Slot, ReadDescriptor(s)
    PROVE  MInv'
<1>1. /\ pc \in Scan /\ next = s /\ next' = s + 1
      /\ class' = [class EXCEPT ![s] = IF s \in Assigned THEN Class(state[s])
                                       ELSE @]
      /\ UNCHANGED <<state, halted, pc, reported, monitored>>
      /\ started' = IF s = 1 THEN Started ELSE started
  BY DEF ReadDescriptor, Scan, tasks
<1>2. s \in Nat /\ s < NumSlots + 1 /\ NumSlots \in Nat /\ s > 0
      /\ Assigned \subseteq Slot /\ Slot \subseteq Nat \ {0}
  BY SlotFacts
<1>3. class \in [Slot -> Classes]
  BY DEF MInv, TypeOK
<1>4. \A t \in Slot : t # s => class'[t] = class[t]
  BY <1>1, <1>3
<1>5. /\ s \in Assigned => class'[s] = Class(state[s]) /\ state[s] \in Int
      /\ s \notin Assigned => class'[s] = class[s]
  BY <1>1, <1>3, StateFacts DEF MInv
<1>6. TypeOK'
  <2>1. class' \in [Slot -> Classes]
    BY <1>1, <1>3, <1>5, ClassFacts
  <2>2. next' \in 1 .. NumSlots + 1
    BY <1>1, <1>2
  <2> QED
    BY <1>1, <2>1, <2>2 DEF MInv, TypeOK, Started
<1>7. ReadIsTrue'
  <2>1. CASE s \in Assigned
    BY <1>1, <1>4, <1>5, <2>1, ClassFacts DEF MInv, ReadIsTrue, Unstarted
  <2>2. CASE s \notin Assigned
    BY <1>1, <1>4, <1>5, <2>2 DEF MInv, ReadIsTrue, Unstarted
  <2> QED
    BY <2>1, <2>2
<1>8. \A t \in Assigned : state[t] # X_VIRGIN_TASK
        /\ (t < s => class[t] \notin Unstarted)
        /\ t < s + 1 => class'[t] \notin Unstarted
  <2> SUFFICES ASSUME NEW t \in Assigned, state[t] # X_VIRGIN_TASK,
                      t < s => class[t] \notin Unstarted, t < s + 1
               PROVE  class'[t] \notin Unstarted
    OBVIOUS
  <2>1. t = s \/ (t < s /\ t # s)
    BY <1>2
  <2>2. CASE t = s
    BY <1>5, <2>2, ClassFacts DEF Unstarted
  <2> QED
    BY <1>2, <1>4, <2>1, <2>2
<1>9. StartedSeen'
  <2>1. CASE s = 1
    <3>1. \A t \in Started : t \in Assigned /\ state[t] # X_VIRGIN_TASK
                              /\ ~(t < s)
      BY <1>2, <2>1 DEF Started
    <3> QED
      BY <1>1, <1>8, <2>1, <3>1 DEF StartedSeen
  <2>2. CASE s # 1
    BY <1>1, <1>8, <2>2 DEF MInv, StartedSeen, TypeOK
  <2> QED
    BY <2>1, <2>2
<1>10. FailureKept'
  <2> SUFFICES ASSUME reported = X_FAILED_APPLICATION
               PROVE  \E t \in Assigned :
                        /\ state[t] < 0
                        /\ t < s + 1 => class'[t] = "failed"
    BY <1>1 DEF FailureKept
  <2>1. PICK t \in Assigned : /\ state[t] < 0
                              /\ t < s => class[t] = "failed"
    BY <1>1 DEF MInv, FailureKept
  <2>2. CASE t = s
    BY <1>5, <2>1, <2>2, ClassFacts
  <2>3. CASE t # s
    BY <1>2, <1>4, <2>1, <2>3
  <2> QED
    BY <2>2, <2>3
<1>11. StartKept'
  BY <1>1, <1>8 DEF MInv, StartKept
<1> QED
  BY <1>6, <1>7, <1>9, <1>10, <1>11 DEF MInv

(* x_get_application_state returns.                                          *)
LEMMA KnownInv ==
    ASSUME MInv, NEW l \in PC, pc \in Scan, StateKnown(l),
           monitored' \in {monitored, Verdict}
    PROVE  MInv'
<1>1. /\ next = NumSlots + 1 /\ next' = 1 /\ reported' = Verdict /\ pc' = l
      /\ class' = [s \in Slot |-> "unused"]
      /\ UNCHANGED <<state, halted, started>>
  BY DEF StateKnown, tasks
<1>2. class \in [Slot -> Classes] /\ Verdict \in 0 .. UINT16_MAX
  BY VerdictFacts DEF MInv, TypeOK
<1>3. TypeOK'
  BY <1>1, <1>2, SlotFacts DEF MInv, TypeOK, Classes
<1>4. \A t \in Assigned : ~(t < 1)
  BY SlotFacts
<1>5. ReadIsTrue'
  BY <1>1 DEF ReadIsTrue, Unstarted
<1>6. StartedSeen'
  BY <1>1, <1>4 DEF MInv, StartedSeen, TypeOK
<1>7. FailureKept'
  <2>1. Verdict = X_FAILED_APPLICATION =>
          \E s \in Assigned : state[s] < 0
    BY <1>2, VerdictFacts DEF MInv, ReadIsTrue
  <2> QED
    BY <1>1, <1>4, <2>1 DEF FailureKept
<1>8. StartKept'
  <2>1. Verdict # X_VIRGIN_APPLICATION =>
          \E s \in Assigned : state[s] # X_VIRGIN_TASK
    BY <1>2, VerdictFacts DEF MInv, ReadIsTrue, Unstarted
  <2> QED
    BY <1>1, <1>4, <2>1 DEF StartKept
<1> QED
  BY <1>3, <1>5, <1>6, <1>7, <1>8 DEF MInv

LEMMA HaltInv ==
    ASSUME MInv, NEW s \in Slot, Halt(s)
    PROVE  MInv'
<1>1. /\ pc = "halt" /\ pc' \in {"halt", "end"} /\ next = s
      /\ halted' = halted \cup {s}
      /\ next' = IF s = NumSlots THEN 1 ELSE s + 1
      /\ UNCHANGED <<state, class, reported, monitored, started>>
  BY DEF Halt
<1>2. next' \in 1 .. NumSlots + 1
  BY <1>1, SlotFacts
<1>3. TypeOK'
  BY <1>1, <1>2 DEF MInv, TypeOK, PC
<1> QED
  BY <1>1, <1>3 DEF MInv, ReadIsTrue, StartedSeen, FailureKept, StartKept, Scan

(* Every step of the program and of the tasks.                               *)
LEMMA MonitorStep == MInv /\ [Next]_vars => MInv'
<1> SUFFICES ASSUME MInv, [Next]_vars PROVE MInv'
  OBVIOUS
<1>1. ASSUME NEW t \in Assigned, TaskStep(t) PROVE MInv'
  BY <1>1, TaskInv
<1>2. ASSUME NEW s \in Slot, ReadDescriptor(s) \/ Halt(s) PROVE MInv'
  BY <1>2, ReadInv, HaltInv
<1>3. CASE KeepWaiting
  BY <1>3, KnownInv DEF KeepWaiting, Scan, PC
<1>4. CASE StopWaiting
  BY <1>4, KnownInv DEF StopWaiting, Scan, PC
<1>5. CASE x_monitor_application
  BY <1>5, KnownInv DEF x_monitor_application, Scan, PC
<1>6. CASE x_finalize_application
  BY <1>6, KnownInv DEF x_finalize_application, Scan, PC
<1>7. CASE UNCHANGED vars
  BY <1>7 DEF vars, MInv, TypeOK, ReadIsTrue, StartedSeen, FailureKept,
              StartKept
<1> QED
  BY <1>1, <1>2, <1>3, <1>4, <1>5, <1>6, <1>7 DEF Next, Host

-----------------------------------------------------------------------------
(* The step on which a report is made, and the others.                       *)
LEMMA ReportStep ==
    ASSUME MInv, [Next]_vars
    PROVE  \/ /\ pc \in Scan /\ next = NumSlots + 1
              /\ reported' = Verdict
           \/ reported' = reported /\ (NumSlots > 0 => ~Returns)
<1>1. ASSUME NEW t \in Assigned, TaskStep(t)
      PROVE  reported' = reported /\ next' = next
  BY <1>1 DEF TaskStep
<1>2. ASSUME NEW s \in Slot, ReadDescriptor(s) \/ Halt(s)
      PROVE  reported' = reported /\ next < NumSlots + 1
  BY <1>2, SlotFacts DEF ReadDescriptor, Halt
<1>3. CASE KeepWaiting \/ StopWaiting \/ x_monitor_application
           \/ x_finalize_application
  BY <1>3 DEF KeepWaiting, StopWaiting, x_monitor_application,
              x_finalize_application, StateKnown, Scan
<1>4. CASE UNCHANGED vars
  BY <1>4, SlotFacts DEF vars, Returns
<1> QED
  BY <1>1, <1>2, <1>3, <1>4, SlotFacts DEF Next, Host, Returns

(* The steps that the two properties allow.                                  *)
EndedAction ==
    Returns /\ reported' = X_SUCCESSFUL_APPLICATION =>
        \A t \in started : state[t] = X_SUCCESSFUL_TASK
ForwardAction ==
    /\ reported = X_FAILED_APPLICATION => reported' = X_FAILED_APPLICATION
    /\ reported \notin {None, X_VIRGIN_APPLICATION} =>
          reported' # X_VIRGIN_APPLICATION

LEMMA EndedStep == MInv /\ [Next]_vars => EndedAction
<1> SUFFICES ASSUME MInv, [Next]_vars, Returns,
                    reported' = X_SUCCESSFUL_APPLICATION, NEW t \in started
             PROVE  state[t] = X_SUCCESSFUL_TASK
  BY DEF EndedAction
<1>1. t \in Assigned /\ t \in Slot /\ t < NumSlots + 1 /\ NumSlots > 0
  BY SlotFacts DEF MInv, TypeOK
<1>2. /\ pc \in Scan /\ next = NumSlots + 1
      /\ Verdict = X_SUCCESSFUL_APPLICATION
  BY <1>1, ReportStep
<1>3. class[t] \notin Unstarted
  BY <1>1, <1>2 DEF MInv, StartedSeen
<1>4. class[t] = "successful"
  BY <1>1, <1>2, <1>3, VerdictFacts DEF MInv, TypeOK
<1> QED
  BY <1>1, <1>4 DEF MInv, ReadIsTrue

LEMMA ForwardStep == MInv /\ [Next]_vars => ForwardAction
<1> SUFFICES ASSUME MInv, [Next]_vars PROVE ForwardAction
  OBVIOUS
<1>1. CASE reported' = reported
  BY <1>1 DEF ForwardAction
<1>2. CASE pc \in Scan /\ next = NumSlots + 1 /\ reported' = Verdict
  <2>1. class \in [Slot -> Classes] /\ \A t \in Assigned : t \in Slot
                                        /\ t < NumSlots + 1
    BY SlotFacts DEF MInv, TypeOK
  <2>2. reported = X_FAILED_APPLICATION => Verdict = X_FAILED_APPLICATION
    BY <1>2, <2>1, VerdictFacts DEF MInv, FailureKept
  <2>3. reported \notin {None, X_VIRGIN_APPLICATION} =>
          Verdict # X_VIRGIN_APPLICATION
    BY <1>2, <2>1, VerdictFacts DEF MInv, StartKept
  <2> QED
    BY <1>2, <2>2, <2>3 DEF ForwardAction
<1> QED
  BY <1>1, <1>2, ReportStep

(* The monitor's state has its type at every step.                           *)
THEOREM MonitorTypes == Spec => []TypeOK
<1>1. MInv => TypeOK
  BY DEF MInv
<1> QED
  BY <1>1, MonitorInit, MonitorStep, PTL DEF Spec

(* An application is reported successful only if every task that had started *)
(* when the reading began has ended with success, for any number of tasks.   *)
THEOREM SuccessIsTrue == Spec => SuccessMeansEnded
<1>1. MInv /\ [Next]_vars => [EndedAction]_vars
  BY EndedStep
<1>2. Spec => [][EndedAction]_vars
  BY <1>1, MonitorInit, MonitorStep, PTL DEF Spec
<1> QED
  BY <1>2 DEF SuccessMeansEnded, EndedAction

(* A reported failure stays, and a started application is never reported     *)
(* virgin again, however the tasks move under the readings.                  *)
THEOREM ReportsGoForward == Spec => VerdictNeverGoesBack
<1>1. MInv /\ [Next]_vars => [ForwardAction]_vars
  BY ForwardStep
<1>2. Spec => [][ForwardAction]_vars
  BY <1>1, MonitorInit, MonitorStep, PTL DEF Spec
<1> QED
  BY <1>2 DEF VerdictNeverGoesBack, ForwardAction
=============================================================================
