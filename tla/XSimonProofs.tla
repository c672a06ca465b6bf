---------------------------- MODULE XSimonProofs ----------------------------
(***************************************************************************)
(* Proofs about XSimon, for a device of any size, any mix of requests,     *)
(* endings and restarts, and any command line: the count that ends the     *)
(* polling is right and the exit code 0 is earned.                         *)
(***************************************************************************)
EXTENDS XSimon, FiniteSetTheorems, TLAPS

CoreState == {Running} \cup {Trapped(q) : q \in Requests} \cup Endings

SimonTypes ==
  /\ exit_trapped \in [Positions -> BOOLEAN]
  /\ num_cores_exited \in Nat
  /\ core \in [Positions -> CoreState]

(* The position polled next is one of the rectangle of monitored cores.     *)
Within ==
  /\ first \in Positions /\ last \in Positions
  /\ row \in first[1] .. last[1]
  /\ col \in first[2] .. last[2]

(* Nothing has happened before the device is mapped.                        *)
Fresh ==
  pc = "start" => /\ Device!Init
                  /\ exit_trapped = [p \in Positions |-> FALSE]
                  /\ num_cores_exited = 0

(* The workgroup mapped for the polling: at the device's origin, and then   *)
(* all that is polled lies inside it, or one core elsewhere.                *)
Placed ==
  pc = "polling" =>
    \/ first = <<0, 0>> /\ wg.row = PlatformRow /\ wg.col = PlatformCol
       /\ wg.rows = last[1] + 1 /\ wg.cols = last[2] + 1
    \/ first = last /\ wg.rows = 1 /\ wg.cols = 1
       /\ wg.row = PlatformRow + first[1] /\ wg.col = PlatformCol + first[2]

(* A core flagged as exited has ended its program, or was started again;    *)
(* unless the flag was raised for registers outside the workgroup.          *)
Flagged ==
  first = <<0, 0>> => \A p \in Positions : exit_trapped[p] => Stopped(p) \/ p \in restarted

(* Only a polling that has flagged every core leaves the result 0.          *)
ZeroEarned ==
  result = 0 => /\ pc \in {"unmap", "done"}
                /\ \A p \in Monitored : exit_trapped[p]

(* The inductive invariant.                                                 *)
IInv ==
  /\ SimonTypes
  /\ Within
  /\ Fresh
  /\ Placed
  /\ Flagged
  /\ ZeroEarned
  /\ CountExact

-----------------------------------------------------------------------------
(* The monitored cores are finitely many, one at least, and their number is *)
(* what num_cores_monitored computes.                                       *)
LEMMA Rectangle ==
  ASSUME NEW a \in Nat, NEW b \in Nat, NEW c \in Nat, NEW d \in Nat,
         a <= b, c <= d
  PROVE  /\ IsFiniteSet((a .. b) \X (c .. d))
         /\ Cardinality((a .. b) \X (c .. d)) = (b - a + 1) * (d - c + 1)
         /\ Cardinality((a .. b) \X (c .. d)) > 0
<1> DEFINE R == a .. b
           C == c .. d
<1>1. IsFiniteSet(R) /\ Cardinality(R) = b - a + 1
  <2>1. ~(a > b)
    OBVIOUS
  <2> QED
    BY <2>1, FS_Interval
<1>2. IsFiniteSet(C) /\ Cardinality(C) = d - c + 1
  <2>1. ~(c > d)
    OBVIOUS
  <2> QED
    BY <2>1, FS_Interval
<1>3. <<a, c>> \in R \X C
  OBVIOUS
<1> HIDE DEF R, C
<1>4. IsFiniteSet(R \X C) /\ Cardinality(R \X C) = Cardinality(R) * Cardinality(C)
  BY <1>1, <1>2, FS_Product
<1>5. Cardinality(R \X C) # 0
  BY <1>3, <1>4, FS_EmptySet
<1>6. Cardinality(R \X C) \in Nat
  BY <1>4, FS_CardinalityType
<1>7. Cardinality(R \X C) > 0
  BY <1>5, <1>6
<1>8. Cardinality(R \X C) = (b - a + 1) * (d - c + 1)
  BY <1>1, <1>2, <1>4
<1> QED
  BY <1>4, <1>7, <1>8 DEF R, C

(* How the number of flagged members of a finite set M changes with a flag. *)
LEMMA FlagCount ==
  ASSUME NEW S, NEW M \in SUBSET S, IsFiniteSet(M),
         NEW f \in [S -> BOOLEAN], NEW p \in M
  PROVE  /\ Cardinality({x \in M : f[x]}) \in Nat
         /\ Cardinality({x \in M : f[x]}) = Cardinality(M) => \A x \in M : f[x]
         /\ ~f[p] => Cardinality({x \in M : [f EXCEPT ![p] = TRUE][x]})
                       = Cardinality({x \in M : f[x]}) + 1
         /\ f[p] => Cardinality({x \in M : [f EXCEPT ![p] = FALSE][x]})
                       = Cardinality({x \in M : f[x]}) - 1
<1> DEFINE F == {x \in M : f[x]}
<1>1. F \in SUBSET M
  OBVIOUS
<1>2. {x \in M : [f EXCEPT ![p] = TRUE][x]} = F \cup {p}
  OBVIOUS
<1>3. {x \in M : [f EXCEPT ![p] = FALSE][x]} = F \ {p}
  OBVIOUS
<1>4. p \in F <=> f[p]
  OBVIOUS
<1>5. F = M => \A x \in M : f[x]
  OBVIOUS
<1> HIDE DEF F
<1>6. IsFiniteSet(F) /\ (Cardinality(M) = Cardinality(F) => M = F)
  BY <1>1, FS_Subset
<1>7. Cardinality(F) \in Nat
  BY <1>6, FS_CardinalityType
<1>8. ~f[p] => Cardinality(F \cup {p}) = Cardinality(F) + 1
  BY <1>4, <1>6, FS_AddElement
<1>9. f[p] => Cardinality(F \ {p}) = Cardinality(F) - 1
  BY <1>4, <1>6, FS_RemoveElement
<1>10. Cardinality(F) = Cardinality(M) => \A x \in M : f[x]
  BY <1>5, <1>6
<1>11. ~f[p] => Cardinality({x \in M : [f EXCEPT ![p] = TRUE][x]}) = Cardinality(F) + 1
  BY <1>2, <1>8
<1>12. f[p] => Cardinality({x \in M : [f EXCEPT ![p] = FALSE][x]}) = Cardinality(F) - 1
  BY <1>3, <1>9
<1> QED
  BY <1>7, <1>10, <1>11, <1>12 DEF F

(* The rectangle of the monitored cores lies on the device.                 *)
LEMMA MonitoredFacts ==
  ASSUME Within
  PROVE  /\ first[1] \in Nat /\ first[2] \in Nat
         /\ last[1] \in Nat /\ last[2] \in Nat
         /\ row \in Nat /\ col \in Nat
         /\ first[1] <= last[1] /\ first[2] <= last[2]
         /\ <<row, col>> \in Monitored
         /\ Monitored \in SUBSET Positions
         /\ IsFiniteSet(Monitored)
         /\ num_cores_monitored = Cardinality(Monitored)
         /\ num_cores_monitored \in Nat \ {0}
<1>1. /\ first[1] \in 0 .. PlatformRows - 1 /\ first[2] \in 0 .. PlatformCols - 1
      /\ last[1] \in 0 .. PlatformRows - 1 /\ last[2] \in 0 .. PlatformCols - 1
  BY DEF Within, Positions
<1>2. PlatformRows \in Nat /\ PlatformCols \in Nat
  BY SimonAssumption
<1>3. /\ first[1] \in Nat /\ first[2] \in Nat
      /\ last[1] \in Nat /\ last[2] \in Nat
  BY <1>1, <1>2
<1>4. row \in first[1] .. last[1] /\ col \in first[2] .. last[2]
  BY DEF Within
<1>5. /\ row \in Nat /\ col \in Nat
      /\ first[1] <= last[1] /\ first[2] <= last[2]
  BY <1>3, <1>4
<1>6. <<row, col>> \in Monitored
  BY <1>4 DEF Monitored
<1>7. /\ first[1] .. last[1] \subseteq 0 .. PlatformRows - 1
      /\ first[2] .. last[2] \subseteq 0 .. PlatformCols - 1
  BY <1>1, <1>2
<1>8. Monitored \in SUBSET Positions
  BY <1>7 DEF Monitored, Positions
<1>9. /\ IsFiniteSet(Monitored)
      /\ num_cores_monitored = Cardinality(Monitored)
      /\ Cardinality(Monitored) > 0
  <2> DEFINE a == first[1]  b == last[1]  c == first[2]  d == last[2]
  <2>1. a \in Nat /\ b \in Nat /\ c \in Nat /\ d \in Nat /\ a <= b /\ c <= d
    BY <1>3, <1>5
  <2>2. /\ Monitored = (a .. b) \X (c .. d)
        /\ num_cores_monitored = (b - a + 1) * (d - c + 1)
    BY DEF Monitored, num_cores_monitored
  <2> HIDE DEF a, b, c, d
  <2>3. /\ IsFiniteSet((a .. b) \X (c .. d))
        /\ Cardinality((a .. b) \X (c .. d)) = (b - a + 1) * (d - c + 1)
        /\ Cardinality((a .. b) \X (c .. d)) > 0
    BY <2>1, Rectangle
  <2> QED
    BY <2>2, <2>3
<1>10. Cardinality(Monitored) \in Nat
  BY <1>9, FS_CardinalityType
<1>11. num_cores_monitored \in Nat \ {0}
  BY <1>9, <1>10
<1> QED
  BY <1>3, <1>5, <1>6, <1>8, <1>9, <1>11

LEMMA MonitoredOnDevice ==
  Within => /\ Monitored \in SUBSET Positions
            /\ num_cores_monitored \in Nat \ {0}
BY MonitoredFacts

(* A core that simon gives up on has ended its program: every request of a  *)
(* program is one that is served.                                           *)
LEMMA StoppedFacts ==
  ASSUME NEW s \in CoreState,
         x_catch_epiphany_exception(s).type \in {"trap", "software"},
         ~IsServed(x_catch_epiphany_exception(s))
  PROVE  s \in Endings
<1>1. CASE s = Running
  BY <1>1 DEF Running, x_catch_epiphany_exception
<1>2. ASSUME NEW q \in Requests, s = Trapped(q)
      PROVE  FALSE
  <2>1. x_catch_epiphany_exception(s) = [type |-> "trap", value |-> q.trap]
    BY <1>2 DEF Trapped, x_catch_epiphany_exception
  <2>2. IsServed([type |-> "trap", value |-> q.trap])
    BY SimonAssumption
  <2> QED
    BY <2>1, <2>2
<1> QED
  BY <1>1, <1>2 DEF CoreState

LEMMA RunningFacts ==
  /\ Running \in CoreState /\ Running \notin Endings
  /\ Endings \subseteq CoreState
  /\ \A q \in Requests : Trapped(q) \in CoreState
<1>1. \A e \in Endings : e.condition # "running"
  BY SimonAssumption
<1>2. Running.condition = "running"
  BY DEF Running
<1>3. Running \notin Endings
  BY <1>1, <1>2
<1> QED
  BY <1>3 DEF CoreState

(* The registers read in a poll inside the workgroup are those of the core  *)
(* at the position polled.                                                  *)
LEMMA PolledFacts ==
  ASSUME Within, Placed, pc = "polling", InWorkgroup
  PROVE  Polled = <<row, col>>
<1>1. PlatformRow \in Nat /\ PlatformCol \in Nat
  BY SimonAssumption
<1>2. /\ first[1] \in Nat /\ first[2] \in Nat /\ row \in Nat /\ col \in Nat
  BY MonitoredFacts
<1>3. CASE first = <<0, 0>> /\ wg.row = PlatformRow /\ wg.col = PlatformCol
  BY <1>1, <1>2, <1>3 DEF Polled
<1>4. CASE /\ first = last /\ wg.rows = 1 /\ wg.cols = 1
           /\ wg.row = PlatformRow + first[1] /\ wg.col = PlatformCol + first[2]
  <2>1. row < 1 /\ col < 1
    BY <1>4 DEF InWorkgroup
  <2>2. row = first[1] /\ col = first[2]
    BY <1>2, <1>4 DEF Within
  <2>3. /\ row = 0 /\ col = 0 /\ wg.row = PlatformRow /\ wg.col = PlatformCol
    BY <1>1, <1>2, <1>4, <2>1, <2>2
  <2> QED
    BY <1>1, <2>3 DEF Polled
<1> QED
  BY <1>3, <1>4 DEF Placed

(* From the device's origin on no poll leaves the workgroup.                *)
LEMMA OriginInside ==
  ASSUME Within, Placed, pc = "polling", first = <<0, 0>>
  PROVE  InWorkgroup
<1>1. /\ row \in Nat /\ col \in Nat /\ row <= last[1] /\ col <= last[2]
      /\ last[1] \in Nat /\ last[2] \in Nat
  BY MonitoredFacts DEF Within
<1>2. CASE wg.rows = last[1] + 1 /\ wg.cols = last[2] + 1
  BY <1>1, <1>2 DEF InWorkgroup
<1>3. CASE first = last /\ wg.rows = 1 /\ wg.cols = 1
  <2>1. row = 0 /\ col = 0
    BY <1>1, <1>3
  <2> QED
    BY <1>3, <2>1 DEF InWorkgroup
<1> QED
  BY <1>2, <1>3 DEF Placed

LEMMA AdvanceStaysWithin ==
  ASSUME Within, Advance, UNCHANGED <<first, last>>
  PROVE  Within'
<1>1. /\ first[1] \in Nat /\ first[2] \in Nat /\ last[1] \in Nat /\ last[2] \in Nat
      /\ first[1] <= last[1] /\ first[2] <= last[2]
  BY MonitoredFacts
<1>2. col' \in first[2] .. last[2]
  BY <1>1 DEF Within, Advance
<1>3. row' \in first[1] .. last[1]
  BY <1>1 DEF Within, Advance
<1> QED
  BY <1>2, <1>3 DEF Within

(* What a step keeps that leaves the device and the command line's range    *)
(* alone and does not begin the polling.                                    *)
LEMMA RangeKept ==
  ASSUME UNCHANGED <<device, first, last>>
  PROVE  /\ Monitored' = Monitored
         /\ num_cores_monitored' = num_cores_monitored
         /\ Device!Init => Device!Init'
         /\ Placed /\ (pc' = "polling" => pc = "polling") => Placed'
<1>1. wg' = wg
  BY DEF wg, epiphany_control, device
<1> QED
  BY <1>1 DEF Monitored, num_cores_monitored, Placed, device, Device!Init

LEMMA CountKept ==
  ASSUME IInv, UNCHANGED <<first, last, exit_trapped, num_cores_exited>>,
         pc' = "polling" => pc = "polling"
  PROVE  CountExact'
<1>1. Monitored' = Monitored /\ num_cores_monitored' = num_cores_monitored
  BY DEF Monitored, num_cores_monitored
<1> QED
  BY <1>1 DEF IInv, CountExact

-----------------------------------------------------------------------------
LEMMA InitEstablishes == Init => IInv
<1> SUFFICES ASSUME Init
             PROVE  IInv
  OBVIOUS
<1>1. PlatformRows \in Nat \ {0} /\ PlatformCols \in Nat \ {0}
  BY SimonAssumption
<1>2. SimonTypes
  BY RunningFacts DEF Init, SimonTypes
<1>3. Within
  BY <1>1 DEF Init, Within, Positions
<1>4. Fresh
  BY DEF Init, Fresh
<1>5. Placed /\ Flagged /\ ZeroEarned
  <2>1. \A p \in Positions : ~exit_trapped[p]
    BY DEF Init
  <2> QED
    BY <2>1 DEF Init, Placed, Flagged, ZeroEarned
<1>6. CountExact
  <2>1. {p \in Monitored : exit_trapped[p]} = {}
    <3>1. Monitored \in SUBSET Positions
      BY <1>3, MonitoredFacts
    <3> QED
      BY <3>1 DEF Init
  <2> QED
    BY <2>1, FS_EmptySet DEF Init, CountExact
<1> QED
  BY <1>2, <1>3, <1>4, <1>5, <1>6 DEF IInv

(* The cores' own steps and those of other host programs.                   *)
LEMMA CoreStep ==
  ASSUME IInv, NEW p \in Positions, CoreHalts(p) \/ Restart(p)
  PROVE  IInv'
<1> USE DEF IInv
<1>1. /\ UNCHANGED <<device, first, last, row, col, exit_trapped,
                     num_cores_exited, result, pc>>
  BY DEF CoreHalts, Restart, loop
<1>2. SimonTypes'
  <2>1. PICK s \in CoreState : core' = [core EXCEPT ![p] = s]
    BY RunningFacts DEF CoreHalts, Restart
  <2> QED
    BY <1>1, <2>1 DEF SimonTypes
<1>3. Within' /\ Fresh' /\ Placed' /\ CountExact'
  BY <1>1, RangeKept, CountKept DEF Within, Fresh
<1>4. ZeroEarned'
  BY <1>1, RangeKept DEF ZeroEarned
<1>5. Flagged'
  <2> SUFFICES ASSUME first = <<0, 0>>, NEW x \in Positions, exit_trapped[x]
               PROVE  core'[x] \in Endings \/ x \in restarted'
    BY <1>1 DEF Flagged, Stopped
  <2>1. core[x] \in Endings \/ x \in restarted
    BY DEF Flagged, Stopped
  <2>2. CASE CoreHalts(p)
    <3>1. core[p] \notin Endings /\ restarted' = restarted
      BY <2>2, RunningFacts DEF CoreHalts
    <3>2. x # p => core'[x] = core[x]
      BY <2>2 DEF CoreHalts, SimonTypes
    <3> QED
      BY <2>1, <3>1, <3>2
  <2>3. CASE Restart(p)
    <3>1. x # p => core'[x] = core[x]
      BY <2>3 DEF Restart, SimonTypes
    <3>2. restarted \subseteq restarted' /\ (x = p => x \in restarted')
      BY <2>3 DEF Restart
    <3> QED
      BY <2>1, <3>1, <3>2
  <2> QED
    BY <2>2, <2>3
<1> QED
  BY <1>2, <1>3, <1>4, <1>5

(* The mapping of the device. The structure that is initialised is the only *)
(* one, so that it is the one whose cores are polled.                       *)
LEMMA BeginStep ==
  ASSUME IInv, Begin
  PROVE  IInv'
<1> USE DEF IInv
<1>1. /\ PlatformRows \in Nat \ {0} /\ PlatformCols \in Nat \ {0}
      /\ PlatformRow \in Nat /\ PlatformCol \in Nat /\ NumEmems \in Nat
  BY SimonAssumption
<1>2. /\ pc = "start" /\ extract_args(args)
      /\ UNCHANGED <<core, restarted, exit_trapped, num_cores_exited, result>>
      /\ row' = first'[1] /\ col' = first'[2]
      /\ pc' \in {"polling", "done"}
  BY DEF Begin, cores, loop
<1>3. \/ /\ first' = <<0, 0>> /\ last' = <<PlatformRows - 1, PlatformCols - 1>>
      \/ first' \in Positions /\ last' = first'
  BY <1>2 DEF Begin, extract_args
<1>4. Within'
  <2>1. first' \in Positions /\ last' \in Positions
    BY <1>1, <1>3 DEF Positions
  <2>2. first'[1] \in Nat /\ first'[2] \in Nat /\ last'[1] \in Nat /\ last'[2] \in Nat
        /\ first'[1] <= last'[1] /\ first'[2] <= last'[2]
    BY <1>1, <1>3 DEF Positions
  <2> QED
    BY <1>2, <2>1, <2>2 DEF Within
<1>5. exit_trapped = [p \in Positions |-> FALSE] /\ num_cores_exited = 0
      /\ Device!Init
  BY <1>2 DEF Fresh
<1>6. SimonTypes' /\ Fresh' /\ Flagged'
  <2>1. \A p \in Positions : ~exit_trapped'[p]
    BY <1>2, <1>5
  <2> QED
    BY <1>2, <2>1 DEF SimonTypes, Fresh, Flagged
<1>7. ZeroEarned'
  BY <1>2 DEF ZeroEarned
<1>8. CountExact'
  <2>1. /\ (Monitored \in SUBSET Positions)'
        /\ (num_cores_monitored \in Nat \ {0})'
    BY <1>4, MonitoredOnDevice, PTL
  <2>2. {p \in Monitored' : exit_trapped'[p]} = {}
    BY <1>2, <1>5, <2>1
  <2>3. num_cores_exited' = Cardinality({p \in Monitored' : exit_trapped'[p]})
    BY <1>2, <1>5, <2>2, FS_EmptySet
  <2>4. num_cores_exited' < num_cores_monitored'
    BY <1>2, <1>5, <2>1
  <2> QED
    BY <2>3, <2>4 DEF CountExact
<1>9. Placed'
  <2> SUFFICES ASSUME pc' = "polling"
               PROVE  \/ /\ first' = <<0, 0>>
                         /\ wg'.row = PlatformRow /\ wg'.col = PlatformCol
                         /\ wg'.rows = last'[1] + 1 /\ wg'.cols = last'[2] + 1
                      \/ /\ first' = last' /\ wg'.rows = 1 /\ wg'.cols = 1
                         /\ wg'.row = PlatformRow + first'[1]
                         /\ wg'.col = PlatformCol + first'[2]
    BY DEF Placed
  <2>1. PICK c \in Controls, fails \in Device!CALLOC .. Device!LastCall + 1,
             closes \in BOOLEAN, fail \in SUBSET (0 .. NumEmems - 1) :
          /\ Device!x_map_epiphany_resources(c, first'[1], first'[2],
               last'[1] - first'[1] + 1, last'[2] - first'[2] + 1,
               fails, closes, fail)
          /\ initialized'[c]
    BY DEF Begin
  <2>2. fails \in Int
    BY <1>1 DEF Device!CALLOC, Device!LastCall
  <2>3. fails > 2
    BY <1>5, <2>1, <2>2 DEF Device!x_map_epiphany_resources, Device!Init, Device!OPEN
  <2>4. epiphany_control' = c
    <3>1. \A x \in Controls : initialized'[x] <=> x = c
      BY <1>5, <2>1 DEF Device!x_map_epiphany_resources, Device!Init
    <3> QED
      BY <3>1 DEF epiphany_control
  <2> DEFINE rows == Device!Trimmed(first'[1], last'[1] - first'[1] + 1, PlatformRows)
             cols == Device!Trimmed(first'[2], last'[2] - first'[2] + 1, PlatformCols)
  <2>5. wg' = [row |-> PlatformRow + first'[1], col |-> PlatformCol + first'[2],
               rows |-> rows, cols |-> cols]
    <3>1. fails > 1
      BY <2>2, <2>3
    <3>2. workgroup'[c] = [row |-> PlatformRow + first'[1],
                           col |-> PlatformCol + first'[2],
                           rows |-> rows, cols |-> cols]
      BY <1>5, <2>1, <2>3, <3>1
         DEF Device!x_map_epiphany_resources, Device!Init, Device!INFO, Device!OPEN
    <3> QED
      BY <2>4, <3>2 DEF wg
  <2>6. CASE first' = <<0, 0>> /\ last' = <<PlatformRows - 1, PlatformCols - 1>>
    <3>1. rows = PlatformRows /\ cols = PlatformCols
      BY <1>1, <2>6 DEF Device!Trimmed
    <3> QED
      BY <1>1, <2>5, <2>6, <3>1
  <2>7. CASE first' \in Positions /\ last' = first'
    <3>1. rows = 1 /\ cols = 1
      BY <1>1, <2>7 DEF Device!Trimmed, Positions
    <3> QED
      BY <2>5, <2>7, <3>1
  <2> QED
    BY <1>3, <2>6, <2>7
<1> QED
  BY <1>4, <1>6, <1>7, <1>8, <1>9

(* A step that neither touches a core nor counts one.                       *)
LEMMA IdleStep ==
  ASSUME IInv, Within',
         UNCHANGED <<core, restarted, first, last, exit_trapped, num_cores_exited>>,
         pc' = "start" => pc = "start" /\ UNCHANGED device,
         pc' = "polling" => pc = "polling" /\ UNCHANGED device,
         result' = 0 => result = 0 /\ (pc' = pc \/ pc' = "done")
  PROVE  IInv'
<1> USE DEF IInv
<1>1. SimonTypes' /\ Flagged'
  BY DEF SimonTypes, Flagged, Stopped
<1>2. Fresh'
  BY RangeKept DEF Fresh
<1>3. Placed'
  <2>1. CASE pc' = "polling"
    BY <2>1, RangeKept
  <2>2. CASE pc' # "polling"
    BY <2>2 DEF Placed
  <2> QED
    BY <2>1, <2>2
<1>4. ZeroEarned'
  <2>1. Monitored' = Monitored
    BY DEF Monitored
  <2> QED
    BY <2>1 DEF ZeroEarned
<1>5. CountExact'
  BY CountKept
<1> QED
  BY <1>1, <1>2, <1>3, <1>4, <1>5

(* The count and the flags when a core is taken for stopped, and the end of *)
(* the polling with the last of them.                                       *)
LEMMA StoppedStep ==
  ASSUME IInv, pc = "polling", TakenForStopped(<<row, col>>),
         UNCHANGED <<device, first, last, core, restarted>>,
         first = <<0, 0>> => core[<<row, col>>] \in Endings
  PROVE  IInv'
<1> USE DEF IInv
<1> DEFINE p == <<row, col>>
<1>1. /\ pc = "polling"
      /\ UNCHANGED <<device, first, last, core, restarted>>
      /\ SeenStopped(p)
      /\ \/ AllSeenStopped(p) /\ StopPolling(0)
         \/ ~AllSeenStopped(p) /\ Advance /\ UNCHANGED <<result, pc>>
  BY DEF TakenForStopped
<1>2. p \in Monitored /\ p \in Positions
      /\ Monitored \in SUBSET Positions /\ IsFiniteSet(Monitored)
      /\ num_cores_monitored = Cardinality(Monitored)
      /\ num_cores_monitored \in Nat
  BY MonitoredFacts
<1>3. first = <<0, 0>> => core[p] \in Endings
  OBVIOUS
<1>4. /\ exit_trapped' = [exit_trapped EXCEPT ![p] = TRUE]
      /\ num_cores_exited' = IF exit_trapped[p] THEN num_cores_exited
                             ELSE num_cores_exited + 1
  <2>1. CASE exit_trapped[p]
    <3>1. [exit_trapped EXCEPT ![p] = TRUE] = exit_trapped
      BY <1>2, <2>1 DEF SimonTypes
    <3> QED
      BY <1>1, <2>1, <3>1 DEF SeenStopped, loop
  <2>2. CASE ~exit_trapped[p]
    BY <1>1, <2>2 DEF SeenStopped
  <2> QED
    BY <2>1, <2>2
<1>5. exit_trapped \in [Positions -> BOOLEAN] /\ num_cores_exited \in Nat
      /\ num_cores_exited < num_cores_monitored
      /\ num_cores_exited = Cardinality({x \in Monitored : exit_trapped[x]})
  BY <1>1 DEF SimonTypes, CountExact
<1>6. Monitored' = Monitored /\ num_cores_monitored' = num_cores_monitored
  BY <1>1 DEF Monitored, num_cores_monitored
<1>7. SimonTypes'
  <2>1. exit_trapped' \in [Positions -> BOOLEAN]
    BY <1>4, <1>5
  <2>2. num_cores_exited' \in Nat
    BY <1>4, <1>5
  <2> QED
    BY <1>1, <2>1, <2>2 DEF SimonTypes
<1>8. Within'
  BY <1>1, AdvanceStaysWithin DEF StopPolling, Within
<1>9. Placed' /\ Fresh'
  BY <1>1, RangeKept DEF StopPolling, Fresh
<1>10. Flagged'
  BY <1>1, <1>3, <1>4, <1>5 DEF Flagged, Stopped
<1> HIDE DEF p
<1>11. num_cores_exited' = Cardinality({x \in Monitored : exit_trapped'[x]})
  <2>1. CASE exit_trapped[p]
    <3>1. exit_trapped' = exit_trapped
      BY <1>2, <1>4, <1>5, <2>1
    <3> QED
      BY <1>4, <1>5, <2>1, <3>1
  <2>2. CASE ~exit_trapped[p]
    <3>1. Cardinality({x \in Monitored : [exit_trapped EXCEPT ![p] = TRUE][x]})
            = Cardinality({x \in Monitored : exit_trapped[x]}) + 1
      BY <1>2, <1>5, <2>2, FlagCount
    <3> QED
      BY <1>4, <1>5, <2>2, <3>1
  <2> QED
    BY <2>1, <2>2
<1>12. CASE AllSeenStopped(p) /\ StopPolling(0)
  <2>1. num_cores_exited' = num_cores_monitored
    BY <1>4, <1>12 DEF AllSeenStopped
  <2>2. exit_trapped' \in [Positions -> BOOLEAN]
    BY <1>7 DEF SimonTypes
  <2>3. \A x \in Monitored : exit_trapped'[x]
    BY <1>2, <1>11, <2>1, <2>2, FlagCount
  <2>4. pc' = "unmap"
    BY <1>12 DEF StopPolling
  <2>5. ZeroEarned'
    BY <1>6, <2>3, <2>4 DEF ZeroEarned
  <2>6. CountExact'
    BY <1>6, <1>11, <2>4 DEF CountExact
  <2> QED
    BY <1>7, <1>8, <1>9, <1>10, <2>5, <2>6
<1>13. CASE ~AllSeenStopped(p) /\ UNCHANGED <<result, pc>>
  <2>1. num_cores_exited' < num_cores_monitored
    BY <1>2, <1>4, <1>5, <1>13 DEF AllSeenStopped
  <2>2. CountExact'
    BY <1>6, <1>11, <2>1 DEF CountExact
  <2>3. ZeroEarned'
    BY <1>1, <1>13 DEF ZeroEarned
  <2> QED
    BY <1>7, <1>8, <1>9, <1>10, <2>2, <2>3
<1> QED
  BY <1>1, <1>12, <1>13 DEF p

(* A step that leaves the cores other than p alone.                         *)
OthersKept(p) ==
  \A x \in Positions \ {p} :
    core'[x] = core[x] /\ (x \in restarted => x \in restarted')

(* A sign of life: the core counts as running.                              *)
LEMMA LifeStep ==
  ASSUME IInv, pc = "polling", SignOfLife(<<row, col>>),
         UNCHANGED <<device, first, last, row, col, result, pc>>,
         core' \in [Positions -> CoreState], OthersKept(<<row, col>>)
  PROVE  IInv'
<1> USE DEF IInv
<1> DEFINE p == <<row, col>>
<1>1. pc = "polling" /\ UNCHANGED <<device, first, last>>
  OBVIOUS
<1>3. /\ p \in Monitored /\ p \in Positions
      /\ Monitored \in SUBSET Positions /\ IsFiniteSet(Monitored)
      /\ num_cores_monitored \in Nat
  BY MonitoredFacts
<1>4. exit_trapped \in [Positions -> BOOLEAN] /\ num_cores_exited \in Nat
      /\ num_cores_exited < num_cores_monitored
      /\ num_cores_exited = Cardinality({x \in Monitored : exit_trapped[x]})
  BY <1>1 DEF SimonTypes, CountExact
<1>5. /\ exit_trapped' = [exit_trapped EXCEPT ![p] = FALSE]
      /\ num_cores_exited' = IF exit_trapped[p] THEN num_cores_exited - 1
                             ELSE num_cores_exited
  <2>1. CASE exit_trapped[p]
    BY <2>1 DEF SignOfLife
  <2>2. CASE ~exit_trapped[p]
    <3>1. [exit_trapped EXCEPT ![p] = FALSE] = exit_trapped
      BY <1>3, <1>4, <2>2
    <3> QED
      BY <2>2, <3>1 DEF SignOfLife, loop
  <2> QED
    BY <2>1, <2>2
<1>6. Monitored' = Monitored /\ num_cores_monitored' = num_cores_monitored
  BY <1>1 DEF Monitored, num_cores_monitored
<1>7. Flagged'
  <2> SUFFICES ASSUME first = <<0, 0>>, NEW x \in Positions, exit_trapped'[x]
               PROVE  core'[x] \in Endings \/ x \in restarted'
    BY <1>1 DEF Flagged, Stopped
  <2>1. x # p /\ exit_trapped[x]
    BY <1>3, <1>4, <1>5
  <2>2. core'[x] = core[x] /\ (x \in restarted => x \in restarted')
    BY <2>1 DEF OthersKept
  <2> QED
    BY <2>1, <2>2 DEF Flagged, Stopped
<1>8. Within' /\ Placed' /\ Fresh' /\ ZeroEarned'
  BY <1>1, RangeKept DEF Within, Fresh, ZeroEarned
<1>9. core' \in [Positions -> CoreState]
  OBVIOUS
<1> HIDE DEF p
<1>10. num_cores_exited' = Cardinality({x \in Monitored : exit_trapped'[x]})
  <2>1. CASE exit_trapped[p]
    <3>1. Cardinality({x \in Monitored : [exit_trapped EXCEPT ![p] = FALSE][x]})
            = Cardinality({x \in Monitored : exit_trapped[x]}) - 1
      BY <1>3, <1>4, <2>1, FlagCount
    <3> QED
      BY <1>4, <1>5, <2>1, <3>1
  <2>2. CASE ~exit_trapped[p]
    <3>1. exit_trapped' = exit_trapped
      BY <1>3, <1>4, <1>5, <2>2
    <3> QED
      BY <1>4, <1>5, <2>2, <3>1
  <2> QED
    BY <2>1, <2>2
<1>11. exit_trapped' \in [Positions -> BOOLEAN]
  BY <1>4, <1>5
<1>12. num_cores_exited' \in Nat /\ num_cores_exited' < num_cores_monitored
  <2>1. num_cores_exited' \in Nat
    BY <1>3, <1>10, <1>11, FlagCount
  <2> QED
    BY <1>3, <1>4, <1>5, <2>1
<1>13. SimonTypes'
  BY <1>9, <1>11, <1>12 DEF SimonTypes
<1>14. CountExact'
  BY <1>6, <1>10, <1>12 DEF CountExact
<1> QED
  BY <1>7, <1>8, <1>13, <1>14

LEMMA NextPreserves == IInv /\ [Next]_vars => IInv'
<1> SUFFICES ASSUME IInv, [Next]_vars
             PROVE  IInv'
  OBVIOUS
<1>1. pc = "polling" \/ pc = "start" => result # 0
  BY DEF IInv, ZeroEarned
<1>2. Within
  BY DEF IInv
<1>3. CASE Fail
  <2>1. Within'
    BY <1>2, <1>3 DEF Fail, Within
  <2> QED
    BY <1>1, <1>3, <2>1, IdleStep DEF Fail, cores, loop
<1>4. CASE Begin
  BY <1>4, BeginStep
<1>5. CASE PollQuiet
  <2>1. Within'
    BY <1>2, <1>5, AdvanceStaysWithin DEF PollQuiet, Poll
  <2> QED
    BY <1>5, <2>1, IdleStep DEF PollQuiet, Poll, cores, loop
<1>6. CASE PollError
  <2>1. Within'
    BY <1>2, <1>6 DEF PollError, Poll, StopPolling, Within
  <2>2. -1 # 0
    OBVIOUS
  <2> QED
    BY <1>6, <2>1, <2>2, IdleStep DEF PollError, Poll, StopPolling, cores, loop
<1>7. CASE PollOutside
  <2>1. /\ pc = "polling" /\ ~InWorkgroup
        /\ UNCHANGED <<device, core, restarted, first, last>>
    BY <1>7 DEF PollOutside, cores
  <2>2. first # <<0, 0>>
    BY <2>1, OriginInside DEF IInv
  <2>3. CASE /\ \/ StopPolling(-1)
                \/ Advance /\ UNCHANGED <<result, pc>>
                \/ pc' = "died" /\ UNCHANGED <<row, col, result>>
             /\ UNCHANGED loop
    <3>1. Within'
      BY <1>2, <2>1, <2>3, AdvanceStaysWithin DEF StopPolling, Within
    <3>2. -1 # 0
      OBVIOUS
    <3>3. result' # 0 /\ pc' \in {"unmap", "polling", "died"}
      BY <1>1, <2>1, <2>3, <3>2 DEF StopPolling
    <3> QED
      BY <2>1, <2>3, <3>1, <3>3, IdleStep DEF loop
  <2>4. CASE TakenForStopped(<<row, col>>)
    BY <2>1, <2>2, <2>4, StoppedStep
  <2>5. CASE SignOfLife(<<row, col>>) /\ UNCHANGED <<row, col, result, pc>>
    <3>1. core' \in [Positions -> CoreState]
      BY <2>1 DEF IInv, SimonTypes
    <3> QED
      BY <2>1, <2>5, <3>1, LifeStep DEF OthersKept
  <2> QED
    BY <1>7, <2>3, <2>4, <2>5 DEF PollOutside
<1>8. CASE PollStopped
  <2>1. /\ pc = "polling" /\ InWorkgroup /\ TakenForStopped(<<row, col>>)
        /\ UNCHANGED <<device, first, last, core, restarted>>
    BY <1>8 DEF PollStopped, Poll, cores
  <2>2. Polled = <<row, col>> /\ <<row, col>> \in Positions
    BY <2>1, PolledFacts, MonitoredFacts DEF IInv
  <2>3. core[<<row, col>>] \in CoreState
    BY <2>2 DEF IInv, SimonTypes
  <2>4. core[<<row, col>>] \in Endings
    BY <1>8, <2>2, <2>3, StoppedFacts DEF PollStopped
  <2> QED
    BY <2>1, <2>4, StoppedStep
<1>9. CASE PollRequest
  <2>1. CASE /\ \/ StopPolling(-1)
                \/ pc' = "died" /\ UNCHANGED <<row, col, result>>
             /\ UNCHANGED <<cores, loop>>
    <3>1. Within'
      BY <1>2, <1>9, <2>1 DEF PollRequest, Poll, StopPolling, Within
    <3>2. -1 # 0
      OBVIOUS
    <3>3. result' # 0 /\ pc' \in {"unmap", "died"}
      BY <1>1, <1>9, <2>1, <3>2 DEF PollRequest, Poll, StopPolling
    <3> QED
      BY <1>9, <2>1, <3>1, <3>3, IdleStep DEF PollRequest, Poll, cores, loop
  <2>2. CASE /\ core' = [core EXCEPT ![Polled] = Running]
             /\ SignOfLife(<<row, col>>)
             /\ restarted' = restarted \ {Polled}
             /\ UNCHANGED <<row, col, result, pc>>
    <3>1. pc = "polling" /\ InWorkgroup /\ UNCHANGED <<device, first, last>>
      BY <1>9 DEF PollRequest, Poll
    <3>2. Polled = <<row, col>>
      BY <3>1, PolledFacts DEF IInv
    <3>3. core' \in [Positions -> CoreState]
      BY <2>2, RunningFacts DEF IInv, SimonTypes
    <3>4. OthersKept(<<row, col>>)
      BY <2>2, <3>2 DEF IInv, SimonTypes, OthersKept
    <3> QED
      BY <2>2, <3>1, <3>3, <3>4, LifeStep
  <2> QED
    BY <1>9, <2>1, <2>2 DEF PollRequest, Resume
<1>10. CASE Unmap
  <2>1. Within'
    BY <1>2, <1>10 DEF Unmap, Within
  <2> QED
    BY <1>10, <2>1, IdleStep DEF Unmap, cores, loop
<1>11. ASSUME NEW p \in Positions, CoreHalts(p) \/ Restart(p)
       PROVE  IInv'
  BY <1>11, CoreStep
<1>12. CASE UNCHANGED vars
  <2>1. UNCHANGED <<device, core, restarted, first, last, row, col, exit_trapped,
                    num_cores_exited, result, pc>>
    BY <1>12 DEF vars, cores, loop
  <2>2. Within'
    BY <1>2, <2>1 DEF Within
  <2> QED
    BY <2>1, <2>2, IdleStep
<1> QED
  BY <1>3, <1>4, <1>5, <1>6, <1>7, <1>8, <1>9, <1>10, <1>11, <1>12 DEF Next, main

(* The invariant of the polling.                                            *)
THEOREM Invariance == Spec => []IInv
BY InitEstablishes, NextPreserves, PTL DEF Spec

-----------------------------------------------------------------------------
(* The count that decides when simon ends is the number of cores flagged as *)
(* stopped, whatever the order of exits, requests and restarts, and polling *)
(* goes on exactly until it is complete: process_syscall_trap never takes   *)
(* it below zero and the loop of service_epiphany_traps never misses it.    *)
THEOREM CountIsExact == Spec => []CountExact
<1>1. IInv => CountExact
  BY DEF IInv
<1> QED
  BY <1>1, Invariance, PTL

(* When service_epiphany_traps, polling the device or its first core, has   *)
(* returned 0, every core it polled has ended its program, or was started   *)
(* anew by another host program after that.                                 *)
THEOREM ZeroIsEarned == Spec => []ZeroMeansHalted
<1>1. IInv => ZeroMeansHalted
  <2> SUFFICES ASSUME IInv, result = 0, first = <<0, 0>>, NEW p \in Monitored
               PROVE  Stopped(p) \/ p \in restarted
    BY DEF ZeroMeansHalted
  <2>1. p \in Positions
    BY MonitoredFacts DEF IInv
  <2> QED
    BY <2>1 DEF IInv, Flagged, ZeroEarned
<1> QED
  BY <1>1, Invariance, PTL
=============================================================================
