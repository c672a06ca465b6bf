---------------------------- MODULE XMeshProofs -----------------------------
(***************************************************************************)
(* Connections: the lists that the host builds and copies to shared memory *)
(* describe the endpoints of every task, and a mesh that was prepared with *)
(* X_SUCCESS is the mesh, for every workgroup and every order of calls.    *)
(***************************************************************************)
EXTENDS XApplicationProofs, FiniteSetTheorems, WellFoundedInduction

(* The connections among the first k of a list that t is source, or sink, of. *)
Sources(m, k, t) == {n \in 1 .. k : m[n].source_task = t}
Sinks(m, k, t) == {n \in 1 .. k : m[n].sink_task = t}

(* The first k entries of the index x of t are its endpoints in the first n *)
(* connections of m.                                                        *)
Describes(x, k, m, n, t) ==
  /\ k = Cardinality(Sources(m, n, t)) + Cardinality(Sinks(m, n, t))
  /\ {x[i] : i \in 1 .. k} = Sources(m, n, t) \cup Sinks(m, n, t)

Entries(s) == {s[i] : i \in 1 .. Len(s)}
Sorted(s) == \A i, j \in 1 .. Len(s) : i < j => s[i] <= s[j]

(* The lists of the host. An index is in the order of the connections.      *)
Indexed ==
  \A t \in AllSlots :
    /\ Describes(index[t], Len(index[t]), master, Len(master), t)
    /\ Sorted(index[t])

(* What shared memory holds of task t.                                      *)
Listed(t) ==
  /\ num_connections[t] <= Len(index[t])
  /\ Describes(index[t], num_connections[t], master, connection_list_length, t)

(* Nothing is connected before the application is initialised. The loop     *)
(* that copies the indexes has done so for the slots it has passed.         *)
CInv ==
  /\ x_application = "null" =>
       /\ master = <<>> /\ connection_list_offset = 0 /\ mesh = "none"
       /\ connection_list_length = 0
       /\ \A t \in AllSlots : num_connections[t] = 0
  /\ Indexed
  /\ connection_list_length <= Len(master)
  /\ pc \in {"load", "start", "return"} => ~exhausted
  /\ ~exhausted /\ x_application = "valid" =>
       IF pc = "indexes"
       THEN /\ connection_list_length = Len(master)
            /\ connection_list_offset # 0
            /\ \A t \in Slots :
                 IF t < slot THEN Listed(t) ELSE num_connections[t] = 0
       ELSE /\ connection_list_offset = 0 => connection_list_length = 0
            /\ \A t \in Slots : Listed(t)
  /\ pc \in {"count", "load", "start", "return"} /\ connection_list_offset = 0 =>
       master = <<>>

-----------------------------------------------------------------------------
(***************************************************************************)
(* The lists grow.                                                         *)
(***************************************************************************)
(* A step that adds connection c to the lists.                              *)
Adds(c) ==
  /\ master' = Append(master, c)
  /\ index' = xc_add_task_endpoint(
                xc_add_task_endpoint(index, c.source_task, Len(master) + 1),
                c.sink_task, Len(master) + 1)

(* A step after which the lists begin with what they held.                  *)
Grows ==
  /\ Len(master') \in Nat /\ Len(master) <= Len(master')
  /\ \A i \in 1 .. Len(master) : master'[i] = master[i]
  /\ \A t \in AllSlots :
       /\ Len(index'[t]) \in Nat /\ Len(index[t]) <= Len(index'[t])
       /\ \A i \in 1 .. Len(index[t]) : index'[t][i] = index[t][i]

(* xc_connect_by_task_id adds the connection or refuses it.                 *)
LEMMA ConnectAdds ==
  ASSUME NEW c, NEW cf, NEW lucky,
         NEW l, l = xc_connect_by_task_id(Lists, c, cf, lucky),
         master' = l.master, index' = l.index
  PROVE  Adds(c) \/ (UNCHANGED <<master, index>> /\ l.result = "X_ERROR")
<1> DEFINE n == Len(master) + 1
           y == xc_add_task_endpoint(
                  xc_add_task_endpoint(index, c.source_task, n), c.sink_task, n)
           added == [master |-> Append(master, c), index |-> y,
                     result |-> "X_SUCCESS"]
           refused == [Lists EXCEPT !.result = "X_ERROR"]
<1>1. l = added \/ l = refused
  BY DEF xc_connect_by_task_id, Lists
<1>2. added.master = Append(master, c) /\ added.index = y
  OBVIOUS
<1>3. /\ refused.master = master /\ refused.index = index
      /\ refused.result = "X_ERROR"
  BY DEF Lists
<1> HIDE DEF added, refused, y
<1> QED
  BY <1>1, <1>2, <1>3 DEF Adds, y

(* One entry more.                                                          *)
LEMMA AppendEntry ==
  ASSUME NEW s \in Seq(Nat), NEW n \in Nat, Sorted(s),
         \A e \in Entries(s) : e <= n
  PROVE  /\ Append(s, n) \in Seq(Nat) /\ Len(Append(s, n)) = Len(s) + 1
         /\ Len(s) \in Nat
         /\ Entries(Append(s, n)) = Entries(s) \cup {n}
         /\ Sorted(Append(s, n))
         /\ \A e \in Entries(Append(s, n)) : e <= n
         /\ \A i \in 1 .. Len(s) : Append(s, n)[i] = s[i]
<1> DEFINE r == Append(s, n)
<1>1. /\ r \in Seq(Nat) /\ Len(r) = Len(s) + 1 /\ Len(s) \in Nat
      /\ \A i \in 1 .. Len(s) : r[i] = s[i]
      /\ r[Len(s) + 1] = n
  OBVIOUS
<1>2. \A i \in 1 .. Len(s) : s[i] \in Nat
  OBVIOUS
<1> HIDE DEF r
<1>3. 1 .. Len(r) = 1 .. Len(s) \cup {Len(s) + 1}
  BY <1>1
<1>4. Entries(r) = Entries(s) \cup {n}
  BY <1>1, <1>3 DEF Entries
<1>5. Sorted(r)
  <2> SUFFICES ASSUME NEW i \in 1 .. Len(r), NEW j \in 1 .. Len(r), i < j
               PROVE  r[i] <= r[j]
    BY DEF Sorted
  <2>1. i \in 1 .. Len(s) /\ r[i] = s[i] /\ s[i] \in Entries(s)
    BY <1>1 DEF Entries
  <2>2. CASE j \in 1 .. Len(s)
    BY <1>1, <2>1, <2>2 DEF Sorted
  <2>3. CASE j = Len(s) + 1
    BY <1>1, <2>1, <2>3
  <2> QED
    BY <1>3, <2>2, <2>3
<1> QED
  BY <1>1, <1>4, <1>5 DEF r

(* What Adds does to the index of each task.                                *)
LEMMA AddsIndex ==
  ASSUME TypeOK, Indexed, NEW c \in Connection, Adds(c), NEW t \in AllSlots
  PROVE  LET n == Len(master) + 1
             once == Append(index[t], n)
         IN  index'[t] = IF c.source_task = t /\ c.sink_task = t
                         THEN Append(once, n)
                         ELSE IF t \in {c.source_task, c.sink_task} THEN once
                         ELSE index[t]
<1> DEFINE n == Len(master) + 1
           x == [index EXCEPT ![c.source_task] = Append(@, n)]
           y == [x EXCEPT ![c.sink_task] = Append(@, n)]
<1>1. index \in [AllSlots -> Seq(Nat)]
  BY DEF TypeOK, ListsType
<1>2. index' = y
  BY DEF Adds, xc_add_task_endpoint
<1>3. x[t] = IF c.source_task = t THEN Append(index[t], n) ELSE index[t]
  BY <1>1
<1>4. DOMAIN x = AllSlots
  BY <1>1
<1> HIDE DEF x, n
<1>5. y[t] = IF c.sink_task = t THEN Append(x[t], n) ELSE x[t]
  BY <1>4
<1> QED
  BY <1>2, <1>3, <1>5 DEF n

(* The connections of a task among the first n are finitely many.           *)
LEMMA EndsFinite ==
  ASSUME NEW m, NEW n \in Nat, NEW t
  PROVE  /\ IsFiniteSet(Sources(m, n, t)) /\ IsFiniteSet(Sinks(m, n, t))
         /\ Cardinality(Sources(m, n, t)) \in Nat
         /\ Cardinality(Sinks(m, n, t)) \in Nat
<1>1. IsFiniteSet(1 .. n)
  BY FS_Interval
<1>2. Sources(m, n, t) \subseteq 1 .. n /\ Sinks(m, n, t) \subseteq 1 .. n
  BY DEF Sources, Sinks
<1>3. IsFiniteSet(Sources(m, n, t)) /\ IsFiniteSet(Sinks(m, n, t))
  BY <1>1, <1>2, FS_Subset
<1> QED
  BY <1>3, FS_CardinalityType

(* The endpoints of a task are the same in lists that agree.                *)
LEMMA SameEnds ==
  ASSUME NEW m, NEW l, NEW n \in Nat, NEW t, \A i \in 1 .. n : l[i] = m[i]
  PROVE  Sources(l, n, t) = Sources(m, n, t) /\ Sinks(l, n, t) = Sinks(m, n, t)
BY DEF Sources, Sinks

(* After Adds: the old connections are what they were, and c is the last.   *)
LEMMA AddsMaster ==
  ASSUME TypeOK, NEW c, Adds(c)
  PROVE  /\ Len(master) \in Nat /\ Len(master') = Len(master) + 1
         /\ \A i \in 1 .. Len(master) : master'[i] = master[i]
         /\ master'[Len(master) + 1] = c
<1>1. master \in Seq(Connection)
  BY DEF TypeOK, ListsType
<1> QED
  BY <1>1 DEF Adds

(* The index of a task describes its endpoints after Adds, and begins with  *)
(* what it held.                                                            *)
LEMMA AddsTask ==
  ASSUME TypeOK, Indexed, NEW c \in Connection, Adds(c), NEW t \in AllSlots
  PROVE  /\ Describes(index'[t], Len(index'[t]), master', Len(master'), t)
         /\ Sorted(index'[t])
         /\ Len(index'[t]) \in Nat /\ Len(index[t]) <= Len(index'[t])
         /\ \A i \in 1 .. Len(index[t]) : index'[t][i] = index[t][i]
<1> DEFINE k == Len(master)
           n == k + 1
           s == index[t]
           once == Append(s, n)
           twice == Append(once, n)
           S == Sources(master, k, t)
           R == Sinks(master, k, t)
           S1 == Sources(master', n, t)
           R1 == Sinks(master', n, t)
<1>1. /\ k \in Nat /\ Len(master') = n
      /\ \A i \in 1 .. k : master'[i] = master[i]
      /\ master'[n] = c
  BY AddsMaster
<1>2. index'[t] = IF c.source_task = t /\ c.sink_task = t THEN twice
                  ELSE IF t \in {c.source_task, c.sink_task} THEN once
                  ELSE s
  BY AddsIndex
<1>3. s \in Seq(Nat) /\ Len(s) \in Nat
  <2>1. s \in Seq(Nat)
    BY DEF TypeOK, ListsType
  <2> QED
    BY <2>1
<1>4. /\ Sorted(s) /\ Len(s) = Cardinality(S) + Cardinality(R)
      /\ Entries(s) = S \cup R
  BY DEF Indexed, Describes, Entries
<1>5. /\ IF c.source_task = t
         THEN S1 = S \cup {n} /\ Cardinality(S1) = Cardinality(S) + 1
         ELSE S1 = S
      /\ IF c.sink_task = t
         THEN R1 = R \cup {n} /\ Cardinality(R1) = Cardinality(R) + 1
         ELSE R1 = R
  <2>1. 1 .. n = 1 .. k \cup {n} /\ n \notin 1 .. k
    BY <1>1
  <2>2. IsFiniteSet(S) /\ IsFiniteSet(R)
    <3> HIDE DEF k
    <3> QED
      BY <1>1, EndsFinite
  <2> HIDE DEF k, n
  <2>3. S1 = (IF c.source_task = t THEN S \cup {n} ELSE S) /\ n \notin S
    BY <1>1, <2>1 DEF Sources
  <2>4. R1 = (IF c.sink_task = t THEN R \cup {n} ELSE R) /\ n \notin R
    BY <1>1, <2>1 DEF Sinks
  <2> HIDE DEF S, R, S1, R1
  <2>5. /\ Cardinality(S \cup {n}) = Cardinality(S) + 1
        /\ Cardinality(R \cup {n}) = Cardinality(R) + 1
    BY <2>2, <2>3, <2>4, FS_AddElement
  <2> QED
    BY <2>3, <2>4, <2>5
<1>6. Cardinality(S) \in Nat /\ Cardinality(R) \in Nat
  <2> HIDE DEF k
  <2> QED
    BY <1>1, EndsFinite
<1>7. \A e \in Entries(s) : e <= n
  <2>1. S \subseteq 1 .. k /\ R \subseteq 1 .. k
    BY DEF Sources, Sinks
  <2> HIDE DEF k, s, S, R
  <2>2. \A e \in 1 .. k : e <= n
    BY <1>1
  <2> QED
    BY <1>4, <2>1, <2>2
<1>8. n \in Nat
  BY <1>1
<1> HIDE DEF k, n, s, S, R, S1, R1
<1>9. /\ once \in Seq(Nat) /\ Len(once) = Len(s) + 1
      /\ Entries(once) = Entries(s) \cup {n} /\ Sorted(once)
      /\ \A e \in Entries(once) : e <= n
      /\ \A i \in 1 .. Len(s) : once[i] = s[i]
  BY <1>3, <1>4, <1>7, <1>8, AppendEntry
<1> HIDE DEF once
<1>10. /\ twice \in Seq(Nat) /\ Len(twice) = Len(once) + 1
       /\ Entries(twice) = Entries(once) \cup {n} /\ Sorted(twice)
       /\ \A i \in 1 .. Len(once) : twice[i] = once[i]
  BY <1>8, <1>9, AppendEntry
<1> HIDE DEF twice
<1>11. /\ Len(index'[t]) = Cardinality(S1) + Cardinality(R1)
       /\ Entries(index'[t]) = S1 \cup R1
       /\ Sorted(index'[t])
       /\ Len(index'[t]) \in Nat /\ Len(s) <= Len(index'[t])
       /\ \A i \in 1 .. Len(s) : index'[t][i] = s[i]
  <2>1. CASE c.source_task = t /\ c.sink_task = t
    <3>1. \A i \in 1 .. Len(s) : twice[i] = s[i]
      BY <1>3, <1>9, <1>10
    <3>2. index'[t] = twice
      BY <1>2, <2>1
    <3>3. /\ Cardinality(S1) = Cardinality(S) + 1
          /\ Cardinality(R1) = Cardinality(R) + 1
          /\ S1 = S \cup {n} /\ R1 = R \cup {n}
      BY <1>5, <2>1
    <3>4. Len(twice) = Len(s) + 2 /\ Len(s) = Cardinality(S) + Cardinality(R)
      BY <1>3, <1>4, <1>9, <1>10
    <3>5. Len(twice) = Cardinality(S1) + Cardinality(R1) /\ Len(s) <= Len(twice)
          /\ Len(twice) \in Nat
      BY <3>3, <3>4, <1>3, <1>6
    <3>6. Entries(twice) = S1 \cup R1
      BY <3>3, <1>4, <1>9, <1>10
    <3> QED
      BY <3>1, <3>2, <3>5, <3>6, <1>10
  <2>2. CASE c.source_task = t /\ c.sink_task # t
    BY <2>2, <1>2, <1>3, <1>4, <1>5, <1>6, <1>9
  <2>3. CASE c.source_task # t /\ c.sink_task = t
    BY <2>3, <1>2, <1>3, <1>4, <1>5, <1>6, <1>9
  <2>4. CASE c.source_task # t /\ c.sink_task # t
    BY <2>4, <1>2, <1>3, <1>4, <1>5, <1>6
  <2> QED
    BY <2>1, <2>2, <2>3, <2>4
<1> QED
  BY <1>1, <1>11 DEF Describes, Entries, S1, R1, s

(* A connection that is added keeps the lists in order.                     *)
LEMMA AddsKeeps ==
  ASSUME TypeOK, Indexed, NEW c \in Connection, Adds(c)
  PROVE  Indexed' /\ Grows
<1>1. Indexed'
  BY AddsTask DEF Indexed
<1>2. Grows
  BY AddsTask, AddsMaster DEF Grows
<1> QED
  BY <1>1, <1>2

LEMMA SameLists ==
  ASSUME TypeOK, Indexed, UNCHANGED <<master, index>>
  PROVE  Indexed' /\ Grows
<1>1. Len(master) \in Nat
  BY DEF TypeOK, ListsType
<1>2. \A t \in AllSlots : Len(index[t]) \in Nat
  BY DEF TypeOK, ListsType
<1>3. Indexed'
  BY DEF Indexed
<1> QED
  BY <1>1, <1>2, <1>3 DEF Grows

(* What shared memory says of a task stays true when the lists grow.        *)
LEMMA ListedGrows ==
  ASSUME TypeOK, NEW t \in AllSlots, Listed(t), Grows, UNCHANGED shared,
         connection_list_length <= Len(master)
  PROVE  Listed(t)'
<1> DEFINE k == num_connections[t]
           n == connection_list_length
<1>1. /\ k \in Nat /\ n \in Nat /\ Len(master) \in Nat
      /\ k <= Len(index[t]) /\ Len(index[t]) \in Nat
  <2>1. index[t] \in Seq(Nat)
    BY DEF TypeOK, ListsType
  <2>2. Len(index[t]) \in Nat
    BY <2>1
  <2> QED
    BY <2>2 DEF TypeOK, SharedType, ListsType, Listed
<1>2. k' = k /\ n' = n
  BY DEF shared
<1>3. /\ k = Cardinality(Sources(master, n, t)) + Cardinality(Sinks(master, n, t))
      /\ {index[t][i] : i \in 1 .. k} = Sources(master, n, t) \cup Sinks(master, n, t)
  BY DEF Listed, Describes
<1>4. k <= Len(index'[t])
  BY <1>1 DEF Grows
<1>5. /\ \A i \in 1 .. n : i \in 1 .. Len(master)
      /\ \A i \in 1 .. k : i \in 1 .. Len(index[t])
  BY <1>1
<1> HIDE DEF k, n
<1>6. \A i \in 1 .. n : master'[i] = master[i]
  BY <1>5 DEF Grows
<1>7. \A i \in 1 .. k : index'[t][i] = index[t][i]
  BY <1>5 DEF Grows
<1>8. /\ Sources(master', n, t) = Sources(master, n, t)
      /\ Sinks(master', n, t) = Sinks(master, n, t)
  BY <1>6 DEF Sources, Sinks
<1>9. {index'[t][i] : i \in 1 .. k} = {index[t][i] : i \in 1 .. k}
  BY <1>7
<1>10. Describes(index'[t], k, master', n, t)
  BY <1>3, <1>8, <1>9 DEF Describes
<1> QED
  BY <1>2, <1>4, <1>10 DEF Listed, k, n

-----------------------------------------------------------------------------
(* A step outside the loop that copies the indexes, which lets the lists    *)
(* grow at most.                                                            *)
Counting == {"count", "load", "start", "return"}

LEMMA COutside ==
  ASSUME TypeOK, Shape, CInv, UNCHANGED shared, Grows, Indexed',
         UNCHANGED <<x_application, workgroup_rows, workgroup_columns>>,
         exhausted => exhausted',
         x_application = "null" => mesh' = "none" /\ master' = master,
         pc # "indexes", pc' # "indexes",
         pc' \in {"load", "start", "return"} => ~exhausted',
         pc' \in Counting =>
           /\ pc \in Counting \/ connection_list_offset # 0 \/ master = <<>>
           /\ master' = master
  PROVE  CInv'
<1>1. Slots' = Slots
  BY DEF Slots, workgroup_size
<1>2. connection_list_length' <= Len(master')
  <2>1. connection_list_length <= Len(master) /\ connection_list_length \in Nat
        /\ Len(master) \in Nat
    BY DEF CInv, TypeOK, SharedType, ListsType
  <2> QED
    BY <2>1 DEF Grows, shared
<1>3. ASSUME ~exhausted', x_application' = "valid"
      PROVE  /\ connection_list_offset' = 0 => connection_list_length' = 0
             /\ \A t \in Slots' : Listed(t)'
  <2>1. ~exhausted /\ x_application = "valid"
    BY <1>3
  <2>2. Slots \subseteq AllSlots
    BY <2>1, SlotsFacts
  <2>3. /\ connection_list_length <= Len(master)
        /\ connection_list_offset = 0 => connection_list_length = 0
        /\ \A t \in Slots : Listed(t)
    BY <2>1 DEF CInv
  <2>4. \A t \in Slots : Listed(t)'
    BY <2>2, <2>3, ListedGrows
  <2> QED
    BY <1>1, <2>3, <2>4 DEF shared
<1>4. pc' \in Counting /\ connection_list_offset' = 0 => master' = <<>>
  BY DEF CInv, Counting, shared
<1>5. x_application' = "null" =>
        /\ master' = <<>> /\ connection_list_offset' = 0 /\ mesh' = "none"
        /\ connection_list_length' = 0
        /\ \A t \in AllSlots : num_connections'[t] = 0
  BY DEF CInv, shared
<1> QED
  BY <1>2, <1>3, <1>4, <1>5 DEF CInv, Counting

(* A step that changes nothing of this.                                     *)
LEMMA CSame ==
  ASSUME CInv, UNCHANGED <<x_application, workgroup_rows, workgroup_columns>>,
         UNCHANGED shared, UNCHANGED <<master, index>>,
         UNCHANGED <<exhausted, pc, slot, mesh>>
  PROVE  CInv'
<1>1. Slots' = Slots
  BY DEF Slots, workgroup_size
<1>2. \A t : Listed(t)' <=> Listed(t)
  BY DEF Listed, shared
<1>3. Indexed' <=> Indexed
  BY DEF Indexed
<1> QED
  BY <1>1, <1>2, <1>3 DEF CInv, shared

LEMMA InitializeC ==
  ASSUME IInv, SInv, CInv, NEW w \in Workgroups, NEW named \in BOOLEAN,
         x_initialize_application(w, named)
  PROVE  CInv'
<1>1. /\ pc = "idle" /\ pc' = pc /\ ~mapped /\ ~exhausted
      /\ x_application' = "valid" /\ UNCHANGED shared
      /\ UNCHANGED <<master, index>> /\ mesh' = mesh
      /\ workgroup_rows' = w[1] /\ workgroup_columns' = w[2]
  BY DEF x_initialize_application, Idle, history, lists
<1>2. x_application = "null"
  BY <1>1 DEF IInv, TypeOK, AppType, SInv
<1>3. /\ master = <<>> /\ connection_list_offset = 0
      /\ connection_list_length = 0
      /\ \A t \in AllSlots : num_connections[t] = 0
  BY <1>2 DEF CInv
<1>4. Indexed'
  BY <1>1, SameLists DEF IInv, CInv
<1>5. Slots' \subseteq AllSlots
  BY <1>1, Dimensions DEF Slots, workgroup_size
<1>6. \A t : Sources(master, 0, t) = {} /\ Sinks(master, 0, t) = {}
  BY DEF Sources, Sinks
<1>7. Cardinality({}) = 0
  BY FS_EmptySet
<1>8. ASSUME NEW t \in AllSlots PROVE Listed(t)'
  <2>1. num_connections'[t] = 0 /\ connection_list_length' = 0
    BY <1>1, <1>3 DEF shared
  <2>2. index[t] \in Seq(Nat)
    BY DEF IInv, TypeOK, ListsType
  <2>3. 0 <= Len(index'[t])
    BY <1>1, <2>2
  <2>4. {index'[t][i] : i \in 1 .. 0} = {}
    OBVIOUS
  <2>5. Describes(index'[t], 0, master', 0, t)
    BY <1>1, <1>6, <1>7, <2>4 DEF Describes
  <2> QED
    BY <2>1, <2>3, <2>5 DEF Listed
<1>9. connection_list_length' <= Len(master')
  BY <1>1, <1>3 DEF shared
<1> QED
  BY <1>1, <1>3, <1>4, <1>5, <1>8, <1>9 DEF CInv, shared

LEMMA ConnectC ==
  ASSUME IInv, CInv, NEW a \in Tasks, NEW b \in Tasks, NEW ak \in Keys,
         NEW bk \in Keys, NEW lucky \in Luck, x_connect_tasks(a, ak, b, bk, lucky)
  PROVE  /\ CInv' /\ Grows
         /\ pc = "idle" /\ pc' \in {"idle", "crashed"}
         /\ x_application = "null" => UNCHANGED <<master, index>>
<1> DEFINE c == [source_task |-> a, source_key |-> ak,
                 sink_task |-> b, sink_key |-> bk]
           l == xc_connect_by_task_id(Lists, c,
                                      Configured(a) /\ Configured(b), lucky)
<1>1. c \in Connection
  BY ApplicationAssumption DEF Connection
<1>2. /\ \/ /\ master' = l.master /\ index' = l.index /\ pc' = pc
            /\ x_application = "valid"
         \/ pc' \in {"idle", "crashed"} /\ UNCHANGED <<master, index>>
      /\ pc = "idle" /\ ~exhausted
      /\ UNCHANGED <<app, memory, shared, mesh>>
  BY DEF x_connect_tasks, Idle, lists
<1> HIDE DEF l, c
<1>3. TypeOK /\ Shape /\ Indexed
  BY DEF IInv, CInv
<1>4. Adds(c) \/ UNCHANGED <<master, index>>
  BY <1>2, ConnectAdds DEF l
<1>6. Indexed' /\ Grows
  BY <1>1, <1>3, <1>4, SameLists, AddsKeeps
<1>7. x_application = "null" => UNCHANGED <<master, index>>
  BY <1>2
<1>8. CInv'
  BY <1>2, <1>3, <1>6, <1>7, COutside DEF CInv, app, memory, Counting
<1> QED
  BY <1>2, <1>6, <1>7, <1>8

LEMMA MeshConnectC ==
  ASSUME IInv, CInv, NEW lucky \in Luck, MeshConnect(lucky)
  PROVE  CInv' /\ Grows
<1> DEFINE c == xc_connect_by_workgroup_coords(Row(slot), Col(slot), Side(slot))
           l == xc_connect_by_task_id(Lists, c, TRUE, lucky)
<1>1. pc = "mesh" /\ x_application = "valid" /\ TypeOK /\ Shape /\ Indexed
  BY DEF MeshConnect, IInv, Shape, MeshPhases, CInv
<1>2. c \in Connection
  BY <1>1, SlotsFacts, MeshConnectionType
<1>3. /\ \/ UNCHANGED <<master, index>>
         \/ master' = l.master /\ index' = l.index
      /\ pc' \in {"mesh", "mesh result", "crashed"}
      /\ UNCHANGED <<app, memory, shared>>
  BY <1>1 DEF MeshConnect, Iterate, lists
<1> HIDE DEF l, c
<1>4. Adds(c) \/ UNCHANGED <<master, index>>
  BY <1>3, ConnectAdds DEF l
<1>5. Indexed' /\ Grows
  BY <1>1, <1>2, <1>4, SameLists, AddsKeeps
<1>6. CInv'
  BY <1>1, <1>3, <1>5, COutside DEF app, memory, Counting
<1> QED
  BY <1>5, <1>6

LEMMA LaunchC ==
  ASSUME IInv, CInv, x_launch_application
  PROVE  CInv'
<1>1. /\ pc = "idle" /\ ~exhausted /\ x_application = "valid" /\ slot' = 0
      /\ UNCHANGED <<app, lists, history>>
      /\ TypeOK /\ Shape /\ Indexed
  BY DEF x_launch_application, Idle, IInv, CInv
<1>2. Indexed' /\ Grows /\ UNCHANGED <<master, index>> /\ mesh' = mesh
  BY <1>1, SameLists DEF lists, history
<1>3. CASE connection_list_offset # 0 \/ master = <<>>
  <2>1. pc' = "count" /\ UNCHANGED <<memory, shared>>
    BY <1>3 DEF x_launch_application
  <2> QED
    BY <1>1, <1>2, <1>3, <2>1, COutside DEF app, memory, Counting
<1>4. CASE ~(connection_list_offset # 0 \/ master = <<>>)
  <2>1. /\ pc' = "indexes"
        /\ available_working_memory_end' =
             xawm_alloc(available_working_memory_end, Len(master) * ConnectionSize)
        /\ exhausted' =
             ~Fits(available_working_memory_end, Len(master) * ConnectionSize)
        /\ connection_list_offset' = available_working_memory_end'
        /\ connection_list_length' = Len(master)
        /\ num_connections' = num_connections
    BY <1>4 DEF x_launch_application, Allocate
  <2>2. Len(master) \in Nat
    BY <1>1 DEF TypeOK, ListsType
  <2>3. ~exhausted' => connection_list_offset' # 0
    <3>1. Len(master) * ConnectionSize \in Nat
      BY <2>2, Product, ApplicationAssumption
    <3>2. available_working_memory_end \in Int
      BY <1>1 DEF TypeOK, MemoryType
    <3> DEFINE size == Len(master) * ConnectionSize
               end == available_working_memory_end
    <3>3. xawm_alloc(end, size) \in Int
          /\ (Fits(end, size) => xawm_alloc(end, size) >= MemStart)
      <4> HIDE DEF size, end
      <4> QED
        BY <3>1, <3>2, AllocFacts DEF size, end
    <3>4. MemStart > 0 /\ MemStart \in Nat
      BY ApplicationAssumption
    <3> HIDE DEF size, end
    <3>5. /\ exhausted' = ~Fits(end, size)
          /\ connection_list_offset' = xawm_alloc(end, size)
      BY <2>1 DEF end, size
    <3>6. ~exhausted' => xawm_alloc(end, size) >= MemStart
      BY <3>3, <3>5
    <3> QED
      BY <3>3, <3>4, <3>5, <3>6
  <2>4. Slots' = Slots /\ Slots \subseteq AllSlots
    BY <1>1, SlotsUnchanged, SlotsFacts
  <2>5. ASSUME NEW t \in Slots
        PROVE  num_connections'[t] = 0
    <3>1. Listed(t) /\ connection_list_length = 0
      BY <1>1, <1>4 DEF CInv
    <3>2. Sources(master, 0, t) = {} /\ Sinks(master, 0, t) = {}
      BY DEF Sources, Sinks
    <3>3. Cardinality({}) = 0
      BY FS_EmptySet
    <3>4. num_connections[t] = Cardinality(Sources(master, 0, t)) +
                               Cardinality(Sinks(master, 0, t))
      BY <3>1 DEF Listed, Describes
    <3>5. /\ Cardinality(Sources(master, 0, t)) = 0
          /\ Cardinality(Sinks(master, 0, t)) = 0
      BY <3>2, <3>3, Zenon
    <3>6. num_connections[t] = 0
      BY <3>4, <3>5
    <3> QED
      BY <2>1, <3>6
  <2>6. \A t \in Slots' : ~(t < slot') /\ num_connections'[t] = 0
    <3>1. \A t \in Slots : ~(t < 0)
      BY DEF Slots
    <3> QED
      BY <1>1, <2>4, <2>5, <3>1
  <2> QED
    BY <1>1, <1>2, <2>1, <2>2, <2>3, <2>6 DEF CInv, app
<1> QED
  BY <1>3, <1>4

LEMMA SetupIndexC ==
  ASSUME IInv, CInv, SetupIndex
  PROVE  CInv'
<1>1. /\ pc = "indexes" /\ ~exhausted /\ x_application = "valid"
      /\ Iterate(workgroup_size + HostSlots, "count")
      /\ UNCHANGED <<app, lists, history>>
      /\ TypeOK /\ Shape /\ Indexed
  BY DEF SetupIndex, IInv, Shape, LaunchPhases, CInv
<1>2. Indexed' /\ UNCHANGED <<master, index>> /\ mesh' = mesh
  BY <1>1, SameLists DEF lists, history
<1>3. /\ Slots' = Slots /\ Slots \subseteq AllSlots /\ slot \in Slots
      /\ workgroup_size \in Nat \ {0} /\ HostSlots \in Nat \ {0}
  BY <1>1, SlotsUnchanged, SlotsFacts DEF Shape
<1>4. /\ connection_list_length = Len(master) /\ connection_list_offset # 0
      /\ \A t \in Slots :
            IF t < slot THEN Listed(t) ELSE num_connections[t] = 0
  BY <1>1 DEF CInv
<1>5. num_connections \in [AllSlots -> Nat] /\ index[slot] \in Seq(Nat)
  BY <1>1, <1>3 DEF TypeOK, SharedType, ListsType
<1>6. /\ UNCHANGED <<connection_list_offset, connection_list_length>>
      /\ num_connections' = [num_connections EXCEPT ![slot] = Len(index[slot])]
  <2>1. CASE index[slot] = <<>>
    <3>1. UNCHANGED shared
      BY <2>1 DEF SetupIndex
    <3>2. num_connections[slot] = 0
      BY <1>3, <1>4 DEF Slots
    <3> QED
      BY <1>3, <1>5, <2>1, <3>1, <3>2 DEF shared
  <2>2. CASE index[slot] # <<>>
    BY <2>2 DEF SetupIndex
  <2> QED
    BY <2>1, <2>2
<1>7. ASSUME NEW t \in Slots, t = slot PROVE Listed(t)'
  <2>1. /\ num_connections'[t] = Len(index[t])
        /\ Describes(index[t], Len(index[t]), master, Len(master), t)
    BY <1>1, <1>3, <1>5, <1>6, <1>7 DEF Indexed
  <2>2. Len(index[t]) \in Nat
    BY <1>5, <1>7
  <2>3. Len(index[t]) <= Len(index[t])
    BY <2>2
  <2> QED
    BY <1>2, <1>4, <1>6, <2>1, <2>3 DEF Listed
<1>8. ASSUME NEW t \in Slots, t # slot
      PROVE  /\ num_connections'[t] = num_connections[t]
             /\ Listed(t) => Listed(t)'
  <2>1. num_connections'[t] = num_connections[t]
    BY <1>3, <1>5, <1>6, <1>8
  <2> QED
    BY <1>2, <1>6, <2>1 DEF Listed
<1>9. \A t \in Slots : IF t <= slot THEN Listed(t)' ELSE num_connections'[t] = 0
  <2>1. \A t \in Slots : t <= slot => t = slot \/ t < slot
    BY <1>3 DEF Slots
  <2>2. \A t \in Slots : ~(t <= slot) => t # slot /\ ~(t < slot)
    BY <1>3 DEF Slots
  <2> QED
    BY <1>4, <1>7, <1>8, <2>1, <2>2
<1>10. connection_list_length' <= Len(master')
  <2>1. Len(master) \in Nat
    BY <1>1 DEF TypeOK, ListsType
  <2> QED
    BY <1>2, <1>4, <1>6, <2>1
<1>11. CASE slot + 1 < workgroup_size + HostSlots
  <2>1. slot' = slot + 1 /\ pc' = pc
    BY <1>1, <1>11 DEF Iterate
  <2>2. \A t \in Slots : t < slot + 1 <=> t <= slot
    BY <1>3 DEF Slots
  <2>3. \A t \in Slots' : IF t < slot' THEN Listed(t)' ELSE num_connections'[t] = 0
    BY <1>3, <1>9, <2>1, <2>2
  <2> QED
    BY <1>1, <1>2, <1>4, <1>6, <1>10, <2>1, <2>3 DEF CInv, app
<1>12. CASE ~(slot + 1 < workgroup_size + HostSlots)
  <2>1. slot' = 0 /\ pc' = "count"
    BY <1>1, <1>12 DEF Iterate
  <2>2. \A t \in Slots : t <= slot
    BY <1>3, <1>12 DEF Slots
  <2>3. \A t \in Slots' : Listed(t)'
    BY <1>3, <1>9, <2>2
  <2> QED
    BY <1>1, <1>2, <1>4, <1>6, <1>10, <2>1, <2>3 DEF CInv, app
<1> QED
  BY <1>11, <1>12

(* The other phases of a launch, and calls that do not concern the lists.   *)
LEMMA QuietC ==
  ASSUME TypeOK, Shape, CInv, UNCHANGED <<memory, shared, lists, mesh>>,
         UNCHANGED <<x_application, workgroup_rows, workgroup_columns>>,
         pc # "indexes", pc' # "indexes",
         pc' \in {"load", "start", "return"} =>
           pc \in {"load", "start", "return"} \/ ~exhausted,
         pc' \in Counting => pc \in Counting
  PROVE  CInv'
<1>1. Indexed' /\ Grows
  BY SameLists DEF CInv, lists
<1>2. x_application = "null" => mesh' = "none" /\ master' = master
  BY DEF CInv, lists
<1>3. pc' \in {"load", "start", "return"} => ~exhausted'
  BY DEF CInv, memory
<1> QED
  BY <1>1, <1>2, <1>3, COutside DEF memory, lists

(* Every step keeps the lists and their copies in shared memory in order.   *)
LEMMA ListsStep == IInv /\ SInv /\ CInv /\ [Next]_vars => CInv'
<1> SUFFICES ASSUME IInv, SInv, CInv, [Next]_vars PROVE CInv'
  OBVIOUS
<1>0. TypeOK /\ Shape
  BY DEF IInv
<1>1. ASSUME NEW w \in Workgroups, NEW named \in BOOLEAN,
             x_initialize_application(w, named)
      PROVE  CInv'
  BY <1>1, InitializeC
<1>2. CASE InitializeFails
  <2>1. pc = "idle" /\ pc' = pc
    BY <1>2 DEF InitializeFails, Idle
  <2> QED
    BY <1>0, <1>2, <2>1, QuietC DEF InitializeFails, history, Counting
<1>3. ASSUME NEW a \in Tasks, NEW b \in Tasks, NEW ak \in Keys, NEW bk \in Keys,
             NEW lucky \in Luck, x_connect_tasks(a, ak, b, bk, lucky)
      PROVE  CInv'
  BY <1>3, ConnectC
<1>4. ASSUME NEW wrap \in BOOLEAN, x_prepare_mesh_application(wrap)
      PROVE  CInv'
  <2>1. /\ pc = "idle" /\ pc' = "mesh" /\ ~exhausted /\ x_application = "valid"
        /\ UNCHANGED <<app, shared, lists>>
    BY <1>4 DEF x_prepare_mesh_application, Idle
  <2>2. Indexed' /\ Grows
    BY <1>0, <2>1, SameLists DEF CInv, lists
  <2> QED
    BY <1>0, <2>1, <2>2, COutside DEF app, Counting
<1>5. ASSUME NEW lucky \in Luck, MeshConnect(lucky)
      PROVE  CInv'
  BY <1>5, MeshConnectC
<1>6. CASE MeshSkip
  <2>1. /\ pc = "mesh" /\ pc' \in {"mesh", "mesh result"}
        /\ UNCHANGED <<app, memory, shared, lists, history>>
    BY <1>6 DEF MeshSkip, Iterate
  <2> QED
    BY <1>0, <2>1, QuietC DEF app, history, Counting
<1>7. CASE MeshResult
  <2>1. /\ pc = "mesh result" /\ pc' = "idle" /\ x_application = "valid"
        /\ UNCHANGED <<app, memory, shared, lists>>
    BY <1>0, <1>7 DEF MeshResult, Shape, MeshPhases
  <2>2. Indexed' /\ Grows
    BY <1>0, <2>1, SameLists DEF CInv, lists
  <2> QED
    BY <1>0, <2>1, <2>2, COutside DEF app, memory, Counting
<1>8. CASE x_launch_application
  BY <1>8, LaunchC
<1>9. CASE SetupIndex
  BY <1>9, SetupIndexC
<1>10. CASE CountMember \/ LoadGroup \/ LoadMember \/ StartGroup \/ StartMember
  <2>1. /\ pc \in {"count", "load", "start"}
        /\ pc = "count" => ~exhausted
        /\ pc' \in Counting
        /\ UNCHANGED <<app, memory, shared, lists, history>>
    BY <1>10 DEF CountMember, LoadGroup, LoadMember, StartGroup, StartMember,
                 Iterate, AfterLoad, Counting
  <2> QED
    BY <1>0, <2>1, QuietC DEF app, history, Counting
<1>11. CASE LaunchResult
  <2>1. /\ pc = "return" /\ pc' = "idle"
        /\ UNCHANGED <<app, memory, shared, lists, mesh>>
    BY <1>11 DEF LaunchResult
  <2> QED
    BY <1>0, <2>1, QuietC DEF app, Counting
<1>12. ASSUME NEW t \in AllSlots, x_launch_task(t) \/ TaskStep(t)
       PROVE  CInv'
  BY <1>12, CSame DEF x_launch_task, TaskStep, app, lists, memory, launch, history
<1>13. CASE x_finalize_application
  <2>1. pc = "idle" /\ pc' = "done"
    BY <1>13 DEF x_finalize_application, Idle
  <2> QED
    BY <1>0, <1>13, <2>1, QuietC DEF x_finalize_application, history, Counting
<1>14. CASE UNCHANGED vars
  BY <1>14, CSame DEF vars, app, lists, memory, launch, history
<1> QED
  BY <1>1, <1>2, <1>3, <1>4, <1>5, <1>6, <1>7, <1>8, <1>9, <1>10, <1>11, <1>12,
     <1>13, <1>14
  DEF Next, Host

(* The lists are empty at first.                                            *)
LEMMA ListsInit == Init => CInv
<1> SUFFICES ASSUME Init PROVE CInv
  OBVIOUS
<1>1. \A m, t : Sources(m, 0, t) = {} /\ Sinks(m, 0, t) = {}
  BY DEF Sources, Sinks
<1>2. Cardinality({}) = 0
  BY FS_EmptySet
<1>3. \A t \in AllSlots : index[t] = <<>> /\ num_connections[t] = 0
  BY DEF Init
<1>4. /\ master = <<>> /\ connection_list_length = 0 /\ x_application = "null"
      /\ connection_list_offset = 0 /\ mesh = "none" /\ pc = "idle"
  BY DEF Init
<1>5. Len(<<>>) = 0 /\ Sorted(<<>>)
  BY DEF Sorted
<1>6. \A m, t : Describes(<<>>, 0, m, 0, t)
  BY <1>1, <1>2 DEF Describes
<1>7. Indexed
  BY <1>3, <1>4, <1>5, <1>6 DEF Indexed
<1> QED
  BY <1>3, <1>4, <1>5, <1>7 DEF CInv

(* Which is what the launch relies on.                                      *)
LEMMA ListsGive == IInv /\ CInv => EndpointsListed
<1> SUFFICES ASSUME IInv, CInv, pc \in LaunchPhases \ {"indexes"}, ~exhausted,
                    NEW t \in Slots
             PROVE  LET sources == {n \in 1 .. connection_list_length :
                                                   master[n].source_task = t}
                        sinks == {n \in 1 .. connection_list_length :
                                                   master[n].sink_task = t}
                        ix == SharedIndex(t)
                    IN /\ num_connections[t] =
                            Cardinality(sources) + Cardinality(sinks)
                       /\ {ix[i] : i \in 1 .. Len(ix)} = sources \cup sinks
  BY DEF EndpointsListed
<1>1. x_application = "valid" /\ TypeOK /\ Shape
  BY DEF IInv, Shape
<1>2. Listed(t) /\ t \in AllSlots
  BY <1>1, SlotsFacts DEF CInv
<1>3. /\ index[t] \in Seq(Nat) /\ num_connections[t] \in Nat
      /\ num_connections[t] <= Len(index[t])
  BY <1>1, <1>2 DEF TypeOK, ListsType, SharedType, Listed
<1>4. /\ Len(SharedIndex(t)) = num_connections[t]
      /\ \A i \in 1 .. num_connections[t] : SharedIndex(t)[i] = index[t][i]
  BY <1>3 DEF SharedIndex
<1>5. Describes(index[t], num_connections[t], master, connection_list_length, t)
  BY <1>2 DEF Listed
<1>6. {SharedIndex(t)[i] : i \in 1 .. Len(SharedIndex(t))} =
        {index[t][i] : i \in 1 .. num_connections[t]}
  BY <1>4
<1>7. {SharedIndex(t)[i] : i \in 1 .. Len(SharedIndex(t))} =
        Sources(master, connection_list_length, t)
          \cup Sinks(master, connection_list_length, t)
  BY <1>5, <1>6 DEF Describes
<1>8. num_connections[t] =
        Cardinality(Sources(master, connection_list_length, t))
          + Cardinality(Sinks(master, connection_list_length, t))
  BY <1>5 DEF Describes
<1> QED
  BY <1>7, <1>8 DEF Sources, Sinks

(* In every launch, the first or a repeated one, the indexes in shared      *)
(* memory list exactly the endpoints of each task when the first task is    *)
(* loaded: for every workgroup, every set of connections, duplicates and    *)
(* connections of a task with itself included, and every order of calls.    *)
THEOREM EndpointsAlwaysListed == Spec => []EndpointsListed
<1>1. Init => LInv /\ SInv
  BY DEF Init, LInv, SInv
<1> QED
  BY <1>1, ListsInit, ListsStep, ListsGive, LaunchStep, SuccessStep, InvHolds, PTL
  DEF Spec

-----------------------------------------------------------------------------
(***************************************************************************)
(* The mesh. First the arithmetic of rows and columns.                     *)
(***************************************************************************)
(* The place of a member: its row and its column.                           *)
LEMMA DivMod ==
  ASSUME NEW C \in Nat \ {0}, NEW a \in Int, NEW b \in 0 .. C - 1
  PROVE  (a * C + b) \div C = a /\ (a * C + b) % C = b
<1> DEFINE x == a * C + b
           q == x \div C
           r == x % C
<1>1. x \in Int
  OBVIOUS
<1>2. x = C * q + r /\ q \in Int /\ r \in 0 .. C - 1
  BY <1>1, Z3
<1>3. C * (q - a) = b - r
  BY <1>2, Z3
<1>4. q - a < 1
  <2>1. q - a >= 1 => C * (q - a) >= C
    BY <1>2, Z3
  <2> HIDE DEF q, r, x
  <2> QED
    BY <1>2, <1>3, <2>1
<1>5. q - a > -1
  <2>1. a - q >= 1 => C * (a - q) >= C
    BY <1>2, Z3
  <2>2. C * (q - a) = -(C * (a - q))
    BY <1>2, Z3
  <2> HIDE DEF q, r, x
  <2> QED
    BY <1>2, <1>3, <2>1, <2>2
<1> QED
  BY <1>2, <1>3, <1>4, <1>5

LEMMA Place ==
  ASSUME NEW R \in Nat \ {0}, NEW C \in Nat \ {0}, NEW t \in 0 .. R * C - 1
  PROVE  /\ t \div C \in 0 .. R - 1 /\ t % C \in 0 .. C - 1
         /\ t = (t \div C) * C + (t % C)
<1> DEFINE q == t \div C
           r == t % C
<1>1. t = C * q + r /\ q \in Int /\ r \in 0 .. C - 1
  BY Z3
<1>2. q * C = C * q
  BY <1>1, Z3
<1>3. q >= 0
  BY Z3
<1>4. q <= R - 1
  <2>1. q >= R => C * q >= C * R
    BY <1>1, Z3
  <2>2. C * R = R * C
    BY Z3
  <2>3. t < R * C
    OBVIOUS
  <2> HIDE DEF q, r
  <2> QED
    BY <1>1, <2>1, <2>2, <2>3
<1> QED
  BY <1>1, <1>2, <1>3, <1>4

LEMMA PlaceIn ==
  ASSUME NEW R \in Nat \ {0}, NEW C \in Nat \ {0},
         NEW r \in 0 .. R - 1, NEW c \in 0 .. C - 1
  PROVE  r * C + c \in 0 .. R * C - 1
<1>1. r * C + C <= R * C
  BY Z3
<1>2. r * C >= 0 /\ r * C \in Int /\ R * C \in Int
  BY Z3
<1> QED
  BY <1>1, <1>2

(* One dimension of the mesh: the place next to r, in a row that wraps      *)
(* around and in one that does not.                                         *)
LEMMA Around ==
  ASSUME NEW R \in Nat \ {0}, NEW r \in 0 .. R - 1, NEW d \in {-1, 0, 1}
  PROVE  /\ (r + d + R) % R \in 0 .. R - 1
         /\ r + d >= 0 /\ r + d < R => (r + d + R) % R = r + d
         /\ \A s \in 0 .. R - 1 : (r + d - s) % R = 0 <=> s = (r + d + R) % R
<1> DEFINE w == (r + d + R) % R
<1>1. w \in 0 .. R - 1
  OBVIOUS
<1>2. CASE r + d >= 0 /\ r + d < R
  <2>1. w = r + d
    BY <1>2, Z3
  <2>2. ASSUME NEW s \in 0 .. R - 1 PROVE (r + d - s) % R = 0 <=> s = r + d
    BY <1>2, Z3
  <2> QED
    BY <1>1, <2>1, <2>2
<1>3. CASE r + d = -1
  <2>1. w = R - 1
    BY <1>3, Z3
  <2>2. ASSUME NEW s \in 0 .. R - 1 PROVE (r + d - s) % R = 0 <=> s = R - 1
    BY <1>3, Z3
  <2> QED
    BY <1>1, <1>3, <2>1, <2>2
<1>4. CASE r + d = R
  <2>1. w = 0
    BY <1>4, Z3
  <2>2. ASSUME NEW s \in 0 .. R - 1 PROVE (r + d - s) % R = 0 <=> s = 0
    BY <1>4, Z3
  <2> QED
    BY <1>1, <1>4, <2>1, <2>2
<1> QED
  BY <1>2, <1>3, <1>4

-----------------------------------------------------------------------------
(* The connection of the n-th side of the mesh, and those of the first k.   *)
Conn(n) == xc_connect_by_workgroup_coords(Row(n), Col(n), Side(n))
Real(c) == X_NULL_TASK \notin {c.source_task, c.sink_task}
Made(k) == {Conn(n) : n \in {m \in 0 .. k - 1 : SideWanted(m)}}

Distinct(m, k) == \A i, j \in 1 .. k : m[i] = m[j] => i = j

(* The first k sides have been connected, each once, and nothing else.      *)
Connected(k) ==
  /\ \A n \in 0 .. k - 1 : SideWanted(n) => Real(Conn(n))
  /\ Entries(master) = Made(k)
  /\ Distinct(master, Len(master))

SidesDone(k) == \/ pc = "mesh" /\ k = slot
                \/ pc = "mesh result" /\ k = 4 * workgroup_size

Meshed == mesh \in {"plain", "wraparound"}
Ref == MeshReference(mesh = "wraparound")

(* While the first mesh is prepared the sides up to the loop variable are   *)
(* connected. After that the mesh comes first in the list, and so does it   *)
(* in shared memory.                                                        *)
SlotInMesh == pc = "mesh" => slot < 4 * workgroup_size
PreparingPhase == pc \in {"mesh", "mesh result", "crashed"}
SidesConnected ==
  ~errors => \A k \in 0 .. 4 * workgroup_size : SidesDone(k) => Connected(k)

MInv ==
  /\ SlotInMesh
  /\ mesh = "preparing" => /\ PreparingPhase
                           /\ connection_list_offset = 0
                           /\ SidesConnected
  /\ Meshed => /\ MeshComplete /\ Cardinality(Ref) \in Nat
               /\ Distinct(master, Cardinality(Ref))
  /\ connection_list_offset # 0 =>
       /\ master # <<>>
       /\ Meshed => Cardinality(Ref) <= connection_list_length

(* What a side of the mesh connects, if none of its ends is the null task.  *)
Edge(t, u, d) ==
  [source_task |-> t, source_key |-> d.to, sink_task |-> u, sink_key |-> d.from]
Neighbour(t, d) ==
  (((t \div workgroup_columns) + d.down + workgroup_rows) % workgroup_rows)
    * workgroup_columns +
  (((t % workgroup_columns) + d.right + workgroup_columns) % workgroup_columns)
DirectionSet == {Directions[1], Directions[2], Directions[3], Directions[4]}

LEMMA EdgeFields ==
  \A t, u, d : /\ Edge(t, u, d).source_task = t /\ Edge(t, u, d).source_key = d.to
               /\ Edge(t, u, d).sink_task = u /\ Edge(t, u, d).sink_key = d.from
BY DEF Edge

LEMMA DirectionFacts ==
  /\ \A d \in DirectionSet : d.down \in {-1, 0, 1} /\ d.right \in {-1, 0, 1}
  /\ \A d, e \in DirectionSet : d.to = e.to \/ d.from = e.from => d = e
  /\ \A d, e \in DirectionSet : d.to # e.from
<1>1. DirectionSet =
  {[down |-> 0,  right |-> -1, to |-> "X_TO_LEFT",  from |-> "X_FROM_RIGHT"],
   [down |-> -1, right |-> 0,  to |-> "X_TO_ABOVE", from |-> "X_FROM_BELOW"],
   [down |-> 0,  right |-> 1,  to |-> "X_TO_RIGHT", from |-> "X_FROM_LEFT"],
   [down |-> 1,  right |-> 0,  to |-> "X_TO_BELOW", from |-> "X_FROM_ABOVE"]}
  BY DEF DirectionSet, Directions
<1> QED
  BY <1>1

LEMMA SideFacts ==
  ASSUME NEW n \in Nat
  PROVE  /\ n \div 4 \in Nat /\ n % 4 \in 0 .. 3 /\ n = 4 * (n \div 4) + (n % 4)
         /\ Side(n) \in DirectionSet
<1>1. n \div 4 \in Nat /\ n % 4 \in 0 .. 3 /\ n = 4 * (n \div 4) + (n % 4)
  OBVIOUS
<1>2. (n % 4) + 1 \in {1, 2, 3, 4}
  BY <1>1
<1> QED
  BY <1>1, <1>2 DEF Side, DirectionSet

LEMMA SameSide ==
  ASSUME NEW m \in Nat, NEW n \in Nat, Side(m) = Side(n)
  PROVE  m % 4 = n % 4
<1>1. (m % 4) + 1 \in {1, 2, 3, 4} /\ (n % 4) + 1 \in {1, 2, 3, 4}
  OBVIOUS
<1>2. /\ Directions[1].to = "X_TO_LEFT" /\ Directions[2].to = "X_TO_ABOVE"
      /\ Directions[3].to = "X_TO_RIGHT" /\ Directions[4].to = "X_TO_BELOW"
  BY DEF Directions
<1>3. \A i, j \in {1, 2, 3, 4} : Directions[i] = Directions[j] => i = j
  BY <1>2
<1>4. (m % 4) + 1 = (n % 4) + 1
  BY <1>1, <1>3 DEF Side
<1> QED
  BY <1>4

(* The workgroup that the mesh covers.                                      *)
LEMMA MeshSize ==
  ASSUME TypeOK, Shape, x_application = "valid"
  PROVE  /\ workgroup_rows \in Nat \ {0} /\ workgroup_columns \in Nat \ {0}
         /\ workgroup_size \in Nat \ {0}
         /\ workgroup_size = workgroup_rows * workgroup_columns
         /\ Members = 0 .. workgroup_rows * workgroup_columns - 1
BY SlotsFacts DEF workgroup_size, Members

LEMMA SideTask ==
  ASSUME TypeOK, Shape, x_application = "valid",
         NEW n \in 0 .. 4 * workgroup_size - 1
  PROVE  n \in Nat /\ n \div 4 \in Members
<1>1. workgroup_size \in Nat /\ Members = 0 .. workgroup_size - 1
  BY SlotsFacts DEF Members
<1> QED
  BY <1>1

LEMMA ConnFacts ==
  ASSUME TypeOK, Shape, x_application = "valid",
         NEW n \in 0 .. 4 * workgroup_size - 1, Real(Conn(n))
  PROVE  Conn(n) = Edge(n \div 4, Neighbour(n \div 4, Side(n)), Side(n))
<1> DEFINE R == workgroup_rows
           C == workgroup_columns
           t == n \div 4
           d == Side(n)
           wr == ((t \div C) + d.down + R) % R
           wc == ((t % C) + d.right + C) % C
<1>1. R \in Nat \ {0} /\ C \in Nat \ {0} /\ t \in 0 .. R * C - 1
  BY MeshSize, SideTask
<1>2. /\ t = (t \div C) * C + (t % C)
  <2> HIDE DEF R, C, t
  <2> QED
    BY <1>1, Place
<1>3. Conn(n) = [source_task |-> x_workgroup_member_task(t \div C, t % C),
                 source_key |-> d.to,
                 sink_task |-> x_workgroup_member_task(wr, wc),
                 sink_key |-> d.from]
  BY DEF Conn, xc_connect_by_workgroup_coords, Row, Col
<1>4. /\ x_workgroup_member_task(t \div C, t % C) # X_NULL_TASK
      /\ x_workgroup_member_task(wr, wc) # X_NULL_TASK
  <2> HIDE DEF wr, wc, t, C
  <2> QED
    BY <1>3 DEF Real
<1>5. /\ x_workgroup_member_task(t \div C, t % C) = (t \div C) * C + (t % C)
      /\ x_workgroup_member_task(wr, wc) = wr * C + wc
  <2> HIDE DEF wr, wc, t
  <2> QED
    BY <1>4 DEF x_workgroup_member_task
<1> HIDE DEF d
<1> QED
  BY <1>2, <1>3, <1>5 DEF Edge, Neighbour, d

(* A neighbour is a member.                                                 *)
LEMMA NeighbourFacts ==
  ASSUME TypeOK, Shape, x_application = "valid",
         NEW t \in Members, NEW d \in DirectionSet
  PROVE  /\ Neighbour(t, d) \in Members
         /\ \A u \in Members, wrap \in BOOLEAN :
              Adjacent(t, u, d.down, d.right, wrap) <=>
                /\ Wanted(t \div workgroup_columns, t % workgroup_columns, d, wrap)
                /\ u = Neighbour(t, d)
<1> DEFINE R == workgroup_rows
           C == workgroup_columns
           r == t \div C
           c == t % C
           wr == (r + d.down + R) % R
           wc == (c + d.right + C) % C
<1>1. R \in Nat \ {0} /\ C \in Nat \ {0} /\ t \in 0 .. R * C - 1
      /\ Members = 0 .. R * C - 1
  BY MeshSize
<1>2. d.down \in {-1, 0, 1} /\ d.right \in {-1, 0, 1}
  BY DirectionFacts
<1>3. r \in 0 .. R - 1 /\ c \in 0 .. C - 1
  <2> HIDE DEF R, C
  <2> QED
    BY <1>1, Place
<1>4. /\ wr \in 0 .. R - 1
      /\ r + d.down >= 0 /\ r + d.down < R => wr = r + d.down
      /\ \A s \in 0 .. R - 1 : (r + d.down - s) % R = 0 <=> s = wr
  <2> HIDE DEF R, r
  <2> QED
    BY <1>1, <1>2, <1>3, Around
<1>5. /\ wc \in 0 .. C - 1
      /\ c + d.right >= 0 /\ c + d.right < C => wc = c + d.right
      /\ \A s \in 0 .. C - 1 : (c + d.right - s) % C = 0 <=> s = wc
  <2> HIDE DEF C, c
  <2> QED
    BY <1>1, <1>2, <1>3, Around
<1>6. Neighbour(t, d) = wr * C + wc
  BY DEF Neighbour
<1> HIDE DEF wr, wc
<1>7. Neighbour(t, d) \in Members
  <2> HIDE DEF R, C
  <2> QED
    BY <1>1, <1>4, <1>5, <1>6, PlaceIn
<1>8. ASSUME NEW u \in Members, NEW wrap \in BOOLEAN
      PROVE  Adjacent(t, u, d.down, d.right, wrap) <=>
               Wanted(r, c, d, wrap) /\ u = Neighbour(t, d)
  <2> DEFINE ur == u \div C
             uc == u % C
  <2>1. ur \in 0 .. R - 1 /\ uc \in 0 .. C - 1 /\ u = ur * C + uc
    <3> HIDE DEF R, C
    <3> QED
      BY <1>1, Place
  <2>2. u = wr * C + wc <=> ur = wr /\ uc = wc
    <3> HIDE DEF R, C
    <3>0. C \in Nat \ {0} /\ wr \in Int /\ wc \in 0 .. C - 1
      BY <1>1, <1>4, <1>5
    <3>1. (wr * C + wc) \div C = wr /\ (wr * C + wc) % C = wc
      BY <3>0, DivMod
    <3> QED
      BY <2>1, <3>1
  <2>3. Adjacent(t, u, d.down, d.right, wrap) <=>
          IF wrap THEN (r + d.down - ur) % R = 0 /\ (c + d.right - uc) % C = 0
          ELSE r + d.down - ur = 0 /\ c + d.right - uc = 0
    BY DEF Adjacent
  <2>4. Wanted(r, c, d, wrap) <=>
          \/ wrap
          \/ /\ r + d.down >= 0 /\ r + d.down < R
             /\ c + d.right >= 0 /\ c + d.right < C
    BY DEF Wanted
  <2> HIDE DEF R, C, r, c, ur, uc
  <2>5. CASE wrap
    BY <1>4, <1>5, <1>6, <2>1, <2>2, <2>3, <2>4, <2>5
  <2>6. CASE ~wrap
    <3>1. r \in Int /\ c \in Int /\ ur \in Int /\ uc \in Int
      BY <1>1, <1>3, <2>1
    <3>2. d.down \in Int /\ d.right \in Int
      BY <1>2
    <3>3. \A x, y, z \in Int : x + y - z = 0 <=> z = x + y
      OBVIOUS
    <3>4. r + d.down - ur = 0 <=> ur = r + d.down
      BY <3>1, <3>2, <3>3
    <3>5. c + d.right - uc = 0 <=> uc = c + d.right
      BY <3>1, <3>2, <3>3
    <3> QED
      BY <1>1, <1>4, <1>5, <1>6, <2>1, <2>2, <2>3, <2>4, <2>6, <3>4, <3>5
  <2> QED
    BY <2>5, <2>6
<1> QED
  BY <1>7, <1>8

(* The connections of the mesh, by direction.                               *)
LEMMA RefMember ==
  ASSUME NEW wrap
  PROVE  MeshReference(wrap) =
           UNION {{Edge(e[1], e[2], d) :
                   e \in {e \in Members \X Members :
                            Adjacent(e[1], e[2], d.down, d.right, wrap)}} :
                  d \in DirectionSet}
<1> DEFINE E(d) == {Edge(e[1], e[2], d) :
                    e \in {e \in Members \X Members :
                             Adjacent(e[1], e[2], d.down, d.right, wrap)}}
<1>1. UNION {E(d) : d \in DirectionSet} =
        E(Directions[3]) \cup E(Directions[4]) \cup E(Directions[1]) \cup
        E(Directions[2])
  <2> HIDE DEF E
  <2> QED
    BY DEF DirectionSet
<1>2. MeshReference(wrap) =
        E(Directions[3]) \cup E(Directions[4]) \cup E(Directions[1]) \cup
        E(Directions[2])
  <2> DEFINE F(down, right, to, from) ==
        {[source_task |-> e[1], source_key |-> to,
          sink_task |-> e[2], sink_key |-> from] :
         e \in {e \in Members \X Members :
                  Adjacent(e[1], e[2], down, right, wrap)}}
  <2>1. MeshReference(wrap) =
          F(0, 1, "X_TO_RIGHT", "X_FROM_LEFT") \cup
          F(1, 0, "X_TO_BELOW", "X_FROM_ABOVE") \cup
          F(0, -1, "X_TO_LEFT", "X_FROM_RIGHT") \cup
          F(-1, 0, "X_TO_ABOVE", "X_FROM_BELOW")
    BY DEF MeshReference
  <2>2. \A d : E(d) = F(d.down, d.right, d.to, d.from)
    BY DEF Edge
  <2> HIDE DEF E, F
  <2>3. /\ Directions[3].down = 0 /\ Directions[3].right = 1
        /\ Directions[3].to = "X_TO_RIGHT" /\ Directions[3].from = "X_FROM_LEFT"
        /\ Directions[4].down = 1 /\ Directions[4].right = 0
        /\ Directions[4].to = "X_TO_BELOW" /\ Directions[4].from = "X_FROM_ABOVE"
    BY DEF Directions
  <2>4. /\ Directions[1].down = 0 /\ Directions[1].right = -1
        /\ Directions[1].to = "X_TO_LEFT" /\ Directions[1].from = "X_FROM_RIGHT"
        /\ Directions[2].down = -1 /\ Directions[2].right = 0
        /\ Directions[2].to = "X_TO_ABOVE" /\ Directions[2].from = "X_FROM_BELOW"
    BY DEF Directions
  <2> QED
    BY <2>1, <2>2, <2>3, <2>4
<1> QED
  BY <1>1, <1>2

(* The same, by the code's own view of a neighbour.                         *)
LEMMA RefEdges ==
  ASSUME TypeOK, Shape, x_application = "valid", NEW wrap \in BOOLEAN
  PROVE  \A x : x \in MeshReference(wrap) <=>
           \E t \in Members, d \in DirectionSet :
             /\ Wanted(t \div workgroup_columns, t % workgroup_columns, d, wrap)
             /\ x = Edge(t, Neighbour(t, d), d)
<1> TAKE x
<1>1. ASSUME x \in MeshReference(wrap)
      PROVE  \E t \in Members, d \in DirectionSet :
               /\ Wanted(t \div workgroup_columns, t % workgroup_columns, d, wrap)
               /\ x = Edge(t, Neighbour(t, d), d)
  <2>1. PICK d \in DirectionSet, t \in Members, u \in Members :
          Adjacent(t, u, d.down, d.right, wrap) /\ x = Edge(t, u, d)
    BY <1>1, RefMember
  <2>2. /\ Wanted(t \div workgroup_columns, t % workgroup_columns, d, wrap)
        /\ u = Neighbour(t, d)
    BY <2>1, NeighbourFacts
  <2> QED
    BY <2>1, <2>2
<1>2. ASSUME NEW t \in Members, NEW d \in DirectionSet,
             Wanted(t \div workgroup_columns, t % workgroup_columns, d, wrap),
             x = Edge(t, Neighbour(t, d), d)
      PROVE  x \in MeshReference(wrap)
  <2> DEFINE u == Neighbour(t, d)
  <2>1. u \in Members /\ Adjacent(t, u, d.down, d.right, wrap)
    BY <1>2, NeighbourFacts
  <2>2. <<t, u>> \in Members \X Members
    BY <2>1
  <2> HIDE DEF u
  <2>3. x \in {Edge(e[1], e[2], d) :
               e \in {e \in Members \X Members :
                        Adjacent(e[1], e[2], d.down, d.right, wrap)}}
    BY <1>2, <2>1, <2>2 DEF u
  <2> QED
    BY <2>3, RefMember
<1> QED
  BY <1>1, <1>2

LEMMA ConnSource ==
  ASSUME TypeOK, Shape, x_application = "valid",
         NEW n \in 0 .. 4 * workgroup_size - 1, Real(Conn(n))
  PROVE  Conn(n).source_task = n \div 4 /\ Conn(n).source_key = Side(n).to
<1> DEFINE t == n \div 4
           d == Side(n)
           e == Edge(t, Neighbour(t, d), d)
<1>1. Conn(n) = e
  BY ConnFacts
<1>2. e.source_task = t /\ e.source_key = d.to
  BY EdgeFields
<1> HIDE DEF e
<1> QED
  BY <1>1, <1>2

(* Different sides make different connections.                              *)
LEMMA SidesDiffer ==
  ASSUME TypeOK, Shape, x_application = "valid",
         NEW m \in 0 .. 4 * workgroup_size - 1,
         NEW n \in 0 .. 4 * workgroup_size - 1,
         Real(Conn(m)), Real(Conn(n)), Conn(m) = Conn(n)
  PROVE  m = n
<1>1. /\ Conn(m) = Edge(m \div 4, Neighbour(m \div 4, Side(m)), Side(m))
      /\ Conn(n) = Edge(n \div 4, Neighbour(n \div 4, Side(n)), Side(n))
  BY ConnFacts
<1>2. m \in Nat /\ n \in Nat
  BY SideTask
<1>3. m \div 4 = n \div 4 /\ Side(m).to = Side(n).to
  BY ConnSource
<1>4. Side(m) = Side(n)
  BY <1>2, <1>3, SideFacts, DirectionFacts
<1>5. m % 4 = n % 4
  BY <1>2, <1>4, SameSide
<1>6. m = 4 * (m \div 4) + (m % 4) /\ n = 4 * (n \div 4) + (n % 4)
  BY <1>2, SideFacts
<1> QED
  BY <1>3, <1>5, <1>6

(* When the loops have gone through all sides the mesh is complete.         *)
LEMMA MadeAll ==
  ASSUME TypeOK, Shape, x_application = "valid",
         NEW k, k = 4 * workgroup_size, Connected(k)
  PROVE  Made(k) = MeshReference(wraparound)
<1>0. wraparound \in BOOLEAN
  BY DEF TypeOK, FlagsType
<1>1. ASSUME NEW n \in 0 .. k - 1, SideWanted(n)
      PROVE  Conn(n) \in MeshReference(wraparound)
  <2>1. n \in Nat /\ n \div 4 \in Members
    BY SideTask
  <2>2. Conn(n) = Edge(n \div 4, Neighbour(n \div 4, Side(n)), Side(n))
    BY <1>1, ConnFacts DEF Connected
  <2>3. Side(n) \in DirectionSet
    BY <2>1, SideFacts
  <2>4. Wanted((n \div 4) \div workgroup_columns, (n \div 4) % workgroup_columns,
               Side(n), wraparound)
    BY <1>1 DEF SideWanted, Row, Col
  <2> QED
    BY <1>0, <2>1, <2>2, <2>3, <2>4, RefEdges
<1>2. ASSUME NEW x \in MeshReference(wraparound)
      PROVE  x \in Made(k)
  <2>1. PICK t \in Members, d \in DirectionSet :
          /\ Wanted(t \div workgroup_columns, t % workgroup_columns, d, wraparound)
          /\ x = Edge(t, Neighbour(t, d), d)
    BY <1>0, RefEdges
  <2>2. PICK j \in 0 .. 3 : d = Directions[j + 1]
    <3>1. 0 + 1 = 1 /\ 1 + 1 = 2 /\ 2 + 1 = 3 /\ 3 + 1 = 4
      OBVIOUS
    <3>2. \E j \in {0, 1, 2, 3} : d = Directions[j + 1]
      BY <3>1 DEF DirectionSet
    <3> QED
      BY <3>2
  <2> DEFINE n == 4 * t + j
  <2>3. workgroup_size \in Nat \ {0} /\ Members = 0 .. workgroup_size - 1
    BY SlotsFacts DEF Members
  <2>4. t \in Nat /\ t <= workgroup_size - 1
    BY <2>3
  <2>5. n \in 0 .. k - 1 /\ n \div 4 = t /\ n % 4 = j
    BY <2>3, <2>4
  <2> HIDE DEF n
  <2>6. Side(n) = d /\ SideWanted(n)
    BY <2>1, <2>2, <2>5 DEF Side, SideWanted, Row, Col
  <2>7. Real(Conn(n))
    BY <2>5, <2>6 DEF Connected
  <2>8. Conn(n) = x
    BY <2>1, <2>5, <2>6, <2>7, ConnFacts
  <2> QED
    BY <2>5, <2>6, <2>8 DEF Made
<1> QED
  BY <1>1, <1>2 DEF Made

(* A list without repetitions is as long as it has entries.                 *)
LEMMA DistinctCount ==
  ASSUME NEW m, Len(m) \in Nat, Distinct(m, Len(m))
  PROVE  Cardinality(Entries(m)) = Len(m)
<1> DEFINE k == Len(m)
           S == Entries(m)
           f == [i \in 1 .. k |-> m[i]]
<1>1. f \in [1 .. k -> S]
  BY DEF Entries
<1>2. \A i, j \in 1 .. k : f[i] = f[j] => i = j
  BY DEF Distinct
<1>3. \A s \in S : \E i \in 1 .. k : f[i] = s
  BY DEF Entries
<1> HIDE DEF f, S
<1>4. f \in Bijection(1 .. k, S)
  BY <1>1, <1>2, <1>3 DEF Bijection, Injection, Surjection, IsInjective
<1>5. ExistsBijection(1 .. k, S)
  BY <1>4 DEF ExistsBijection
<1> QED
  BY <1>5, FS_CountingElements DEF S

(* The sides do not move while the workgroup stays the same.                *)
LEMMA SameSides ==
  ASSUME UNCHANGED <<workgroup_rows, workgroup_columns, wraparound>>
  PROVE  \A n : Conn(n)' = Conn(n) /\ (SideWanted(n)' <=> SideWanted(n))
BY DEF Conn, SideWanted, xc_connect_by_workgroup_coords, Row, Col, Side, Wanted,
       x_workgroup_member_task, WithinRows

LEMMA SameRef ==
  ASSUME UNCHANGED <<workgroup_rows, workgroup_columns>>, NEW wrap
  PROVE  MeshReference(wrap)' = MeshReference(wrap)
BY DEF MeshReference, Adjacent, Members, workgroup_size

(* One side more: it is connected, or not wanted.                           *)
LEMMA AddSide ==
  ASSUME IInv, x_application = "valid", UNCHANGED <<app, wraparound>>,
         NEW k \in 0 .. 4 * workgroup_size - 1, Connected(k),
         \/ SideWanted(k) /\ Real(Conn(k)) /\ Adds(Conn(k))
         \/ ~SideWanted(k) /\ UNCHANGED master
  PROVE  Connected(k + 1)'
<1>0. TypeOK /\ Shape /\ workgroup_size \in Nat \ {0}
  BY SlotsFacts DEF IInv
<1>1. \A n : Conn(n)' = Conn(n) /\ (SideWanted(n)' <=> SideWanted(n))
  BY SameSides DEF app
<1>2. /\ 0 .. (k + 1) - 1 = 0 .. k - 1 \cup {k} /\ k \notin 0 .. k - 1
      /\ \A n \in 0 .. k - 1 : n \in 0 .. 4 * workgroup_size - 1
  BY <1>0
<1>3. Made(k + 1)' = Made(k) \cup (IF SideWanted(k) THEN {Conn(k)} ELSE {})
  BY <1>1, <1>2 DEF Made
<1>4. CASE ~SideWanted(k) /\ UNCHANGED master
  <2>1. \A n \in 0 .. (k + 1) - 1 : SideWanted(n)' => Real(Conn(n))'
    BY <1>1, <1>2, <1>4 DEF Connected, Real
  <2>2. Entries(master)' = Made(k + 1)'
    BY <1>3, <1>4 DEF Connected, Entries
  <2> QED
    BY <1>4, <2>1, <2>2 DEF Connected, Distinct
<1>5. CASE SideWanted(k) /\ Real(Conn(k)) /\ Adds(Conn(k))
  <2> DEFINE l == Len(master)
             c == Conn(k)
  <2>1. \A n \in 0 .. (k + 1) - 1 : SideWanted(n)' => Real(Conn(n))'
    BY <1>1, <1>2, <1>5 DEF Connected, Real
  <2>2. /\ l \in Nat /\ Len(master') = l + 1
        /\ \A i \in 1 .. l : master'[i] = master[i]
        /\ master'[l + 1] = c
    BY <1>0, <1>5, AddsMaster
  <2>3. 1 .. l + 1 = 1 .. l \cup {l + 1}
    BY <2>2
  <2>4. c \notin Entries(master)
    <3> SUFFICES ASSUME c \in Entries(master) PROVE FALSE
      OBVIOUS
    <3>1. PICK n \in 0 .. k - 1 : SideWanted(n) /\ Conn(n) = Conn(k)
      BY DEF Connected, Made
    <3>2. Real(Conn(n)) /\ n \in 0 .. 4 * workgroup_size - 1
      BY <1>2, <3>1 DEF Connected
    <3> QED
      BY <1>0, <1>2, <1>5, <3>1, <3>2, SidesDiffer
  <2>5. \A i \in 1 .. l : master[i] \in Entries(master)
    BY DEF Entries
  <2>6. Distinct(master, l)
    BY DEF Connected
  <2> HIDE DEF l, c
  <2>7. Entries(master') = Entries(master) \cup {c}
    BY <2>2, <2>3 DEF Entries, l
  <2>8. Entries(master') = Made(k + 1)'
    BY <1>3, <1>5, <2>7 DEF Connected, c
  <2>9. Distinct(master', l + 1)
    BY <2>2, <2>3, <2>4, <2>5, <2>6 DEF Distinct
  <2> QED
    BY <2>1, <2>2, <2>8, <2>9 DEF Connected
<1> QED
  BY <1>4, <1>5

-----------------------------------------------------------------------------
(* A step after which the lists begin with what they held keeps what has    *)
(* been prepared.                                                           *)
LEMMA MGrows ==
  ASSUME TypeOK, MInv, Grows, mesh' = mesh,
         UNCHANGED <<workgroup_rows, workgroup_columns>>,
         UNCHANGED <<connection_list_offset, connection_list_length>>,
         SlotInMesh',
         mesh = "preparing" => PreparingPhase' /\ SidesConnected'
  PROVE  MInv'
<1>1. Ref' = Ref /\ workgroup_size' = workgroup_size /\ (Meshed' <=> Meshed)
  <2>1. (mesh = "wraparound")' = (mesh = "wraparound")
    OBVIOUS
  <2>2. workgroup_size' = workgroup_size /\ (Meshed' <=> Meshed)
    BY DEF workgroup_size, Meshed
  <2>3. Ref' = Ref
    BY DEF Ref, MeshReference, Adjacent, Members, workgroup_size
  <2> QED
    BY <2>2, <2>3
<1>2. master \in Seq(Connection) /\ Len(master) \in Nat
  BY DEF TypeOK, ListsType
<1>3. ASSUME Meshed
      PROVE  MeshComplete' /\ Distinct(master', Cardinality(Ref))
  <2> DEFINE n == Cardinality(Ref)
  <2>1. /\ n \in Nat /\ Distinct(master, n) /\ n <= Len(master)
        /\ {master[i] : i \in 1 .. n} = Ref
    BY <1>3 DEF MInv, Meshed, MeshComplete, Ref
  <2> HIDE DEF n
  <2>2. \A i \in 1 .. n : i \in 1 .. Len(master) /\ master'[i] = master[i]
    BY <1>2, <2>1 DEF Grows
  <2>3. n <= Len(master')
    BY <1>2, <2>1 DEF Grows
  <2>4. {master'[i] : i \in 1 .. n} = Ref /\ Distinct(master', n)
    BY <2>1, <2>2 DEF Distinct
  <2> QED
    BY <1>1, <2>1, <2>3, <2>4 DEF MeshComplete, Ref, n
<1>4. master # <<>> => master' # <<>>
  <2>1. master # <<>> => Len(master) # 0
    BY <1>2
  <2>2. Len(<<>>) = 0
    OBVIOUS
  <2> QED
    BY <1>2, <2>1, <2>2 DEF Grows
<1> QED
  BY <1>1, <1>3, <1>4 DEF MInv

(* A step that touches none of this.                                        *)
LEMMA MSame ==
  ASSUME TypeOK, MInv, Indexed, mesh' = mesh, UNCHANGED <<master, index>>,
         UNCHANGED <<workgroup_rows, workgroup_columns>>,
         UNCHANGED <<connection_list_offset, connection_list_length>>,
         UNCHANGED <<pc, slot, errors, wraparound>>
  PROVE  MInv'
<1>1. Grows
  BY SameLists
<1>2. \A n : Conn(n)' = Conn(n) /\ (SideWanted(n)' <=> SideWanted(n))
  BY SameSides
<1>3. workgroup_size' = workgroup_size
  BY DEF workgroup_size
<1>4. \A k : SidesDone(k)' <=> SidesDone(k)
  BY <1>3 DEF SidesDone
<1>5. ASSUME NEW k, Connected(k) PROVE Connected(k)'
  <2>1. Made(k)' = Made(k)
    BY <1>2 DEF Made
  <2>2. Entries(master)' = Entries(master)
    BY DEF Entries
  <2> QED
    BY <1>2, <1>5, <2>1, <2>2 DEF Connected, Real, Distinct
<1>6. SlotInMesh' /\ (SidesConnected => SidesConnected')
  BY <1>3, <1>4, <1>5 DEF MInv, SlotInMesh, SidesConnected
<1>7. PreparingPhase => PreparingPhase'
  BY DEF PreparingPhase
<1> QED
  BY <1>1, <1>6, <1>7, MGrows DEF MInv

(* A step between calls, or of a launch.                                    *)
LEMMA MOutside ==
  ASSUME TypeOK, MInv, Grows, mesh' = mesh,
         UNCHANGED <<workgroup_rows, workgroup_columns>>,
         UNCHANGED <<connection_list_offset, connection_list_length>>,
         ~PreparingPhase, pc' # "mesh"
  PROVE  MInv'
<1>1. mesh # "preparing" /\ SlotInMesh'
  BY DEF MInv, SlotInMesh
<1> QED
  BY <1>1, MGrows

(* The loop over the sides.                                                 *)
NextSide == Iterate(4 * workgroup_size, "mesh result")

LEMMA SideLoop ==
  ASSUME IInv, SlotInMesh, pc = "mesh", x_application = "valid", UNCHANGED app,
         NextSide
  PROVE  /\ slot \in 0 .. 4 * workgroup_size - 1
         /\ PreparingPhase' /\ SlotInMesh'
         /\ workgroup_size \in Nat \ {0} /\ workgroup_size' = workgroup_size
         /\ \A k \in 0 .. 4 * workgroup_size : SidesDone(k)' => k = slot + 1
<1>1. /\ workgroup_size \in Nat \ {0} /\ slot \in Nat
      /\ slot < 4 * workgroup_size /\ workgroup_size' = workgroup_size
  BY SlotsFacts, SlotsUnchanged DEF IInv, TypeOK, LoopType, SlotInMesh
<1>2. CASE slot + 1 < 4 * workgroup_size
  <2>1. slot' = slot + 1 /\ pc' = pc
    BY <1>2 DEF NextSide, Iterate
  <2> QED
    BY <1>1, <1>2, <2>1 DEF SidesDone, SlotInMesh, PreparingPhase
<1>3. CASE ~(slot + 1 < 4 * workgroup_size)
  <2>1. slot' = 0 /\ pc' = "mesh result"
    BY <1>3 DEF NextSide, Iterate
  <2>2. 4 * workgroup_size = slot + 1
    BY <1>1, <1>3
  <2>3. slot \in 0 .. 4 * workgroup_size - 1
    BY <1>1
  <2>4. PreparingPhase' /\ SlotInMesh'
    BY <2>1 DEF SlotInMesh, PreparingPhase
  <2>5. ASSUME NEW k, SidesDone(k)' PROVE k = slot + 1
    BY <1>1, <2>1, <2>2, <2>5 DEF SidesDone
  <2> QED
    BY <1>1, <2>3, <2>4, <2>5
<1> QED
  BY <1>2, <1>3

LEMMA MeshConnectM ==
  ASSUME IInv, CInv, MInv, NEW lucky \in Luck, MeshConnect(lucky)
  PROVE  MInv'
<1> DEFINE c == Conn(slot)
           l == xc_connect_by_task_id(Lists, c, TRUE, lucky)
           null == X_NULL_TASK \in {c.source_task, c.sink_task}
<1>1. /\ pc = "mesh" /\ x_application = "valid" /\ SideWanted(slot)
      /\ TypeOK /\ Shape /\ Indexed
  BY DEF MeshConnect, IInv, Shape, MeshPhases, CInv
<1>2. /\ IF null THEN errors' = TRUE
         ELSE /\ master' = l.master /\ index' = l.index
              /\ errors' = (errors \/ l.result = "X_ERROR")
      /\ NextSide \/ (null /\ pc' = "crashed" /\ UNCHANGED slot)
      /\ UNCHANGED <<app, shared, wraparound, history>>
  BY DEF MeshConnect, Conn, NextSide
<1>3. Grows
  BY MeshConnectC
<1>4. /\ UNCHANGED <<workgroup_rows, workgroup_columns>> /\ mesh' = mesh
      /\ UNCHANGED <<connection_list_offset, connection_list_length>>
  BY <1>2 DEF app, shared, history
<1> HIDE DEF l, null, c
<1>5. CASE null /\ pc' = "crashed"
  <2>1. errors' = TRUE
    BY <1>2, <1>5
  <2>2. SlotInMesh' /\ PreparingPhase' /\ SidesConnected'
    BY <1>5, <2>1 DEF SlotInMesh, PreparingPhase, SidesConnected
  <2> QED
    BY <1>1, <1>3, <1>4, <1>5, <2>2, MGrows
<1>6. CASE NextSide
  <2>1. /\ slot \in 0 .. 4 * workgroup_size - 1
        /\ PreparingPhase' /\ SlotInMesh'
        /\ workgroup_size \in Nat \ {0} /\ workgroup_size' = workgroup_size
        /\ \A k \in 0 .. 4 * workgroup_size : SidesDone(k)' => k = slot + 1
    BY <1>1, <1>2, <1>6, SideLoop DEF MInv
  <2>2. ASSUME mesh = "preparing", ~errors', NEW k \in 0 .. 4 * workgroup_size,
               SidesDone(k)'
        PROVE  Connected(k)'
    <3>1. ~null /\ ~errors /\ l.result # "X_ERROR"
      BY <1>2, <2>2
    <3>2. PICK j \in 0 .. 4 * workgroup_size - 1 : j = slot
      BY <2>1
    <3>3. k = j + 1
      BY <2>1, <2>2, <3>2
    <3>4. j \in 0 .. 4 * workgroup_size
      BY <2>1
    <3>5. Connected(j)
      BY <1>1, <2>2, <3>1, <3>2, <3>4 DEF MInv, SidesConnected, SidesDone
    <3>6. Adds(Conn(j))
      BY <1>2, <3>1, <3>2, ConnectAdds DEF l, c
    <3>7. SideWanted(j) /\ Real(Conn(j))
      BY <1>1, <3>1, <3>2 DEF null, Real, c
    <3> QED
      BY <1>1, <1>2, <3>3, <3>5, <3>6, <3>7, AddSide
  <2>3. mesh = "preparing" => SidesConnected'
    BY <2>1, <2>2 DEF SidesConnected
  <2> QED
    BY <1>1, <1>3, <1>4, <2>1, <2>3, MGrows
<1> QED
  BY <1>2, <1>5, <1>6

LEMMA MeshSkipM ==
  ASSUME IInv, CInv, MInv, MeshSkip
  PROVE  MInv'
<1>1. /\ pc = "mesh" /\ x_application = "valid" /\ ~SideWanted(slot)
      /\ TypeOK /\ Shape /\ Indexed
  BY DEF MeshSkip, IInv, Shape, MeshPhases, CInv
<1>2. /\ errors' = errors \/ errors' = TRUE
      /\ NextSide
      /\ UNCHANGED <<app, shared, lists, wraparound, history>>
  BY DEF MeshSkip, NextSide
<1>3. Grows /\ master' = master
  BY <1>1, <1>2, SameLists DEF lists
<1>4. /\ UNCHANGED <<workgroup_rows, workgroup_columns>> /\ mesh' = mesh
      /\ UNCHANGED <<connection_list_offset, connection_list_length>>
  BY <1>2 DEF app, shared, history
<1>5. /\ slot \in 0 .. 4 * workgroup_size - 1
      /\ PreparingPhase' /\ SlotInMesh'
      /\ workgroup_size \in Nat \ {0} /\ workgroup_size' = workgroup_size
      /\ \A k \in 0 .. 4 * workgroup_size : SidesDone(k)' => k = slot + 1
  BY <1>1, <1>2, SideLoop DEF MInv
<1>6. ASSUME mesh = "preparing", ~errors', NEW k \in 0 .. 4 * workgroup_size,
             SidesDone(k)'
      PROVE  Connected(k)'
  <2>1. ~errors
    BY <1>2, <1>6
  <2>2. PICK j \in 0 .. 4 * workgroup_size - 1 : j = slot
    BY <1>5
  <2>3. k = j + 1
    BY <1>5, <1>6, <2>2
  <2>4. j \in 0 .. 4 * workgroup_size
    BY <1>5
  <2>5. Connected(j) /\ ~SideWanted(j)
    BY <1>1, <1>6, <2>1, <2>2, <2>4 DEF MInv, SidesConnected, SidesDone
  <2> QED
    BY <1>1, <1>2, <1>3, <2>3, <2>5, AddSide
<1>7. mesh = "preparing" => SidesConnected'
  BY <1>5, <1>6 DEF SidesConnected
<1> QED
  BY <1>1, <1>3, <1>4, <1>5, <1>7, MGrows


(* The call stores the name and enters the loops. With empty lists it is    *)
(* the mesh that they will begin with.                                      *)
LEMMA PrepareM ==
  ASSUME IInv, CInv, MInv, NEW wrap \in BOOLEAN, x_prepare_mesh_application(wrap)
  PROVE  MInv'
<1>1. /\ pc = "idle" /\ pc' = "mesh" /\ slot' = 0 /\ x_application = "valid"
      /\ mesh' = IF master = <<>> THEN "preparing" ELSE mesh
      /\ UNCHANGED <<app, shared, lists>>
  BY DEF x_prepare_mesh_application, Idle
<1>2. TypeOK /\ Shape /\ Indexed
  BY DEF IInv, CInv
<1>3. Grows /\ master' = master
  BY <1>1, <1>2, SameLists DEF lists
<1>4. workgroup_size \in Nat \ {0} /\ workgroup_size' = workgroup_size
  BY <1>1, <1>2, SlotsFacts, SlotsUnchanged
<1>5. SlotInMesh'
  BY <1>1, <1>4 DEF SlotInMesh
<1>6. mesh # "preparing"
  BY <1>1 DEF MInv, PreparingPhase
<1>7. CASE master # <<>>
  <2>1. mesh' = mesh
    BY <1>1, <1>7
  <2> QED
    BY <1>1, <1>2, <1>3, <1>5, <1>6, <2>1, MGrows DEF app, shared
<1>8. CASE master = <<>>
  <2>1. /\ mesh' = "preparing" /\ connection_list_offset = 0
        /\ connection_list_offset' = 0 /\ PreparingPhase'
    BY <1>1, <1>8 DEF MInv, shared, PreparingPhase
  <2>2. Connected(0)'
    <3>1. 0 .. 0 - 1 = {} /\ 1 .. 0 = {}
      OBVIOUS
    <3>2. Len(<<>>) = 0
      OBVIOUS
    <3>3. master' = <<>>
      BY <1>3, <1>8
    <3>4. Made(0)' = {}
      BY <3>1 DEF Made
    <3>5. Entries(master') = {} /\ Distinct(master', Len(master'))
      BY <3>1, <3>2, <3>3 DEF Entries, Distinct
    <3> QED
      BY <3>1, <3>4, <3>5 DEF Connected
  <2>3. SidesConnected'
    <3>1. \A k : SidesDone(k)' => k = 0
      BY <1>1 DEF SidesDone
    <3> QED
      BY <2>2, <3>1 DEF SidesConnected
  <2>4. ~Meshed'
    BY <2>1 DEF Meshed
  <2> QED
    BY <1>5, <2>1, <2>3, <2>4 DEF MInv
<1> QED
  BY <1>7, <1>8

(* The call returns: without an error every side has been connected.        *)
LEMMA MeshResultM ==
  ASSUME IInv, CInv, MInv, MeshResult
  PROVE  MInv'
<1>1. /\ pc = "mesh result" /\ pc' = "idle"
      /\ mesh' = IF mesh # "preparing" THEN mesh
                 ELSE IF errors THEN "none"
                 ELSE IF wraparound THEN "wraparound" ELSE "plain"
      /\ UNCHANGED <<app, shared, lists>>
  BY DEF MeshResult
<1>2. TypeOK /\ Shape /\ Indexed /\ x_application = "valid"
  BY <1>1 DEF IInv, CInv, Shape, MeshPhases
<1>3. Grows /\ master' = master
  BY <1>1, <1>2, SameLists DEF lists
<1>4. SlotInMesh'
  BY <1>1 DEF SlotInMesh
<1>5. CASE mesh # "preparing"
  <2>1. mesh' = mesh
    BY <1>1, <1>5
  <2> QED
    BY <1>1, <1>2, <1>3, <1>4, <1>5, <2>1, MGrows DEF app, shared
<1>6. CASE mesh = "preparing" /\ errors
  <2>1. mesh' = "none" /\ connection_list_offset' = 0
    BY <1>1, <1>6 DEF MInv, shared
  <2> QED
    BY <1>4, <2>1 DEF MInv, Meshed
<1>7. CASE mesh = "preparing" /\ ~errors
  <2>1. /\ mesh' \in {"plain", "wraparound"}
        /\ (mesh' = "wraparound") = wraparound
        /\ connection_list_offset' = 0
    BY <1>1, <1>2, <1>7 DEF MInv, shared, TypeOK, FlagsType
  <2>2. PICK k : k = 4 * workgroup_size
    OBVIOUS
  <2>3. k \in 0 .. 4 * workgroup_size
    <3>1. workgroup_size \in Nat
      BY <1>2, SlotsFacts
    <3> QED
      BY <2>2, <3>1
  <2>4. Connected(k)
    BY <1>1, <1>7, <2>2, <2>3 DEF MInv, SidesConnected, SidesDone
  <2>5. Entries(master) = MeshReference(wraparound)
    BY <1>2, <2>2, <2>4, MadeAll DEF Connected
  <2>6. Len(master) \in Nat
    BY <1>2 DEF TypeOK, ListsType
  <2>7. Distinct(master, Len(master)) /\ Cardinality(Entries(master)) = Len(master)
    BY <2>4, <2>6, DistinctCount DEF Connected
  <2>8. Ref' = MeshReference(wraparound)
    <3>1. CASE wraparound
      <4>1. mesh' = "wraparound" /\ wraparound = TRUE
        BY <2>1, <3>1
      <4>2. \A t, u, x, y : Adjacent(t, u, x, y, mesh = "wraparound")' <=>
                            Adjacent(t, u, x, y, TRUE)
        BY <1>1, <4>1 DEF Adjacent, app
      <4>3. Members' = Members
        BY <1>1 DEF Members, workgroup_size, app
      <4>4. Ref' = MeshReference(TRUE)
        BY <4>2, <4>3 DEF Ref, MeshReference
      <4> QED
        BY <4>1, <4>4
    <3>2. CASE ~wraparound
      <4>1. mesh' = "plain" /\ wraparound = FALSE
        BY <1>2, <2>1, <3>2 DEF TypeOK, FlagsType
      <4>2. \A t, u, x, y : Adjacent(t, u, x, y, mesh = "wraparound")' <=>
                            Adjacent(t, u, x, y, FALSE)
        BY <1>1, <4>1 DEF Adjacent, app
      <4>3. Members' = Members
        BY <1>1 DEF Members, workgroup_size, app
      <4>4. Ref' = MeshReference(FALSE)
        BY <4>2, <4>3 DEF Ref, MeshReference
      <4> QED
        BY <4>1, <4>4
    <3> QED
      BY <3>1, <3>2
  <2>9. Ref' = Entries(master)
    BY <2>5, <2>8
  <2>10. MeshComplete'
    <3>1. Len(master') >= Cardinality(Ref')
      BY <1>3, <2>6, <2>7, <2>9
    <3>2. {master'[i] : i \in 1 .. Cardinality(Ref')} = Ref'
      BY <1>3, <2>7, <2>9 DEF Entries
    <3> QED
      BY <3>1, <3>2 DEF MeshComplete, Ref
  <2> QED
    BY <1>3, <1>4, <2>1, <2>6, <2>7, <2>9, <2>10 DEF MInv
<1> QED
  BY <1>5, <1>6, <1>7


(* The first launch with connections copies the list, which the mesh comes  *)
(* first in.                                                                *)
LEMMA LaunchM ==
  ASSUME IInv, CInv, MInv, x_launch_application
  PROVE  MInv'
<1>1. /\ pc = "idle" /\ UNCHANGED <<app, lists, history>>
      /\ TypeOK /\ Shape /\ Indexed
  BY DEF x_launch_application, Idle, IInv, CInv
<1>2. Grows /\ UNCHANGED <<master, index>> /\ mesh' = mesh /\ ~PreparingPhase
  BY <1>1, SameLists DEF lists, history, PreparingPhase
<1>3. CASE connection_list_offset # 0 \/ master = <<>>
  <2>1. pc' = "count" /\ UNCHANGED shared
    BY <1>3 DEF x_launch_application
  <2> QED
    BY <1>1, <1>2, <2>1, MOutside DEF app, shared
<1>4. CASE ~(connection_list_offset # 0 \/ master = <<>>)
  <2>1. pc' = "indexes" /\ connection_list_length' = Len(master)
    BY <1>4 DEF x_launch_application
  <2>2. /\ Ref' = Ref /\ (Meshed' <=> Meshed)
        /\ UNCHANGED <<workgroup_rows, workgroup_columns>>
    BY <1>1, <1>2 DEF Ref, MeshReference, Adjacent, Members, workgroup_size, app,
                      Meshed
  <2>3. mesh # "preparing" /\ SlotInMesh'
    BY <1>2, <2>1 DEF MInv, SlotInMesh
  <2>4. ASSUME Meshed
        PROVE  /\ MeshComplete' /\ Cardinality(Ref) \in Nat
               /\ Distinct(master, Cardinality(Ref))
               /\ Cardinality(Ref) <= Len(master)
    <3>1. /\ Cardinality(Ref) \in Nat /\ Distinct(master, Cardinality(Ref))
          /\ MeshComplete
      BY <2>4 DEF MInv
    <3>2. /\ Len(master) >= Cardinality(Ref)
          /\ {master[i] : i \in 1 .. Cardinality(Ref)} = Ref
      BY <2>4, <3>1 DEF MeshComplete, Meshed, Ref
    <3>3. MeshComplete'
      <4>1. /\ Len(master') >= Cardinality(Ref')
            /\ {master'[i] : i \in 1 .. Cardinality(Ref')} = Ref'
        BY <1>2, <2>2, <3>2
      <4> QED
        BY <4>1 DEF MeshComplete, Ref
    <3>4. Len(master) \in Nat
      BY <1>1 DEF TypeOK, ListsType
    <3>5. Cardinality(Ref) <= Len(master)
      BY <3>1, <3>2, <3>4
    <3> QED
      BY <3>1, <3>3, <3>5
  <2> QED
    BY <1>2, <1>4, <2>1, <2>2, <2>3, <2>4 DEF MInv
<1> QED
  BY <1>3, <1>4

(* The application is initialised before anything is connected.             *)
LEMMA InitializeM ==
  ASSUME IInv, SInv, CInv, MInv, NEW w \in Workgroups, NEW named \in BOOLEAN,
         x_initialize_application(w, named)
  PROVE  MInv'
<1>1. /\ pc = "idle" /\ pc' = pc /\ ~mapped /\ UNCHANGED shared /\ mesh' = mesh
  BY DEF x_initialize_application, Idle, history
<1>2. x_application = "null"
  BY <1>1 DEF IInv, TypeOK, AppType, SInv
<1>3. connection_list_offset' = 0 /\ mesh' = "none"
  BY <1>1, <1>2 DEF CInv, shared
<1> QED
  BY <1>1, <1>3 DEF MInv, Meshed, SlotInMesh

(* Every step keeps a mesh at the beginning of the lists.                   *)
LEMMA MeshStep == IInv /\ SInv /\ CInv /\ MInv /\ [Next]_vars => MInv'
<1> SUFFICES ASSUME IInv, SInv, CInv, MInv, [Next]_vars PROVE MInv'
  OBVIOUS
<1>0. TypeOK /\ Shape /\ Indexed
  BY DEF IInv, CInv
<1>1. ASSUME NEW w \in Workgroups, NEW named \in BOOLEAN,
             x_initialize_application(w, named)
      PROVE  MInv'
  BY <1>1, InitializeM
<1>2. ASSUME UNCHANGED lists, mesh' = mesh, UNCHANGED shared,
             UNCHANGED <<workgroup_rows, workgroup_columns>>,
             ~PreparingPhase, pc' # "mesh"
      PROVE  MInv'
  <2>1. Grows
    BY <1>0, <1>2, SameLists DEF lists
  <2> QED
    BY <1>0, <1>2, <2>1, MOutside DEF shared
<1>3. CASE InitializeFails \/ x_finalize_application
  <2>1. /\ pc = "idle" /\ pc' \in {"idle", "done"}
        /\ UNCHANGED <<workgroup_rows, workgroup_columns, shared, lists, history>>
    BY <1>3 DEF InitializeFails, x_finalize_application, Idle
  <2> QED
    BY <1>2, <2>1 DEF PreparingPhase, history
<1>4. ASSUME NEW a \in Tasks, NEW b \in Tasks, NEW ak \in Keys, NEW bk \in Keys,
             NEW lucky \in Luck, x_connect_tasks(a, ak, b, bk, lucky)
      PROVE  MInv'
  <2>1. Grows /\ pc = "idle" /\ pc' \in {"idle", "crashed"}
    BY <1>4, ConnectC
  <2>2. UNCHANGED <<app, shared, mesh>>
    BY <1>4 DEF x_connect_tasks
  <2>3. ~PreparingPhase /\ pc' # "mesh"
    BY <2>1 DEF PreparingPhase
  <2> QED
    BY <1>0, <2>1, <2>2, <2>3, MOutside DEF app, shared
<1>5. ASSUME NEW wrap \in BOOLEAN, x_prepare_mesh_application(wrap)
      PROVE  MInv'
  BY <1>5, PrepareM
<1>6. ASSUME NEW lucky \in Luck, MeshConnect(lucky)
      PROVE  MInv'
  BY <1>6, MeshConnectM
<1>7. CASE MeshSkip
  BY <1>7, MeshSkipM
<1>8. CASE MeshResult
  BY <1>8, MeshResultM
<1>9. CASE x_launch_application
  BY <1>9, LaunchM
<1>10. CASE SetupIndex
  <2>1. /\ pc = "indexes" /\ pc' \in {"indexes", "count"}
        /\ UNCHANGED <<app, lists, history>>
        /\ UNCHANGED <<connection_list_offset, connection_list_length>>
    BY <1>10 DEF SetupIndex, Iterate, shared
  <2>2. Grows
    BY <1>0, <2>1, SameLists DEF lists
  <2>3. ~PreparingPhase /\ pc' # "mesh"
    BY <2>1 DEF PreparingPhase
  <2> QED
    BY <1>0, <2>1, <2>2, <2>3, MOutside DEF app, history
<1>11. CASE CountMember \/ LoadGroup \/ LoadMember \/ StartGroup \/ StartMember
  <2>1. /\ pc \in {"count", "load", "start"} /\ pc' \in Counting
        /\ UNCHANGED <<app, shared, lists, history>>
    BY <1>11 DEF CountMember, LoadGroup, LoadMember, StartGroup, StartMember,
                 Iterate, AfterLoad, Counting
  <2> QED
    BY <1>2, <2>1 DEF PreparingPhase, Counting, app, history
<1>12. CASE LaunchResult
  <2>1. /\ pc = "return" /\ pc' = "idle" /\ UNCHANGED <<app, shared, lists, mesh>>
    BY <1>12 DEF LaunchResult
  <2> QED
    BY <1>2, <2>1 DEF PreparingPhase, app
<1>13. ASSUME NEW t \in AllSlots, x_launch_task(t) \/ TaskStep(t)
       PROVE  MInv'
  BY <1>0, <1>13, MSame DEF x_launch_task, TaskStep, app, shared, lists, launch,
                            history
<1>14. CASE UNCHANGED vars
  BY <1>0, <1>14, MSame DEF vars, app, shared, lists, launch, history
<1> QED
  BY <1>1, <1>3, <1>4, <1>5, <1>6, <1>7, <1>8, <1>9, <1>10, <1>11, <1>12, <1>13,
     <1>14
  DEF Next, Host

LEMMA MeshGives == MInv => MeshComplete
BY DEF MInv, Meshed, MeshComplete

(* Whenever x_prepare_mesh_application has returned X_SUCCESS the list has  *)
(* the mesh at its beginning, every connection once and with the right      *)
(* keys: for every shape of the workgroup, with and without wraparound, and *)
(* whatever is connected afterwards.                                        *)
THEOREM MeshAlwaysComplete == Spec => []MeshComplete
<1>1. Init => LInv /\ SInv
  BY DEF Init, LInv, SInv
<1>2. Init => MInv
  BY DEF Init, MInv, SlotInMesh, Meshed
<1> QED
  BY <1>1, <1>2, ListsInit, ListsStep, MeshStep, MeshGives, LaunchStep,
     SuccessStep, InvHolds, PTL
  DEF Spec


-----------------------------------------------------------------------------
(***************************************************************************)
(* What neighbours find in shared memory.                                  *)
(***************************************************************************)
(* Every non-empty set of natural numbers has a least element: induction in *)
(* the form the provers can use.                                            *)
LEMMA LeastNumber ==
  ASSUME NEW T \in SUBSET Nat, T # {}
  PROVE  \E x \in T : \A y \in T : x <= y
<1> DEFINE R == {ss \in Nat \X Nat : ss[1] < ss[2]}
<1>1. IsWellFoundedOn(R, Nat)
  BY NatLessThanWellFounded DEF OpToRel
<1>2. PICK x \in T : \A y \in T : ~ (<<y, x>> \in R)
  BY <1>1, WFMin
<1>3. \A y \in T : ~(y < x)
  BY <1>2
<1> QED
  BY <1>3

(* Different places have different neighbours on the same side.             *)
LEMMA AroundOnce ==
  ASSUME NEW R \in Nat \ {0}, NEW r \in 0 .. R - 1, NEW s \in 0 .. R - 1,
         NEW d \in {-1, 0, 1}, (r + d + R) % R = (s + d + R) % R
  PROVE  r = s
<1>1. ASSUME NEW q \in 0 .. R - 1
      PROVE  (q + d + R) % R = IF q + d = -1 THEN R - 1
                               ELSE IF q + d = R THEN 0 ELSE q + d
  <2>1. CASE q + d = -1
    BY <2>1, Z3
  <2>2. CASE q + d = R
    BY <2>2, Z3
  <2>3. CASE q + d # -1 /\ q + d # R
    <3>1. q + d >= 0 /\ q + d < R
      BY <2>3
    <3>2. (q + d + R) % R = q + d
      BY <3>1, Around
    <3> QED
      BY <2>3, <3>2
  <2> QED
    BY <2>1, <2>2, <2>3
<1> DEFINE f == (r + d + R) % R
           g == (s + d + R) % R
<1>2. /\ f = IF r + d = -1 THEN R - 1 ELSE IF r + d = R THEN 0 ELSE r + d
      /\ g = IF s + d = -1 THEN R - 1 ELSE IF s + d = R THEN 0 ELSE s + d
      /\ f = g
  BY <1>1
<1> HIDE DEF f, g
<1> QED
  BY <1>2

LEMMA NeighbourOnce ==
  ASSUME TypeOK, Shape, x_application = "valid", NEW t \in Members,
         NEW u \in Members, NEW d \in DirectionSet,
         Neighbour(t, d) = Neighbour(u, d)
  PROVE  t = u
<1> DEFINE R == workgroup_rows
           C == workgroup_columns
           wr(n) == ((n \div C) + d.down + R) % R
           wc(n) == ((n % C) + d.right + C) % C
<1>1. /\ R \in Nat \ {0} /\ C \in Nat \ {0}
      /\ t \in 0 .. R * C - 1 /\ u \in 0 .. R * C - 1
  BY MeshSize
<1>2. d.down \in {-1, 0, 1} /\ d.right \in {-1, 0, 1}
  BY DirectionFacts
<1> HIDE DEF R, C
<1>3. \A n \in {t, u} : /\ n \div C \in 0 .. R - 1 /\ n % C \in 0 .. C - 1
                        /\ n = (n \div C) * C + (n % C)
  BY <1>1, Place
<1>4. wr(t) * C + wc(t) = wr(u) * C + wc(u)
  BY DEF Neighbour, R, C
<1>5. \A n \in {t, u} : wr(n) \in 0 .. R - 1 /\ wc(n) \in 0 .. C - 1
  BY <1>1, <1>2, <1>3, Around
<1>6. wr(t) = wr(u) /\ wc(t) = wc(u)
  <2> HIDE DEF wr, wc
  <2>1. \A n \in {t, u} : /\ (wr(n) * C + wc(n)) \div C = wr(n)
                          /\ (wr(n) * C + wc(n)) % C = wc(n)
    <3>1. \A a \in 0 .. R - 1, b \in 0 .. C - 1 :
            (a * C + b) \div C = a /\ (a * C + b) % C = b
      <4>1. \A a \in 0 .. R - 1 : a \in Int
        OBVIOUS
      <4> QED
        BY <1>1, <4>1, DivMod
    <3> QED
      BY <1>5, <3>1
  <2> QED
    BY <1>4, <2>1
<1>7. t \div C = u \div C /\ t % C = u % C
  BY <1>1, <1>2, <1>3, <1>6, AroundOnce
<1> QED
  BY <1>3, <1>7

(* A connection of the mesh is known by either end and its key, and no key  *)
(* to send with is a key to receive with.                                   *)
LEMMA RefEnds ==
  ASSUME TypeOK, Shape, x_application = "valid", NEW wrap \in BOOLEAN,
         NEW a \in MeshReference(wrap), NEW b \in MeshReference(wrap)
  PROVE  /\ a.source_task \in Members /\ a.sink_task \in Members
         /\ a.source_key # b.sink_key
         /\ a.source_task = b.source_task /\ a.source_key = b.source_key => a = b
         /\ a.sink_task = b.sink_task /\ a.sink_key = b.sink_key => a = b
<1>1. PICK t \in Members, d \in DirectionSet : a = Edge(t, Neighbour(t, d), d)
  BY RefEdges
<1>2. PICK u \in Members, e \in DirectionSet : b = Edge(u, Neighbour(u, e), e)
  BY RefEdges
<1>3. Neighbour(t, d) \in Members
  BY NeighbourFacts
<1>4. /\ a.source_task = t /\ a.source_key = d.to
      /\ a.sink_task = Neighbour(t, d) /\ a.sink_key = d.from
      /\ b.source_task = u /\ b.source_key = e.to
      /\ b.sink_task = Neighbour(u, e) /\ b.sink_key = e.from
  BY <1>1, <1>2, EdgeFields
<1>5. d.to # e.from /\ (d.to = e.to \/ d.from = e.from => d = e)
  BY DirectionFacts
<1>6. a.sink_task = b.sink_task /\ a.sink_key = b.sink_key => t = u /\ d = e
  <2> SUFFICES ASSUME a.sink_task = b.sink_task, a.sink_key = b.sink_key
               PROVE  t = u /\ d = e
    OBVIOUS
  <2>1. d = e
    BY <1>4, <1>5
  <2>2. Neighbour(t, d) = Neighbour(u, d)
    BY <1>4, <2>1
  <2> QED
    BY <2>1, <2>2, NeighbourOnce
<1> QED
  BY <1>1, <1>2, <1>3, <1>4, <1>5, <1>6

(* x_get_endpoint finds entry p when no entry before it has the key.        *)
LEMMA FirstFound ==
  ASSUME NEW t, NEW key, NEW p, SharedIndex(t) \in Seq(Nat),
         Sorted(SharedIndex(t)), p \in Entries(SharedIndex(t)),
         HasKey(t, p, key),
         \A e \in Entries(SharedIndex(t)) : e <= p /\ HasKey(t, e, key) => e = p
  PROVE  x_get_endpoint(t, key) = p
<1> DEFINE ix == SharedIndex(t)
           found == {i \in 1 .. Len(ix) : HasKey(t, ix[i], key)}
           first == CHOOSE i \in found : \A j \in found : i <= j
<1>1. /\ ix \in Seq(Nat) /\ Len(ix) \in Nat
      /\ \A i \in 1 .. Len(ix) : ix[i] \in Nat /\ ix[i] \in Entries(ix)
  BY DEF Entries
<1>2. PICK k \in 1 .. Len(ix) : ix[k] = p
  BY DEF Entries
<1>3. k \in found /\ found \in SUBSET Nat
  BY <1>1, <1>2
<1>4. x_get_endpoint(t, key) = ix[first]
  BY <1>3 DEF x_get_endpoint
<1>5. first \in found /\ first <= k
  <2> HIDE DEF found
  <2>1. \E i \in found : \A j \in found : i <= j
    BY <1>3, LeastNumber
  <2> QED
    BY <1>3, <2>1
<1> HIDE DEF first
<1>6. first \in 1 .. Len(ix) /\ HasKey(t, ix[first], key)
  BY <1>5
<1>7. ix[first] <= ix[k]
  <2>1. CASE first < k
    BY <1>2, <1>6, <2>1 DEF Sorted
  <2>2. CASE ~(first < k)
    <3>1. first = k
      BY <1>2, <1>5, <1>6, <2>2
    <3> QED
      BY <1>1, <1>2, <3>1
  <2> QED
    BY <2>1, <2>2
<1> QED
  BY <1>1, <1>2, <1>4, <1>6, <1>7


(* The index of a task in shared memory.                                    *)
LEMMA SharedFacts ==
  ASSUME TypeOK, Indexed, NEW t \in AllSlots, Listed(t)
  PROVE  /\ SharedIndex(t) \in Seq(Nat) /\ Sorted(SharedIndex(t))
         /\ Entries(SharedIndex(t)) = Sources(master, connection_list_length, t)
                                 \cup Sinks(master, connection_list_length, t)
<1> DEFINE k == num_connections[t]
           ix == SharedIndex(t)
<1>1. index[t] \in Seq(Nat) /\ k \in Nat /\ k <= Len(index[t])
  BY DEF TypeOK, ListsType, SharedType, Listed
<1>2. /\ ix \in Seq(Nat) /\ Len(ix) = k
      /\ \A i \in 1 .. k : ix[i] = index[t][i] /\ i \in 1 .. Len(index[t])
  BY <1>1 DEF SharedIndex
<1>3. Sorted(index[t])
  BY DEF Indexed
<1> HIDE DEF ix, k
<1>4. Sorted(ix)
  BY <1>2, <1>3 DEF Sorted
<1>5. {index[t][i] : i \in 1 .. k} = Sources(master, connection_list_length, t)
                                \cup Sinks(master, connection_list_length, t)
  BY DEF Listed, Describes, k
<1>6. Entries(ix) = {index[t][i] : i \in 1 .. k}
  BY <1>2 DEF Entries
<1> QED
  BY <1>2, <1>4, <1>5, <1>6 DEF ix

(* The end of connection c that is at place p of the mesh.                  *)
LEMMA EndFound ==
  ASSUME IInv, CInv, NEW wrap \in BOOLEAN, x_application = "valid",
         NEW t \in AllSlots, Listed(t), NEW n \in Nat,
         n <= connection_list_length, NEW p \in 1 .. n,
         Distinct(master, n), {master[i] : i \in 1 .. n} = MeshReference(wrap),
         NEW key,
         \/ /\ master[p].source_task = t /\ master[p].source_key = key
         \/ /\ master[p].source_task # t
            /\ master[p].sink_task = t /\ master[p].sink_key = key
  PROVE  x_get_endpoint(t, key) = p
<1>1. TypeOK /\ Shape /\ Indexed /\ connection_list_length \in Nat
  BY DEF IInv, CInv, TypeOK, SharedType
<1>2. /\ SharedIndex(t) \in Seq(Nat) /\ Sorted(SharedIndex(t))
      /\ Entries(SharedIndex(t)) = Sources(master, connection_list_length, t)
                              \cup Sinks(master, connection_list_length, t)
  BY <1>1, SharedFacts
<1>3. p \in Entries(SharedIndex(t))
  <2>1. p \in 1 .. connection_list_length
    BY <1>1
  <2> QED
    BY <1>2, <2>1 DEF Sources, Sinks
<1>4. HasKey(t, p, key)
  BY DEF HasKey, Mode
<1>5. ASSUME NEW e \in Entries(SharedIndex(t)), e <= p, HasKey(t, e, key)
      PROVE  e = p
  <2>1. e \in 1 .. n
    <3>1. e \in 1 .. connection_list_length
      BY <1>2 DEF Sources, Sinks
    <3> QED
      BY <1>1, <1>5, <3>1
  <2>2. master[e] \in MeshReference(wrap) /\ master[p] \in MeshReference(wrap)
    BY <2>1
  <2> DEFINE a == master[p]
             b == master[e]
  <2>3. /\ a.source_key # b.sink_key
        /\ a.source_task = b.source_task /\ a.source_key = b.source_key => a = b
        /\ a.sink_task = b.sink_task /\ a.sink_key = b.sink_key => a = b
    BY <1>1, <2>2, RefEnds
  <2>4. b.source_key # a.sink_key
    BY <1>1, <2>2, RefEnds
  <2>5. \/ b.source_task = t /\ b.source_key = key
        \/ b.sink_task = t /\ b.sink_key = key
    BY <1>5 DEF HasKey, Mode
  <2>6. a = b
    BY <2>3, <2>4, <2>5
  <2> QED
    BY <2>1, <2>6 DEF Distinct
<1> QED
  BY <1>2, <1>3, <1>4, <1>5, FirstFound

(* Neighbours in the mesh find each other.                                  *)
LEMMA NeighboursGive == IInv /\ CInv /\ MInv => NeighboursMeet
<1> SUFFICES ASSUME IInv, CInv, MInv, pc \in {"load", "start"}, Meshed,
                    NEW c \in Ref, c.source_task # c.sink_task
             PROVE  LET n == x_get_endpoint(c.source_task, c.source_key) IN
                    /\ n \in 1 .. connection_list_length
                    /\ n = x_get_endpoint(c.sink_task, c.sink_key)
                    /\ master[n].source_task = c.source_task
                    /\ master[n].sink_task = c.sink_task
  BY DEF NeighboursMeet, Meshed, Ref
<1>1. x_application = "valid" /\ TypeOK /\ Shape /\ ~exhausted
  BY DEF IInv, Shape, LaunchPhases, CInv
<1>2. PICK wrap \in BOOLEAN : Ref = MeshReference(wrap)
  BY DEF Ref
<1>3. \A t \in Slots : Listed(t) /\ t \in AllSlots
  BY <1>1, SlotsFacts DEF CInv
<1>4. PICK n : n = Cardinality(Ref)
  OBVIOUS
<1>5. /\ n \in Nat /\ Distinct(master, n) /\ Len(master) >= n
      /\ {master[i] : i \in 1 .. n} = Ref
  BY <1>4 DEF MInv, Meshed, MeshComplete, Ref
<1>6. PICK p \in 1 .. n : master[p] = c
  BY <1>5
<1>7. master # <<>>
  <2>1. Len(master) \in Nat
    BY <1>1 DEF TypeOK, ListsType
  <2>2. Len(master) # 0
    BY <1>5, <1>6, <2>1
  <2>3. Len(<<>>) = 0
    OBVIOUS
  <2> QED
    BY <2>2, <2>3
<1>8. connection_list_offset # 0
  BY <1>7 DEF CInv
<1>9. n <= connection_list_length
  BY <1>4, <1>8 DEF MInv
<1>10. c.source_task \in Slots /\ c.sink_task \in Slots
  <2>1. c.source_task \in Members /\ c.sink_task \in Members
    BY <1>1, <1>2, RefEnds
  <2>2. Members \subseteq Slots
    BY <1>1, SlotsFacts
  <2> QED
    BY <2>1, <2>2
<1>11. {master[i] : i \in 1 .. n} = MeshReference(wrap)
  BY <1>2, <1>5
<1>12. x_get_endpoint(c.source_task, c.source_key) = p
  BY <1>1, <1>3, <1>5, <1>6, <1>9, <1>10, <1>11, EndFound
<1>13. x_get_endpoint(c.sink_task, c.sink_key) = p
  BY <1>1, <1>3, <1>5, <1>6, <1>9, <1>10, <1>11, EndFound
<1>14. p \in 1 .. connection_list_length
  BY <1>1, <1>5, <1>9 DEF TypeOK, SharedType
<1> QED
  BY <1>6, <1>12, <1>13, <1>14

(* When a launch loads and starts the tasks of a mesh, any two neighbours   *)
(* that ask for their opposite keys get the two ends of one connection: for *)
(* every workgroup, with and without wraparound, after a second preparation *)
(* that failed half way, and with whatever other connections were added.    *)
THEOREM NeighboursAlwaysMeet == Spec => []NeighboursMeet
<1>1. Init => LInv /\ SInv
  BY DEF Init, LInv, SInv
<1>2. Init => MInv
  BY DEF Init, MInv, SlotInMesh, Meshed
<1> QED
  BY <1>1, <1>2, ListsInit, ListsStep, MeshStep, NeighboursGive, LaunchStep,
     SuccessStep, InvHolds, PTL
  DEF Spec
=============================================================================
