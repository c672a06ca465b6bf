---------------------------- MODULE XTaskProofs -----------------------------
(***************************************************************************)
(* Proofs about XTask: the start-up of any number of tasks with any        *)
(* connections between them, in whatever order the cores start, and the    *)
(* narrowing of the result of task_main to 16 bits.                        *)
(***************************************************************************)
EXTENDS XTask, SequenceTheorems, WellFoundedInduction, TLAPS

-----------------------------------------------------------------------------
(* The indexes of the tasks.                                                *)

(* Every non-empty set of natural numbers has a least element: induction in *)
(* the form the provers can use.                                            *)
LEMMA LeastNumber ==
  ASSUME NEW T \in SUBSET Nat, T # {}
  PROVE  \E x \in T : \A y \in T : x <= y
<1> DEFINE R == {ss \in Nat \X Nat : ss[1] < ss[2]}
<1>1. IsWellFoundedOn(R, Nat)
  BY NatLessThanWellFounded DEF OpToRel
<1>2. PICK x \in T : \A y \in T : ~ (<<y, x>> \in R)
  BY <1>1, WFMin
<1>3. \A y \in T : ~(y < x)
  BY <1>2
<1>4. \A y \in T : x <= y
  BY <1>3
<1> QED
  BY <1>4

(* An index with the entries for connection n added, and what it means for  *)
(* a function to be the one Index defines, up to connection m.              *)
With(s, links, t, n) ==
    s \o (IF links[n].source_task = t THEN <<n>> ELSE <<>>)
      \o (IF links[n].sink_task = t THEN <<n>> ELSE <<>>)
IsIndexUpTo(g, links, t, m) ==
    g = [n \in 0 .. m |->
           IF n = 0 THEN <<>> ELSE With(g[n - 1], links, t, n)]

(* The recursion in Index is well defined.                                  *)
LEMMA IndexExists ==
  ASSUME NEW links, NEW t, NEW m \in Nat
  PROVE  \E g : IsIndexUpTo(g, links, t, m)
<1> DEFINE T == {k \in Nat : ~\E g : IsIndexUpTo(g, links, t, k)}
<1>1. T = {}
  <2> SUFFICES ASSUME T # {}
               PROVE  FALSE
    OBVIOUS
  <2>1. PICK k \in T : \A y \in T : k <= y
    BY LeastNumber
  <2>2. CASE k = 0
    <3>1. IsIndexUpTo([n \in 0 .. 0 |-> <<>>], links, t, 0)
      BY DEF IsIndexUpTo
    <3> QED
      BY <2>1, <2>2, <3>1
  <2>3. CASE k # 0
    <3>1. k - 1 \in Nat /\ k - 1 \notin T
      BY <2>1, <2>3
    <3>2. PICK g : IsIndexUpTo(g, links, t, k - 1)
      BY <3>1
    <3> DEFINE final == With(g[k - 1], links, t, k)
    <3> HIDE DEF final
    <3> DEFINE h == [n \in 0 .. k |-> IF n = k THEN final ELSE g[n]]
    <3>3. \A n \in 0 .. k - 1 : h[n] = g[n]
      BY <2>1
    <3>4. h[k] = final
      BY <2>1
    <3>5. h = [n \in 0 .. k |-> IF n = 0 THEN <<>> ELSE With(h[n - 1], links, t, n)]
      <4> SUFFICES ASSUME NEW n \in 0 .. k
                   PROVE  h[n] = IF n = 0 THEN <<>> ELSE With(h[n - 1], links, t, n)
        BY Zenon
      <4> HIDE DEF h
      <4>1. CASE n = k
        <5>1. k - 1 \in 0 .. k - 1
          BY <2>1, <2>3
        <5>2. h[k - 1] = g[k - 1]
          BY <3>3, <5>1
        <5> QED
          BY <2>3, <3>4, <4>1, <5>2 DEF final
      <4>2. CASE n # k
        <5>1. n \in 0 .. k - 1 /\ (n # 0 => n - 1 \in 0 .. k - 1)
          BY <2>1, <4>2
        <5>2. g[n] = IF n = 0 THEN <<>> ELSE With(g[n - 1], links, t, n)
          BY <3>2, <5>1, Zenon DEF IsIndexUpTo
        <5>3. h[n] = g[n] /\ (n # 0 => h[n - 1] = g[n - 1])
          BY <3>3, <5>1
        <5> QED
          BY <5>2, <5>3
      <4> QED
        BY <4>1, <4>2
    <3>6. IsIndexUpTo(h, links, t, k)
      BY <3>5 DEF IsIndexUpTo
    <3> QED
      BY <2>1, <3>6
  <2> QED
    BY <2>2, <2>3
<1> QED
  BY <1>1

(* A connection is in the index of the tasks it connects, once in each      *)
(* unless it connects a task to itself.                                     *)
IndexOK(s, links, t, m) ==
    /\ s \in Seq(1 .. m)
    /\ Len(s) <= 2 * m
    /\ \A i \in 1 .. Len(s) : t \in {links[s[i]].source_task, links[s[i]].sink_task}
    /\ \A i, j \in 1 .. Len(s) : i # j /\ s[i] = s[j] =>
          links[s[i]].source_task = links[s[i]].sink_task

LEMMA WithOneMore ==
  ASSUME NEW S, NEW s \in Seq(S), NEW n \in S
  PROVE  /\ s \o <<n>> \in Seq(S)
         /\ Len(s \o <<n>>) = Len(s) + 1
         /\ \A i \in 1 .. Len(s) : (s \o <<n>>)[i] = s[i]
         /\ (s \o <<n>>)[Len(s) + 1] = n
         /\ s \o <<>> = s
OBVIOUS

LEMMA WithKeepsIndexOK ==
  ASSUME NEW links, NEW t, NEW n \in Nat \ {0}, NEW s, IndexOK(s, links, t, n - 1)
  PROVE  IndexOK(With(s, links, t, n), links, t, n)
<1> DEFINE a == links[n].source_task = t
           b == links[n].sink_task = t
           S == 1 .. n
           w == With(s, links, t, n)
           l == Len(s)
<1>1. l \in Nat /\ l <= 2 * (n - 1) /\ \A i \in 1 .. l : s[i] \in S /\ s[i] < n
  BY DEF IndexOK
<1>2. s \in Seq(S)
  <2>1. 1 .. n - 1 \subseteq S /\ s \in Seq(1 .. n - 1)
    BY DEF IndexOK
  <2> QED
    BY <2>1, SeqMonotonic
<1>3. n \in S
  OBVIOUS
<1> HIDE DEF S
<1>4. /\ w \in Seq(S)
      /\ \/ Len(w) = l
         \/ Len(w) = l + 1 /\ w[l + 1] = n /\ (a \/ b)
         \/ Len(w) = l + 2 /\ w[l + 1] = n /\ w[l + 2] = n /\ a /\ b
      /\ \A i \in 1 .. l : w[i] = s[i]
  <2> DEFINE v == s \o <<n>>
  <2>1. /\ v \in Seq(S) /\ Len(v) = l + 1 /\ v[l + 1] = n
        /\ \A i \in 1 .. l : v[i] = s[i]
    BY <1>2, <1>3, WithOneMore
  <2>2. v \o <<>> = v /\ s \o <<>> = s
    BY <1>2, <2>1, WithOneMore
  <2>3. /\ v \o <<n>> \in Seq(S) /\ Len(v \o <<n>>) = (l + 1) + 1
        /\ (v \o <<n>>)[(l + 1) + 1] = n
        /\ \A i \in 1 .. l + 1 : (v \o <<n>>)[i] = v[i]
    <3> HIDE DEF v
    <3> QED
      BY <1>3, <2>1, WithOneMore
  <2>4. CASE a /\ b
    <3>1. w = v \o <<n>>
      BY <2>4 DEF With
    <3> HIDE DEF v, w, a, b
    <3>2. (l + 1) + 1 = l + 2 /\ l + 1 \in 1 .. l + 1 /\ 1 .. l \subseteq 1 .. l + 1
      BY <1>1
    <3> QED
      BY <2>1, <2>3, <2>4, <3>1, <3>2
  <2>5. CASE a # b
    <3>1. w = v
      BY <2>2, <2>5 DEF With
    <3> HIDE DEF v, w
    <3> QED
      BY <2>1, <2>5, <3>1
  <2>6. CASE ~a /\ ~b
    <3>1. w = s
      BY <2>2, <2>6 DEF With
    <3> QED
      BY <1>2, <3>1
  <2> QED
    BY <2>4, <2>5, <2>6
<1> HIDE DEF w, a, b
<1>5. Len(w) <= 2 * n
  <2> HIDE DEF l
  <2>1. Len(w) \in {l, l + 1, l + 2}
    BY <1>4
  <2> QED
    BY <1>1, <2>1
<1>6. /\ \A i \in 1 .. Len(w) : \/ i \in 1 .. l /\ w[i] = s[i] /\ w[i] < n
                                \/ i > l /\ w[i] = n /\ (a \/ b)
      /\ \A i, j \in 1 .. Len(w) : i > l /\ j > l /\ i # j => a /\ b
  <2> HIDE DEF l
  <2>1. Len(w) \in {l, l + 1, l + 2} /\ l \in Nat
    BY <1>1, <1>4
  <2>2. /\ l + 1 <= Len(w) => w[l + 1] = n /\ (a \/ b)
        /\ l + 2 <= Len(w) => w[l + 2] = n /\ a /\ b
    BY <1>1, <1>4
  <2>3. \A i \in 1 .. Len(w) : i \in 1 .. l \/ i = l + 1 \/ i = l + 2
    BY <2>1
  <2>4. \A i \in 1 .. l : w[i] = s[i] /\ w[i] < n
    BY <1>1, <1>4
  <2>5. l + 1 > l /\ l + 2 > l /\ \A i \in 1 .. l : ~(i > l)
    BY <2>1
  <2>6. \A i \in 1 .. Len(w) : i <= Len(w)
    BY <2>1
  <2>7. \A i \in 1 .. Len(w) : \/ i \in 1 .. l /\ w[i] = s[i] /\ w[i] < n
                               \/ i > l /\ w[i] = n /\ (a \/ b)
    BY <2>2, <2>3, <2>4, <2>5, <2>6
  <2>8. \A i, j \in 1 .. Len(w) : i > l /\ j > l /\ i # j => a /\ b
    BY <2>2, <2>3, <2>5, <2>6
  <2> QED
    BY <2>7, <2>8
<1>7. \A i \in 1 .. Len(w) : t \in {links[w[i]].source_task, links[w[i]].sink_task}
  BY <1>6 DEF IndexOK, a, b
<1>8. ASSUME NEW i \in 1 .. Len(w), NEW j \in 1 .. Len(w), i # j, w[i] = w[j]
      PROVE  links[w[i]].source_task = links[w[i]].sink_task
  <2>1. CASE i \in 1 .. l /\ j \in 1 .. l
    <3>1. w[i] = s[i] /\ w[j] = s[j]
      BY <1>4, <2>1
    <3>2. s[i] = s[j] => links[s[i]].source_task = links[s[i]].sink_task
      BY <1>8, <2>1 DEF IndexOK
    <3> QED
      BY <1>8, <3>1, <3>2
  <2>2. CASE i > l /\ j > l
    BY <1>6, <1>8, <2>2 DEF a, b
  <2>3. CASE w[i] < n /\ w[j] = n
    BY <1>8, <2>3
  <2>4. CASE w[i] = n /\ w[j] < n
    BY <1>8, <2>4
  <2> QED
    BY <1>6, <2>1, <2>2, <2>3, <2>4
<1> QED
  BY <1>4, <1>5, <1>7, <1>8 DEF IndexOK, w, S

(* The index of a task by which it finds its connections.                   *)
LEMMA IndexFacts ==
  ASSUME NEW links, NEW t
  PROVE  IndexOK(Index(links, t), links, t, NumConnections)
<1> DEFINE upto == CHOOSE g : IsIndexUpTo(g, links, t, NumConnections)
<1>1. NumConnections \in Nat
  BY NumAssumption
<1>2. Index(links, t) = upto[NumConnections]
  BY DEF Index, IsIndexUpTo, With
<1>3. IsIndexUpTo(upto, links, t, NumConnections)
  BY <1>1, IndexExists
<1> HIDE DEF upto
<1>4. \A n \in 0 .. NumConnections :
        upto[n] = IF n = 0 THEN <<>> ELSE With(upto[n - 1], links, t, n)
  BY <1>3, Zenon DEF IsIndexUpTo
<1> DEFINE T == {n \in 0 .. NumConnections : ~IndexOK(upto[n], links, t, n)}
<1>5. T = {}
  <2> SUFFICES ASSUME T # {}
               PROVE  FALSE
    OBVIOUS
  <2>1. PICK k \in T : \A y \in T : k <= y
    <3>1. T \in SUBSET Nat
      OBVIOUS
    <3> QED
      BY <3>1, LeastNumber
  <2>2. CASE k = 0
    <3>1. upto[k] = <<>>
      BY <1>4, <2>1, <2>2
    <3>2. IndexOK(<<>>, links, t, 0)
      BY DEF IndexOK
    <3> QED
      BY <2>1, <2>2, <3>1, <3>2
  <2>3. CASE k # 0
    <3>1. k \in Nat \ {0} /\ k - 1 \in 0 .. NumConnections /\ k - 1 \notin T
      BY <1>1, <2>1, <2>3
    <3>2. IndexOK(upto[k - 1], links, t, k - 1)
      BY <3>1
    <3>3. upto[k] = With(upto[k - 1], links, t, k)
      BY <1>4, <2>1, <2>3
    <3>4. IndexOK(upto[k], links, t, k)
      BY <3>1, <3>2, <3>3, WithKeepsIndexOK
    <3> QED
      BY <2>1, <3>4
  <2> QED
    BY <2>2, <2>3
<1>6. NumConnections \in 0 .. NumConnections
  BY <1>1
<1> QED
  BY <1>2, <1>5, <1>6

-----------------------------------------------------------------------------
(* The indexes are laid out before the cores start and stay as they are.    *)
Laid == connection_index = [t \in Task |-> Index(connection, t)]

(* Where the loops of xt_initialise_endpoints stand, and how many endpoints *)
(* a pass of the second one can have counted.                               *)
PlacedAt(t) ==
    /\ pc[t] \in {"zero", "publish"} => slot[t] <= num_connections(t)
    /\ pc[t] = "resolve" => slot[t] <= num_connections(t) \/ slot[t] = 1
    /\ unresolved[t] <= IF pc[t] = "resolve" THEN slot[t] - 1
                        ELSE IF pc[t] = "check" THEN num_connections(t) ELSE 0
Placed == \A t \in Task : PlacedAt(t)

(* The endpoints the first loop is done with.                               *)
Ready == {e \in Endpoint : Cleared(e)}

(* The mode of a cleared endpoint is the task's role in the connection.     *)
Modes ==
    \A e \in Ready :
        mode[e] = EndpointMode(e[1], connection[connection_index[e[1]][e[2]]])

(* An address in the connection list is that of a cleared endpoint of this  *)
(* connection, in the mode of the place where it stands.                    *)
IsEnd(e, n, m) ==
    e \in Ready /\ connection_index[e[1]][e[2]] = n /\ mode[e] = m
Published ==
    \A n \in Connection :
        /\ source_endpoint[n] # NULL =>
              IsEnd(source_endpoint[n], n, "X_SENDING_ENDPOINT")
        /\ sink_endpoint[n] # NULL =>
              IsEnd(sink_endpoint[n], n, "X_RECEIVING_ENDPOINT")

(* A link leads to the other end, cleared and in the other mode.            *)
LinkTo(e, f) == f \in Ready /\ Ends(e, f) /\ mode[e] # mode[f]
Links ==
    \A e \in Ready : remote_endpoint[e] # NULL => LinkTo(e, remote_endpoint[e])

(* A pass of the second loop that has found nothing unresolved so far has   *)
(* found its endpoints linked.                                              *)
Passed(t, i) ==
    \/ pc[t] \in {"task_main", "returned"}
    \/ pc[t] = "resolve" /\ unresolved[t] = 0 /\ i < slot[t]
    \/ pc[t] = "check" /\ unresolved[t] = 0
ResolvedAt(t) ==
    \A i \in 1 .. num_connections(t) :
        Passed(t, i) => remote_endpoint[<<t, i>>] # NULL
Resolved == \A t \in Task : ResolvedAt(t)

(* Who is reported active or completed is in task_main or beyond, and so is *)
(* who has made an x_sync.                                                  *)
ReportsAt(t) ==
    state[t] \notin {X_VIRGIN_TASK, X_INITIALIZING_TASK} =>
        pc[t] \in {"task_main", "returned"}
Reports == \A t \in Task : ReportsAt(t)

Posters ==
    \A f \in posted : /\ f[2] <= num_connections(f[1])
                      /\ pc[f[1]] \in {"task_main", "returned"}

(* The inductive invariant.                                                 *)
TInv ==
    /\ TypeOK
    /\ Laid
    /\ Placed
    /\ Modes
    /\ Published
    /\ Links
    /\ Resolved
    /\ Reports
    /\ Posters
    /\ EarlyPostKept

-----------------------------------------------------------------------------
(* What an index yields for a slot in its range.                            *)
LEMMA SlotFacts ==
  ASSUME TypeOK, Laid, NEW t \in Task
  PROVE  /\ num_connections(t) \in Nat /\ num_connections(t) <= 2 * NumConnections
         /\ \A i \in 1 .. num_connections(t) :
              LET n == connection_index[t][i] IN
              /\ <<t, i>> \in Endpoint
              /\ n \in Connection
              /\ t \in {connection[n].source_task, connection[n].sink_task}
         /\ \A i, j \in 1 .. num_connections(t) :
              LET n == connection_index[t][i] IN
              i # j /\ n = connection_index[t][j] =>
                connection[n].source_task = connection[n].sink_task
<1> DEFINE s == connection_index[t]
<1>1. NumConnections \in Nat
  BY NumAssumption
<1>2. IndexOK(s, connection, t, NumConnections)
  BY IndexFacts DEF Laid
<1> HIDE DEF s
<1>3. s \in Seq(Connection) /\ Len(s) \in Nat /\ Len(s) <= 2 * NumConnections
      /\ \A i \in 1 .. Len(s) : s[i] \in Connection
  <2>1. s \in Seq(Connection) /\ Len(s) <= 2 * NumConnections
    BY <1>2 DEF IndexOK, Connection
  <2> QED
    BY <2>1
<1>4. \A i \in 1 .. Len(s) : <<t, i>> \in Endpoint
  BY <1>1, <1>3 DEF Endpoint
<1> QED
  BY <1>2, <1>3, <1>4 DEF IndexOK, num_connections, s

LEMMA EndpointFacts ==
  ASSUME NEW e \in Endpoint
  PROVE  /\ e[1] \in Task /\ e[2] \in Nat /\ e[2] >= 1
         /\ e = <<e[1], e[2]>> /\ e # NULL
BY NumAssumption DEF Endpoint, NULL

(* A link determines the other end: nothing but e can be connected with f.  *)
LEMMA OneOtherEnd ==
  ASSUME TypeOK, Laid, Modes, NEW e \in Endpoint, NEW f \in Endpoint,
         NEW g \in Endpoint, f \in Ready, LinkTo(f, e), Ends(g, f) \/ Ends(f, g)
  PROVE  g = e
<1> DEFINE n == connection_index[f[1]][f[2]]
           a == connection[n].source_task
           b == connection[n].sink_task
<1>1. /\ e[2] \in 1 .. num_connections(e[1]) /\ f[2] \in 1 .. num_connections(f[1])
      /\ g[2] \in 1 .. num_connections(g[1])
      /\ e[1] \in Task /\ f[1] \in Task /\ g[1] \in Task
      /\ e # f /\ g # f
      /\ connection_index[e[1]][e[2]] = n /\ connection_index[g[1]][g[2]] = n
  <2>1. \A x \in Endpoint : /\ x[1] \in Task /\ x[2] \in Nat /\ x[2] >= 1
                            /\ num_connections(x[1]) \in Nat
    BY EndpointFacts, SlotFacts
  <2> QED
    BY <2>1 DEF Ends, LinkTo
<1>2. e[1] \in {a, b} /\ f[1] \in {a, b} /\ g[1] \in {a, b}
  <2>1. ASSUME NEW t \in Task, NEW i \in 1 .. num_connections(t),
               connection_index[t][i] = n
        PROVE  t \in {a, b}
    BY <2>1, SlotFacts
  <2> HIDE DEF n, a, b
  <2> QED
    BY <1>1, <2>1 DEF n
<1>3. mode[e] # mode[f] /\ mode[e] = EndpointMode(e[1], connection[n])
      /\ mode[f] = EndpointMode(f[1], connection[n])
  BY <1>1 DEF Modes, LinkTo
<1>4. e[1] # f[1] /\ a # b
  BY <1>2, <1>3 DEF EndpointMode
<1>5. g[1] # f[1]
  <2> SUFFICES ASSUME g[1] = f[1]
               PROVE  FALSE
    OBVIOUS
  <2>1. g[2] # f[2]
    BY <1>1, EndpointFacts
  <2> QED
    BY <1>1, <1>4, <2>1, SlotFacts
<1>6. g[1] = e[1]
  BY <1>2, <1>4, <1>5
<1>7. g[2] = e[2]
  BY <1>1, <1>4, <1>6, SlotFacts
<1> QED
  BY <1>6, <1>7, EndpointFacts

-----------------------------------------------------------------------------
(* What a step of one core leaves alone.                                    *)
Label == {"halted", "zero", "publish", "resolve", "check", "task_main", "returned"}

LEMMA GotoFacts ==
  ASSUME TypeOK, NEW t \in Task, NEW l \in Label,
         NEW i \in {1} \cup 1 .. 2 * NumConnections, Goto(t, l, i)
  PROVE  /\ pc'[t] = l /\ slot'[t] = i
         /\ \A x \in Task \ {t} : pc'[x] = pc[x] /\ slot'[x] = slot[x]
         /\ pc' \in [Task -> Label]
         /\ slot' \in [Task -> {1} \cup 1 .. 2 * NumConnections]
<1>1. pc' = [pc EXCEPT ![t] = l] /\ slot' = [slot EXCEPT ![t] = i]
  BY DEF Goto
<1>2. pc \in [Task -> Label]
  BY DEF TypeOK, Label
<1> DEFINE S == {1} \cup 1 .. 2 * NumConnections
<1>3. slot \in [Task -> S] /\ i \in S
  BY DEF TypeOK
<1> HIDE DEF S
<1>4. slot' \in [Task -> S] /\ slot'[t] = i /\ \A x \in Task \ {t} : slot'[x] = slot[x]
  BY <1>1, <1>3
<1>5. pc' \in [Task -> Label] /\ pc'[t] = l /\ \A x \in Task \ {t} : pc'[x] = pc[x]
  BY <1>1, <1>2
<1> QED
  BY <1>4, <1>5 DEF S

(* Tasks other than t are where they were.                                  *)
Elsewhere(t) ==
    /\ UNCHANGED wiring
    /\ \A x \in Task \ {t} :
          /\ pc'[x] = pc[x] /\ slot'[x] = slot[x]
          /\ unresolved'[x] = unresolved[x] /\ state'[x] = state[x]

LEMMA OthersKept ==
  ASSUME TInv, NEW t \in Task, Elsewhere(t),
         \A x \in Task \ {t} : \A i \in 1 .. num_connections(x) :
           remote_endpoint'[<<x, i>>] = remote_endpoint[<<x, i>>]
  PROVE  /\ PlacedAt(t)' => Placed'
         /\ ResolvedAt(t)' => Resolved'
         /\ ReportsAt(t)' => Reports'
         /\ UNCHANGED posted
            /\ (pc[t] \in {"task_main", "returned"} =>
                  pc'[t] \in {"task_main", "returned"}) => Posters'
<1>1. connection_index' = connection_index
  BY DEF Elsewhere, wiring
<1>2. \A x \in Task \ {t} : PlacedAt(x)'
  BY <1>1 DEF TInv, Placed, PlacedAt, num_connections, Elsewhere
<1>3. \A x \in Task \ {t} : ResolvedAt(x)'
  BY <1>1 DEF TInv, Resolved, ResolvedAt, Passed, num_connections, Elsewhere
<1>4. \A x \in Task \ {t} : ReportsAt(x)'
  BY DEF TInv, Reports, ReportsAt, Elsewhere
<1>5. ASSUME UNCHANGED posted,
             pc[t] \in {"task_main", "returned"} =>
               pc'[t] \in {"task_main", "returned"}
      PROVE  Posters'
  <2>1. \A f \in posted : f[1] \in Task
    BY EndpointFacts DEF TInv, TypeOK
  <2> QED
    BY <1>1, <1>5, <2>1 DEF TInv, Posters, num_connections, Elsewhere
<1> QED
  BY <1>2, <1>3, <1>4, <1>5 DEF Placed, Resolved, Reports

(* An endpoint is newly cleared only by a step of its own task.             *)
LEMMA ReadyKept ==
  ASSUME TInv, NEW t \in Task, Elsewhere(t),
         \A i \in 1 .. num_connections(t) : Cleared(<<t, i>>)' <=> Cleared(<<t, i>>)
  PROVE  Ready' = Ready
<1>1. connection_index' = connection_index
  BY DEF Elsewhere, wiring
<1> SUFFICES ASSUME NEW e \in Endpoint
             PROVE  Cleared(e)' <=> Cleared(e)
  BY DEF Ready
<1>2. e[1] \in Task /\ e = <<e[1], e[2]>> /\ e[2] \in Nat /\ e[2] >= 1
  BY EndpointFacts
<1>3. CASE e[1] # t
  BY <1>1, <1>2, <1>3 DEF Elsewhere, Cleared, num_connections
<1>4. CASE e[1] = t /\ e[2] \in 1 .. num_connections(t)
  <2>1. PICK i \in 1 .. num_connections(t) : e = <<t, i>>
    BY <1>2, <1>4
  <2> QED
    BY <2>1
<1>5. CASE e[1] = t /\ ~(e[2] <= num_connections(t))
  BY <1>1, <1>5 DEF Cleared, num_connections
<1>6. e[2] <= num_connections(t) => e[2] \in 1 .. num_connections(t)
  BY <1>2, SlotFacts DEF TInv
<1> QED
  BY <1>3, <1>4, <1>5, <1>6

(* While no endpoint is newly cleared, what holds of the endpoints and the  *)
(* addresses can only change with them.                                     *)
LEMMA FieldsKept ==
  ASSUME TInv, UNCHANGED <<connection, connection_index, mode>>, Ready' = Ready
  PROVE  /\ Laid' /\ Modes'
         /\ UNCHANGED <<source_endpoint, sink_endpoint>> => Published'
         /\ UNCHANGED remote_endpoint => Links'
         /\ UNCHANGED <<sequence_from_peer, posted>> => EarlyPostKept'
<1> USE DEF TInv
<1>1. Laid' /\ Modes'
  BY DEF Laid, Modes
<1>2. ASSUME UNCHANGED <<source_endpoint, sink_endpoint>>
      PROVE  Published'
  BY <1>2 DEF Published, IsEnd
<1>3. ASSUME UNCHANGED remote_endpoint
      PROVE  Links'
  BY <1>3 DEF Links, LinkTo, Ends, num_connections
<1>4. ASSUME UNCHANGED <<sequence_from_peer, posted>>
      PROVE  EarlyPostKept'
  <2> SUFFICES ASSUME NEW e \in Endpoint, NEW f \in Endpoint, Ends(e, f)', Cleared(e)'
               PROVE  sequence_from_peer[e] = 1 <=> f \in posted
    BY <1>4 DEF EarlyPostKept
  <2>1. Ends(e, f)
    BY DEF Ends, num_connections
  <2>2. Cleared(e)
    BY DEF Ready
  <2> QED
    BY <2>1, <2>2 DEF EarlyPostKept
<1> QED
  BY <1>1, <1>2, <1>3, <1>4

-----------------------------------------------------------------------------
(* The 16-bit integers.                                                     *)
LEMMA Remainder ==
  ASSUME NEW b \in Nat \ {0}, NEW a \in Int, NEW r \in 0 .. b - 1
  PROVE  (a * b + r) % b = r
OBVIOUS

(* A number of 16 bits survives the passage through a uint16_t.             *)
LEMMA Int16Faithful ==
  ASSUME NEW x \in -(INT16_MAX + 1) .. INT16_MAX
  PROVE  Int16(x % (UINT16_MAX + 1)) = x
<1> DEFINE h == INT16_MAX + 1
           b == UINT16_MAX + 1
           u == x % b
<1>1. h \in Nat \ {0} /\ b \in Nat \ {0} /\ b = 2 * h
  BY DEF INT16_MAX, UINT16_MAX
<1>2. x \in -h .. h - 1 /\ INT16_MAX \in Int
  BY DEF INT16_MAX
<1>3. u \in Int => Int16(u) = ((u + h) % b) - h
  BY <1>2 DEF Int16
<1> HIDE DEF h, b
<1>4. CASE x >= 0
  <2>1. x = 0 * b + x /\ x \in 0 .. b - 1
    BY <1>1, <1>2, <1>4
  <2>2. u = x
    BY <1>1, <2>1, Remainder
  <2>3. x + h = 0 * b + (x + h) /\ x + h \in 0 .. b - 1
    BY <1>1, <1>2, <1>4
  <2>4. (x + h) % b = x + h
    BY <1>1, <2>3, Remainder
  <2> QED
    BY <1>1, <1>2, <1>3, <2>2, <2>4 DEF b
<1>5. CASE x < 0
  <2>1. x = (-1) * b + (x + b) /\ x + b \in 0 .. b - 1
    BY <1>1, <1>2, <1>5
  <2>2. u = x + b
    BY <1>1, <2>1, Remainder
  <2>3. (x + b) + h = 1 * b + (x + h) /\ x + h \in 0 .. b - 1
    BY <1>1, <1>2, <1>5
  <2>4. ((x + b) + h) % b = x + h
    BY <1>1, <2>3, Remainder
  <2> QED
    BY <1>1, <1>2, <1>3, <2>2, <2>4 DEF b
<1> QED
  BY <1>2, <1>4, <1>5

LEMMA ReportedFacts ==
  ASSUME NEW r \in Int
  PROVE  /\ Reported(r) \in -(INT16_MAX + 1) .. INT16_MAX
         /\ Reported(r) = IF r \in X_E_ERROR_CODES_START + 1 .. 0 THEN r
                          ELSE X_E_TASK_RESULT_OUT_OF_RANGE
<1>0. X_E_ERROR_CODES_START \in Int
  BY DEF X_E_ERROR_CODES_START
<1>1. CASE r > 0 \/ r <= X_E_ERROR_CODES_START
  <2>1. Reported(r) = X_E_TASK_RESULT_OUT_OF_RANGE
    BY <1>1 DEF Reported
  <2>2. r \notin X_E_ERROR_CODES_START + 1 .. 0
    BY <1>0, <1>1
  <2>3. X_E_TASK_RESULT_OUT_OF_RANGE \in -(INT16_MAX + 1) .. INT16_MAX
    BY DEF INT16_MAX, X_E_TASK_RESULT_OUT_OF_RANGE
  <2> QED
    BY <2>1, <2>2, <2>3
<1>2. CASE ~(r > 0 \/ r <= X_E_ERROR_CODES_START)
  <2>1. Reported(r) = r
    BY <1>2 DEF Reported
  <2>2. r \in X_E_ERROR_CODES_START + 1 .. 0
    BY <1>0, <1>2
  <2>3. r \in -(INT16_MAX + 1) .. INT16_MAX
    BY <2>2 DEF INT16_MAX, X_E_ERROR_CODES_START
  <2> QED
    BY <2>1, <2>2, <2>3
<1> QED
  BY <1>1, <1>2

-----------------------------------------------------------------------------
(* The parts of TypeOK.                                                     *)
StateCode == -(INT16_MAX + 1) .. INT16_MAX
Mode == {"X_UNINITIALISED_ENDPOINT", "X_SENDING_ENDPOINT", "X_RECEIVING_ENDPOINT"}
Address == Endpoint \cup {NULL}
Slot == {1} \cup 1 .. 2 * NumConnections
Count == 0 .. 2 * NumConnections
WiringOK == /\ connection \in Topologies
            /\ connection_index \in [Task -> Seq(Connection)]
SharedOK == /\ source_endpoint \in [Connection -> Address]
            /\ sink_endpoint \in [Connection -> Address]
FieldsOK == /\ mode \in [Endpoint -> Mode]
            /\ remote_endpoint \in [Endpoint -> Address]
SyncOK == /\ sequence_from_peer \in [Endpoint -> {0, 1}]
          /\ posted \subseteq Endpoint

LEMMA TypeParts ==
  TypeOK <=> /\ WiringOK /\ SharedOK /\ FieldsOK /\ SyncOK
             /\ state \in [Task -> StateCode]
             /\ pc \in [Task -> Label]
             /\ slot \in [Task -> Slot]
             /\ unresolved \in [Task -> Count]
BY DEF TypeOK, WiringOK, SharedOK, FieldsOK, SyncOK, StateCode, Label, Slot,
       Count, Mode, Address

LEMMA TypePartsNext ==
  ASSUME WiringOK', SharedOK', FieldsOK', SyncOK', (state \in [Task -> StateCode])',
         (pc \in [Task -> Label])', (slot \in [Task -> Slot])',
         (unresolved \in [Task -> Count])'
  PROVE  TypeOK'
BY DEF TypeOK, WiringOK, SharedOK, FieldsOK, SyncOK, StateCode, Label, Slot,
       Count, Mode, Address

LEMMA CodesFit ==
  {X_VIRGIN_TASK, X_INITIALIZING_TASK, X_ACTIVE_TASK} \subseteq StateCode
BY DEF StateCode, INT16_MAX, X_VIRGIN_TASK, X_INITIALIZING_TASK, X_ACTIVE_TASK

(* The place of a task within its loops.                                    *)
LEMMA PlaceFacts ==
  ASSUME TInv, NEW t \in Task
  PROVE  /\ slot[t] \in Nat /\ slot[t] >= 1 /\ slot[t] \in Slot
         /\ num_connections(t) \in Nat /\ num_connections(t) <= 2 * NumConnections
         /\ num_connections(t) \in Count /\ 1 \in Slot
         /\ \A i \in 1 .. num_connections(t) : i \in Slot
         /\ unresolved[t] \in Nat
         /\ pc[t] \in {"zero", "publish"} => slot[t] \in 1 .. num_connections(t)
         /\ pc[t] = "resolve" /\ num_connections(t) > 0 =>
              slot[t] \in 1 .. num_connections(t)
<1>1. slot[t] \in Slot /\ unresolved[t] \in Count /\ PlacedAt(t)
  BY TypeParts DEF TInv, Placed
<1>2. num_connections(t) \in Nat /\ num_connections(t) <= 2 * NumConnections
  BY SlotFacts DEF TInv
<1>3. NumConnections \in Nat
  BY NumAssumption
<1>4. slot[t] \in Nat /\ slot[t] >= 1
  BY <1>1, <1>3 DEF Slot
<1>5. unresolved[t] \in Nat
  BY <1>1, <1>3 DEF Count
<1>6. /\ num_connections(t) \in Count /\ 1 \in Slot
      /\ \A i \in 1 .. num_connections(t) : i \in Slot
  BY <1>2, <1>3 DEF Count, Slot
<1>7. /\ pc[t] \in {"zero", "publish"} => slot[t] <= num_connections(t)
      /\ pc[t] = "resolve" => slot[t] <= num_connections(t) \/ slot[t] = 1
  BY <1>1 DEF PlacedAt
<1>8. pc[t] \in {"zero", "publish"} => slot[t] \in 1 .. num_connections(t)
  BY <1>2, <1>4, <1>7
<1>9. pc[t] = "resolve" /\ num_connections(t) > 0 =>
        slot[t] \in 1 .. num_connections(t)
  BY <1>2, <1>4, <1>7
<1> QED
  BY <1>1, <1>2, <1>4, <1>5, <1>6, <1>8, <1>9

(* The same for a step that takes task t to slot i of loop l.               *)
LEMMA Moves ==
  ASSUME TInv, NEW t \in Task, NEW l \in Label, NEW i \in Slot, Goto(t, l, i),
         UNCHANGED wiring
  PROVE  /\ pc'[t] = l /\ slot'[t] = i
         /\ (pc \in [Task -> Label])' /\ (slot \in [Task -> Slot])'
         /\ WiringOK'
         /\ connection' = connection /\ connection_index' = connection_index
         /\ \A x \in Task : num_connections(x)' = num_connections(x)
         /\ (\A x \in Task \ {t} : unresolved'[x] = unresolved[x] /\ state'[x] = state[x])
              => Elsewhere(t)
<1>1. TypeOK
  BY DEF TInv
<1>2. i \in {1} \cup 1 .. 2 * NumConnections
  BY DEF Slot
<1>3. /\ pc'[t] = l /\ slot'[t] = i
      /\ \A x \in Task \ {t} : pc'[x] = pc[x] /\ slot'[x] = slot[x]
      /\ pc' \in [Task -> Label]
      /\ slot' \in [Task -> {1} \cup 1 .. 2 * NumConnections]
  BY <1>1, <1>2, GotoFacts
<1>4. connection' = connection /\ connection_index' = connection_index
  BY DEF wiring
<1>5. WiringOK'
  BY <1>1, <1>4 DEF WiringOK, TypeOK
<1> QED
  BY <1>3, <1>4, <1>5 DEF Elsewhere, num_connections, Slot

(* In task_main all endpoints of the task are linked.                       *)
LEMMA LinkedInMain ==
  ASSUME TInv, NEW f \in Endpoint, f[2] <= num_connections(f[1]),
         pc[f[1]] \in {"task_main", "returned"}
  PROVE  /\ f \in Ready
         /\ remote_endpoint[f] \in Endpoint /\ LinkTo(f, remote_endpoint[f])
<1>1. f[1] \in Task /\ f[2] \in 1 .. num_connections(f[1]) /\ f = <<f[1], f[2]>>
  BY EndpointFacts, SlotFacts DEF TInv
<1>2. f \in Ready
  BY DEF Ready, Cleared
<1>3. remote_endpoint[f] # NULL
  BY <1>1 DEF TInv, Resolved, ResolvedAt, Passed
<1>4. remote_endpoint[f] \in Address
  BY TypeParts DEF TInv, FieldsOK
<1> QED
  BY <1>2, <1>3, <1>4 DEF TInv, Links, Address

LEMMA StartStep ==
  ASSUME TInv, NEW t \in Task, Start(t)
  PROVE  TInv'
<1>1. /\ pc[t] = "halted" /\ state' = [state EXCEPT ![t] = X_INITIALIZING_TASK]
      /\ UNCHANGED <<wiring, source_endpoint, sink_endpoint, unresolved, mode,
                     remote_endpoint, sequence_from_peer, posted>>
  BY DEF Start, fields
<1>2. /\ slot[t] \in Nat /\ num_connections(t) \in Nat /\ 1 \in Slot
      /\ unresolved[t] \in Nat
  BY PlaceFacts
<1>3. PICK l \in Label : /\ Goto(t, l, 1)
                         /\ \/ l = "zero" /\ num_connections(t) >= 1
                            \/ l = "resolve" /\ num_connections(t) = 0
  <2>1. CASE 0 < num_connections(t)
    BY <1>2, <2>1 DEF Start, NextSlot, Label
  <2>2. CASE ~(0 < num_connections(t))
    BY <1>2, <2>2 DEF Start, NextSlot, Label
  <2> QED
    BY <2>1, <2>2
<1>4. /\ pc'[t] = l /\ slot'[t] = 1
      /\ (pc \in [Task -> Label])' /\ (slot \in [Task -> Slot])' /\ WiringOK'
      /\ connection' = connection /\ connection_index' = connection_index
      /\ num_connections(t)' = num_connections(t)
  BY <1>1, <1>2, <1>3, Moves
<1>5. Elsewhere(t)
  <2>1. \A x \in Task \ {t} : state'[x] = state[x]
    BY <1>1 DEF TInv, TypeOK
  <2> QED
    BY <1>1, <1>2, <1>3, <2>1, Moves
<1>6. TypeOK'
  <2>1. (state \in [Task -> StateCode])'
    BY <1>1, CodesFit, TypeParts DEF TInv
  <2>2. SharedOK' /\ FieldsOK' /\ SyncOK' /\ (unresolved \in [Task -> Count])'
    BY <1>1, TypeParts DEF TInv, SharedOK, FieldsOK, SyncOK
  <2> QED
    BY <1>4, <2>1, <2>2, TypePartsNext
<1>7. Ready' = Ready
  <2>1. ASSUME NEW i \in 1 .. num_connections(t)
        PROVE  ~Cleared(<<t, i>>) /\ ~Cleared(<<t, i>>)'
    BY <1>1, <1>2, <1>3, <1>4 DEF Cleared
  <2> QED
    BY <1>5, <2>1, ReadyKept
<1>8. Laid' /\ Modes' /\ Published' /\ Links' /\ EarlyPostKept'
  BY <1>1, <1>4, <1>7, FieldsKept
<1>9. PlacedAt(t)' /\ ResolvedAt(t)' /\ ReportsAt(t)'
  <2>1. unresolved'[t] = 0
    BY <1>1, <1>2 DEF TInv, Placed, PlacedAt
  <2>2. PlacedAt(t)'
    BY <1>2, <1>3, <1>4, <2>1 DEF PlacedAt
  <2>3. ResolvedAt(t)'
    BY <1>2, <1>3, <1>4 DEF ResolvedAt, Passed
  <2>4. ReportsAt(t)'
    BY <1>1 DEF ReportsAt, TInv, TypeOK
  <2> QED
    BY <2>2, <2>3, <2>4
<1>10. Placed' /\ Resolved' /\ Reports' /\ Posters'
  BY <1>1, <1>5, <1>9, OthersKept
<1> QED
  BY <1>6, <1>8, <1>10 DEF TInv

(* The endpoint in hand becomes ready here, and nobody has used it yet: who *)
(* has made an x_sync was linked, and links only lead to ready endpoints.   *)
LEMMA ZeroStep ==
  ASSUME TInv, NEW t \in Task, ZeroEndpoint(t)
  PROVE  TInv'
<1> DEFINE e0 == <<t, slot[t]>>
           c0 == connection[connection_index[t][slot[t]]]
<1>1. /\ pc[t] = "zero"
      /\ sequence_from_peer' = [sequence_from_peer EXCEPT ![e0] = 0]
      /\ remote_endpoint' = [remote_endpoint EXCEPT ![e0] = NULL]
      /\ mode' = [mode EXCEPT ![e0] = EndpointMode(t, c0)]
      /\ Goto(t, "publish", slot[t])
      /\ UNCHANGED <<wiring, source_endpoint, sink_endpoint, state, unresolved, posted>>
  BY DEF ZeroEndpoint, shared
<1>2. /\ slot[t] \in Slot /\ slot[t] \in 1 .. num_connections(t) /\ slot[t] \in Nat
      /\ num_connections(t) \in Nat /\ unresolved[t] \in Nat
  BY <1>1, PlaceFacts
<1>3. "publish" \in Label
  BY DEF Label
<1>4. /\ pc'[t] = "publish" /\ slot'[t] = slot[t]
      /\ (pc \in [Task -> Label])' /\ (slot \in [Task -> Slot])' /\ WiringOK'
      /\ connection' = connection /\ connection_index' = connection_index
      /\ num_connections(t)' = num_connections(t)
      /\ Elsewhere(t)
  BY <1>1, <1>2, <1>3, Moves
<1>5. e0 \in Endpoint /\ e0[1] = t /\ e0[2] = slot[t]
  BY <1>2, SlotFacts DEF TInv
<1>6. ~Cleared(e0)
  BY <1>1, <1>2 DEF Cleared
<1>7. Ready' = Ready \cup {e0}
  <2> SUFFICES ASSUME NEW e \in Endpoint
               PROVE  Cleared(e)' <=> Cleared(e) \/ e = e0
    BY <1>5 DEF Ready
  <2>1. e[1] \in Task /\ e = <<e[1], e[2]>> /\ e[2] \in Nat
    BY EndpointFacts
  <2>2. CASE e[1] # t
    BY <1>4, <2>1, <2>2 DEF Elsewhere, Cleared, num_connections
  <2>3. CASE e[1] = t
    <3>1. Cleared(e) <=> e[2] < slot[t]
      BY <1>1, <1>2, <2>1, <2>3 DEF Cleared
    <3>2. Cleared(e)' <=> e[2] <= slot[t]
      BY <1>2, <1>4, <2>1, <2>3 DEF Cleared
    <3>3. e = e0 <=> e[2] = slot[t]
      BY <2>1, <2>3
    <3> QED
      BY <1>2, <2>1, <3>1, <3>2, <3>3
  <2> QED
    BY <2>2, <2>3
<1> HIDE DEF e0
<1>8. e0 \notin Ready
  BY <1>6 DEF Ready
<1>9. /\ mode \in [Endpoint -> Mode] /\ remote_endpoint \in [Endpoint -> Address]
      /\ sequence_from_peer \in [Endpoint -> {0, 1}] /\ posted \subseteq Endpoint
  BY TypeParts DEF TInv, FieldsOK, SyncOK
<1>10. /\ mode'[e0] = EndpointMode(t, c0) /\ remote_endpoint'[e0] = NULL
       /\ sequence_from_peer'[e0] = 0
       /\ \A e \in Endpoint \ {e0} :
            /\ mode'[e] = mode[e] /\ remote_endpoint'[e] = remote_endpoint[e]
            /\ sequence_from_peer'[e] = sequence_from_peer[e]
  BY <1>1, <1>5, <1>9
<1>11. Ready \subseteq Endpoint \ {e0}
  BY <1>8 DEF Ready
<1>12. TypeOK'
  <2>1. EndpointMode(t, c0) \in Mode /\ NULL \in Address
    BY DEF EndpointMode, Mode, Address
  <2>2. FieldsOK'
    BY <1>1, <1>9, <2>1 DEF FieldsOK
  <2>3. SyncOK'
    BY <1>1, <1>9 DEF SyncOK
  <2>4. SharedOK' /\ (unresolved \in [Task -> Count])' /\ (state \in [Task -> StateCode])'
    BY <1>1, TypeParts DEF TInv, SharedOK
  <2> QED
    BY <1>4, <2>2, <2>3, <2>4, TypePartsNext
<1>13. Laid'
  BY <1>4 DEF TInv, Laid
<1>14. Modes'
  <2>1. \A e \in Ready : mode'[e] = EndpointMode(e[1], connection[connection_index[e[1]][e[2]]])
    BY <1>10, <1>11 DEF TInv, Modes
  <2>2. mode'[e0] = EndpointMode(e0[1], connection[connection_index[e0[1]][e0[2]]])
    BY <1>5, <1>10
  <2> QED
    BY <1>4, <1>7, <2>1, <2>2 DEF Modes
<1>15. Published'
  BY <1>1, <1>4, <1>7, <1>10, <1>11 DEF TInv, Published, IsEnd
<1>16. Links'
  <2> SUFFICES ASSUME NEW e \in Ready', remote_endpoint'[e] # NULL
               PROVE  /\ remote_endpoint'[e] \in Ready' /\ Ends(e, remote_endpoint[e])'
                      /\ mode'[e] # mode'[remote_endpoint'[e]]
    BY DEF Links, LinkTo
  <2>1. e \in Ready /\ remote_endpoint'[e] = remote_endpoint[e]
    BY <1>7, <1>10, <1>11
  <2>2. LinkTo(e, remote_endpoint[e])
    BY <2>1 DEF TInv, Links
  <2> QED
    BY <1>4, <1>7, <1>10, <1>11, <2>1, <2>2 DEF LinkTo, Ends, num_connections
<1>17. EarlyPostKept'
  <2> SUFFICES ASSUME NEW e \in Endpoint, NEW f \in Endpoint, Ends(e, f)', Cleared(e)'
               PROVE  sequence_from_peer'[e] = 1 <=> f \in posted
    BY <1>1 DEF EarlyPostKept
  <2>1. Ends(e, f)
    BY <1>4 DEF Ends, num_connections
  <2>2. e \in Ready'
    BY DEF Ready
  <2>3. CASE e = e0
    <3>1. ASSUME f \in posted
          PROVE  FALSE
      <4>1. /\ f \in Ready /\ remote_endpoint[f] \in Endpoint
            /\ LinkTo(f, remote_endpoint[f])
        BY <3>1, LinkedInMain DEF TInv, Posters
      <4>2. remote_endpoint[f] = e
        BY <2>1, <4>1, OneOtherEnd DEF TInv
      <4> QED
        BY <1>8, <2>3, <4>1, <4>2 DEF LinkTo
    <3> QED
      BY <1>10, <2>3, <3>1
  <2>4. CASE e # e0
    <3>1. Cleared(e)
      BY <1>7, <2>2, <2>4 DEF Ready
    <3> QED
      BY <1>10, <2>1, <2>4, <3>1 DEF TInv, EarlyPostKept
  <2> QED
    BY <2>3, <2>4
<1>18. PlacedAt(t)' /\ ResolvedAt(t)' /\ ReportsAt(t)'
  <2>1. unresolved[t] <= 0 /\ ReportsAt(t)
    BY <1>1 DEF TInv, Placed, PlacedAt, Reports
  <2>2. PlacedAt(t)'
    BY <1>1, <1>2, <1>4, <2>1 DEF PlacedAt
  <2>3. ResolvedAt(t)'
    BY <1>4 DEF ResolvedAt, Passed
  <2>4. ReportsAt(t)'
    BY <1>1, <2>1 DEF ReportsAt
  <2> QED
    BY <2>2, <2>3, <2>4
<1>19. Placed' /\ Resolved' /\ Reports' /\ Posters'
  <2>1. \A x \in Task \ {t} : \A i \in 1 .. num_connections(x) :
          remote_endpoint'[<<x, i>>] = remote_endpoint[<<x, i>>]
    <3> SUFFICES ASSUME NEW x \in Task \ {t}, NEW i \in 1 .. num_connections(x)
                 PROVE  remote_endpoint'[<<x, i>>] = remote_endpoint[<<x, i>>]
      OBVIOUS
    <3>1. <<x, i>> \in Endpoint \ {e0}
      BY <1>5, SlotFacts DEF TInv
    <3> QED
      BY <1>10, <3>1
  <2> QED
    BY <1>1, <1>4, <1>18, <2>1, OthersKept
<1> QED
  BY <1>12, <1>13, <1>14, <1>15, <1>16, <1>17, <1>19 DEF TInv

LEMMA PublishStep ==
  ASSUME TInv, NEW t \in Task, PublishEndpoint(t)
  PROVE  TInv'
<1> DEFINE e0 == <<t, slot[t]>>
           n0 == connection_index[t][slot[t]]
           k == num_connections(t)
<1>1. /\ pc[t] = "publish"
      /\ \/ /\ mode[e0] = "X_SENDING_ENDPOINT"
            /\ source_endpoint' = [source_endpoint EXCEPT ![n0] = e0]
            /\ UNCHANGED sink_endpoint
         \/ /\ mode[e0] = "X_RECEIVING_ENDPOINT"
            /\ sink_endpoint' = [sink_endpoint EXCEPT ![n0] = e0]
            /\ UNCHANGED source_endpoint
      /\ NextSlot(t, "zero", slot[t], "resolve")
      /\ UNCHANGED <<wiring, state, unresolved, mode, remote_endpoint,
                     sequence_from_peer, posted>>
  BY DEF PublishEndpoint, fields
<1>2. /\ slot[t] \in 1 .. k /\ slot[t] \in Nat /\ k \in Nat /\ unresolved[t] \in Nat
      /\ 1 \in Slot /\ \A i \in 1 .. k : i \in Slot
  BY <1>1, PlaceFacts
<1>3. PICK l \in Label, i \in Slot :
        /\ Goto(t, l, i)
        /\ \/ l = "zero" /\ i = slot[t] + 1 /\ i \in 1 .. k
           \/ l = "resolve" /\ i = 1 /\ slot[t] = k
  <2>1. CASE slot[t] < k
    <3>1. slot[t] + 1 \in 1 .. k
      BY <1>2, <2>1
    <3> QED
      BY <1>1, <1>2, <2>1, <3>1 DEF NextSlot, Label
  <2>2. CASE ~(slot[t] < k)
    <3>1. slot[t] = k
      BY <1>2, <2>2
    <3> QED
      BY <1>1, <1>2, <2>2, <3>1 DEF NextSlot, Label
  <2> QED
    BY <2>1, <2>2
<1>4. /\ pc'[t] = l /\ slot'[t] = i
      /\ (pc \in [Task -> Label])' /\ (slot \in [Task -> Slot])' /\ WiringOK'
      /\ connection' = connection /\ connection_index' = connection_index
      /\ num_connections(t)' = k
      /\ Elsewhere(t)
  BY <1>1, <1>3, Moves
<1>5. e0 \in Endpoint /\ e0[1] = t /\ e0[2] = slot[t] /\ n0 \in Connection
  BY <1>2, SlotFacts DEF TInv
<1>6. e0 \in Ready
  BY <1>1, <1>2, <1>5 DEF Ready, Cleared
<1>7. Ready' = Ready
  <2>1. ASSUME NEW j \in 1 .. k
        PROVE  Cleared(<<t, j>>)' <=> Cleared(<<t, j>>)
    <3>1. Cleared(<<t, j>>) <=> j <= slot[t]
      BY <1>1, <1>2 DEF Cleared
    <3>2. Cleared(<<t, j>>)' <=> (l = "zero" /\ j < i) \/ l = "resolve"
      BY <1>2, <1>3, <1>4 DEF Cleared
    <3> QED
      BY <1>2, <1>3, <3>1, <3>2
  <2> QED
    BY <1>4, <2>1, ReadyKept
<1> HIDE DEF e0, n0
<1>8. source_endpoint \in [Connection -> Address] /\ sink_endpoint \in [Connection -> Address]
  BY TypeParts DEF TInv, SharedOK
<1>9. TypeOK'
  <2>1. SharedOK'
    BY <1>1, <1>5, <1>8 DEF SharedOK, Address
  <2>2. FieldsOK' /\ SyncOK' /\ (unresolved \in [Task -> Count])'
        /\ (state \in [Task -> StateCode])'
    BY <1>1, TypeParts DEF TInv, FieldsOK, SyncOK
  <2> QED
    BY <1>4, <2>1, <2>2, TypePartsNext
<1>10. Laid' /\ Modes' /\ Links' /\ EarlyPostKept'
  BY <1>1, <1>4, <1>7, FieldsKept
<1>11. Published'
  <2>1. \A n \in Connection :
          /\ source_endpoint'[n] # source_endpoint[n] =>
               n = n0 /\ source_endpoint'[n] = e0 /\ mode[e0] = "X_SENDING_ENDPOINT"
          /\ sink_endpoint'[n] # sink_endpoint[n] =>
               n = n0 /\ sink_endpoint'[n] = e0 /\ mode[e0] = "X_RECEIVING_ENDPOINT"
    BY <1>1, <1>5, <1>8
  <2>2. connection_index[e0[1]][e0[2]] = n0
    BY <1>5 DEF n0
  <2> QED
    BY <1>1, <1>4, <1>6, <1>7, <2>1, <2>2 DEF TInv, Published, IsEnd
<1>12. PlacedAt(t)' /\ ResolvedAt(t)' /\ ReportsAt(t)'
  <2>1. unresolved[t] = 0 /\ ReportsAt(t)
    BY <1>1, <1>2 DEF TInv, Placed, PlacedAt, Reports
  <2>2. PlacedAt(t)'
    BY <1>1, <1>2, <1>3, <1>4, <2>1 DEF PlacedAt
  <2>3. ResolvedAt(t)'
    BY <1>2, <1>3, <1>4 DEF ResolvedAt, Passed
  <2>4. ReportsAt(t)'
    BY <1>1, <2>1 DEF ReportsAt
  <2> QED
    BY <2>2, <2>3, <2>4
<1>13. Placed' /\ Resolved' /\ Reports' /\ Posters'
  BY <1>1, <1>4, <1>12, OthersKept
<1> QED
  BY <1>9, <1>10, <1>11, <1>13 DEF TInv

(* The address picked up is that of the other end: it stands in the place   *)
(* of the opposite mode in the list entry of the connection.                *)
LEMMA ResolveStep ==
  ASSUME TInv, NEW t \in Task, ResolveEndpoint(t)
  PROVE  TInv'
<1> DEFINE e0 == <<t, slot[t]>>
           n0 == connection_index[t][slot[t]]
           k == num_connections(t)
           peer == PeerAddress(e0, n0)
<1>1. /\ pc[t] = "resolve" /\ k > 0
      /\ \/ /\ remote_endpoint[e0] # NULL
            /\ UNCHANGED <<remote_endpoint, unresolved>>
         \/ /\ remote_endpoint[e0] = NULL /\ peer # NULL
            /\ remote_endpoint' = [remote_endpoint EXCEPT ![e0] = peer]
            /\ UNCHANGED unresolved
         \/ /\ unresolved' = [unresolved EXCEPT ![t] = @ + 1]
            /\ UNCHANGED remote_endpoint
      /\ NextSlot(t, "resolve", slot[t], "check")
      /\ UNCHANGED <<wiring, source_endpoint, sink_endpoint, state, mode,
                     sequence_from_peer, posted>>
  BY DEF ResolveEndpoint, shared
<1>2. /\ slot[t] \in 1 .. k /\ slot[t] \in Nat /\ k \in Nat /\ unresolved[t] \in Nat
      /\ 1 \in Slot /\ k <= 2 * NumConnections /\ \A i \in 1 .. k : i \in Slot
  BY <1>1, PlaceFacts
<1>3. PICK l \in Label, i \in Slot :
        /\ Goto(t, l, i)
        /\ \/ l = "resolve" /\ i = slot[t] + 1 /\ i \in 1 .. k
           \/ l = "check" /\ i = 1 /\ slot[t] = k
  <2>1. CASE slot[t] < k
    <3>1. slot[t] + 1 \in 1 .. k
      BY <1>2, <2>1
    <3> QED
      BY <1>1, <1>2, <2>1, <3>1 DEF NextSlot, Label
  <2>2. CASE ~(slot[t] < k)
    <3>1. slot[t] = k
      BY <1>2, <2>2
    <3> QED
      BY <1>1, <1>2, <2>2, <3>1 DEF NextSlot, Label
  <2> QED
    BY <2>1, <2>2
<1>4. unresolved \in [Task -> Count] /\ remote_endpoint \in [Endpoint -> Address]
  BY TypeParts DEF TInv, FieldsOK
<1>5. /\ pc'[t] = l /\ slot'[t] = i
      /\ (pc \in [Task -> Label])' /\ (slot \in [Task -> Slot])' /\ WiringOK'
      /\ connection' = connection /\ connection_index' = connection_index
      /\ num_connections(t)' = k
      /\ Elsewhere(t)
  <2>1. \A x \in Task \ {t} : unresolved'[x] = unresolved[x]
    BY <1>1, <1>4
  <2> QED
    BY <1>1, <1>3, <2>1, Moves
<1>6. e0 \in Endpoint /\ e0[1] = t /\ e0[2] = slot[t] /\ n0 \in Connection
      /\ t \in {connection[n0].source_task, connection[n0].sink_task}
  BY <1>2, SlotFacts DEF TInv
<1>7. e0 \in Ready
  BY <1>1, <1>2, <1>6 DEF Ready, Cleared
<1>8. Ready' = Ready
  <2>1. ASSUME NEW j \in 1 .. k
        PROVE  Cleared(<<t, j>>)' /\ Cleared(<<t, j>>)
    BY <1>1, <1>2, <1>3, <1>5 DEF Cleared
  <2> QED
    BY <1>5, <2>1, ReadyKept
<1>9. peer # NULL => peer \in Endpoint /\ LinkTo(e0, peer)
  <2> SUFFICES ASSUME peer # NULL
               PROVE  peer \in Endpoint /\ LinkTo(e0, peer)
    OBVIOUS
  <2>1. mode[e0] = EndpointMode(t, connection[n0])
    BY <1>6, <1>7 DEF TInv, Modes
  <2>2. mode[e0] \in {"X_SENDING_ENDPOINT", "X_RECEIVING_ENDPOINT"}
    BY <1>6, <2>1 DEF EndpointMode
  <2>3. PICK m : IsEnd(peer, n0, m) /\ m # mode[e0]
    BY <1>6, <2>2 DEF PeerAddress, TInv, Published
  <2>4. /\ peer \in Endpoint /\ peer \in Ready /\ mode[e0] # mode[peer]
        /\ connection_index[peer[1]][peer[2]] = n0
        /\ peer[2] <= num_connections(peer[1])
    BY <2>3 DEF IsEnd, Ready, Cleared
  <2>5. e0[2] <= num_connections(e0[1]) /\ connection_index[e0[1]][e0[2]] = n0
    BY <1>2, <1>6
  <2> HIDE DEF e0, n0, peer, k
  <2> QED
    BY <2>4, <2>5 DEF LinkTo, Ends
<1> HIDE DEF e0, n0, peer
<1>10. /\ \A e \in Endpoint \ {e0} : remote_endpoint'[e] = remote_endpoint[e]
       /\ \/ remote_endpoint'[e0] = remote_endpoint[e0]
          \/ remote_endpoint'[e0] = peer /\ peer # NULL
  BY <1>1, <1>4, <1>6
<1>11. \/ unresolved'[t] = unresolved[t] /\ remote_endpoint'[e0] # NULL
       \/ unresolved'[t] = unresolved[t] + 1 /\ remote_endpoint'[e0] = remote_endpoint[e0]
  BY <1>1, <1>4, <1>6
<1>12. unresolved[t] <= slot[t] - 1 /\ ReportsAt(t) /\ ResolvedAt(t)
  BY <1>1 DEF TInv, Placed, PlacedAt, Reports, Resolved
<1>13. unresolved'[t] \in Nat /\ unresolved'[t] <= slot[t]
  BY <1>2, <1>11, <1>12
<1>14. TypeOK'
  <2>1. unresolved'[t] \in Count
    BY <1>2, <1>13, NumAssumption DEF Count
  <2>2. (unresolved \in [Task -> Count])'
    BY <1>1, <1>4, <2>1
  <2>3. FieldsOK'
    BY <1>1, <1>4, <1>6, <1>9, TypeParts DEF TInv, FieldsOK, Address
  <2>4. SharedOK' /\ SyncOK' /\ (state \in [Task -> StateCode])'
    BY <1>1, TypeParts DEF TInv, SharedOK, SyncOK
  <2> QED
    BY <1>5, <2>2, <2>3, <2>4, TypePartsNext
<1>15. Laid' /\ Modes' /\ Published' /\ EarlyPostKept'
  BY <1>1, <1>5, <1>8, FieldsKept
<1>16. Links'
  <2> SUFFICES ASSUME NEW e \in Ready, remote_endpoint'[e] # NULL
               PROVE  /\ remote_endpoint'[e] \in Ready /\ Ends(e, remote_endpoint[e])'
                      /\ mode[e] # mode[remote_endpoint'[e]]
    BY <1>1, <1>8 DEF Links, LinkTo
  <2>1. e \in Endpoint
    BY DEF Ready
  <2>2. PICK f : f = remote_endpoint'[e] /\ LinkTo(e, f)
    <3>1. CASE remote_endpoint'[e] = remote_endpoint[e]
      BY <3>1 DEF TInv, Links
    <3>2. CASE e = e0 /\ remote_endpoint'[e] = peer /\ peer # NULL
      BY <1>9, <3>2
    <3> QED
      BY <1>10, <2>1, <3>1, <3>2
  <2> QED
    BY <1>5, <2>2 DEF LinkTo, Ends, num_connections
<1>17. PlacedAt(t)' /\ ResolvedAt(t)' /\ ReportsAt(t)'
  <2>1. PlacedAt(t)'
    BY <1>2, <1>3, <1>5, <1>13 DEF PlacedAt
  <2>2. ReportsAt(t)'
    BY <1>1, <1>12 DEF ReportsAt
  <2>3. ResolvedAt(t)'
    <3> SUFFICES ASSUME NEW j \in 1 .. k, Passed(t, j)'
                 PROVE  remote_endpoint'[<<t, j>>] # NULL
      BY <1>5 DEF ResolvedAt
    <3>1. unresolved'[t] = 0 /\ j <= slot[t]
      BY <1>2, <1>3, <1>5 DEF Passed
    <3>2. unresolved[t] = 0 /\ remote_endpoint'[e0] # NULL
      BY <1>2, <1>11, <3>1
    <3>3. CASE j = slot[t]
      BY <3>2, <3>3 DEF e0
    <3>4. CASE j < slot[t]
      <4>1. remote_endpoint[<<t, j>>] # NULL
        BY <1>1, <1>12, <3>2, <3>4 DEF ResolvedAt, Passed
      <4>2. <<t, j>> \in Endpoint \ {e0}
        BY <1>2, <1>6, <3>4, SlotFacts DEF TInv
      <4> QED
        BY <1>10, <4>1, <4>2
    <3> QED
      BY <1>2, <3>1, <3>3, <3>4
  <2> QED
    BY <2>1, <2>2, <2>3
<1>18. Placed' /\ Resolved' /\ Reports' /\ Posters'
  <2>1. \A x \in Task \ {t} : \A j \in 1 .. num_connections(x) :
          remote_endpoint'[<<x, j>>] = remote_endpoint[<<x, j>>]
    <3> SUFFICES ASSUME NEW x \in Task \ {t}, NEW j \in 1 .. num_connections(x)
                 PROVE  remote_endpoint'[<<x, j>>] = remote_endpoint[<<x, j>>]
      OBVIOUS
    <3>1. <<x, j>> \in Endpoint \ {e0}
      BY <1>6, SlotFacts DEF TInv
    <3> QED
      BY <1>10, <3>1
  <2> QED
    BY <1>1, <1>5, <1>17, <2>1, OthersKept
<1> QED
  BY <1>14, <1>15, <1>16, <1>18 DEF TInv

LEMMA CheckStep ==
  ASSUME TInv, NEW t \in Task, CheckUnresolved(t)
  PROVE  TInv'
<1> DEFINE k == num_connections(t)
<1>1. /\ pc[t] = IF k = 0 THEN "resolve" ELSE "check"
      /\ \/ /\ unresolved[t] > 0 /\ unresolved' = [unresolved EXCEPT ![t] = 0]
            /\ Goto(t, "resolve", 1) /\ UNCHANGED state
         \/ /\ unresolved[t] = 0 /\ UNCHANGED unresolved
            /\ Goto(t, "task_main", 1)
            /\ state' = [state EXCEPT ![t] = X_ACTIVE_TASK]
      /\ UNCHANGED <<wiring, source_endpoint, sink_endpoint, mode, remote_endpoint,
                     sequence_from_peer, posted>>
  BY DEF CheckUnresolved, fields
<1>2. k \in Nat /\ 1 \in Slot /\ unresolved[t] \in Nat
  BY PlaceFacts
<1>3. state \in [Task -> StateCode] /\ unresolved \in [Task -> Count]
  BY TypeParts DEF TInv
<1>4. PICK l \in Label : /\ Goto(t, l, 1)
                         /\ \/ l = "resolve" /\ UNCHANGED state
                            \/ l = "task_main" /\ unresolved[t] = 0
  BY <1>1 DEF Label
<1>5. /\ pc'[t] = l /\ slot'[t] = 1
      /\ (pc \in [Task -> Label])' /\ (slot \in [Task -> Slot])' /\ WiringOK'
      /\ connection' = connection /\ connection_index' = connection_index
      /\ num_connections(t)' = k
      /\ Elsewhere(t)
  <2>1. \A x \in Task \ {t} : unresolved'[x] = unresolved[x] /\ state'[x] = state[x]
    BY <1>1, <1>3
  <2> QED
    BY <1>1, <1>2, <1>4, <2>1, Moves
<1>6. TypeOK'
  <2>1. (state \in [Task -> StateCode])'
    BY <1>1, <1>3, CodesFit
  <2>2. 0 \in Count
    BY NumAssumption DEF Count
  <2>3. (unresolved \in [Task -> Count])'
    BY <1>1, <1>3, <2>2
  <2>4. SharedOK' /\ FieldsOK' /\ SyncOK'
    BY <1>1, TypeParts DEF TInv, SharedOK, FieldsOK, SyncOK
  <2> QED
    BY <1>5, <2>1, <2>3, <2>4, TypePartsNext
<1>7. Ready' = Ready
  <2>1. ASSUME NEW j \in 1 .. k
        PROVE  Cleared(<<t, j>>)' /\ Cleared(<<t, j>>)
    BY <1>1, <1>2, <1>4, <1>5 DEF Cleared
  <2> QED
    BY <1>5, <2>1, ReadyKept
<1>8. Laid' /\ Modes' /\ Published' /\ Links' /\ EarlyPostKept'
  BY <1>1, <1>5, <1>7, FieldsKept
<1>9. PlacedAt(t)' /\ ResolvedAt(t)' /\ ReportsAt(t)'
  <2>1. unresolved'[t] = 0
    BY <1>1, <1>3
  <2>2. PlacedAt(t)'
    BY <1>2, <1>4, <1>5, <2>1 DEF PlacedAt
  <2>3. ResolvedAt(t)'
    <3> SUFFICES ASSUME NEW j \in 1 .. k, Passed(t, j)'
                 PROVE  remote_endpoint[<<t, j>>] # NULL
      BY <1>1, <1>5 DEF ResolvedAt
    <3>1. pc[t] = "check" /\ unresolved[t] = 0
      BY <1>1, <1>2, <1>4, <1>5 DEF Passed
    <3> QED
      BY <3>1 DEF TInv, Resolved, ResolvedAt, Passed
  <2>4. ReportsAt(t)'
    <3>1. CASE l = "task_main"
      BY <1>5, <3>1 DEF ReportsAt
    <3>2. CASE UNCHANGED state
      <4>1. ReportsAt(t) /\ pc[t] \notin {"task_main", "returned"}
        BY <1>1 DEF TInv, Reports
      <4> QED
        BY <3>2, <4>1 DEF ReportsAt
    <3> QED
      BY <1>4, <3>1, <3>2
  <2> QED
    BY <2>2, <2>3, <2>4
<1>10. Placed' /\ Resolved' /\ Reports' /\ Posters'
  BY <1>1, <1>5, <1>9, OthersKept
<1> QED
  BY <1>6, <1>8, <1>10 DEF TInv

LEMMA FinishStep ==
  ASSUME TInv, NEW t \in Task, NEW r \in TaskResults, Finish(t, r)
  PROVE  TInv'
<1> DEFINE code == Int16(Reported(r) % (UINT16_MAX + 1))
<1>1. /\ pc[t] = "task_main" /\ Goto(t, "returned", 1)
      /\ state' = [state EXCEPT ![t] = code]
      /\ UNCHANGED <<wiring, source_endpoint, sink_endpoint, unresolved, mode,
                     remote_endpoint, sequence_from_peer, posted>>
  BY DEF Finish, fields
<1>2. num_connections(t) \in Nat /\ 1 \in Slot
  BY PlaceFacts
<1>3. state \in [Task -> StateCode]
  BY TypeParts DEF TInv
<1>4. "returned" \in Label
  BY DEF Label
<1> HIDE DEF code
<1>5. /\ pc'[t] = "returned" /\ slot'[t] = 1
      /\ (pc \in [Task -> Label])' /\ (slot \in [Task -> Slot])' /\ WiringOK'
      /\ connection' = connection /\ connection_index' = connection_index
      /\ num_connections(t)' = num_connections(t)
      /\ Elsewhere(t)
  <2>1. \A x \in Task \ {t} : unresolved'[x] = unresolved[x] /\ state'[x] = state[x]
    BY <1>1, <1>3
  <2> QED
    BY <1>1, <1>2, <1>4, <2>1, Moves
<1>6. TypeOK'
  <2>1. code \in StateCode
    <3>1. Reported(r) \in -(INT16_MAX + 1) .. INT16_MAX
      BY ReportedFacts, ResultsAssumption
    <3> QED
      BY <3>1, Int16Faithful DEF code, StateCode
  <2>2. (state \in [Task -> StateCode])'
    BY <1>1, <1>3, <2>1
  <2>3. SharedOK' /\ FieldsOK' /\ SyncOK' /\ (unresolved \in [Task -> Count])'
    BY <1>1, TypeParts DEF TInv, SharedOK, FieldsOK, SyncOK
  <2> QED
    BY <1>5, <2>2, <2>3, TypePartsNext
<1>7. Ready' = Ready
  <2>1. ASSUME NEW j \in 1 .. num_connections(t)
        PROVE  Cleared(<<t, j>>)' /\ Cleared(<<t, j>>)
    BY <1>1, <1>2, <1>5 DEF Cleared
  <2> QED
    BY <1>5, <2>1, ReadyKept
<1>8. Laid' /\ Modes' /\ Published' /\ Links' /\ EarlyPostKept'
  BY <1>1, <1>5, <1>7, FieldsKept
<1>9. PlacedAt(t)' /\ ResolvedAt(t)' /\ ReportsAt(t)'
  <2>1. PlacedAt(t) /\ ResolvedAt(t)
    BY DEF TInv, Placed, Resolved
  <2> QED
    BY <1>1, <1>5, <2>1 DEF PlacedAt, ResolvedAt, Passed, ReportsAt
<1>10. Placed' /\ Resolved' /\ Reports' /\ Posters'
  BY <1>1, <1>5, <1>9, OthersKept
<1> QED
  BY <1>6, <1>8, <1>10 DEF TInv

(* The store of an x_sync reaches the one endpoint at the other end.        *)
LEMMA SyncStep ==
  ASSUME TInv, NEW t \in Task, NEW i \in 1 .. 2 * NumConnections, FirstSync(t, i)
  PROVE  TInv'
<1> DEFINE f0 == <<t, i>>
           e0 == remote_endpoint[f0]
<1>1. /\ pc[t] = "task_main" /\ i <= num_connections(t)
      /\ sequence_from_peer' = [sequence_from_peer EXCEPT ![e0] = 1]
      /\ posted' = posted \cup {f0}
      /\ UNCHANGED <<connection, connection_index, source_endpoint, sink_endpoint,
                     state, pc, slot, unresolved, mode, remote_endpoint>>
  BY DEF FirstSync, wiring, shared
<1>2. f0 \in Endpoint /\ f0[1] = t /\ f0[2] = i
  BY DEF Endpoint
<1>3. f0 \in Ready /\ e0 \in Endpoint /\ LinkTo(f0, e0)
  BY <1>1, <1>2, LinkedInMain
<1> HIDE DEF f0, e0
<1>4. sequence_from_peer \in [Endpoint -> {0, 1}] /\ posted \subseteq Endpoint
  BY TypeParts DEF TInv, SyncOK
<1>5. TypeOK'
  <2>1. SyncOK'
    BY <1>1, <1>2, <1>4 DEF SyncOK
  <2>2. /\ WiringOK' /\ SharedOK' /\ FieldsOK' /\ (unresolved \in [Task -> Count])'
        /\ (state \in [Task -> StateCode])' /\ (pc \in [Task -> Label])'
        /\ (slot \in [Task -> Slot])'
    BY <1>1, TypeParts DEF TInv, WiringOK, SharedOK, FieldsOK
  <2> QED
    BY <2>1, <2>2, TypePartsNext
<1>6. Ready' = Ready
  BY <1>1 DEF Ready, Cleared, num_connections
<1>7. Laid' /\ Modes' /\ Published' /\ Links'
  BY <1>1, <1>6, FieldsKept
<1>8. Placed' /\ Resolved' /\ Reports'
  BY <1>1 DEF TInv, Placed, PlacedAt, Resolved, ResolvedAt, Passed, Reports,
              ReportsAt, num_connections
<1>9. Posters'
  BY <1>1, <1>2 DEF TInv, Posters, num_connections
<1>10. EarlyPostKept'
  <2> SUFFICES ASSUME NEW e \in Endpoint, NEW f \in Endpoint, Ends(e, f)', Cleared(e)'
               PROVE  sequence_from_peer'[e] = 1 <=> f \in posted'
    BY DEF EarlyPostKept
  <2>1. Ends(e, f) /\ Cleared(e)
    BY <1>1 DEF Ends, Cleared, num_connections
  <2>2. sequence_from_peer[e] = 1 <=> f \in posted
    BY <2>1 DEF TInv, EarlyPostKept
  <2>3. f = f0 => e = e0
    BY <1>2, <1>3, <2>1, OneOtherEnd DEF TInv
  <2>4. e = e0 => f = f0
    <3> SUFFICES ASSUME e = e0
                 PROVE  f = f0
      OBVIOUS
    <3>1. e \in Ready /\ LinkTo(e, f0)
      BY <1>3 DEF LinkTo, Ends
    <3> QED
      BY <1>2, <2>1, <3>1, OneOtherEnd DEF TInv
  <2> QED
    BY <1>1, <1>3, <1>4, <2>2, <2>3, <2>4
<1> QED
  BY <1>5, <1>7, <1>8, <1>9, <1>10 DEF TInv

-----------------------------------------------------------------------------
LEMMA InitEstablishes == Init => TInv
<1> SUFFICES ASSUME Init
             PROVE  TInv
  OBVIOUS
<1>1. NumConnections \in Nat
  BY NumAssumption
<1>2. connection_index \in [Task -> Seq(Connection)]
  <2>1. \A t \in Task : Index(connection, t) \in Seq(Connection)
    BY IndexFacts DEF IndexOK, Connection
  <2> QED
    BY <2>1 DEF Init
<1>3. TypeOK
  <2>1. WiringOK /\ SharedOK
    BY <1>2 DEF Init, WiringOK, SharedOK, Address
  <2>2. FieldsOK
    BY DEF Init, FieldsOK, Address, Mode
  <2>3. SyncOK
    BY DEF Init, SyncOK
  <2>4. state \in [Task -> StateCode] /\ pc \in [Task -> Label]
    BY CodesFit DEF Init, Label
  <2>5. slot \in [Task -> Slot] /\ unresolved \in [Task -> Count]
    BY <1>1 DEF Init, Slot, Count
  <2> QED
    BY <2>1, <2>2, <2>3, <2>4, <2>5, TypeParts
<1>4. Ready = {}
  BY EndpointFacts DEF Init, Ready, Cleared
<1>5. Laid /\ Modes /\ Links /\ Posters
  BY <1>4 DEF Init, Laid, Modes, Links, Posters
<1>6. Published
  BY DEF Init, Published
<1>7. Placed /\ Resolved /\ Reports
  BY DEF Init, Placed, PlacedAt, Resolved, ResolvedAt, Passed, Reports, ReportsAt
<1>8. EarlyPostKept
  BY <1>4 DEF EarlyPostKept, Ready
<1> QED
  BY <1>3, <1>5, <1>6, <1>7, <1>8 DEF TInv

LEMMA NextPreserves == TInv /\ [Next]_vars => TInv'
<1> SUFFICES ASSUME TInv, [Next]_vars
             PROVE  TInv'
  OBVIOUS
<1>1. ASSUME NEW t \in Task, Boot(t)
      PROVE  TInv'
  BY <1>1, StartStep, ZeroStep, PublishStep, ResolveStep, CheckStep DEF Boot
<1>2. ASSUME NEW t \in Task, NEW i \in 1 .. 2 * NumConnections, FirstSync(t, i)
      PROVE  TInv'
  BY <1>2, SyncStep
<1>3. ASSUME NEW t \in Task, NEW r \in TaskResults, Finish(t, r)
      PROVE  TInv'
  BY <1>3, FinishStep
<1>4. CASE UNCHANGED vars
  <2>1. TypeOK'
    BY <1>4 DEF TInv, TypeOK, vars
  <2>2. Ready' = Ready
    BY <1>4 DEF Ready, Cleared, num_connections, vars
  <2>3. Laid' /\ Modes' /\ Published' /\ Links' /\ EarlyPostKept'
    BY <1>4, <2>2, FieldsKept DEF vars
  <2>4. Placed' /\ Resolved' /\ Reports' /\ Posters'
    BY <1>4 DEF TInv, Placed, PlacedAt, Resolved, ResolvedAt, Passed, Reports,
                ReportsAt, Posters, num_connections, vars
  <2> QED
    BY <2>1, <2>3, <2>4 DEF TInv
<1> QED
  BY <1>1, <1>2, <1>3, <1>4 DEF Next

(* The invariant of the start-up.                                           *)
THEOREM Invariance == Spec => []TInv
BY InitEstablishes, NextPreserves, PTL DEF Spec

-----------------------------------------------------------------------------
(* Type correctness: the loops of xt_initialise_endpoints stay within the   *)
(* endpoint array, and every state stored fits the 16 bits of its field.    *)
THEOREM TaskTypes == Spec => []TypeOK
<1>1. TInv => TypeOK
  BY DEF TInv
<1> QED
  BY <1>1, Invariance, PTL

(* For any connections, in any order of start-up: the first sequence number *)
(* that x_sync stores in a peer's endpoint is not wiped out by that peer's  *)
(* own initialisation, and none is seen that was not stored.                *)
THEOREM EarlyPostsAreKept == Spec => []EarlyPostKept
<1>1. TInv => EarlyPostKept
  BY DEF TInv
<1> QED
  BY <1>1, Invariance, PTL

(* xt_initialise_endpoints links an endpoint only with the other end of its *)
(* connection, and main reports a task active only with all of them linked. *)
THEOREM PeersAreLinked == Spec => []PeersLinked
<1>1. TInv => PeersLinked
  <2> SUFFICES ASSUME TInv, NEW e \in Endpoint, e[2] <= num_connections(e[1])
               PROVE  /\ Cleared(e) /\ remote_endpoint[e] # NULL =>
                           /\ Ends(e, remote_endpoint[e])
                           /\ mode[e] # mode[remote_endpoint[e]]
                      /\ state[e[1]] \notin {X_VIRGIN_TASK, X_INITIALIZING_TASK} =>
                           Cleared(e) /\ remote_endpoint[e] # NULL
    BY DEF PeersLinked
  <2>1. Cleared(e) /\ remote_endpoint[e] # NULL =>
          /\ Ends(e, remote_endpoint[e])
          /\ mode[e] # mode[remote_endpoint[e]]
    BY DEF TInv, Links, LinkTo, Ready
  <2>2. ASSUME state[e[1]] \notin {X_VIRGIN_TASK, X_INITIALIZING_TASK}
        PROVE  Cleared(e) /\ remote_endpoint[e] # NULL
    <3>1. pc[e[1]] \in {"task_main", "returned"}
      BY <2>2, EndpointFacts DEF TInv, Reports, ReportsAt
    <3>2. e \in Ready /\ remote_endpoint[e] \in Endpoint
      BY <3>1, LinkedInMain
    <3> QED
      BY <3>2, EndpointFacts DEF Ready
  <2> QED
    BY <2>1, <2>2
<1> QED
  BY <1>1, Invariance, PTL

(* The step of TerminalResult.                                              *)
ResultStored ==
    \A t \in Task, r \in TaskResults : Finish(t, r) =>
        state'[t] = IF r \in X_E_ERROR_CODES_START + 1 .. 0 THEN r
                    ELSE X_E_TASK_RESULT_OUT_OF_RANGE

(* What main stores when task_main has returned reads as a completed task:  *)
(* the result itself, or the one code for results that are out of range;    *)
(* the passage through 16 bits changes neither.                             *)
THEOREM ResultsAreTerminal == Spec => TerminalResult
<1>1. TInv /\ [Next]_vars => [ResultStored]_vars
  <2> SUFFICES ASSUME TInv, NEW t \in Task, NEW r \in TaskResults, Finish(t, r)
               PROVE  state'[t] = IF r \in X_E_ERROR_CODES_START + 1 .. 0 THEN r
                                  ELSE X_E_TASK_RESULT_OUT_OF_RANGE
    BY DEF ResultStored
  <2>1. r \in Int
    BY ResultsAssumption
  <2>2. /\ Reported(r) \in -(INT16_MAX + 1) .. INT16_MAX
        /\ Reported(r) = IF r \in X_E_ERROR_CODES_START + 1 .. 0 THEN r
                         ELSE X_E_TASK_RESULT_OUT_OF_RANGE
    BY <2>1, ReportedFacts
  <2>3. Int16(Reported(r) % (UINT16_MAX + 1)) = Reported(r)
    BY <2>2, Int16Faithful
  <2>4. state'[t] = Int16(Reported(r) % (UINT16_MAX + 1))
    <3>1. DOMAIN state = Task
      BY DEF TInv, TypeOK
    <3>2. state' = [state EXCEPT ![t] = Int16(Reported(r) % (UINT16_MAX + 1))]
      BY DEF Finish
    <3> QED
      BY <3>1, <3>2
  <2> QED
    BY <2>2, <2>3, <2>4
<1>2. Spec => [][ResultStored]_vars
  BY <1>1, Invariance, PTL DEF Spec
<1> QED
  BY <1>2 DEF TerminalResult, ResultStored
=============================================================================
