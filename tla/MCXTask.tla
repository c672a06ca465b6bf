------------------------------ MODULE MCXTask -------------------------------
(* Small applications for the start-up model. *)
EXTENDS XTask

CONSTANTS t1, t2, t3

Link(a, b) == [source_task |-> a, sink_task |-> b]

(* A ring; a pair with connections both ways, one of them double, next to  *)
(* a task that has none; and the two next to a task connected to itself.   *)
MCTopologies ==
    { <<Link(t1, t2), Link(t2, t3), Link(t3, t1)>>,
      <<Link(t1, t2), Link(t2, t1), Link(t1, t2)>>,
      <<Link(t1, t2), Link(t3, t3), Link(t2, t1)>> }

(* Around the bounds of what may be reported, and beyond 16 bits. *)
MCResults == {0, 3, -29999, -30000, 65536}
=============================================================================
