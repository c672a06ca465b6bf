--------------------------- MODULE MCXApplication ---------------------------
(* Workgroups of one row, of one column (more rows than columns) and square. *)
EXTENDS XApplication

MCWorkgroups == {<<1, 3>>, <<2, 1>>, <<2, 2>>}
MCTasks == {X_NULL_TASK, 1}
MCKeys == {"k1"}
=============================================================================
