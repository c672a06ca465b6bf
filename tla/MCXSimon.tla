------------------------------ MODULE MCXSimon ------------------------------
(* A device of two by two cores, one external segment, requests of every    *)
(* course that serving one can take, and an ending that is an error.        *)
EXTENDS XSimon, TLC

MCArguments == {<<>>, <<0, 0>>, <<0, 1>>, <<1, 1>>, <<2, 0>>}
WholeDevice == {<<>>}
MCRestartable == {<<0, 1>>}
MCSizes == 0 :> 4
MCRequests ==
  {[trap |-> X_READ_TRAP, call |-> "read", std |-> TRUE, reach |-> {"r1"}],
   [trap |-> X_SYSCALL_TRAP, call |-> "unlink", std |-> FALSE, reach |-> {"r0"}],
   [trap |-> X_SYSCALL_TRAP, call |-> "fstat", std |-> FALSE, reach |-> {}]}
Exit == {[condition |-> "trap", value |-> X_EXIT_TRAP]}
MCEndings == Exit \cup {[condition |-> "plain", value |-> 0]}
=============================================================================
