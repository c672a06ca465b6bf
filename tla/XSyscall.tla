------------------------------ MODULE XSyscall ------------------------------
(***************************************************************************)
(* What the host does for a core that has halted: decoding the reason      *)
(* (x_epiphany_exception.c), gathering the parameters of a system call or  *)
(* legacy I/O trap, performing it and returning the results                *)
(* (x_epiphany_syscall.c). Strings, buffers and numbers are left out: of a *)
(* register that holds an address only matters whether the host can reach  *)
(* what it points to, of a result only whether it is negative.             *)
(***************************************************************************)
EXTENDS Integers, Sequences

X_WRITE_TRAP == 0
X_READ_TRAP == 1
X_OPEN_TRAP == 2
X_EXIT_TRAP == 3
X_CLOSE_TRAP == 6
X_SYSCALL_TRAP == 7

(* A request: the trap, the system call (for trap 7, number in r3), whether *)
(* r0 is one of the standard descriptors 0 to 2, and which of r0, r1 hold   *)
(* an address that x_epiphany_to_host_address can translate.                *)
Call == {"open", "close", "read", "write", "lseek", "unlink", "fstat", "stat",
         "link", "gettimeofday", "other"}
Request == [trap : Nat, call : Call, std : BOOLEAN, reach : SUBSET {"r0", "r1"}]

-----------------------------------------------------------------------------
(* The registers of a core as far as the exception is decoded from them:    *)
(* running, or halted after a trap instruction, with a cause in the status  *)
(* register, with neither, or at a pc the host cannot map.                  *)
Condition == {"running", "trap", "software", "plain", "unmapped"}

(* Epiphany-III causes as Epiphany-IV exception numbers.                    *)
ExceptionNumber(excause) ==
  CASE excause = 4 -> 15
    [] excause = 1 -> 14
    [] excause = 2 -> 13
    [] excause = 5 -> 12
    [] excause = 3 -> 7
    [] OTHER -> excause

(* The exception of a core that lies inside the workgroup.                  *)
x_catch_epiphany_exception(core) ==
  CASE core.condition = "running"  -> [type |-> "none", value |-> 0]
    [] core.condition = "trap"     -> [type |-> "trap", value |-> core.value]
    [] core.condition = "software" -> [type |-> "software",
                                       value |-> ExceptionNumber(core.value)]
    [] OTHER                       -> [type |-> "error", value |-> 0]

-----------------------------------------------------------------------------
(* The system call a trap stands for.                                       *)
CallOf(q) ==
  CASE q.trap = X_WRITE_TRAP -> "write"
    [] q.trap = X_READ_TRAP  -> "read"
    [] q.trap = X_OPEN_TRAP  -> "open"
    [] q.trap = X_CLOSE_TRAP -> "close"
    [] OTHER                 -> q.call

(* The parameters can be gathered: for trap 7 there is no case for close,   *)
(* lseek and the calls that cannot be handled at all.                       *)
x_get_epiphany_syscall_parameters(q) ==
  q.trap = X_SYSCALL_TRAP => q.call \notin {"close", "lseek", "other"}

(* Calls with a file name: strlen is applied to the Epiphany address of the *)
(* name, which in the host process may or may not be readable memory.       *)
TakesFileName(q) == CallOf(q) \in {"open", "stat", "link", "unlink"}

(* The register with the address of the output buffer.                      *)
OutputRegister(call) == IF call = "gettimeofday" THEN "r0" ELSE "r1"
HasOutput(call) == call \in {"read", "stat", "fstat", "gettimeofday"}

(* The host's system calls made for q, in order; the result is that of the  *)
(* last. The cases lseek and unlink have no break. Closing a standard       *)
(* descriptor is faked.                                                     *)
HostCalls(q) ==
  LET call == CallOf(q) IN
  CASE call = "close"  -> IF q.std THEN <<>> ELSE <<"close">>
    [] call = "lseek"  -> <<"lseek", "unlink", "fstat">>
    [] call = "unlink" -> <<"unlink", "fstat">>
    [] OTHER           -> <<call>>

(* How the host's calls can turn out. The fstat after an unlink is given    *)
(* the address of the file name for a descriptor, and there is none such.   *)
HostOutcomes(q) ==
  {ok \in [DOMAIN HostCalls(q) -> BOOLEAN] : CallOf(q) = "unlink" => ~ok[2]}

(* The result when the host's calls succeed as ok says.                     *)
x_handle_epiphany_syscall(q, ok) ==
  LET n == Len(HostCalls(q)) IN IF n = 0 THEN TRUE ELSE ok[n]

(* A successful call whose output buffer the host cannot reach has its      *)
(* output in a static area, from where it is copied to address NULL; for    *)
(* read the size to copy is zero, so that nothing happens.                  *)
PutFaults(q, success) ==
  LET call == CallOf(q) IN
  /\ success
  /\ call \in {"stat", "fstat", "gettimeofday"}
  /\ OutputRegister(call) \notin q.reach

(* The output is in the core's buffer afterwards.                           *)
x_put_epiphany_syscall_results(q, success) ==
  success /\ HasOutput(CallOf(q)) /\ OutputRegister(CallOf(q)) \in q.reach

(* The results of q can be returned: those of a legacy trap must be of one  *)
(* of the four calls that have a legacy trap.                               *)
x_put_epiphany_legacy_io_trap_results(q) ==
  q.trap # X_SYSCALL_TRAP => CallOf(q) \in {"write", "read", "open", "close"}

(* Traps that simon has served; all others end the core's program.          *)
IsServed(e) ==
  /\ e.type = "trap"
  /\ e.value \in {X_SYSCALL_TRAP, X_WRITE_TRAP, X_READ_TRAP, X_OPEN_TRAP,
                  X_CLOSE_TRAP}
=============================================================================
