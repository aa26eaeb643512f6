------------------------------- MODULE MCMlfq -------------------------------
(***************************************************************************)
(* Instances of the MLFQ scheduler for TLC: the system calls each of them  *)
(* lets the processes make.  Every size and bound is in the .cfg files.    *)
(***************************************************************************)
EXTENDS Mlfq

LifeCycle == {"fork", "exit", "wait", "yield"}
OneCpuCalls == LifeCycle \cup {"lock", "unlock", "kill", "setLevel", "setPriority"}
SmpCalls == {"fork", "forkfail", "exit", "wait", "lock", "unlock", "badlock"}
LiveCalls == {"fork", "lock", "kill", "sleep"}
ForkFailCalls == {"fork", "forkfail"}
=============================================================================
