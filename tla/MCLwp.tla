------------------------------- MODULE MCLwp -------------------------------
(* Instances of Lwp for TLC.  The program in slot 1 is init, which forks   *)
(* and waits; the others make the calls of the run.                        *)
EXTENDS Lwp

InitCalls == {"fork", "wait"}
MCTable == <<InitCalls,
             {"fork", "create", "texit", "join", "exit"},
             {"exit"}>>
MCLive == <<InitCalls, {"create", "join", "read", "exec", "kill", "op"}>>
=============================================================================
