------------------------------- MODULE MCLog --------------------------------
(* The instance of Log for TLC; its sizes are in log.cfg.                  *)
EXTENDS Log
=============================================================================
