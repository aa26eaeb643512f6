----------------------------- MODULE MCSyncLog ------------------------------
(* SyncLog with interchangeable callers and blocks.                        *)
EXTENDS SyncLog, TLC

Interchangeable == Permutations(Caller) \cup Permutations(Home)
=============================================================================
