------------------------------- MODULE MCSync -------------------------------
(* Sync with the startup thread and one or two others. *)
EXTENDS SyncHistory

CONSTANTS Slots

=============================================================================
