--------------------------- MODULE MCStoreSystem ---------------------------
(***************************************************************************)
(* Small instances of StoreSystem.                                          *)
(***************************************************************************)
EXTENDS StoreSystem

SyncCommand(i, g, s) ==
  [kind |-> "request_sync", id |-> i, generation |-> g, sequence |-> s]
CancelCommand(i, op) == [kind |-> "cancel_sync", id |-> i, operation |-> op]
DeactivateCommand(i, g) == [kind |-> "start_deactivation", id |-> i, generation |-> g]

\* Two coordinators: one for each sequence.
MCScopeOf == [s \in Sequence |-> IF s = "a" THEN "qa" ELSE "qb"]

\* Two syncs and a deactivation.
MCOperations == {SyncCommand(1, 0, "a"), SyncCommand(2, 0, "b"), DeactivateCommand(3, 0)}

\* A sync, its cancellation, a sync whose metadata does not parse, a deactivation
\* and its retry at the new generation.
MCRetry ==
  {SyncCommand(1, 0, "a"), CancelCommand(5, SyncId(0, "a")), SyncCommand(6, 0, "a"),
   DeactivateCommand(3, 0), DeactivateCommand(4, 1)}

\* A sync, its cancellation and a deactivation.
MCCancel ==
  {SyncCommand(1, 0, "a"), CancelCommand(5, SyncId(0, "a")), DeactivateCommand(3, 0)}
=============================================================================
