--------------------------- MODULE MCJobScheduler ---------------------------
(***************************************************************************)
(* The small instances of JobScheduler that TLC checks.                    *)
(***************************************************************************)
EXTENDS JobScheduler, TLC

CONSTANTS inbox, lists, deleted  \* two folders and one that is not valid

AllFolders  == {inbox, lists, deleted}
LiveFolders == {inbox, lists}
ExpiryAndUnique == {0, 1}  \* a client's unique task, and ScheduledExpireTask
ExpiryOnly == {1}

SameFolders == Permutations(LiveFolders)
=============================================================================
