------------------------------ MODULE MCBackupLoop ------------------------------
(***************************************************************************)
(* BackupLoop for TLC.  The instances are in the .cfg files: an interval of *)
(* a few ticks, a retry of one, and a clock that lasts for several runs.    *)
(***************************************************************************)
EXTENDS BackupLoop
=============================================================================
