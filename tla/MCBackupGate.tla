---------------------------- MODULE MCBackupGate ----------------------------
(* Small instances of BackupGate. *)
EXTENDS BackupGate, TLC

CONSTANTS r1, r2, r3

=============================================================================
