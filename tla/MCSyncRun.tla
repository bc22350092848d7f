------------------------------ MODULE MCSyncRun ------------------------------
(* Values of the constants of SyncRun for TLC. *)
EXTENDS SyncRun

OnlyWrites == {"write"}
DataOps == {"remove", "write"}
ControlOps == AllOps \ DataOps

=============================================================================
