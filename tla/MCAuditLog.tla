----------------------------- MODULE MCAuditLog -----------------------------
(* Small instance of AuditLog for TLC.                                     *)
EXTENDS AuditLog, TLC
=============================================================================
