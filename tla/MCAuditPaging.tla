--------------------------- MODULE MCAuditPaging ---------------------------
(* Small instances of AuditPaging for TLC.                                 *)
EXTENDS AuditPaging
=============================================================================
