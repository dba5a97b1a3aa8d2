--------------------------- MODULE MCAuditLedger ---------------------------
(* Small instances of AuditLedger for TLC. *)
EXTENDS AuditLedger, TLC

WriterSymmetry == Permutations(Writers)
=============================================================================
