--------------------------- MODULE MCAuditPipeline ---------------------------
(***************************************************************************)
(* AuditPipeline for TLC.                                                  *)
(***************************************************************************)
EXTENDS AuditPipeline
=============================================================================
