----------------------------- MODULE MCAuditPool -----------------------------
(***************************************************************************)
(* Instances of AuditPool: three files of the three categories, so that    *)
(* one worker may hold several of them and a merge may race with the next. *)
(***************************************************************************)
EXTENDS AuditPool

MCCategory == [t \in Tasks |-> CASE t = 0 -> "src" [] t = 1 -> "vendor" [] OTHER -> "bind"]
=============================================================================
