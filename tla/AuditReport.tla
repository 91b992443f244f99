----------------------------- MODULE AuditReport -----------------------------
(***************************************************************************)
(* What `tolza audit' promises its user, without threads, indices and      *)
(* locks (audit_workspace in toolchain/src/command_audit.cpp): files are   *)
(* seen one after the other, what was seen is kept, and the report is      *)
(* printed only when everything seen is kept and no file was passed over.  *)
(***************************************************************************)
CONSTANT Files

VARIABLES
  present,  \* the files that exist
  seen,     \* the files that were opened
  kept,     \* the files the totals contain
  status    \* "running", "reported" or "aborted"

vars == <<present, seen, kept, status>>

Init == present = Files /\ seen = {} /\ kept = {} /\ status = "running"

See(f) ==
  /\ status = "running"
  /\ f \in present \ seen
  /\ seen' = seen \cup {f}
  /\ UNCHANGED <<present, kept, status>>

Keep(S) ==
  /\ status = "running"
  /\ kept' = kept \cup S
  /\ UNCHANGED <<present, seen, status>>

Vanish(f) ==
  /\ status = "running"
  /\ present' = present \ {f}
  /\ UNCHANGED <<seen, kept, status>>

Report ==
  /\ status = "running"
  /\ kept = seen
  /\ present \subseteq seen
  /\ status' = "reported"
  /\ UNCHANGED <<present, seen, kept>>

\* A file vanished between being opened and being measured.
Abort ==
  /\ status = "running"
  /\ \E f \in seen \ kept : f \notin present
  /\ status' = "aborted"
  /\ UNCHANGED <<present, seen, kept>>

Next ==
  \/ \E f \in Files : See(f) \/ Vanish(f)
  \/ \E S \in SUBSET seen : Keep(S)
  \/ Report
  \/ Abort

Spec == Init /\ [][Next]_vars
=============================================================================
