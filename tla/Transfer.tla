------------------------------ MODULE Transfer ------------------------------
(***************************************************************************)
(* What a file transfer promises to whoever starts it, with nothing of the *)
(* messages it takes: the file is replaced by a growing prefix of the      *)
(* source, and success is reported of a complete copy only.                *)
(***************************************************************************)
EXTENDS Integers, Sequences

CONSTANTS
  Sources,     \* the contents a file to be transferred may have
  Untouched    \* the stored file, while the transfer has not opened it

VARIABLES
  source,      \* the contents being transferred
  stored,      \* the file at the receiving end
  report       \* what the user has been told: "none", "success", "failure"

vars == <<source, stored, report>>

Prefix(n) == SubSeq(source, 1, n)

Init ==
  /\ source \in Sources
  /\ stored = Untouched
  /\ report = "none"

Truncate ==
  /\ stored = Untouched
  /\ stored' = <<>>
  /\ UNCHANGED <<source, report>>

Extend ==
  /\ stored # Untouched
  /\ \E n \in (Len(stored) + 1)..Len(source) : stored' = Prefix(n)
  /\ UNCHANGED <<source, report>>

Succeed ==
  /\ report = "none"
  /\ stored = source
  /\ report' = "success"
  /\ UNCHANGED <<source, stored>>

Fail ==
  /\ report = "none"
  /\ report' = "failure"
  /\ UNCHANGED <<source, stored>>

Next == Truncate \/ Extend \/ Succeed \/ Fail

Spec == Init /\ [][Next]_vars
=============================================================================
