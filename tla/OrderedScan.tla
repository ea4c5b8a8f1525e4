---------------------------- MODULE OrderedScan -----------------------------
(***************************************************************************)
(* What paging promises as long as nobody writes to the table: the client  *)
(* is handed the scope from where it began, in order, without a gap or a   *)
(* repetition, and the service ends the walk only when nothing is left,    *)
(* when the client asked for empty pages, or past the last row a $skip can *)
(* reach.  Once somebody wrote, this scan promises no more.                *)
(***************************************************************************)
EXTENDS Integers, Sequences

CONSTANT Rows

VARIABLES
  scope,      \* what is left to read when the walk begins
  reach,      \* how many of them links can lead to at least
  empty,      \* the client asked for pages of no rows
  delivered,  \* what it was handed
  status      \* "idle", "open", "closed", "failed" or "disturbed"

vars == <<scope, reach, empty, delivered, status>>

TypeOK ==
  /\ scope \in Seq(Rows)
  /\ delivered \in Seq(Rows)
  /\ empty \in BOOLEAN
  /\ reach \in Int
  /\ status \in {"idle", "open", "closed", "failed", "disturbed"}

Init == status = "idle" /\ scope = <<>> /\ reach = 0 /\ empty = FALSE /\ delivered = <<>>

Open ==
  /\ status = "idle" /\ status' = "open"
  /\ scope' \in Seq(Rows)
  /\ reach' \in Int
  /\ empty' \in BOOLEAN
  /\ UNCHANGED delivered

\* one page
Deliver ==
  /\ status = "open"
  /\ \E n \in Len(delivered) .. Len(scope) : delivered' = SubSeq(scope, 1, n)
  /\ UNCHANGED <<scope, reach, empty, status>>

Close ==
  /\ status = "open" /\ status' = "closed"
  /\ empty \/ delivered = scope \/ Len(delivered) >= reach
  /\ UNCHANGED <<scope, reach, empty, delivered>>

Fail ==
  /\ status = "open" /\ status' = "failed"
  /\ UNCHANGED <<scope, reach, empty, delivered>>

\* somebody writes
Disturb ==
  /\ status = "open" /\ status' = "disturbed"
  /\ scope' = <<>> /\ reach' = 0 /\ empty' = FALSE /\ delivered' = <<>>

Next == Open \/ Deliver \/ Close \/ Fail \/ Disturb

\* a walk that began ends
Ends == status = "open" ~> status \in {"closed", "failed", "disturbed"}

Safety == Init /\ [][Next]_vars
Spec == Safety /\ Ends

=============================================================================
