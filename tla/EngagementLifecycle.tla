------------------------ MODULE EngagementLifecycle ------------------------
(***************************************************************************)
(* What the workflow promises the people who look at one engagement,       *)
(* without its agreements, its queues or its submission rows.              *)
(*                                                                         *)
(* At most one review cycle is open.  It moves by rows of the transition   *)
(* table, except that a signature may be seen together with the machine    *)
(* steps that follow it.  Once a cycle has gone live the engagement shows  *)
(* ACTIVE for ever, and only then may a further cycle be opened; a further *)
(* cycle, and no other, may be discarded while it is still a draft.        *)
(***************************************************************************)
EXTENDS SubmissionState

VARIABLES
  open,   \* the status of the open cycle, or "NONE"
  live,   \* whether a cycle has gone live
  shown   \* the status the engagement row shows

vars == <<open, live, shown>>

OpenStatuses == (Statuses \ {"ACTIVE"}) \cup {"NONE"}

TypeOK ==
  /\ open \in OpenStatuses
  /\ live \in BOOLEAN
  /\ shown \in Statuses

Init ==
  /\ open = "DRAFT"
  /\ live = FALSE
  /\ shown = "DRAFT"

\* The engagement follows its first cycle and then stays ACTIVE.
Show == shown' = IF live' THEN "ACTIVE" ELSE open'

Advance ==
  /\ \E t \in Transitions :
       /\ t.source = open
       /\ t.target # "ACTIVE"
       /\ open' = t.target
  /\ UNCHANGED live
  /\ Show

\* The customer signs: the request goes on to capture the terms and to build
\* the billing, and may fail after either of its first two moves.
Sign ==
  /\ open = "PENDING_CLIENT_APPROVAL"
  /\ open' \in {"CLIENT_APPROVED", "BILLING_SETUP", "PENDING_BILLING_AUDIT"}
  /\ UNCHANGED live
  /\ Show

GoLive ==
  /\ open = "PENDING_BILLING_AUDIT"
  /\ open' = "NONE"
  /\ live' = TRUE
  /\ Show

OpenAmendment ==
  /\ live
  /\ open = "NONE"
  /\ open' = "DRAFT"
  /\ UNCHANGED <<live, shown>>

DiscardAmendment ==
  /\ live
  /\ open = "DRAFT"
  /\ open' = "NONE"
  /\ UNCHANGED <<live, shown>>

Next == Advance \/ Sign \/ GoLive \/ OpenAmendment \/ DiscardAmendment

Spec == Init /\ [][Next]_vars
=============================================================================
