-------------------------- MODULE SubmissionState --------------------------
(***************************************************************************)
(* The approval state machine of one review cycle, as the table            *)
(* app/lifecycle/submission_state.py holds it: eleven statuses, who may    *)
(* take which action from which of them, and where it leads.  A request or *)
(* a worker moves a cycle only through a row of this table.                *)
(***************************************************************************)

Roles == {"provider", "client", "finance", "system"}

\* The roles a membership row can hold: SYSTEM is only ever synthesised.
MemberRoles == Roles \ {"system"}

Statuses ==
  {"DRAFT", "EXTRACTING", "IN_UNDERWRITING", "PENDING_CLIENT_APPROVAL",
   "CHANGES_REQUESTED_CLIENT", "REVALIDATING", "VALIDATION_FAILED",
   "CLIENT_APPROVED", "BILLING_SETUP", "PENDING_BILLING_AUDIT", "ACTIVE"}

Provider == {"provider"}
Client   == {"client"}
Finance  == {"finance", "provider"}
System   == {"system"}

Row(action, source, target, roles) ==
  [action |-> action, source |-> source, target |-> target, roles |-> roles]

Transitions ==
  {Row("submit_for_processing", "DRAFT", "EXTRACTING", Provider),
   Row("pipeline_done", "EXTRACTING", "IN_UNDERWRITING", System),
   Row("submit_to_client", "IN_UNDERWRITING", "PENDING_CLIENT_APPROVAL", Provider),
   Row("client_approve", "PENDING_CLIENT_APPROVAL", "CLIENT_APPROVED", Client),
   Row("client_request_changes",
       "PENDING_CLIENT_APPROVAL", "CHANGES_REQUESTED_CLIENT", Client),
   Row("reupload", "CHANGES_REQUESTED_CLIENT", "REVALIDATING", Provider),
   Row("reupload", "VALIDATION_FAILED", "REVALIDATING", Provider),
   Row("reupload", "IN_UNDERWRITING", "REVALIDATING", Provider),
   Row("resubmit_to_client",
       "CHANGES_REQUESTED_CLIENT", "PENDING_CLIENT_APPROVAL", Provider),
   Row("sanity_pass", "REVALIDATING", "EXTRACTING", System),
   Row("sanity_fail", "REVALIDATING", "VALIDATION_FAILED", System),
   Row("capture_fields", "CLIENT_APPROVED", "BILLING_SETUP", System),
   Row("billing_ready", "BILLING_SETUP", "PENDING_BILLING_AUDIT", System),
   Row("approve_billing", "PENDING_BILLING_AUDIT", "ACTIVE", Finance)}

\* transition(): the rows a role may take with an action from a status; there
\* is at most one, and with none the call raises IllegalTransition.
Allowed(status, action, role) ==
  {t \in Transitions : t.source = status /\ t.action = action /\ role \in t.roles}

\* The table without its labels: where one action can take a status.
Moves == {<<t.source, t.target>> : t \in Transitions}
=============================================================================
