--------------------------- MODULE MCCycleRaces ---------------------------
(***************************************************************************)
(* CycleRaces on small instances: who is at work at the same time.         *)
(***************************************************************************)
EXTENDS CycleRaces, TLC

CONSTANTS s1, s2, s3, r1, r2, r3

\* Two people and a worker whose only status writes carry a condition, one of
\* whom opens amendments between her other requests.
ConditionalShift ==
  r1 :> {"transition", "open"} @@ r2 :> {"transition"} @@ r3 :> {"worker"}

\* One person does everything else, one after another, while another opens
\* amendments.
DeskShift == r1 :> (Kinds \ {"open"}) @@ r2 :> {"open"} @@ r3 :> {}

\* One person discards what another opens and submits.
DiscardShift == r1 :> {"transition", "open"} @@ r2 :> {"discard"} @@ r3 :> {"worker"}

TamedShifts == {ConditionalShift, DeskShift, DiscardShift}

\* What the theorems ask of the shifts, these meet.
ASSUME TamedShiftsAreTame ==
  \A w \in TamedShifts : OneOpens(w) /\ PutBacksAlone(w)

\* Two people open amendments; nothing else happens but the review.
TwoOpeners == {r1 :> {"open"} @@ r2 :> {"open"} @@ r3 :> {"transition", "approve"}}

\* Somebody looks at the summary while the workers run.
Reader == {r1 :> {"rewrite"} @@ r2 :> {"transition"} @@ r3 :> {"worker"}}

Symmetry == Permutations(Subs)
=============================================================================
