--------------------------- MODULE PipelineProgress ---------------------------
(***************************************************************************)
(* That the parse and extract workers finish what people ask of them       *)
(* (pipeline/parse.py, pipeline/extract.py).  The agreements of a draft    *)
(* are in; people send them to be read, send them again and correct their  *)
(* types while the workers of EngagementWorkflow are at it, and at a       *)
(* moment of their choosing leave the engagement alone.  From then on only *)
(* the workers take steps, and they are fair.                              *)
(***************************************************************************)
EXTENDS EngagementWorkflow

CONSTANT TypesNamed   \* the types people give an agreement, UNKNOWN for none

VARIABLE quiet   \* whether people have left the engagement alone

progressVars == <<vars, quiet>>

\* Every agreement is uploaded, in some order, with or without a type.
Created == CHOOSE f \in [Docs -> 1..Cardinality(Docs)] : \A d, e \in Docs : f[d] = f[e] => d = e
Uploaded(types) == Ranked([d \in Docs |-> NewDocument(types[d], 1, Created[d])])

QuietInit ==
  /\ quiet = FALSE
  /\ \E types \in [Docs -> TypesNamed], s \in Subs :
       /\ docs = Uploaded(types)
       /\ subs = [x \in {s} |-> NewCycle(1, SlotsOf(docs), 1)]
       /\ engagement = [status |-> "DRAFT", scope |-> ScopeOf(docs), dues |-> NoValue]
       /\ issued = {s} \cup Docs
  /\ files \in [Docs \X {1} -> Contents]
  /\ versions = [k \in Docs \X {1} |-> "uploaded"]
  /\ uploads = {} /\ ingest = {} /\ extract = {}

\* What people may ask meanwhile: every request a cycle answers before it is
\* with the customer, and a corrected type.  Who asks makes no difference.
Asked ==
  \/ \E s \in Subs : SubmitForProcessing(s, "provider") \/ Reupload(s, "provider")
  \/ \E d \in Docs : ExtractDocument(d, "provider", TRUE)
  \/ \E d \in Docs, type \in TypesNamed : SetDocumentType(d, type)

PeopleWork  == ~quiet /\ (Asked \/ WorkerStep) /\ UNCHANGED quiet
PeopleLeave == ~quiet /\ ingest \cup extract # {} /\ quiet' = TRUE /\ UNCHANGED vars
WorkersWork == quiet /\ WorkerStep /\ UNCHANGED quiet

QuietNext == PeopleWork \/ PeopleLeave \/ WorkersWork

\* A delivery that is handled to its end and acknowledged.
Parsed(m) == (ParseFails(m) \/ ParsePasses(m)) /\ m \notin ingest'
Read(m)   == Extract(m) /\ m \notin extract'

\* SQS delivers a message again until a worker acknowledges it, and not every
\* worker dies: while a queue holds messages that can be handled, one of them
\* is handled to its end sooner or later.
WorkersAreFair ==
  /\ WF_progressVars(quiet /\ (\E m \in ingest : Parsed(m)) /\ UNCHANGED quiet)
  /\ WF_progressVars(quiet /\ (\E m \in extract : Read(m)) /\ UNCHANGED quiet)

FairSpec == QuietInit /\ [][QuietNext]_progressVars /\ WorkersAreFair

-----------------------------------------------------------------------------
(* What must happen.                                                       *)

BeingRead(s) == s \in DOMAIN subs /\ subs[s].status \in {"REVALIDATING", "EXTRACTING"}

\* What the workers need to bring cycle s through: a message of it for every
\* agreement still to be read, and one in any case that has not passed the gate
\* the cycle waits at.
HasItsWorkQueued(s) ==
  LET ready(queue) == {m \in queue : m.sub = s /\ m.key \in DOMAIN files /\ m.key \in DOMAIN versions}
  IN  /\ ready(IF subs[s].status = "REVALIDATING" THEN ingest ELSE ingest \cup extract) # {}
      /\ \A d \in Pending(docs, versions) :
           \E m \in ready(ingest \cup extract) : m.key = CurrentKey(docs, d)

\* A cycle that is being read or revalidated, with its work queued, comes
\* through: whatever dies, arrives twice, fails the gate or is found out about
\* an agreement on the way (parse.py, extract.py, _all_documents_extracted).
CyclesComeThrough ==
  \A s \in Subs : quiet /\ BeingRead(s) /\ HasItsWorkQueued(s) ~> quiet /\ ~BeingRead(s)
=============================================================================
