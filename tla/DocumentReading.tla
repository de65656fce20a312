--------------------------- MODULE DocumentReading ---------------------------
(***************************************************************************)
(* One reading of one contract (extraction/service.py, windows.py,         *)
(* merge.py): each category of terms is asked of the windows it needs, a   *)
(* call may come back whole, cut off, overflowed or failed, what was cut   *)
(* off is asked once more over halves, and the answers are folded back     *)
(* into one reading of the document.  Calls run in parallel and are        *)
(* gathered in the order of the plan, so one step is one call's answer.    *)
(***************************************************************************)
EXTENDS Integers, Sequences, FiniteSets, FiniteSetsExt, SequencesExt

CONSTANTS
  Contracts,    \* the documents: [pages, asked, terms]
  OutputCap,    \* what the model writes in one answer
  MaxTroubles   \* bound: calls of one reading that do not come back whole

\* A page: [size, low, high], its tokens and whether a table runs to its
\* bottom or starts at its top.  What is asked: a sequence of [call, perPage],
\* what a category is expected to write per page.  A term is read whole by a call
\* that sees all the pages in needs, with those of its list entries (bands), and
\* the optional detail, that stand on pages the call sees.  A call that sees only
\* some of its pages may miss parts of its identity: any of those in key, which
\* lost names in a record of it; in the document itself nothing is lost.
ClausesOf(doc) ==
  [call : STRING, program : STRING, priced : BOOLEAN, needs : SUBSET DOMAIN doc.pages,
   bands : SUBSET DOMAIN doc.pages, detail : Nat,
   key : SUBSET {"amount", "frequency", "section"}, lost : {{}}]
ASSUME ContractsAssumption ==
  \A doc \in Contracts :
    /\ doc.pages \in Seq([size : Nat, low : BOOLEAN, high : BOOLEAN]) /\ doc.pages # <<>>
    /\ doc.asked \in Seq([call : STRING, perPage : Nat])
    /\ doc.terms \subseteq ClausesOf(doc)

VARIABLES
  contract,   \* the document, once the reading has begun
  plan,       \* the jobs, in order, each [call, index, pages]
  prefixes,   \* window index -> the pages of the prefix built for it
  asked,      \* how many of the plan's jobs have been answered
  calls,      \* telemetry of those: [call, index, truncated, error]
  found,      \* the records answered, one function per answer
  retried,
  extraction  \* the merged reading, or {} until it is made

readingVars ==
  <<contract, plan, prefixes, asked, calls, found, retried, extraction>>

-----------------------------------------------------------------------------
(* Windows (windows.py).  A window is a sequence of page numbers.          *)

Tokens(doc, window) == MapThenSumSet(LAMBDA p : doc.pages[p].size, ToSet(window))

TableContinues(doc, p) == p > 1 /\ doc.pages[p - 1].low /\ doc.pages[p].high

\* Whether page p begins a window; a table that runs on holds the boundary open
\* up to the cap.
Opens(doc, target, cap, blocks, p) ==
  LET after == Tokens(doc, Last(blocks)) + doc.pages[p].size
  IN  IF TableContinues(doc, p) THEN after > target /\ after > cap ELSE after > target

\* Greedy packing.
Packed(doc, target, cap) ==
  LET pack[p \in 0..Len(doc.pages)] ==
        IF p = 0 THEN <<>>
        ELSE IF p = 1 \/ Opens(doc, target, cap, pack[p - 1], p) THEN Append(pack[p - 1], <<p>>)
        ELSE Append(Front(pack[p - 1]), Append(Last(pack[p - 1]), p))
  IN  pack[Len(doc.pages)]

\* A thin last window goes back into the one before it if they fit.
Folded(doc, blocks, target, cap) ==
  LET tail == Tokens(doc, Last(blocks))
      back == Front(blocks)
  IN  IF Len(blocks) > 1 /\ 2 * tail < target /\ tail + Tokens(doc, Last(back)) <= cap
      THEN Append(Front(back), Last(back) \o Last(blocks))
      ELSE blocks

\* The last page of a window is read again at the head of the next one; above
\* it, windows that do not overlap.
Apart(blocks) == blocks
Overlapped(blocks) ==
  [n \in DOMAIN blocks |->
     IF n = 1 THEN blocks[n] ELSE <<Last(blocks[n - 1])>> \o blocks[n]]

Whole(doc) == [p \in DOMAIN doc.pages |-> p]
Ceil(a, b) == (a + b - 1) \div b

\* windows_for_output, for as many answers as the category's text needs.
WindowsFor(doc, perPage) ==
  LET need   == Ceil(perPage * Len(doc.pages), (OutputCap * 85) \div 100)
      target == Max({1, Tokens(doc, Whole(doc)) \div need})
      cap    == (target * 3) \div 2
  IN  IF need <= 1 THEN <<Whole(doc)>>
      ELSE Overlapped(Folded(doc, Packed(doc, target, cap), target, cap))

-----------------------------------------------------------------------------
(* The plan (service.py, _plan_calls and extract_contract).                *)

Priming == "pricing"

\* Each category is windowed on its own.  Which call is also asked for the
\* document's parties and dates is left out.
JobsOf(doc, a) ==
  LET windows == WindowsFor(doc, a.perPage)
  IN  [n \in DOMAIN windows |->
         [call |-> a.call, index |-> n - 1, pages |-> windows[n]]]

PlanCalls(doc) ==
  FlattenSeq([i \in DOMAIN doc.asked |-> JobsOf(doc, doc.asked[i])])

\* The priming call goes first when there is one window for all.
Chosen(jobs, priming) ==
  FlattenSeq([j \in DOMAIN jobs |-> IF (jobs[j].call = Priming) = priming THEN <<jobs[j]>> ELSE <<>>])
PrimingOrder(jobs) == Chosen(jobs, TRUE) \o Chosen(jobs, FALSE)

Indices(jobs) == {jobs[j].index : j \in DOMAIN jobs}
Ordered(jobs) == IF Cardinality(Indices(jobs)) = 1 THEN PrimingOrder(jobs) ELSE jobs

\* One prefix per window index: the last job to carry an index has its pages
\* stand for all of them.
PrefixesOf(jobs, known) ==
  [i \in DOMAIN known \cup Indices(jobs) |->
     LET carriers == {j \in DOMAIN jobs : jobs[j].index = i}
     IN  IF carriers = {} THEN known[i] ELSE jobs[Max(carriers)].pages]

NoPrefixes == [i \in {} |-> <<>>]

BeginReading(doc) ==
  /\ contract = {}
  /\ contract' = {doc}
  /\ plan' = Ordered(PlanCalls(doc))
  /\ prefixes' = PrefixesOf(plan', NoPrefixes)
  /\ UNCHANGED <<asked, calls, found, retried, extraction>>

Doc == CHOOSE doc \in contract : TRUE

-----------------------------------------------------------------------------
(* One call.                                                               *)

\* Whether these pages show a term, or some of it, and what an answer over them
\* says of it.
SeenIn(t, pages) == t.needs \subseteq pages /\ (t.bands = {} \/ t.bands \cap pages # {})
GlimpsedIn(t, pages) == (t.needs \cup t.bands \cup {t.detail}) \cap pages # {}
Reading(t, pages) ==
  [bands |-> t.bands \cap pages, detail |-> t.detail \in pages]

\* The terms of the call's category the prefix shows, and the records it may give
\* rise to where it shows a part: the same term, or one whose identity is not all
\* there, a fee without its amount, or under another frequency.
Visible(job) ==
  LET pages == ToSet(prefixes[job.index])
  IN  {t \in Doc.terms : t.call = job.call /\ SeenIn(t, pages)}

Losing(t, parts) == [t EXCEPT !.lost = parts]
Whence(x) == Losing(x, {})

Partial(job) ==
  LET pages == ToSet(prefixes[job.index])
  IN  UNION {{Losing(t, parts) : parts \in SUBSET t.key} :
               t \in {t \in Doc.terms : t.call = job.call /\ ~SeenIn(t, pages) /\ GlimpsedIn(t, pages)}}

Troubles == {i \in DOMAIN calls : calls[i].truncated \/ calls[i].error}

\* outcome: whole; cut, with some of the records; overflow and failed, with
\* none.  What does not validate is not told apart from what was not answered.
\* Whether the model speaks of what it sees in part, nobody knows.
RunCall(outcome, kept) ==
  /\ asked < Len(plan)
  /\ outcome # "whole" => Cardinality(Troubles) < MaxTroubles
  /\ LET job == plan[asked + 1]
         pages == ToSet(prefixes[job.index])
     IN  /\ kept \subseteq Visible(job) \cup Partial(job)
         /\ outcome = "whole" => Visible(job) \subseteq kept
         /\ outcome \in {"overflow", "failed"} => kept = {}
         /\ calls' = Append(calls,
              [call |-> job.call, index |-> job.index,
               truncated |-> outcome \in {"cut", "overflow"},
               error |-> outcome \in {"overflow", "failed"}])
         /\ found' = Append(found, [t \in kept |-> Reading(t, pages)])
  /\ asked' = asked + 1
  /\ UNCHANGED <<contract, plan, prefixes, retried, extraction>>

\* What was cut off is split in two and asked once more; above it, halves that
\* leave out the page between them.
HalvesApart(pages) ==
  LET half == Len(pages) \div 2
  IN  <<SubSeq(pages, 1, half), SubSeq(pages, half + 2, Len(pages))>>
Halves(pages) ==
  LET half == Len(pages) \div 2
  IN  <<SubSeq(pages, 1, half), SubSeq(pages, half + 1, Len(pages))>>

WindowOf(c) ==
  plan[Min({j \in DOMAIN plan : plan[j].call = c.call /\ plan[j].index = c.index})].pages

RetriesOf(c) ==
  IF Len(WindowOf(c)) < 2 THEN <<>>
  ELSE [n \in 1..2 |-> [call |-> c.call, index |-> 1000 * (c.index + 1) + n - 1,
                        pages |-> Halves(WindowOf(c))[n]]]

Retries ==
  FlattenSeq([i \in DOMAIN calls |-> IF calls[i].truncated THEN RetriesOf(calls[i]) ELSE <<>>])

Retry ==
  /\ contract # {} /\ asked = Len(plan) /\ ~retried
  /\ retried' = TRUE
  /\ plan' = plan \o Retries
  /\ prefixes' = PrefixesOf(Retries, prefixes)
  /\ UNCHANGED <<contract, asked, calls, found, extraction>>

-----------------------------------------------------------------------------
(* The merge (merge.py).  A term's identity is what it says, so readings   *)
(* of one term meet under one id; one that misses the amount, or has       *)
(* another frequency, is a row of its own.                                 *)

\* Lists are united and gaps filled.
Fold(readings) ==
  [bands |-> UNION {r.bands : r \in readings}, detail |-> \E r \in readings : r.detail]

\* A program priced somewhere is not an unpriced enrolment anywhere.
IsBare(t, all) ==
  t.call = Priming /\ ~t.priced /\ \E o \in all : o.priced /\ o.program = t.program

MergeRecords(answers) ==
  LET all == UNION {DOMAIN answers[i] : i \in DOMAIN answers}
  IN  [t \in {x \in all : ~IsBare(x, all)} |->
         Fold({answers[i][t] : i \in {j \in DOMAIN answers : t \in DOMAIN answers[j]}})]

\* The lines the merge's report names: pricing rows that differ in nothing but
\* the amount.  extract_contract has no further use for the report.
SameLine(x, o) == Losing(x, x.lost \ {"amount"}) = Losing(o, o.lost \ {"amount"})
AmountConflicts(records) ==
  {x \in records : x.call = Priming /\ \E o \in records : o # x /\ SameLine(x, o)}

Finish ==
  /\ retried /\ asked = Len(plan) /\ extraction = {}
  /\ extraction' = {MergeRecords(found)}
  /\ UNCHANGED <<contract, plan, prefixes, asked, calls, found, retried>>

-----------------------------------------------------------------------------
ReadingInit ==
  /\ contract = {} /\ plan = <<>> /\ prefixes = NoPrefixes /\ asked = 0
  /\ calls = <<>> /\ found = <<>> /\ retried = FALSE /\ extraction = {}

ReadingNext ==
  \/ \E doc \in Contracts : BeginReading(doc)
  \/ asked < Len(plan) /\
       \E outcome \in {"whole", "cut", "overflow", "failed"},
          kept \in SUBSET (Visible(plan[asked + 1]) \cup Partial(plan[asked + 1])) :
         RunCall(outcome, kept)
  \/ Retry
  \/ Finish

ReadingSpec == ReadingInit /\ [][ReadingNext]_readingVars

-----------------------------------------------------------------------------
(* What must hold.                                                         *)

ReadingTypeOK ==
  /\ \A i \in DOMAIN prefixes : \A n \in DOMAIN prefixes[i] : prefixes[i][n] \in DOMAIN Doc.pages
  /\ asked = Len(calls) /\ asked = Len(found) /\ asked <= Len(plan)
  /\ \A e \in extraction : \A x \in DOMAIN e : Whence(x) \in Doc.terms /\ x.lost \subseteq x.key

\* Whether every category asked is cut into the same windows: when it is not,
\* the windows of one are read under the prefixes of another.
CutAlike ==
  \A j, k \in DOMAIN plan : plan[j].index = plan[k].index => plan[j].pages = plan[k].pages

\* The document's own terms, as one call with room for everything would read
\* them.
AsWritten(doc) ==
  MergeRecords(<<[t \in {x \in doc.terms : \E i \in DOMAIN doc.asked : doc.asked[i].call = x.call} |->
                    Reading(t, DOMAIN doc.pages)]>>)

\* Whether some two neighbouring pages have what reading a term takes: all it
\* needs with each of its list entries, and with the optional detail.
StandsTogether(doc, t) ==
  LET Near(pages) == \E q \in DOMAIN doc.pages : pages \subseteq {q, q + 1}
      shown       == {t.detail} \cap DOMAIN doc.pages
  IN  IF t.bands = {} THEN Near(t.needs \cup shown)
      ELSE /\ \A p \in t.bands : Near(t.needs \cup {p})
           /\ \E p \in t.bands : Near(t.needs \cup {p} \cup shown)

\* A reading no call of which is reported as cut off or failed has the whole
\* document, clauses across a page break, split price tables and programs named
\* on one page and priced on another included, as long as all categories are cut
\* alike and no clause runs over more than two pages (page_windows,
\* merge_records).  What it has besides are second rows of those terms, of which
\* some window of their category shows a part only; one that misses nothing but
\* the amount is named in the merge's report.
QuietReadingsAreWhole ==
  (Troubles = {} /\ CutAlike /\ \A doc \in contract : \A t \in doc.terms : StandsTogether(doc, t)) =>
    \A e \in extraction :
      /\ \A t \in DOMAIN AsWritten(Doc) : t \in DOMAIN e /\ e[t] = AsWritten(Doc)[t]
      /\ \A x \in DOMAIN e \ DOMAIN AsWritten(Doc) :
           /\ x.lost # {} /\ Whence(x) \in DOMAIN AsWritten(Doc)
           /\ \E j \in DOMAIN plan :
                plan[j].call = x.call /\ ~SeenIn(Whence(x), ToSet(plan[j].pages))
           /\ x.call = Priming /\ x.lost = {"amount"} => x \in AmountConflicts(DOMAIN e)

\* The repair gives every page another reading: when the calls that were cut
\* off are the only trouble and their halves came back whole, each term that
\* stands on one page is there, with all of it (extract_contract).
RepairsKeepEveryPage ==
  (/\ \A i \in Troubles : calls[i].truncated /\ calls[i].index < 1000 /\ Len(WindowOf(calls[i])) > 1
   /\ CutAlike) =>
     \A e \in extraction : \A t \in DOMAIN AsWritten(Doc) :
       (\E p \in DOMAIN Doc.pages : t.needs \cup t.bands \cup {t.detail} \subseteq {p, 0}) =>
         t \in DOMAIN e /\ e[t] = AsWritten(Doc)[t]
=============================================================================
