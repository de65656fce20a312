------------------------- MODULE TermReviewProofs -------------------------
(***************************************************************************)
(* Proofs about TermReview, for any lines, wordings, catalog, processes and*)
(* shifts, with every interleaving of readings and people, and any deaths. *)
(*                                                                         *)
(* A row is always put back whole or updated in place, so what has to be   *)
(* shown is that every row a request remembers would be a good row if it   *)
(* were put back, however late.                                            *)
(*                                                                         *)
(* Type correctness and the flags hold whoever crosses whom.  What is in   *)
(* force, the coverage and what becomes of approvals depend on who did:    *)
(* for each there is a layer that says what a request that nobody crossed  *)
(* knows of the table.                                                     *)
(***************************************************************************)
EXTENDS TermReview, TLAPS

\* A row nobody has reviewed, as a reading builds it.
Unreviewed(row) == ~row.approved /\ ~row.changed_since_approval

\* What a request remembers may be written at any time.
Sound(m, table) ==
  /\ m.step = "merge" => \A i \in DOMAIN m.fresh : Unreviewed(m.fresh[i])
  /\ m.step = "put_terms" =>
       /\ \A i \in DOMAIN m.write : FlagsAgree(m.write[i])
       /\ \A i \in DOMAIN m.supersede : FlagsAgree(m.supersede[i])
  /\ m.step = "put_term" => FlagsAgree(m.row)
  /\ m.step = "update_term" => table[m.line] # NoValue
  /\ m.step = "approve" => \A i \in m.lines : table[i] # NoValue

IInv ==
  /\ TypeOK
  /\ ReviewFlagsAgree
  /\ \A p \in Requests : Sound(request[p], terms)

\* What the writers of rows keep.
RowsOK ==
  /\ terms \in [Lines -> Rows \cup {NoValue}]
  /\ \A i \in Lines : terms[i] # NoValue => ~terms[i].record.float
  /\ ReviewFlagsAgree

-----------------------------------------------------------------------------
(* Rows. *)

\* A record keeps its shape on the way to the table and back, and loses the form
\* its amount was read in (repository.py, _to_decimal and _to_native).
LEMMA StoredRecord ==
  ASSUME NEW r \in Records
  PROVE  Stored(r) \in Records /\ ~Stored(r).float
BY DEF Stored, Records

\* What build_rows makes of a reading.
LEMMA NewRows ==
  ASSUME NEW found \in SUBSET Lines, NEW reading \in [found -> Texts]
  PROVE  /\ BuiltRows(reading) \in Batches
         /\ \A i \in DOMAIN BuiltRows(reading) : Unreviewed(BuiltRows(reading)[i])
<1>1. ASSUME NEW i \in found
      PROVE  NewRow(i, reading[i]) \in Rows /\ Unreviewed(NewRow(i, reading[i]))
  BY <1>1, CatalogAssumption DEF NewRow, AsRead, Rows, Records, Unreviewed
<1>2. BuiltRows(reading) \in [found -> Rows]
  BY <1>1 DEF BuiltRows
<1> QED
  BY <1>1, <1>2 DEF BuiltRows, Batches

\* merge_rows makes a good row of a good one and a new one.
LEMMA MergedRows ==
  ASSUME NEW prior \in Rows \cup {NoValue}, prior # NoValue => FlagsAgree(prior),
         NEW row \in Rows, Unreviewed(row)
  PROVE  Merged(prior, row) \in Rows /\ FlagsAgree(Merged(prior, row))
<1>1. CASE prior = NoValue
  BY <1>1 DEF Merged, FlagsAgree, Unreviewed
<1>2. CASE prior # NoValue /\ SameBody(prior, row)
  BY <1>2 DEF Merged, FlagsAgree, Rows
<1>3. CASE prior # NoValue /\ ~SameBody(prior, row)
  BY <1>3 DEF Merged, MovedRow, FlagsAgree, Rows
<1> QED
  BY <1>1, <1>2, <1>3

\* An approval clears both flags.
LEMMA ApprovedRows ==
  ASSUME NEW row \in Rows
  PROVE  Approved(row) \in Rows /\ FlagsAgree(Approved(row))
BY DEF Approved, Rows, FlagsAgree

\* What patch_term sets.
LEMMA UpdatedRows ==
  ASSUME NEW row \in Rows, FlagsAgree(row), NEW approve \in BOOLEAN,
         NEW record \in Records \cup {NoValue}
  PROVE  Updated(row, approve, record) \in Rows /\ FlagsAgree(Updated(row, approve, record))
<1> DEFINE reviewed == IF approve THEN Approved(row) ELSE row
<1>1. reviewed \in Rows /\ FlagsAgree(reviewed)
  BY ApprovedRows
<1>2. CASE record = NoValue
  BY <1>1, <1>2 DEF Updated
<1>3. CASE record # NoValue
  <2>1. record \in Records
    BY <1>3
  <2> HIDE DEF reviewed
  <2>2. LET r == [reviewed EXCEPT !.record = record, !.corrected = TRUE]
        IN r \in Rows /\ FlagsAgree(r)
    BY <1>1, <2>1 DEF Rows, FlagsAgree
  <2> QED
    BY <1>3, <2>2 DEF Updated, reviewed
<1> QED
  BY <1>2, <1>3

\* Putting a good row leaves the table good, and no row disappears.
LEMMA PutGoodRow ==
  ASSUME RowsOK, NEW i \in Lines, NEW row \in Rows, FlagsAgree(row), PutRow(i, row)
  PROVE  RowsOK' /\ \A j \in Lines : terms[j] # NoValue => terms'[j] # NoValue
<1> DEFINE put == [row EXCEPT !.record = Stored(@)]
<1>1. row.record \in Records
  BY DEF Rows
<1>2. Stored(row.record) \in Records /\ ~Stored(row.record).float
  BY <1>1, StoredRecord
<1>3. put \in Rows /\ FlagsAgree(put) /\ ~put.record.float
  BY <1>2 DEF Rows, FlagsAgree
<1>4. put # NoValue
  BY <1>3, LinesAssumption
<1>5. terms' = [terms EXCEPT ![i] = put]
  BY DEF PutRow
<1> HIDE DEF put
<1> QED
  BY <1>3, <1>4, <1>5 DEF RowsOK, ReviewFlagsAgree
-----------------------------------------------------------------------------
(* Requests. *)

\* The step tells what else is remembered.
LEMMA Shapes ==
  ASSUME NEW m \in Memory
  PROVE  /\ m.step = "merge" => m \in Merging
         /\ m.step = "put_terms" => m \in Putting
         /\ m.step \in {"clear_coverage", "put_coverage"} => m \in Covering
         /\ m.step = "update_term" => m \in Patching
         /\ m.step = "approve" => m \in Approving
         /\ m.step = "put_term" => m \in Correcting
BY DEF Memory, Idle, Merging, Putting, Covering, Patching, Rebuilding, Approving, Correcting

\* What may be written stays so while no row disappears.
LEMMA StaysSound ==
  ASSUME NEW m \in Memory, NEW old, NEW new, Sound(m, old),
         \A j \in Lines : old[j] # NoValue => new[j] # NoValue
  PROVE  Sound(m, new)
<1>1. m.step = "update_term" => m.line \in Lines
  BY Shapes DEF Patching
<1>2. m.step = "approve" => m.lines \subseteq Lines
  BY Shapes DEF Approving
<1> QED
  BY <1>1, <1>2 DEF Sound

Requesting == request \in [Requests -> Memory] /\ \A p \in Requests : Sound(request[p], terms)

\* A request that goes on with something sound leaves every request sound.
LEMMA Remembering ==
  ASSUME Requesting, NEW p \in Requests, NEW m \in Memory, Remember(p, m),
         \A j \in Lines : terms[j] # NoValue => terms'[j] # NoValue,
         Sound(m, terms')
  PROVE  Requesting'
<1>1. request' \in [Requests -> Memory]
  BY DEF Requesting, Remember
<1>2. ASSUME NEW q \in Requests PROVE Sound(request'[q], terms')
  <2>1. CASE q = p
    BY <2>1 DEF Requesting, Remember
  <2>2. CASE q # p
    <3>1. request'[q] = request[q] /\ request[q] \in Memory /\ Sound(request[q], terms)
      BY <2>2 DEF Requesting, Remember
    <3> QED
      BY <3>1, StaysSound
  <2> QED
    BY <2>1, <2>2
<1> QED
  BY <1>1, <1>2 DEF Requesting

\* A request that ends leaves the others sound.
LEMMA Ending ==
  ASSUME Requesting, NEW p \in Requests, Done(p),
         \A j \in Lines : terms[j] # NoValue => terms'[j] # NoValue
  PROVE  Requesting'
<1>1. Idle \in Memory /\ Sound(Idle, terms')
  BY DEF Idle, Memory, Sound
<1> QED
  BY <1>1, Remembering DEF Done

\* The programs a table of rows names are programs of the catalog.
LEMMA CoverageType ==
  ASSUME NEW rows, \A i \in DOMAIN rows : rows[i] # NoValue => rows[i] \in Rows
  PROVE  CoverageOf(rows) \subseteq Programs
BY CatalogAssumption DEF CoverageOf, Listed, Rows, Records
-----------------------------------------------------------------------------
(* The inductive invariant. *)

Extractions == UNION {[D -> Texts] : D \in SUBSET Lines}

\* The invariant, by what an action may disturb.
LEMMA Parts ==
  IInv <=> /\ RowsOK
           /\ Requesting
           /\ coverage \subseteq Programs
           /\ extraction \in Extractions
           /\ queued \in Nat
           /\ work \in Shifts
BY DEF IInv, TypeOK, RowsOK, Requesting, Extractions

\* The same, a step later.
LEMMA PartsNext ==
  ASSUME RowsOK', Requesting', coverage' \subseteq Programs, extraction' \in Extractions,
         queued' \in Nat, work' \in Shifts
  PROVE  IInv'
BY DEF IInv, TypeOK, RowsOK, Requesting, Extractions

\* Nothing is there at first.
LEMMA InitIInv == Init => IInv
<1> SUFFICES ASSUME Init PROVE IInv
  OBVIOUS
<1>1. RowsOK
  BY DEF Init, RowsOK, ReviewFlagsAgree
<1>2. Requesting
  BY DEF Init, Requesting, Memory, Idle, Sound
<1>3. extraction \in [{} -> Texts]
  BY DEF Init
<1>4. extraction \in Extractions
  BY <1>3 DEF Extractions
<1> QED
  BY <1>1, <1>2, <1>4, Parts DEF Init

\* The steps of the extract worker.
LEMMA WorkerKeepsIInv ==
  ASSUME IInv, NEW p \in Requests, Worker(p)
  PROVE  IInv'
<1> USE Parts
<1>1. CASE ReadDocument(p)
  <2>0. PICK found \in SUBSET Lines : \E reading \in [found -> Texts] :
          /\ extraction' = reading
          /\ Begin(p, [step |-> "merge", kind |-> "extract", fresh |-> BuiltRows(reading)])
    BY <1>1 DEF ReadDocument
  <2>1. PICK reading \in [found -> Texts] :
          /\ extraction' = reading
          /\ Begin(p, [step |-> "merge", kind |-> "extract", fresh |-> BuiltRows(reading)])
    BY <2>0
  <2> DEFINE m == [step |-> "merge", kind |-> "extract", fresh |-> BuiltRows(reading)]
  <2>2. m \in Memory /\ Sound(m, terms')
    BY NewRows DEF Memory, Merging, Sound
  <2>3. RowsOK' /\ terms' = terms
    BY <1>1 DEF ReadDocument, RowsOK, ReviewFlagsAgree
  <2>4. Requesting'
    BY <2>1, <2>2, <2>3, Remembering DEF Begin
  <2>5. extraction' \in Extractions
    BY <2>1 DEF Extractions
  <2> QED
    BY <1>1, <2>3, <2>4, <2>5, PartsNext DEF ReadDocument
<1>2. CASE ListAndMerge(p)
  <2> DEFINE fresh == request[p].fresh
             write == [i \in ToWrite(terms, fresh) |-> Merged(terms[i], fresh[i])]
             gone  == [i \in ToSupersede(terms, fresh) |-> [terms[i] EXCEPT !.superseded = TRUE]]
             m == [step |-> "put_terms", kind |-> "extract", fresh |-> fresh,
                   write |-> write, supersede |-> gone]
  <2>1. request[p] \in Merging /\ Sound(request[p], terms) /\ request[p].step = "merge"
    BY <1>2, Shapes DEF ListAndMerge, At, Requesting
  <2>2. PICK D \in SUBSET Lines : fresh \in [D -> Rows]
    BY <2>1 DEF Merging, Batches
  <2>3. \A i \in D : Unreviewed(fresh[i])
    BY <2>1, <2>2 DEF Sound
  <2>4. ToWrite(terms, fresh) \subseteq D
    BY <2>2 DEF ToWrite
  <2>5. \A i \in D : /\ Merged(terms[i], fresh[i]) \in Rows
                     /\ FlagsAgree(Merged(terms[i], fresh[i]))
    BY <2>2, <2>3, MergedRows DEF RowsOK, ReviewFlagsAgree
  <2>6. write \in Batches /\ \A i \in DOMAIN write : FlagsAgree(write[i])
    BY <2>4, <2>5 DEF Batches
  <2>7. ASSUME NEW i \in ToSupersede(terms, fresh)
        PROVE  /\ i \in Lines
               /\ [terms[i] EXCEPT !.superseded = TRUE] \in Rows
               /\ FlagsAgree([terms[i] EXCEPT !.superseded = TRUE])
    <3>1. i \in Lines /\ terms[i] \in Rows /\ FlagsAgree(terms[i])
      BY <2>7 DEF ToSupersede, RowsOK, ReviewFlagsAgree
    <3> QED
      BY <3>1 DEF Rows, FlagsAgree
  <2>8. gone \in Batches /\ \A i \in DOMAIN gone : FlagsAgree(gone[i])
    <3>1. ToSupersede(terms, fresh) \in SUBSET Lines
      BY <2>7
    <3>2. gone \in [ToSupersede(terms, fresh) -> Rows]
      BY <2>7
    <3> QED
      BY <2>7, <3>1, <3>2 DEF Batches
  <2>9. m \in Memory /\ Sound(m, terms')
    <3> HIDE DEF write, gone, fresh
    <3>1. fresh \in Batches
      BY <2>1 DEF Merging, fresh
    <3> QED
      BY <2>6, <2>8, <3>1 DEF Memory, Putting, Sound
  <2>10. Remember(p, m)
    BY <1>2 DEF ListAndMerge
  <2>11. RowsOK' /\ terms' = terms
    BY <1>2 DEF ListAndMerge, RowsOK, ReviewFlagsAgree
  <2>12. Requesting'
    <3> HIDE DEF m
    <3> QED
      BY <2>9, <2>10, <2>11, Remembering
  <2> QED
    BY <1>2, <2>11, <2>12, PartsNext DEF ListAndMerge
<1>3. CASE PutWritten(p)
  <2>1. request[p] \in Putting /\ Sound(request[p], terms) /\ request[p].step = "put_terms"
    BY <1>3, Shapes DEF PutWritten, At, Requesting
  <2> DEFINE rows == request[p].write
  <2>2. PICK D \in SUBSET Lines : rows \in [D -> Rows]
    BY <2>1 DEF Putting, Batches
  <2>3. PICK i \in D :
          /\ PutRow(i, rows[i])
          /\ Remember(p, [request[p] EXCEPT !.write = Restrict(rows, DOMAIN rows \ {i})])
    BY <1>3, <2>2 DEF PutWritten
  <2>4. FlagsAgree(rows[i]) /\ rows[i] \in Rows
    BY <2>1, <2>2 DEF Sound
  <2>5. RowsOK' /\ \A j \in Lines : terms[j] # NoValue => terms'[j] # NoValue
    BY <2>3, <2>4, PutGoodRow
  <2> DEFINE rest == Restrict(rows, DOMAIN rows \ {i})
             m == [request[p] EXCEPT !.write = rest]
  <2>6. rest \in [D \ {i} -> Rows] /\ \A j \in D \ {i} : rest[j] = rows[j]
    BY <2>2 DEF Restrict
  <2>7. rest \in Batches /\ \A j \in DOMAIN rest : FlagsAgree(rest[j])
    BY <2>1, <2>2, <2>6 DEF Batches, Sound
  <2>8. m \in Memory /\ Sound(m, terms')
    <3> HIDE DEF rest
    <3> QED
      BY <2>1, <2>7 DEF Memory, Putting, Sound
  <2>9. Requesting'
    <3> HIDE DEF m
    <3>1. Remember(p, m)
      BY <2>3 DEF m
    <3> QED
      BY <2>5, <2>8, <3>1, Remembering
  <2> QED
    BY <1>3, <2>5, <2>9, PartsNext DEF PutWritten
<1>4. CASE PutSuperseded(p)
  <2>1. request[p] \in Putting /\ Sound(request[p], terms) /\ request[p].step = "put_terms"
    BY <1>4, Shapes DEF PutSuperseded, At, Requesting
  <2> DEFINE rows == request[p].supersede
  <2>2. PICK D \in SUBSET Lines : rows \in [D -> Rows]
    BY <2>1 DEF Putting, Batches
  <2>3. PICK i \in D :
          /\ PutRow(i, rows[i])
          /\ Remember(p, [request[p] EXCEPT !.supersede = Restrict(rows, DOMAIN rows \ {i})])
    BY <1>4, <2>2 DEF PutSuperseded
  <2>4. FlagsAgree(rows[i]) /\ rows[i] \in Rows
    BY <2>1, <2>2 DEF Sound
  <2>5. RowsOK' /\ \A j \in Lines : terms[j] # NoValue => terms'[j] # NoValue
    BY <2>3, <2>4, PutGoodRow
  <2> DEFINE rest == Restrict(rows, DOMAIN rows \ {i})
             m == [request[p] EXCEPT !.supersede = rest]
  <2>6. rest \in [D \ {i} -> Rows] /\ \A j \in D \ {i} : rest[j] = rows[j]
    BY <2>2 DEF Restrict
  <2>7. rest \in Batches /\ \A j \in DOMAIN rest : FlagsAgree(rest[j])
    BY <2>1, <2>2, <2>6 DEF Batches, Sound
  <2>8. m \in Memory /\ Sound(m, terms')
    <3> HIDE DEF rest
    <3> QED
      BY <2>1, <2>7 DEF Memory, Putting, Sound
  <2>9. Requesting'
    <3> HIDE DEF m
    <3>1. Remember(p, m)
      BY <2>3 DEF m
    <3> QED
      BY <2>5, <2>8, <3>1, Remembering
  <2> QED
    BY <1>4, <2>5, <2>9, PartsNext DEF PutSuperseded
<1>5. CASE TermsPut(p)
  <2>1. request[p] \in Putting
    BY <1>5, Shapes DEF TermsPut, At, Requesting
  <2>2. PICK D \in SUBSET Lines : request[p].fresh \in [D -> Rows]
    BY <2>1 DEF Putting, Batches
  <2> DEFINE programs == CoverageOf(request[p].fresh)
             m == [step |-> "clear_coverage", kind |-> "extract", programs |-> programs]
  <2>3. programs \in SUBSET Programs
    BY <2>2, CoverageType
  <2>4. m \in Memory /\ Sound(m, terms')
    <3> HIDE DEF programs
    <3> QED
      BY <2>3 DEF Memory, Covering, Sound
  <2>5. RowsOK' /\ terms' = terms
    BY <1>5 DEF TermsPut, RowsOK, ReviewFlagsAgree
  <2>6. Requesting'
    BY <1>5, <2>4, <2>5, Remembering DEF TermsPut
  <2> QED
    BY <1>5, <2>5, <2>6, PartsNext DEF TermsPut
<1> QED
  BY <1>1, <1>2, <1>3, <1>4, <1>5 DEF Worker, PutTerm

\* Coverage is written from programs of the catalog.
LEMMA CoverageKeepsIInv ==
  ASSUME IInv, NEW p \in Requests, ClearCoverage(p) \/ PutCoverage(p)
  PROVE  IInv'
<1> USE Parts
<1>1. request[p] \in Covering
  BY Shapes DEF ClearCoverage, PutCoverage, At, Requesting
<1>2. RowsOK' /\ terms' = terms
  BY DEF ClearCoverage, PutCoverage, RowsOK, ReviewFlagsAgree
<1>3. CASE ClearCoverage(p)
  <2> DEFINE m == [request[p] EXCEPT !.step = "put_coverage"]
  <2>1. m \in Memory /\ Sound(m, terms')
    BY <1>1 DEF Memory, Covering, Sound
  <2>2. Remember(p, m)
    BY <1>3 DEF ClearCoverage
  <2>3. Requesting'
    <3> HIDE DEF m
    <3> QED
      BY <1>2, <2>1, <2>2, Remembering
  <2> QED
    BY <1>2, <1>3, <2>3, PartsNext DEF ClearCoverage
<1>4. CASE PutCoverage(p)
  <2>1. Requesting'
    BY <1>2, <1>4, Ending DEF PutCoverage
  <2>2. coverage' \subseteq Programs
    BY <1>1, <1>4 DEF PutCoverage, Covering
  <2> QED
    BY <1>2, <1>4, <2>1, <2>2, PartsNext DEF PutCoverage
<1> QED
  BY <1>3, <1>4

\* The steps of people.
LEMMA PersonKeepsIInv ==
  ASSUME IInv, NEW p \in Requests, Person(p)
  PROVE  IInv'
<1> USE Parts
<1>1. CASE PatchTerm(p)
  <2>1. RowsOK' /\ terms' = terms
    BY <1>1 DEF PatchTerm, RowsOK, ReviewFlagsAgree
  <2>2. PICK i \in Lines, approve \in BOOLEAN, record \in Records \cup {NoValue} :
          /\ terms[i] # NoValue
          /\ Begin(p, [step |-> "update_term", kind |-> "patch_term", line |-> i,
                       approve |-> approve, record |-> record])
    <3>1. PICK i \in {j \in Lines : terms[j] # NoValue}, approve \in BOOLEAN :
            \/ /\ approve
               /\ Begin(p, [step |-> "update_term", kind |-> "patch_term", line |-> i,
                            approve |-> TRUE, record |-> NoValue])
            \/ \E correction \in Corrections :
                 Begin(p, [step |-> "update_term", kind |-> "patch_term", line |-> i,
                           approve |-> approve,
                           record |-> Corrected(terms[i].record, correction)])
      BY <1>1 DEF PatchTerm
    <3>2. \A correction \in Corrections : Corrected(terms[i].record, correction) \in Records
      <4>1. terms[i].record \in Records
        BY <3>1 DEF RowsOK, Rows
      <4> QED
        BY <4>1, RequestsAssumption DEF Corrected, Records
    <3> QED
      BY <3>1, <3>2
  <2> DEFINE m == [step |-> "update_term", kind |-> "patch_term", line |-> i,
                   approve |-> approve, record |-> record]
  <2>3. m \in Memory /\ Sound(m, terms')
    BY <2>1, <2>2 DEF Memory, Patching, Sound
  <2>4. Requesting'
    <3> HIDE DEF m
    <3>1. Remember(p, m)
      BY <2>2 DEF Begin, m
    <3> QED
      BY <2>1, <2>3, <3>1, Remembering
  <2> QED
    BY <1>1, <2>1, <2>4, PartsNext DEF PatchTerm
<1>2. CASE UpdateTerm(p)
  <2> DEFINE i == request[p].line
             row == Updated(terms[i], request[p].approve, request[p].record)
  <2>1. request[p] \in Patching /\ Sound(request[p], terms) /\ request[p].step = "update_term"
    BY <1>2, Shapes DEF UpdateTerm, At, Requesting
  <2>2. /\ i \in Lines /\ request[p].approve \in BOOLEAN
        /\ request[p].record \in Records \cup {NoValue}
        /\ terms[i] # NoValue
    BY <2>1 DEF Patching, Sound
  <2>3. terms[i] \in Rows /\ FlagsAgree(terms[i])
    BY <2>2 DEF RowsOK, ReviewFlagsAgree
  <2>4. row \in Rows /\ FlagsAgree(row)
    BY <2>2, <2>3, UpdatedRows
  <2>5. RowsOK' /\ \A j \in Lines : terms[j] # NoValue => terms'[j] # NoValue
    <3>1. PutRow(i, row)
      BY <1>2 DEF UpdateTerm
    <3> HIDE DEF i, row
    <3> QED
      BY <2>2, <2>4, <3>1, PutGoodRow
  <2> DEFINE m == [step |-> "rebuild_coverage", kind |-> "patch_term"]
  <2>6. m \in Memory /\ Sound(m, terms')
    BY DEF Memory, Rebuilding, Sound
  <2>7. Done(p) \/ Remember(p, m)
    BY <1>2 DEF UpdateTerm
  <2>8. Requesting'
    <3> HIDE DEF m
    <3> QED
      BY <2>5, <2>6, <2>7, Remembering, Ending
  <2> QED
    BY <1>2, <2>5, <2>8, PartsNext DEF UpdateTerm
<1>3. CASE RebuildCoverage(p)
  <2>1. RowsOK' /\ terms' = terms
    BY <1>3 DEF RebuildCoverage, RowsOK, ReviewFlagsAgree
  <2> DEFINE programs == CoverageOf(terms)
             m == [step |-> "clear_coverage", kind |-> "patch_term", programs |-> programs]
  <2>2. programs \in SUBSET Programs
    BY CoverageType DEF RowsOK
  <2>3. m \in Memory /\ Sound(m, terms')
    <3> HIDE DEF programs
    <3> QED
      BY <2>2 DEF Memory, Covering, Sound
  <2>4. Requesting'
    BY <1>3, <2>1, <2>3, Remembering DEF RebuildCoverage
  <2> QED
    BY <1>3, <2>1, <2>4, PartsNext DEF RebuildCoverage
<1>4. CASE ApproveTerms(p)
  <2>1. RowsOK' /\ terms' = terms
    BY <1>4 DEF ApproveTerms, RowsOK, ReviewFlagsAgree
  <2> DEFINE todo == {i \in Listed(terms) : ~terms[i].approved}
             m == [step |-> "approve", kind |-> "approve_terms", lines |-> todo]
  <2>2. todo \in SUBSET Lines /\ \A i \in todo : terms[i] # NoValue
    BY DEF Listed, RowsOK
  <2>3. m \in Memory /\ Sound(m, terms')
    <3> HIDE DEF todo
    <3> QED
      BY <2>1, <2>2 DEF Memory, Approving, Sound
  <2>4. Requesting'
    BY <1>4, <2>1, <2>3, Remembering DEF ApproveTerms, Begin
  <2> QED
    BY <1>4, <2>1, <2>4, PartsNext DEF ApproveTerms
<1>5. CASE ApproveNext(p)
  <2>1. request[p] \in Approving /\ Sound(request[p], terms) /\ request[p].step = "approve"
    BY <1>5, Shapes DEF ApproveNext, At, Requesting
  <2>2. PICK i \in request[p].lines :
          /\ PutRow(i, Approved(terms[i]))
          /\ IF request[p].lines = {i} THEN Done(p)
             ELSE Remember(p, [request[p] EXCEPT !.lines = @ \ {i}])
    BY <1>5 DEF ApproveNext
  <2>3. i \in Lines /\ terms[i] \in Rows
    BY <2>1, <2>2 DEF Approving, Sound, RowsOK
  <2>4. RowsOK' /\ \A j \in Lines : terms[j] # NoValue => terms'[j] # NoValue
    BY <2>2, <2>3, ApprovedRows, PutGoodRow
  <2> DEFINE m == [request[p] EXCEPT !.lines = @ \ {i}]
  <2>5. m \in Memory /\ Sound(m, terms)
    BY <2>1 DEF Memory, Approving, Sound
  <2>6. Sound(m, terms')
    <3> HIDE DEF m
    <3> QED
      BY <2>4, <2>5, StaysSound
  <2>7. Done(p) \/ Remember(p, m)
    BY <2>2
  <2>8. Requesting'
    <3> HIDE DEF m
    <3> QED
      BY <2>4, <2>5, <2>6, <2>7, Remembering, Ending
  <2> QED
    BY <1>5, <2>4, <2>8, PartsNext DEF ApproveNext
<1>6. CASE CorrectBilling(p)
  <2>1. RowsOK' /\ terms' = terms
    BY <1>6 DEF CorrectBilling, RowsOK, ReviewFlagsAgree
  <2>2. PICK i \in Listed(terms) :
          Begin(p, [step |-> "put_term", kind |-> "correct_billing", line |-> i,
                    row |-> [terms[i] EXCEPT !.record.override = TRUE, !.corrected = TRUE]])
    BY <1>6 DEF CorrectBilling
  <2> DEFINE row == [terms[i] EXCEPT !.record.override = TRUE, !.corrected = TRUE]
             m == [step |-> "put_term", kind |-> "correct_billing", line |-> i, row |-> row]
  <2>3. i \in Lines /\ terms[i] \in Rows /\ FlagsAgree(terms[i])
    BY DEF Listed, RowsOK, ReviewFlagsAgree
  <2>4. row \in Rows /\ FlagsAgree(row)
    BY <2>3 DEF Rows, Records, FlagsAgree
  <2>5. m \in Memory /\ Sound(m, terms')
    <3> HIDE DEF row
    <3> QED
      BY <2>3, <2>4 DEF Memory, Correcting, Sound
  <2>6. Requesting'
    <3> HIDE DEF m
    <3>1. Remember(p, m)
      BY <2>2 DEF Begin, m
    <3> QED
      BY <2>1, <2>5, <3>1, Remembering
  <2> QED
    BY <1>6, <2>1, <2>6, PartsNext DEF CorrectBilling
<1>7. CASE PutCorrection(p)
  <2>1. request[p] \in Correcting /\ FlagsAgree(request[p].row)
    BY <1>7, Shapes DEF PutCorrection, At, Requesting, Sound
  <2>2. RowsOK' /\ \A j \in Lines : terms[j] # NoValue => terms'[j] # NoValue
    BY <1>7, <2>1, PutGoodRow DEF PutCorrection, Correcting
  <2>3. Requesting'
    BY <1>7, <2>2, Ending DEF PutCorrection
  <2> QED
    BY <1>7, <2>2, <2>3, PartsNext DEF PutCorrection
<1> QED
  BY <1>1, <1>2, <1>3, <1>4, <1>5, <1>6, <1>7 DEF Person

\* Every step keeps the invariant.
LEMMA NextIInv == IInv /\ [Next]_vars => IInv'
<1> SUFFICES ASSUME IInv, [Next]_vars PROVE IInv'
  OBVIOUS
<1> USE Parts
<1>1. CASE Enqueue
  <2>1. RowsOK' /\ Requesting'
    BY <1>1 DEF Enqueue, RowsOK, ReviewFlagsAgree, Requesting
  <2> QED
    BY <1>1, <2>1, PartsNext DEF Enqueue
<1>2. CASE \E p \in Requests : Worker(p)
  BY <1>2, WorkerKeepsIInv
<1>3. CASE \E p \in Requests : Person(p)
  BY <1>3, PersonKeepsIInv
<1>4. CASE \E p \in Requests : ClearCoverage(p) \/ PutCoverage(p)
  BY <1>4, CoverageKeepsIInv
<1>5. ASSUME NEW p \in Requests, Die(p) PROVE IInv'
  <2>1. RowsOK' /\ terms' = terms
    BY <1>5 DEF Die, RowsOK, ReviewFlagsAgree
  <2>2. Requesting'
    BY <1>5, <2>1, Ending DEF Die
  <2> QED
    BY <1>5, <2>1, <2>2, PartsNext DEF Die
<1>6. CASE UNCHANGED vars
  <2>1. RowsOK' /\ Requesting'
    BY <1>6 DEF vars, RowsOK, ReviewFlagsAgree, Requesting
  <2> QED
    BY <1>6, <2>1, PartsNext DEF vars
<1> QED
  BY <1>1, <1>2, <1>3, <1>4, <1>5, <1>6 DEF Next

\* The invariant holds in every reachable state.
THEOREM Invariance == Spec => []IInv
  BY InitIInv, NextIInv, PTL DEF Spec

\* Terms, coverage, the kept reading and what requests remember have their
\* shapes, and no amount of the table is in the form of the reading.
THEOREM TypeCorrect == Spec => []TypeOK
<1>1. IInv => TypeOK
  BY DEF IInv
<1> QED
  BY <1>1, Invariance, PTL

\* However readings, approvals, corrections and deaths interleave, an approved
\* term waits in no queue, and one that changed since its approval waits for a
\* new one.
THEOREM FlagsAlwaysAgree == Spec => []ReviewFlagsAgree
<1>1. IInv => ReviewFlagsAgree
  BY DEF IInv
<1> QED
  BY <1>1, Invariance, PTL
-----------------------------------------------------------------------------
(* What a reading leaves.  The rest of the module says what holds of the   *)
(* terms and their coverage once requests that may disturb one another have*)
(* not met.  overlaps names the meetings, so the first thing to know is    *)
(* that none is missing (CompanyInv); then each result says what an        *)
(* undisturbed request remembers of the table, and so leaves in it.        *)

\* Whoever is at work together is on record as having crossed.
CompanyInv ==
  \A p, q \in Busy : p # q => {request[p].kind, request[q].kind} \in overlaps

\* What a request remembers is what the code made of what it had read, whatever
\* has become of the table since.
Built(m) ==
  /\ m.step \in {"merge", "put_terms"} => \A i \in DOMAIN m.fresh : ~m.fresh[i].superseded
  /\ m.step = "put_terms" =>
       /\ DOMAIN m.write \subseteq DOMAIN m.fresh
       /\ DOMAIN m.supersede \cap DOMAIN m.fresh = {}
       /\ \A i \in DOMAIN m.write :
            /\ ~m.write[i].superseded
            /\ m.write[i].record.program = m.fresh[i].record.program
       /\ \A i \in DOMAIN m.supersede : m.supersede[i].superseded
  /\ m.step = "put_term" => ~m.row.superseded

BuiltInv == \A p \in Requests : Built(request[p])


-----------------------------------------------------------------------------
(* How requests go on. *)

\* The kind of a request tells what it may be doing.
LEMMA Stages ==
  ASSUME NEW m \in Memory
  PROVE  /\ m # Idle => m.kind \in Kinds
         /\ m.step = "idle" => m = Idle
         /\ m.step \in {"merge", "put_terms"} => m.kind = "extract"
         /\ m.step \in {"update_term", "rebuild_coverage"} => m.kind = "patch_term"
         /\ m.step \in {"clear_coverage", "put_coverage"} => m.kind \in {"extract", "patch_term"}
         /\ m.step = "approve" => m.kind = "approve_terms"
         /\ m.step = "put_term" => m.kind = "correct_billing"
         /\ m.kind = "extract" => m.step \in {"merge", "put_terms", "clear_coverage", "put_coverage"}
         /\ m.kind = "approve_terms" => m.step = "approve"
         /\ m.kind = "correct_billing" => m.step = "put_term"
BY DEF Memory, Idle, Merging, Putting, Covering, Patching, Rebuilding, Approving, Correcting,
       Kinds, DeskKinds

\* A request that begins was idle, and from now on is on record with everybody
\* at work.
LEMMA Beginning ==
  ASSUME request \in [Requests -> Memory], CompanyInv, NEW p \in Requests,
         NEW m, m # Idle, Begin(p, m)
  PROVE  /\ CompanyInv'
         /\ request[p] = Idle
         /\ request'[p] = m
         /\ \A q \in Requests : q # p => request'[q] = request[q]
         /\ Busy # {} => overlaps \subseteq overlaps'
         /\ Busy = {} /\ m.kind # "extract" => overlaps' = overlaps
<1>1. request[p] = Idle
  BY Stages DEF Begin, At
<1>2. request'[p] = m /\ \A q \in Requests : q # p => request'[q] = request[q]
  BY DEF Begin, Remember
<1>3. Busy' = Busy \cup {p} /\ p \notin Busy
  BY <1>1, <1>2 DEF Busy
<1>4. CASE Busy = {}
  BY <1>1, <1>2, <1>3, <1>4 DEF CompanyInv, Begin
<1>5. CASE Busy # {}
  <2>1. overlaps' = overlaps \cup {{m.kind, request[q].kind} : q \in Busy}
    BY <1>5 DEF Begin
  <2>2. ASSUME NEW a \in Busy', NEW b \in Busy', a # b
        PROVE  {request'[a].kind, request'[b].kind} \in overlaps'
    <3>1. CASE a = p
      <4>1. b \in Busy /\ request'[b] = request[b] /\ request'[a] = m
        BY <1>2, <1>3, <2>2, <3>1 DEF Busy
      <4> QED
        BY <2>1, <4>1
    <3>2. CASE b = p
      <4>1. a \in Busy /\ request'[a] = request[a] /\ request'[b] = m
        BY <1>2, <1>3, <2>2, <3>2 DEF Busy
      <4>2. {request'[a].kind, request'[b].kind} = {m.kind, request[a].kind}
        BY <4>1
      <4> QED
        BY <2>1, <4>1, <4>2
    <3>3. CASE a # p /\ b # p
      <4>1. a \in Busy /\ b \in Busy /\ request'[a] = request[a] /\ request'[b] = request[b]
        BY <1>2, <1>3, <2>2, <3>3 DEF Busy
      <4> QED
        BY <2>1, <2>2, <4>1 DEF CompanyInv
    <3> QED
      BY <3>1, <3>2, <3>3
  <2> QED
    BY <1>1, <1>2, <1>5, <2>1, <2>2 DEF CompanyInv
<1> QED
  BY <1>4, <1>5

\* A request that goes on, or ends, keeps company with nobody new.
LEMMA GoingOn ==
  ASSUME request \in [Requests -> Memory], CompanyInv, NEW p \in Requests, request[p] # Idle,
         NEW m, Remember(p, m), m = Idle \/ m.kind = request[p].kind,
         overlaps \subseteq overlaps'
  PROVE  /\ CompanyInv'
         /\ request'[p] = m
         /\ \A q \in Requests : q # p => request'[q] = request[q]
<1>1. request'[p] = m /\ \A q \in Requests : q # p => request'[q] = request[q]
  BY DEF Remember
<1>2. \A q \in Busy' : q \in Busy /\ request'[q].kind = request[q].kind
  BY <1>1 DEF Busy
<1> QED
  BY <1>1, <1>2 DEF CompanyInv

\* A request that begins, by what it remembers.
LEMMA Beginnings ==
  ASSUME IInv, NEW p \in Requests
  PROVE  /\ ReadDocument(p) => \E found \in SUBSET Lines : \E reading \in [found -> Texts] :
              /\ extraction' = reading
              /\ Begin(p, [step |-> "merge", kind |-> "extract", fresh |-> BuiltRows(reading)])
         /\ PatchTerm(p) => \E m \in Patching : Begin(p, m)
         /\ ApproveTerms(p) => \E m \in Approving : Begin(p, m)
         /\ CorrectBilling(p) => \E i \in Listed(terms) :
              /\ i \in Lines /\ terms[i] \in Rows
              /\ Begin(p, [step |-> "put_term", kind |-> "correct_billing", line |-> i,
                           row |-> [terms[i] EXCEPT !.record.override = TRUE, !.corrected = TRUE]])
<1>0. RowsOK
  BY Parts
<1>1. ReadDocument(p) => \E found \in SUBSET Lines : \E reading \in [found -> Texts] :
              /\ extraction' = reading
              /\ Begin(p, [step |-> "merge", kind |-> "extract", fresh |-> BuiltRows(reading)])
  BY DEF ReadDocument
<1>2. ASSUME PatchTerm(p) PROVE \E m \in Patching : Begin(p, m)
  <2>1. PICK i \in {j \in Lines : terms[j] # NoValue}, approve \in BOOLEAN :
          \/ /\ approve
             /\ Begin(p, [step |-> "update_term", kind |-> "patch_term", line |-> i,
                          approve |-> TRUE, record |-> NoValue])
          \/ \E correction \in Corrections :
               Begin(p, [step |-> "update_term", kind |-> "patch_term", line |-> i,
                         approve |-> approve,
                         record |-> Corrected(terms[i].record, correction)])
    BY <1>2 DEF PatchTerm
  <2>2. \A correction \in Corrections : Corrected(terms[i].record, correction) \in Records
    <3>1. terms[i].record \in Records
      BY <1>0, <2>1 DEF RowsOK, Rows
    <3> QED
      BY <3>1, RequestsAssumption DEF Corrected, Records
  <2>3. PICK record \in Records \cup {NoValue}, yes \in BOOLEAN :
          Begin(p, [step |-> "update_term", kind |-> "patch_term", line |-> i,
                    approve |-> yes, record |-> record])
    BY <2>1, <2>2
  <2> QED
    BY <2>3 DEF Patching
<1>3. ASSUME ApproveTerms(p) PROVE \E m \in Approving : Begin(p, m)
  <2> DEFINE todo == {i \in Listed(terms) : ~terms[i].approved}
             m == [step |-> "approve", kind |-> "approve_terms", lines |-> todo]
  <2>1. todo \in SUBSET Lines
    BY <1>0 DEF Listed, RowsOK
  <2>2. m \in Approving
    BY <2>1 DEF Approving
  <2> QED
    BY <1>3, <2>2 DEF ApproveTerms
<1>4. ASSUME CorrectBilling(p)
      PROVE  \E i \in Listed(terms) :
              /\ i \in Lines /\ terms[i] \in Rows
              /\ Begin(p, [step |-> "put_term", kind |-> "correct_billing", line |-> i,
                           row |-> [terms[i] EXCEPT !.record.override = TRUE, !.corrected = TRUE]])
  <2>1. \A i \in Listed(terms) : i \in Lines /\ terms[i] \in Rows
    BY <1>0 DEF Listed, RowsOK
  <2> QED
    BY <1>4, <2>1 DEF CorrectBilling
<1> QED
  BY <1>1, <1>2, <1>3, <1>4

\* A request that goes on, by what it remembers.
Continues(p) ==
  \/ ListAndMerge(p) \/ PutTerm(p) \/ TermsPut(p) \/ ClearCoverage(p) \/ PutCoverage(p)
  \/ UpdateTerm(p) \/ RebuildCoverage(p) \/ ApproveNext(p) \/ PutCorrection(p) \/ Die(p)

\* Going on changes no kind, and forgets no meeting.
LEMMA Continuing ==
  ASSUME IInv, NEW p \in Requests, Continues(p)
  PROVE  /\ request[p] \in Memory /\ request[p] # Idle
         /\ overlaps \subseteq overlaps'
         /\ \E m : Remember(p, m) /\ (m = Idle \/ m.kind = request[p].kind)
<1>1. request[p] \in Memory /\ (request[p].step # "idle" => request[p] # Idle)
  BY Parts DEF Requesting, Idle
<1>2. CASE ListAndMerge(p) \/ TermsPut(p)
  <2>1. request[p].kind = "extract" /\ request[p].step # "idle"
    BY <1>1, <1>2, Stages DEF ListAndMerge, TermsPut, At
  <2>2. \E m : Remember(p, m) /\ m.kind = "extract"
    BY <1>2 DEF ListAndMerge, TermsPut
  <2> QED
    BY <1>1, <1>2, <2>1, <2>2 DEF ListAndMerge, TermsPut
<1>3. CASE PutTerm(p)
  <2>1. request[p] \in Putting /\ request[p].step # "idle"
    BY <1>1, <1>3, Shapes DEF PutTerm, PutWritten, PutSuperseded, At
  <2>2. \A rest : /\ [request[p] EXCEPT !.write = rest].kind = request[p].kind
                  /\ [request[p] EXCEPT !.supersede = rest].kind = request[p].kind
    BY <2>1 DEF Putting
  <2>3. \E rest : \/ Remember(p, [request[p] EXCEPT !.write = rest])
                  \/ Remember(p, [request[p] EXCEPT !.supersede = rest])
    BY <1>3, Zenon DEF PutTerm, PutWritten, PutSuperseded
  <2>4. overlaps' = overlaps
    BY <1>3 DEF PutTerm, PutWritten, PutSuperseded
  <2> QED
    BY <1>1, <2>1, <2>2, <2>3, <2>4
<1>4. CASE ClearCoverage(p)
  <2>1. request[p] \in Covering /\ request[p].step # "idle"
    BY <1>1, <1>4, Shapes DEF ClearCoverage, At
  <2>2. [request[p] EXCEPT !.step = "put_coverage"].kind = request[p].kind
    BY <2>1 DEF Covering
  <2> QED
    BY <1>1, <1>4, <2>1, <2>2 DEF ClearCoverage
<1>5. CASE PutCoverage(p) \/ PutCorrection(p)
  BY <1>1, <1>5 DEF PutCoverage, PutCorrection, At, Done
<1>6. CASE UpdateTerm(p) \/ RebuildCoverage(p)
  <2>1. request[p].kind = "patch_term" /\ request[p].step # "idle"
    BY <1>1, <1>6, Stages DEF UpdateTerm, RebuildCoverage, At
  <2>2. \E m : Remember(p, m) /\ (m = Idle \/ m.kind = "patch_term")
    BY <1>6 DEF UpdateTerm, RebuildCoverage, Done
  <2> QED
    BY <1>1, <1>6, <2>1, <2>2 DEF UpdateTerm, RebuildCoverage
<1>7. CASE ApproveNext(p)
  <2>1. request[p] \in Approving /\ request[p].step # "idle"
    BY <1>1, <1>7, Shapes DEF ApproveNext, At
  <2>2. \A i : [request[p] EXCEPT !.lines = @ \ {i}].kind = request[p].kind
    BY <2>1 DEF Approving
  <2> QED
    BY <1>1, <1>7, <2>1, <2>2 DEF ApproveNext, Done
<1>8. CASE Die(p)
  BY <1>1, <1>8 DEF Die, Done
<1> QED
  BY <1>2, <1>3, <1>4, <1>5, <1>6, <1>7, <1>8 DEF Continues

Begins(p) == ReadDocument(p) \/ PatchTerm(p) \/ ApproveTerms(p) \/ CorrectBilling(p)

\* Every step is somebody asking for a reading, or a request that begins or goes on.
LEMMA Steps ==
  ASSUME [Next]_vars
  PROVE  \/ Enqueue
         \/ \E p \in Requests : Begins(p)
         \/ \E p \in Requests : Continues(p)
         \/ UNCHANGED vars
BY Zenon DEF Next, Worker, Person, Begins, Continues

\* No meeting is missed.
LEMMA CompanyStep == IInv /\ CompanyInv /\ [Next]_vars => CompanyInv'
<1> SUFFICES ASSUME IInv, CompanyInv, [Next]_vars PROVE CompanyInv'
  OBVIOUS
<1>1. request \in [Requests -> Memory]
  BY Parts DEF Requesting
<1>2. CASE Enqueue \/ UNCHANGED vars
  BY <1>2 DEF Enqueue, vars, CompanyInv, Busy
<1>3. ASSUME NEW p \in Requests, Begins(p) PROVE CompanyInv'
  <2>1. \E m : m # Idle /\ Begin(p, m)
    <3>1. \A m : m \in Patching \cup Approving => m # Idle
      BY DEF Patching, Approving, Idle
    <3>2. \A fresh : [step |-> "merge", kind |-> "extract", fresh |-> fresh] # Idle
      BY DEF Idle
    <3>3. \A i, row : [step |-> "put_term", kind |-> "correct_billing", line |-> i, row |-> row] # Idle
      BY DEF Idle
    <3> QED
      BY <1>3, <3>1, <3>2, <3>3, Beginnings DEF Begins
  <2> QED
    BY <1>1, <2>1, Beginning
<1>4. ASSUME NEW p \in Requests, Continues(p) PROVE CompanyInv'
  BY <1>1, <1>4, Continuing, GoingOn
<1> QED
  BY <1>2, <1>3, <1>4, Steps

\* What the code makes of what it reads.
LEMMA BuiltByMerging ==
  ASSUME IInv, BuiltInv, NEW p \in Requests, ListAndMerge(p)
  PROVE  Built(request'[p])
<1> DEFINE fresh == request[p].fresh
           write == [i \in ToWrite(terms, fresh) |-> Merged(terms[i], fresh[i])]
           gone  == [i \in ToSupersede(terms, fresh) |-> [terms[i] EXCEPT !.superseded = TRUE]]
<1>0. RowsOK /\ request \in [Requests -> Memory]
  BY Parts DEF Requesting
<1>1. request[p] \in Merging /\ request[p].step = "merge"
  BY <1>0, Shapes DEF ListAndMerge, At
<1>2. PICK D \in SUBSET Lines : fresh \in [D -> Rows]
  BY <1>1 DEF Merging, Batches
<1>3. \A i \in D : ~fresh[i].superseded
  BY <1>1, <1>2 DEF BuiltInv, Built
<1>4. DOMAIN write \subseteq D /\ DOMAIN gone \cap D = {}
  BY <1>2 DEF ToWrite, ToSupersede
<1>5. ASSUME NEW i \in D, NEW prior \in Rows \cup {NoValue}
      PROVE  /\ ~Merged(prior, fresh[i]).superseded
             /\ Merged(prior, fresh[i]).record.program = fresh[i].record.program
  <2>1. fresh[i] \in Rows /\ ~fresh[i].superseded
    BY <1>2, <1>3
  <2>2. CASE prior = NoValue
    BY <2>1, <2>2 DEF Merged
  <2>3. CASE prior # NoValue /\ SameBody(prior, fresh[i])
    BY <2>1, <2>3 DEF Merged, SameBody, Rows
  <2>4. CASE prior # NoValue /\ ~SameBody(prior, fresh[i])
    BY <2>1, <2>4 DEF Merged, MovedRow, Rows
  <2> QED
    BY <2>2, <2>3, <2>4
<1>6. \A i \in DOMAIN write : ~write[i].superseded /\ write[i].record.program = fresh[i].record.program
  BY <1>0, <1>4, <1>5 DEF RowsOK
<1>7. \A i \in DOMAIN gone : gone[i].superseded
  <2>1. \A i \in DOMAIN gone : terms[i] \in Rows
    BY <1>0 DEF ToSupersede, RowsOK
  <2> QED
    BY <2>1 DEF Rows
<1>8. request'[p] = [step |-> "put_terms", kind |-> "extract", fresh |-> fresh,
                     write |-> write, supersede |-> gone]
  BY <1>0 DEF ListAndMerge, Remember
<1> HIDE DEF fresh, write, gone
<1> QED
  BY <1>2, <1>3, <1>4, <1>6, <1>7, <1>8 DEF Built

\* What requests remember stays what the code made of it.
LEMMA BuiltStep == IInv /\ CompanyInv /\ BuiltInv /\ [Next]_vars => BuiltInv'
<1> SUFFICES ASSUME IInv, CompanyInv, BuiltInv, [Next]_vars PROVE BuiltInv'
  OBVIOUS
<1>1. request \in [Requests -> Memory]
  BY Parts DEF Requesting
<1>2. CASE Enqueue \/ UNCHANGED vars
  BY <1>2 DEF Enqueue, vars, BuiltInv
<1>3. ASSUME NEW p \in Requests, NEW m, Remember(p, m), Built(m) PROVE BuiltInv'
  BY <1>1, <1>3 DEF BuiltInv, Remember
<1>4. ASSUME NEW p \in Requests, Begins(p) PROVE BuiltInv'
  <2>1. CASE ReadDocument(p)
    <3>1. PICK reading :
            Begin(p, [step |-> "merge", kind |-> "extract", fresh |-> BuiltRows(reading)])
      BY <2>1, Beginnings
    <3>2. \A i \in DOMAIN BuiltRows(reading) : ~BuiltRows(reading)[i].superseded
      BY DEF BuiltRows, NewRow
    <3>3. Built([step |-> "merge", kind |-> "extract", fresh |-> BuiltRows(reading)])
      BY <3>2 DEF Built
    <3> QED
      BY <1>3, <3>1, <3>3 DEF Begin
  <2>2. CASE PatchTerm(p) \/ ApproveTerms(p)
    <3>1. \A m \in Patching \cup Approving : Built(m)
      BY DEF Patching, Approving, Built
    <3> QED
      BY <1>3, <2>2, <3>1, Beginnings DEF Begin
  <2>3. CASE CorrectBilling(p)
    <3>1. PICK i \in Listed(terms) :
            /\ i \in Lines /\ terms[i] \in Rows
            /\ Begin(p, [step |-> "put_term", kind |-> "correct_billing", line |-> i,
                         row |-> [terms[i] EXCEPT !.record.override = TRUE, !.corrected = TRUE]])
      BY <2>3, Beginnings
    <3> DEFINE row == [terms[i] EXCEPT !.record.override = TRUE, !.corrected = TRUE]
    <3>2. ~row.superseded
      BY <3>1 DEF Listed, Rows
    <3> HIDE DEF row
    <3>3. Built([step |-> "put_term", kind |-> "correct_billing", line |-> i, row |-> row])
      BY <3>2 DEF Built
    <3> QED
      BY <1>3, <3>1, <3>3 DEF Begin, row
  <2> QED
    BY <1>4, <2>1, <2>2, <2>3 DEF Begins
<1>5. ASSUME NEW p \in Requests, Continues(p) PROVE BuiltInv'
  <2>0. Built(request[p]) /\ request[p] \in Memory
    BY <1>1 DEF BuiltInv
  <2>1. CASE ListAndMerge(p)
    <3>1. \E m : Remember(p, m) /\ request'[p] = m
      BY <1>1, <2>1 DEF ListAndMerge, Remember
    <3> QED
      BY <1>3, <2>1, <3>1, BuiltByMerging
  <2>2. CASE PutWritten(p)
    <3>1. request[p] \in Putting /\ request[p].step = "put_terms"
      BY <2>0, <2>2, Shapes DEF PutWritten, At
    <3> DEFINE rows == request[p].write
    <3>2. PICK i \in DOMAIN rows :
            Remember(p, [request[p] EXCEPT !.write = Restrict(rows, DOMAIN rows \ {i})])
      BY <2>2 DEF PutWritten
    <3> DEFINE rest == Restrict(rows, DOMAIN rows \ {i})
    <3>3. DOMAIN rest = DOMAIN rows \ {i} /\ \A j \in DOMAIN rest : rest[j] = rows[j]
      BY DEF Restrict
    <3> HIDE DEF rest
    <3>4. Built([request[p] EXCEPT !.write = rest])
      BY <2>0, <3>1, <3>3 DEF Built, Putting
    <3> QED
      BY <1>3, <3>2, <3>4 DEF rest
  <2>3. CASE PutSuperseded(p)
    <3>1. request[p] \in Putting /\ request[p].step = "put_terms"
      BY <2>0, <2>3, Shapes DEF PutSuperseded, At
    <3> DEFINE rows == request[p].supersede
    <3>2. PICK i \in DOMAIN rows :
            Remember(p, [request[p] EXCEPT !.supersede = Restrict(rows, DOMAIN rows \ {i})])
      BY <2>3 DEF PutSuperseded
    <3> DEFINE rest == Restrict(rows, DOMAIN rows \ {i})
    <3>3. DOMAIN rest = DOMAIN rows \ {i} /\ \A j \in DOMAIN rest : rest[j] = rows[j]
      BY DEF Restrict
    <3> HIDE DEF rest
    <3>4. Built([request[p] EXCEPT !.supersede = rest])
      BY <2>0, <3>1, <3>3 DEF Built, Putting
    <3> QED
      BY <1>3, <3>2, <3>4 DEF rest
  <2>4. CASE TermsPut(p) \/ RebuildCoverage(p)
    <3>1. \E kind, programs :
            Remember(p, [step |-> "clear_coverage", kind |-> kind, programs |-> programs])
      BY <2>4 DEF TermsPut, RebuildCoverage
    <3>2. \A kind, programs :
            Built([step |-> "clear_coverage", kind |-> kind, programs |-> programs])
      BY DEF Built
    <3> QED
      BY <1>3, <3>1, <3>2
  <2>5. CASE ClearCoverage(p)
    <3>1. request[p] \in Covering
      BY <2>0, <2>5, Shapes DEF ClearCoverage, At
    <3>2. Built([request[p] EXCEPT !.step = "put_coverage"])
      BY <3>1 DEF Built, Covering
    <3> QED
      BY <1>3, <2>5, <3>2 DEF ClearCoverage
  <2>6. CASE PutCoverage(p) \/ PutCorrection(p) \/ Die(p) \/ UpdateTerm(p)
    <3>1. Built(Idle) /\ Built([step |-> "rebuild_coverage", kind |-> "patch_term"])
      BY DEF Built, Idle
    <3> QED
      BY <1>3, <2>6, <3>1 DEF PutCoverage, PutCorrection, Die, UpdateTerm, Done
  <2>7. CASE ApproveNext(p)
    <3>1. request[p] \in Approving
      BY <2>0, <2>7, Shapes DEF ApproveNext, At
    <3>2. \A i : Built([request[p] EXCEPT !.lines = @ \ {i}])
      BY <3>1 DEF Built, Approving
    <3>3. Built(Idle)
      BY DEF Built, Idle
    <3> QED
      BY <1>3, <2>7, <3>2, <3>3 DEF ApproveNext, Done
  <2> QED
    BY <1>5, <2>1, <2>2, <2>3, <2>4, <2>5, <2>6, <2>7 DEF Continues, PutTerm
<1> QED
  BY <1>2, <1>4, <1>5, Steps

-----------------------------------------------------------------------------
(* Which terms are in force. *)

\* The crossings that may change which terms are in force.
Calm == ~Crossed("extract", {"extract", "correct_billing"})

\* What a request remembers of which terms are in force: a reading puts back what
\* is missing, and a billing correction a term that is in force.
ListsHold(m, listed, reading) ==
  /\ m.step \in {"merge", "put_terms"} => DOMAIN m.fresh = DOMAIN reading
  /\ m.step = "put_terms" =>
       \A i \in Lines \ (DOMAIN m.write \cup DOMAIN m.supersede) :
         i \in listed <=> i \in DOMAIN m.fresh
  /\ m.kind = "extract" /\ m.step \in {"clear_coverage", "put_coverage"} =>
       listed = DOMAIN reading
  /\ m.step = "put_term" => m.line \in listed

NobodyReads == queued = 0 /\ \A p \in Requests : request[p].kind # "extract"

InForceInv ==
  Calm => /\ \A p \in Requests : ListsHold(request[p], Listed(terms), extraction)
          /\ NobodyReads => Listed(terms) = DOMAIN extraction

\* What a put leaves of the table.
LEMMA PutEffect ==
  ASSUME RowsOK, NEW i \in Lines, NEW row \in Rows, PutRow(i, row)
  PROVE  /\ terms'[i] \in Rows /\ terms'[i] # NoValue
         /\ terms'[i].record = Stored(row.record)
         /\ terms'[i].record.program = row.record.program
         /\ terms'[i].approved = row.approved
         /\ terms'[i].superseded = row.superseded
         /\ terms'[i].changed_since_approval = row.changed_since_approval
         /\ \A j \in Lines : j # i => terms'[j] = terms[j]
         /\ Listed(terms') = IF row.superseded THEN Listed(terms) \ {i} ELSE Listed(terms) \cup {i}
<1> DEFINE put == [row EXCEPT !.record = Stored(@)]
<1>1. row.record \in Records
  BY DEF Rows
<1>2. Stored(row.record) \in Records /\ Stored(row.record).program = row.record.program
  BY <1>1 DEF Stored, Records
<1>3. /\ put \in Rows /\ put.record = Stored(row.record) /\ put.approved = row.approved
      /\ put.superseded = row.superseded
      /\ put.changed_since_approval = row.changed_since_approval
  BY <1>2 DEF Rows
<1>4. put # NoValue
  BY <1>3, LinesAssumption
<1>5. terms' = [terms EXCEPT ![i] = put]
  BY DEF PutRow
<1> HIDE DEF put
<1>6. /\ terms'[i] = put /\ DOMAIN terms' = Lines /\ DOMAIN terms = Lines
      /\ \A j \in Lines : j # i => terms'[j] = terms[j]
  BY <1>5 DEF RowsOK
<1>7. /\ i \in Listed(terms') <=> ~row.superseded
      /\ \A j : j # i => (j \in Listed(terms') <=> j \in Listed(terms))
  BY <1>3, <1>4, <1>6 DEF Listed
<1>8. Listed(terms') = IF row.superseded THEN Listed(terms) \ {i} ELSE Listed(terms) \cup {i}
  BY <1>7
<1> QED
  BY <1>2, <1>3, <1>4, <1>6, <1>7, <1>8

\* A put that says of a row what the table says of it brings nothing into force.
LEMMA PutInPlace ==
  ASSUME RowsOK, NEW i \in Lines, NEW row \in Rows, PutRow(i, row),
         terms[i] # NoValue, row.superseded = terms[i].superseded
  PROVE  Listed(terms') = Listed(terms)
<1>1. CASE row.superseded
  <2>1. i \notin Listed(terms)
    BY <1>1 DEF Listed
  <2> QED
    BY <1>1, <2>1, PutEffect
<1>2. CASE ~row.superseded
  <2>1. i \in Listed(terms)
    BY <1>2 DEF Listed, RowsOK
  <2> QED
    BY <1>2, <2>1, PutEffect
<1> QED
  BY <1>1, <1>2

\* Approving, or correcting, leaves a row in force if it was.
LEMMA UpdatesInPlace ==
  ASSUME NEW row \in Rows, NEW approve \in BOOLEAN, NEW record \in Records \cup {NoValue}
  PROVE  /\ Approved(row).superseded = row.superseded
         /\ Approved(row).record = row.record
         /\ Approved(row).approved
         /\ Updated(row, approve, record).superseded = row.superseded
         /\ record = NoValue => Updated(row, approve, record).record = row.record
         /\ row.approved => Updated(row, approve, record).approved
<1>1. /\ Approved(row) \in Rows /\ Approved(row).superseded = row.superseded
      /\ Approved(row).record = row.record /\ Approved(row).approved
  BY DEF Approved, Rows
<1> DEFINE reviewed == IF approve THEN Approved(row) ELSE row
<1>2. /\ reviewed \in Rows /\ reviewed.superseded = row.superseded
      /\ reviewed.record = row.record /\ (row.approved => reviewed.approved)
  BY <1>1
<1>3. Updated(row, approve, record) =
        IF record = NoValue THEN reviewed
        ELSE [reviewed EXCEPT !.record = record, !.corrected = TRUE]
  BY DEF Updated
<1> HIDE DEF reviewed
<1> QED
  BY <1>1, <1>2, <1>3 DEF Rows

\* A correction, or an approval of one term, updates a row where it is.
LEMMA UpdateEffect ==
  ASSUME IInv, NEW p \in Requests, UpdateTerm(p)
  PROVE  /\ request[p] \in Patching /\ request[p].line \in Lines
         /\ terms[request[p].line] \in Rows
         /\ Updated(terms[request[p].line], request[p].approve, request[p].record) \in Rows
         /\ Listed(terms') = Listed(terms)
<1> DEFINE i == request[p].line
           row == Updated(terms[i], request[p].approve, request[p].record)
<1>0. RowsOK /\ Requesting
  BY Parts
<1>1. request[p] \in Patching /\ Sound(request[p], terms) /\ request[p].step = "update_term"
  BY <1>0, Shapes DEF UpdateTerm, At, Requesting
<1>2. /\ i \in Lines /\ request[p].approve \in BOOLEAN
      /\ request[p].record \in Records \cup {NoValue}
      /\ terms[i] # NoValue
  BY <1>1 DEF Patching, Sound
<1>3. terms[i] \in Rows /\ FlagsAgree(terms[i])
  BY <1>0, <1>2 DEF RowsOK, ReviewFlagsAgree
<1>4. row \in Rows
  BY <1>2, <1>3, UpdatedRows
<1>5. row.superseded = terms[i].superseded
  BY <1>2, <1>3, UpdatesInPlace
<1>6. PutRow(i, row)
  BY DEF UpdateTerm
<1> HIDE DEF i, row
<1>7. Listed(terms') = Listed(terms)
  BY <1>0, <1>2, <1>4, <1>5, <1>6, PutInPlace
<1> QED
  BY <1>1, <1>2, <1>3, <1>4, <1>7 DEF i, row

\* An approval in bulk updates one row after the other.
LEMMA ApproveEffect ==
  ASSUME IInv, NEW p \in Requests, ApproveNext(p)
  PROVE  \E i \in Lines :
           /\ i \in request[p].lines /\ terms[i] \in Rows /\ Approved(terms[i]) \in Rows
           /\ PutRow(i, Approved(terms[i]))
           /\ Listed(terms') = Listed(terms)
<1>0. RowsOK /\ Requesting
  BY Parts
<1>1. request[p] \in Approving /\ Sound(request[p], terms) /\ request[p].step = "approve"
  BY <1>0, Shapes DEF ApproveNext, At, Requesting
<1>2. PICK i \in request[p].lines : PutRow(i, Approved(terms[i]))
  BY DEF ApproveNext
<1>3. i \in Lines /\ terms[i] \in Rows /\ terms[i] # NoValue
  BY <1>0, <1>1, <1>2 DEF Approving, Sound, RowsOK
<1>4. Approved(terms[i]) \in Rows /\ Approved(terms[i]).superseded = terms[i].superseded
  BY <1>3, ApprovedRows, UpdatesInPlace
<1>5. Listed(terms') = Listed(terms)
  BY <1>0, <1>2, <1>3, <1>4, PutInPlace
<1> QED
  BY <1>2, <1>3, <1>4, <1>5

\* One row of a batch goes out: what the request still has to put, and what is in
\* force by now.
LEMMA WrittenEffect ==
  ASSUME IInv, BuiltInv, NEW p \in Requests, PutWritten(p)
  PROVE  \E i \in Lines :
           LET m == request[p]  n == request'[p] IN
           /\ m \in Putting /\ m.step = "put_terms"
           /\ i \in DOMAIN m.write /\ m.write[i] \in Rows /\ PutRow(i, m.write[i])
           /\ Listed(terms') = Listed(terms) \cup {i}
           /\ n.step = "put_terms" /\ n.kind = "extract"
           /\ n.fresh = m.fresh /\ n.supersede = m.supersede
           /\ DOMAIN n.write = DOMAIN m.write \ {i}
           /\ \A j \in DOMAIN n.write : n.write[j] = m.write[j]
<1> DEFINE rows == request[p].write
<1>0. RowsOK /\ Requesting
  BY Parts
<1>1. request[p] \in Putting /\ request[p].step = "put_terms"
  BY <1>0, Shapes DEF PutWritten, At, Requesting
<1>2. PICK D \in SUBSET Lines : rows \in [D -> Rows]
  BY <1>1 DEF Putting, Batches
<1>3. PICK i \in D :
        /\ PutRow(i, rows[i])
        /\ Remember(p, [request[p] EXCEPT !.write = Restrict(rows, DOMAIN rows \ {i})])
  BY <1>2 DEF PutWritten
<1>4. ~rows[i].superseded
  BY <1>1, <1>2 DEF BuiltInv, Built
<1>5. Listed(terms') = Listed(terms) \cup {i}
  BY <1>0, <1>2, <1>3, <1>4, PutEffect
<1> DEFINE rest == Restrict(rows, DOMAIN rows \ {i})
<1>6. DOMAIN rest = DOMAIN rows \ {i} /\ \A j \in DOMAIN rest : rest[j] = rows[j]
  BY DEF Restrict
<1>7. request'[p] = [request[p] EXCEPT !.write = rest]
  BY <1>0, <1>3 DEF Remember, Requesting
<1> HIDE DEF rest
<1>8. LET n == request'[p] IN
      /\ n.step = "put_terms" /\ n.kind = "extract" /\ n.fresh = request[p].fresh
      /\ n.supersede = request[p].supersede /\ n.write = rest
  BY <1>1, <1>7 DEF Putting
<1> QED
  BY <1>1, <1>2, <1>3, <1>5, <1>6, <1>8

\* The same of a row that is no longer read.
LEMMA SupersededEffect ==
  ASSUME IInv, BuiltInv, NEW p \in Requests, PutSuperseded(p)
  PROVE  \E i \in Lines :
           LET m == request[p]  n == request'[p] IN
           /\ m \in Putting /\ m.step = "put_terms" /\ DOMAIN m.write = {}
           /\ i \in DOMAIN m.supersede /\ m.supersede[i] \in Rows /\ PutRow(i, m.supersede[i])
           /\ Listed(terms') = Listed(terms) \ {i}
           /\ n.step = "put_terms" /\ n.kind = "extract"
           /\ n.fresh = m.fresh /\ n.write = m.write
           /\ DOMAIN n.supersede = DOMAIN m.supersede \ {i}
           /\ \A j \in DOMAIN n.supersede : n.supersede[j] = m.supersede[j]
<1> DEFINE rows == request[p].supersede
<1>0. RowsOK /\ Requesting
  BY Parts
<1>1. request[p] \in Putting /\ request[p].step = "put_terms"
  BY <1>0, Shapes DEF PutSuperseded, At, Requesting
<1>2. PICK D \in SUBSET Lines : rows \in [D -> Rows]
  BY <1>1 DEF Putting, Batches
<1>3. PICK i \in D :
        /\ PutRow(i, rows[i])
        /\ Remember(p, [request[p] EXCEPT !.supersede = Restrict(rows, DOMAIN rows \ {i})])
  BY <1>2 DEF PutSuperseded
<1>4. rows[i].superseded
  BY <1>1, <1>2 DEF BuiltInv, Built
<1>5. Listed(terms') = Listed(terms) \ {i}
  BY <1>0, <1>2, <1>3, <1>4, PutEffect
<1> DEFINE rest == Restrict(rows, DOMAIN rows \ {i})
<1>6. DOMAIN rest = DOMAIN rows \ {i} /\ \A j \in DOMAIN rest : rest[j] = rows[j]
  BY DEF Restrict
<1>7. request'[p] = [request[p] EXCEPT !.supersede = rest]
  BY <1>0, <1>3 DEF Remember, Requesting
<1> HIDE DEF rest
<1>8. LET n == request'[p] IN
      /\ n.step = "put_terms" /\ n.kind = "extract" /\ n.fresh = request[p].fresh
      /\ n.write = request[p].write /\ n.supersede = rest
  BY <1>1, <1>7 DEF Putting
<1>9. DOMAIN request[p].write = {}
  BY DEF PutSuperseded
<1> QED
  BY <1>1, <1>2, <1>3, <1>5, <1>6, <1>8, <1>9

\* What merge_rows plans.
LEMMA MergeEffect ==
  ASSUME IInv, NEW p \in Requests, ListAndMerge(p)
  PROVE  LET m == request[p]  n == request'[p] IN
         /\ m \in Merging /\ m.step = "merge" /\ m.fresh \in Batches
         /\ n.step = "put_terms" /\ n.kind = "extract" /\ n.fresh = m.fresh
         /\ n.write = [i \in ToWrite(terms, m.fresh) |-> Merged(terms[i], m.fresh[i])]
         /\ n.supersede = [i \in ToSupersede(terms, m.fresh) |-> [terms[i] EXCEPT !.superseded = TRUE]]
<1>0. Requesting
  BY Parts
<1>1. request[p] \in Merging /\ request[p].step = "merge"
  BY <1>0, Shapes DEF ListAndMerge, At, Requesting
<1>2. request[p].fresh \in Batches
  BY <1>1 DEF Merging
<1>3. request'[p] = [step |-> "put_terms", kind |-> "extract", fresh |-> request[p].fresh,
                     write |-> [i \in ToWrite(terms, request[p].fresh) |->
                                  Merged(terms[i], request[p].fresh[i])],
                     supersede |-> [i \in ToSupersede(terms, request[p].fresh) |->
                                      [terms[i] EXCEPT !.superseded = TRUE]]]
  BY <1>0 DEF ListAndMerge, Remember, Requesting
<1> QED
  BY <1>1, <1>2, <1>3

\* A billing correction puts its row back.
LEMMA CorrectionEffect ==
  ASSUME IInv, BuiltInv, NEW p \in Requests, PutCorrection(p)
  PROVE  /\ request[p] \in Correcting /\ request[p].step = "put_term"
         /\ request[p].line \in Lines /\ request[p].row \in Rows
         /\ PutRow(request[p].line, request[p].row)
         /\ request'[p] = Idle
         /\ Listed(terms') = Listed(terms) \cup {request[p].line}
<1>0. RowsOK /\ Requesting
  BY Parts
<1>1. request[p] \in Correcting /\ request[p].step = "put_term"
  BY <1>0, Shapes DEF PutCorrection, At, Requesting
<1>2. request[p].line \in Lines /\ request[p].row \in Rows /\ ~request[p].row.superseded
  BY <1>1 DEF Correcting, BuiltInv, Built
<1>3. PutRow(request[p].line, request[p].row)
  BY DEF PutCorrection
<1>4. Listed(terms') = Listed(terms) \cup {request[p].line}
  BY <1>0, <1>2, <1>3, PutEffect
<1> QED
  BY <1>0, <1>1, <1>2, <1>3, <1>4 DEF PutCorrection, Done, Remember, Requesting

\* While a reading is at work undisturbed, nobody else remembers what is in force.
LEMMA ReaderHasNoRivals ==
  ASSUME IInv', CompanyInv', NEW p \in Requests, request'[p].kind = "extract",
         Calm' => ListsHold(request'[p], Listed(terms'), extraction')
  PROVE  InForceInv'
<1> SUFFICES ASSUME Calm'
             PROVE  /\ \A q \in Requests : ListsHold(request'[q], Listed(terms'), extraction')
                    /\ ~NobodyReads'
  BY DEF InForceInv
<1>1. ~NobodyReads'
  BY DEF NobodyReads
<1>2. ASSUME NEW q \in Requests, q # p
      PROVE  ListsHold(request'[q], Listed(terms'), extraction')
  <2>1. request'[q] \in Memory
    BY DEF IInv, TypeOK
  <2>2. CASE request'[q] = Idle
    BY <2>2 DEF ListsHold, Idle
  <2>3. CASE request'[q] # Idle
    <3>1. request'[p] # Idle
      BY DEF Idle
    <3>2. {"extract", request'[q].kind} \in overlaps'
      BY <1>2, <2>3, <3>1 DEF CompanyInv, Busy
    <3>3. request'[q].kind \notin {"extract", "correct_billing"}
      BY <3>2 DEF Calm, Crossed
    <3> QED
      BY <2>1, <3>3, Stages DEF ListsHold
  <2> QED
    BY <2>2, <2>3
<1> QED
  BY <1>1, <1>2

\* A request that changes nothing of what is in force.
LEMMA InForceKept ==
  ASSUME InForceInv, NEW p \in Requests, overlaps \subseteq overlaps',
         Listed(terms') = Listed(terms), extraction' = extraction,
         \A q \in Requests : q # p => request'[q] = request[q],
         Calm => ListsHold(request'[p], Listed(terms), extraction),
         Calm /\ NobodyReads' => Listed(terms) = DOMAIN extraction
  PROVE  InForceInv'
<1> SUFFICES ASSUME Calm'
             PROVE  /\ \A q \in Requests : ListsHold(request'[q], Listed(terms'), extraction')
                    /\ NobodyReads' => Listed(terms') = DOMAIN extraction'
  BY DEF InForceInv
<1>1. Calm
  BY DEF Calm, Crossed
<1> QED
  BY <1>1 DEF InForceInv

\* Requests that begin.
LEMMA BeginningKeepsInForce ==
  ASSUME IInv, IInv', CompanyInv, CompanyInv', InForceInv, NEW p \in Requests, Begins(p)
  PROVE  InForceInv'
<1>0. request \in [Requests -> Memory]
  BY Parts DEF Requesting
<1>1. CASE ReadDocument(p)
  <2>1. PICK found \in SUBSET Lines : \E reading \in [found -> Texts] :
          /\ extraction' = reading
          /\ Begin(p, [step |-> "merge", kind |-> "extract", fresh |-> BuiltRows(reading)])
    BY <1>1, Beginnings
  <2>2. PICK reading \in [found -> Texts] :
          /\ extraction' = reading
          /\ Begin(p, [step |-> "merge", kind |-> "extract", fresh |-> BuiltRows(reading)])
    BY <2>1
  <2>3. request'[p] = [step |-> "merge", kind |-> "extract", fresh |-> BuiltRows(reading)]
    BY <1>0, <2>2 DEF Begin, Remember
  <2>4. DOMAIN BuiltRows(reading) = DOMAIN reading
    BY DEF BuiltRows
  <2>5. ListsHold(request'[p], Listed(terms'), extraction')
    BY <2>2, <2>3, <2>4 DEF ListsHold
  <2> QED
    BY <2>3, <2>5, ReaderHasNoRivals
<1>2. CASE PatchTerm(p) \/ ApproveTerms(p) \/ CorrectBilling(p)
  <2>1. /\ terms' = terms /\ extraction' = extraction /\ queued' = queued
    BY <1>2 DEF PatchTerm, ApproveTerms, CorrectBilling
  <2>2. \E m : /\ Begin(p, m) /\ m # Idle /\ m.kind # "extract"
               /\ ListsHold(m, Listed(terms), extraction)
    <3>1. \A m \in Patching \cup Approving :
            m # Idle /\ m.kind # "extract" /\ ListsHold(m, Listed(terms), extraction)
      BY DEF Patching, Approving, Idle, ListsHold
    <3>2. ASSUME NEW i \in Listed(terms), NEW row
          PROVE  LET m == [step |-> "put_term", kind |-> "correct_billing", line |-> i, row |-> row]
                 IN  m # Idle /\ m.kind # "extract" /\ ListsHold(m, Listed(terms), extraction)
      BY DEF Idle, ListsHold
    <3>3. CASE PatchTerm(p) \/ ApproveTerms(p)
      BY <3>1, <3>3, Beginnings
    <3>4. CASE CorrectBilling(p)
      <4>1. PICK i \in Listed(terms) : \E row :
              Begin(p, [step |-> "put_term", kind |-> "correct_billing", line |-> i, row |-> row])
        BY <3>4, Beginnings
      <4> QED
        BY <3>2, <4>1
    <3> QED
      BY <1>2, <3>3, <3>4
  <2>3. PICK m : /\ Begin(p, m) /\ m # Idle /\ m.kind # "extract"
                 /\ ListsHold(m, Listed(terms), extraction)
    BY <2>2
  <2>4. /\ request[p] = Idle /\ request'[p] = m /\ overlaps \subseteq overlaps'
        /\ \A q \in Requests : q # p => request'[q] = request[q]
    BY <1>0, <2>3, Beginning
  <2>5. NobodyReads' => NobodyReads
    BY <2>1, <2>4 DEF NobodyReads, Idle
  <2>6. Calm /\ NobodyReads' => Listed(terms) = DOMAIN extraction
    BY <2>5 DEF InForceInv
  <2> QED
    BY <2>1, <2>3, <2>4, <2>6, InForceKept
<1> QED
  BY <1>1, <1>2 DEF Begins

\* The reading that puts its terms.
LEMMA ReadingKeepsInForce ==
  ASSUME IInv, IInv', CompanyInv', BuiltInv, InForceInv, NEW p \in Requests,
         ListAndMerge(p) \/ PutTerm(p) \/ TermsPut(p)
  PROVE  InForceInv'
<1>0. RowsOK /\ request \in [Requests -> Memory]
  BY Parts DEF Requesting
<1>1. Listed(terms) \subseteq Lines
  BY <1>0 DEF Listed, RowsOK
<1>2. overlaps' = overlaps /\ extraction' = extraction
  BY DEF ListAndMerge, PutTerm, PutWritten, PutSuperseded, TermsPut
<1>3. Calm' => Calm
  BY <1>2 DEF Calm, Crossed
<1>4. Calm => ListsHold(request[p], Listed(terms), extraction)
  BY DEF InForceInv
<1>5. CASE ListAndMerge(p)
  <2> DEFINE fresh == request[p].fresh
  <2>1. /\ request[p].step = "merge" /\ fresh \in Batches
        /\ request'[p].step = "put_terms" /\ request'[p].kind = "extract"
        /\ request'[p].fresh = fresh
        /\ DOMAIN request'[p].write = ToWrite(terms, fresh)
        /\ DOMAIN request'[p].supersede = ToSupersede(terms, fresh)
    BY <1>5, MergeEffect
  <2>2. Calm => DOMAIN fresh = DOMAIN extraction
    BY <1>4, <2>1 DEF ListsHold
  <2>3. terms' = terms
    BY <1>5 DEF ListAndMerge
  <2>4. ASSUME NEW i \in Lines \ (ToWrite(terms, fresh) \cup ToSupersede(terms, fresh))
        PROVE  i \in Listed(terms) <=> i \in DOMAIN fresh
    BY <1>0, <2>4 DEF ToWrite, ToSupersede, Listed, RowsOK
  <2> HIDE DEF fresh
  <2>5. Calm' => ListsHold(request'[p], Listed(terms'), extraction')
    BY <1>2, <1>3, <2>1, <2>2, <2>3, <2>4 DEF ListsHold
  <2> QED
    BY <2>1, <2>5, ReaderHasNoRivals
<1>6. CASE PutWritten(p)
  <2>1. PICK i \in Lines :
           LET m == request[p]  n == request'[p] IN
           /\ m \in Putting /\ m.step = "put_terms"
           /\ i \in DOMAIN m.write /\ m.write[i] \in Rows /\ PutRow(i, m.write[i])
           /\ Listed(terms') = Listed(terms) \cup {i}
           /\ n.step = "put_terms" /\ n.kind = "extract"
           /\ n.fresh = m.fresh /\ n.supersede = m.supersede
           /\ DOMAIN n.write = DOMAIN m.write \ {i}
           /\ \A j \in DOMAIN n.write : n.write[j] = m.write[j]
    BY <1>6, WrittenEffect
  <2>2. i \in DOMAIN request[p].fresh
    BY <2>1 DEF BuiltInv, Built
  <2>3. Calm' => ListsHold(request'[p], Listed(terms'), extraction')
    BY <1>2, <1>3, <1>4, <2>1, <2>2 DEF ListsHold
  <2> QED
    BY <2>1, <2>3, ReaderHasNoRivals
<1>7. CASE PutSuperseded(p)
  <2>1. PICK i \in Lines :
           LET m == request[p]  n == request'[p] IN
           /\ m \in Putting /\ m.step = "put_terms" /\ DOMAIN m.write = {}
           /\ i \in DOMAIN m.supersede /\ m.supersede[i] \in Rows /\ PutRow(i, m.supersede[i])
           /\ Listed(terms') = Listed(terms) \ {i}
           /\ n.step = "put_terms" /\ n.kind = "extract"
           /\ n.fresh = m.fresh /\ n.write = m.write
           /\ DOMAIN n.supersede = DOMAIN m.supersede \ {i}
           /\ \A j \in DOMAIN n.supersede : n.supersede[j] = m.supersede[j]
    BY <1>7, SupersededEffect
  <2>2. i \notin DOMAIN request[p].fresh
    BY <2>1 DEF BuiltInv, Built
  <2>3. Calm' => ListsHold(request'[p], Listed(terms'), extraction')
    BY <1>2, <1>3, <1>4, <2>1, <2>2 DEF ListsHold
  <2> QED
    BY <2>1, <2>3, ReaderHasNoRivals
<1>8. CASE TermsPut(p)
  <2>1. /\ request[p] \in Putting /\ request[p].step = "put_terms"
        /\ DOMAIN request[p].write = {} /\ DOMAIN request[p].supersede = {}
    BY <1>0, <1>8, Shapes DEF TermsPut, At
  <2>2. DOMAIN request[p].fresh \subseteq Lines
    BY <2>1 DEF Putting, Batches
  <2>3. Calm => Listed(terms) = DOMAIN extraction
    BY <1>1, <1>4, <2>1, <2>2 DEF ListsHold
  <2>4. terms' = terms
    BY <1>8 DEF TermsPut
  <2>5. request'[p] = [step |-> "clear_coverage", kind |-> "extract",
                       programs |-> CoverageOf(request[p].fresh)]
    BY <1>0, <1>8 DEF TermsPut, Remember
  <2>6. Calm' => ListsHold(request'[p], Listed(terms'), extraction')
    BY <1>2, <1>3, <2>3, <2>4, <2>5 DEF ListsHold
  <2> QED
    BY <2>5, <2>6, ReaderHasNoRivals
<1> QED
  BY <1>5, <1>6, <1>7, <1>8 DEF PutTerm

\* Everybody else who goes on.
LEMMA OthersKeepInForce ==
  ASSUME IInv, IInv', CompanyInv', BuiltInv, InForceInv, NEW p \in Requests,
         Continues(p), ~(ListAndMerge(p) \/ PutTerm(p) \/ TermsPut(p))
  PROVE  InForceInv'
<1>0. RowsOK /\ request \in [Requests -> Memory]
  BY Parts DEF Requesting
<1>1. PICK m : Remember(p, m) /\ (m = Idle \/ m.kind = request[p].kind)
  BY Continuing
<1>2. /\ request[p] \in Memory /\ overlaps \subseteq overlaps' /\ request'[p] = m
      /\ \A q \in Requests : q # p => request'[q] = request[q]
  BY <1>0, <1>1, Continuing DEF Remember
<1>3. ListsHold(Idle, Listed(terms), extraction)
  BY DEF ListsHold, Idle
<1>4. request[p].kind # "extract" /\ NobodyReads' /\ queued' = queued => NobodyReads
  BY <1>2 DEF NobodyReads
<1>5. CASE ClearCoverage(p)
  <2>1. request[p] \in Covering /\ request[p].step = "clear_coverage"
    BY <1>0, <1>5, Shapes DEF ClearCoverage, At
  <2>2. m = [request[p] EXCEPT !.step = "put_coverage"]
    BY <1>0, <1>2, <1>5 DEF ClearCoverage, Remember
  <2>3. m.step = "put_coverage" /\ m.kind = request[p].kind
    BY <2>1, <2>2 DEF Covering
  <2>4. terms' = terms /\ extraction' = extraction /\ queued' = queued
    BY <1>5 DEF ClearCoverage
  <2>5. Calm => ListsHold(m, Listed(terms), extraction)
    BY <2>1, <2>3 DEF InForceInv, ListsHold
  <2>6. NobodyReads' => NobodyReads
    BY <1>2, <1>4, <2>3, <2>4 DEF NobodyReads
  <2>7. Calm /\ NobodyReads' => Listed(terms) = DOMAIN extraction
    BY <2>6 DEF InForceInv
  <2> QED
    BY <1>2, <2>4, <2>5, <2>7, InForceKept
<1>6. CASE PutCoverage(p)
  <2>1. request[p] \in Covering /\ request[p].step = "put_coverage"
    BY <1>0, <1>6, Shapes DEF PutCoverage, At
  <2>2. terms' = terms /\ extraction' = extraction /\ queued' = queued /\ m = Idle
    BY <1>0, <1>2, <1>6 DEF PutCoverage, Done, Remember
  <2>3. Calm /\ request[p].kind = "extract" => Listed(terms) = DOMAIN extraction
    BY <2>1 DEF InForceInv, ListsHold
  <2>4. Calm /\ NobodyReads' => Listed(terms) = DOMAIN extraction
    BY <1>4, <2>2, <2>3 DEF InForceInv
  <2> QED
    BY <1>2, <1>3, <2>2, <2>4, InForceKept
<1>7. CASE UpdateTerm(p) \/ RebuildCoverage(p)
  <2>1. request[p].kind = "patch_term"
    BY <1>2, <1>7, Stages DEF UpdateTerm, RebuildCoverage, At
  <2>2. Listed(terms') = Listed(terms)
    BY <1>7, UpdateEffect DEF RebuildCoverage
  <2>3. extraction' = extraction /\ queued' = queued
    BY <1>7 DEF UpdateTerm, RebuildCoverage
  <2>4. ListsHold(m, Listed(terms), extraction)
    <3>1. IInv' => m \in Memory
      BY <1>2 DEF IInv, TypeOK
    <3>2. m = Idle \/ m.kind = "patch_term"
      BY <1>1, <2>1
    <3> QED
      BY <1>3, <3>1, <3>2, Stages DEF ListsHold
  <2>5. Calm /\ NobodyReads' => Listed(terms) = DOMAIN extraction
    BY <1>4, <2>1, <2>3 DEF InForceInv
  <2> QED
    BY <1>2, <2>2, <2>3, <2>4, <2>5, InForceKept
<1>8. CASE ApproveNext(p)
  <2>1. request[p].kind = "approve_terms"
    BY <1>2, <1>8, Stages DEF ApproveNext, At
  <2>2. Listed(terms') = Listed(terms)
    BY <1>8, ApproveEffect
  <2>3. extraction' = extraction /\ queued' = queued
    BY <1>8 DEF ApproveNext
  <2>4. ListsHold(m, Listed(terms), extraction)
    <3>1. IInv' => m \in Memory
      BY <1>2 DEF IInv, TypeOK
    <3>2. m = Idle \/ m.kind = "approve_terms"
      BY <1>1, <2>1
    <3> QED
      BY <1>3, <3>1, <3>2, Stages DEF ListsHold
  <2>5. Calm /\ NobodyReads' => Listed(terms) = DOMAIN extraction
    BY <1>4, <2>1, <2>3 DEF InForceInv
  <2> QED
    BY <1>2, <2>2, <2>3, <2>4, <2>5, InForceKept
<1>9. CASE PutCorrection(p)
  <2>1. /\ request[p].step = "put_term" /\ m = Idle
        /\ Listed(terms') = Listed(terms) \cup {request[p].line}
    BY <1>2, <1>9, CorrectionEffect
  <2>2. request[p].kind = "correct_billing"
    BY <1>2, <2>1, Stages
  <2>3. extraction' = extraction /\ queued' = queued /\ overlaps' = overlaps
    BY <1>9 DEF PutCorrection
  <2>4. CASE Calm
    <3>1. Listed(terms') = Listed(terms)
      BY <2>1, <2>4 DEF InForceInv, ListsHold
    <3>2. Calm /\ NobodyReads' => Listed(terms) = DOMAIN extraction
      BY <1>4, <2>2, <2>3 DEF InForceInv
    <3> QED
      BY <1>2, <1>3, <2>1, <2>3, <3>1, <3>2, InForceKept
  <2>5. CASE ~Calm
    <3>1. ~Calm'
      BY <2>3, <2>5 DEF Calm, Crossed
    <3> QED
      BY <3>1 DEF InForceInv
  <2> QED
    BY <2>4, <2>5
<1>10. CASE Die(p)
  <2>1. terms' = terms /\ extraction' = extraction /\ m = Idle
    BY <1>0, <1>2, <1>10 DEF Die, Done, Remember
  <2>2. CASE request[p].kind = "extract"
    <3>1. queued' = queued + 1 /\ queued \in Nat
      BY <1>10, <2>2, Parts DEF Die
    <3>2. ~NobodyReads'
      BY <3>1 DEF NobodyReads
    <3> QED
      BY <1>2, <1>3, <2>1, <3>2, InForceKept
  <2>3. CASE request[p].kind # "extract"
    <3>1. queued' = queued
      BY <1>10, <2>3 DEF Die
    <3>2. Calm /\ NobodyReads' => Listed(terms) = DOMAIN extraction
      BY <1>4, <2>3, <3>1 DEF InForceInv
    <3> QED
      BY <1>2, <1>3, <2>1, <3>2, InForceKept
  <2> QED
    BY <2>2, <2>3
<1> QED
  BY <1>5, <1>6, <1>7, <1>8, <1>9, <1>10 DEF Continues

\* Every step keeps what undisturbed requests know of the terms in force.
LEMMA InForceStep ==
  IInv /\ IInv' /\ CompanyInv /\ CompanyInv' /\ BuiltInv /\ InForceInv /\ [Next]_vars => InForceInv'
<1> SUFFICES ASSUME IInv, IInv', CompanyInv, CompanyInv', BuiltInv, InForceInv, [Next]_vars
             PROVE  InForceInv'
  OBVIOUS
<1>1. CASE Enqueue
  <2>1. /\ queued \in Nat /\ queued' = queued + 1 /\ terms' = terms /\ request' = request
        /\ extraction' = extraction /\ overlaps' = overlaps
    BY <1>1, Parts DEF Enqueue
  <2>2. ~NobodyReads'
    BY <2>1 DEF NobodyReads
  <2> QED
    BY <2>1, <2>2 DEF InForceInv, Calm, Crossed
<1>2. CASE UNCHANGED vars
  BY <1>2 DEF vars, InForceInv, Calm, Crossed, NobodyReads
<1>3. ASSUME NEW p \in Requests, Begins(p) PROVE InForceInv'
  BY <1>3, BeginningKeepsInForce
<1>4. ASSUME NEW p \in Requests, Continues(p) PROVE InForceInv'
  BY <1>4, ReadingKeepsInForce, OthersKeepInForce
<1> QED
  BY <1>1, <1>2, <1>3, <1>4, Steps

\* What requests remember holds, and no meeting is missed, in every reachable state.
LEMMA MeetingsAreKnown == Spec => [](IInv /\ CompanyInv /\ BuiltInv)
<1>1. Init => CompanyInv /\ BuiltInv
  BY DEF Init, CompanyInv, BuiltInv, Busy, Built, Idle
<1>2. (IInv /\ CompanyInv /\ BuiltInv) /\ [Next]_vars => (IInv /\ CompanyInv /\ BuiltInv)'
  BY NextIInv, CompanyStep, BuiltStep
<1> QED
  BY <1>1, <1>2, InitIInv, PTL DEF Spec

\* The invariant of readings holds in every reachable state.
THEOREM ReadingInvariance == Spec => []InForceInv
<1>1. Init => InForceInv
  BY DEF Init, InForceInv, ListsHold, Idle, NobodyReads
<1>2. InForceInv /\ (IInv /\ CompanyInv /\ BuiltInv) /\ (IInv /\ CompanyInv /\ BuiltInv)'
        /\ [Next]_vars => InForceInv'
  BY InForceStep
<1> QED
  BY <1>1, <1>2, MeetingsAreKnown, PTL DEF Spec

\* When nobody is at work and no reading is asked for, the terms in force are those
\* of the latest reading, whoever approved and corrected meanwhile, wherever workers
\* died; unless two readings crossed, or a reading and a billing correction.
THEOREM TermsInForce == Spec => []TermsInForceAreTheLatestReading
<1>1. IInv /\ InForceInv => TermsInForceAreTheLatestReading
  <2> SUFFICES ASSUME IInv, InForceInv, AtRest, Calm PROVE Listed(terms) = DOMAIN extraction
    BY DEF TermsInForceAreTheLatestReading, Calm
  <2>1. NobodyReads
    BY DEF AtRest, NobodyReads, Busy, Idle
  <2> QED
    BY <2>1 DEF InForceInv
<1> QED
  BY <1>1, Invariance, ReadingInvariance, PTL

-----------------------------------------------------------------------------
(* The coverage. *)

\* The crossings that may leave the coverage of other terms.
Quiet ==
  /\ ~Crossed("extract", {"extract", "patch_term", "correct_billing"})
  /\ ~Crossed("patch_term", {"patch_term", "correct_billing", "died"})

\* What a request remembers of the programs: a row it leaves alone or puts back is
\* of the program the table has, and coverage about to be written is that of the
\* terms in force.
ProgramsHold(m, table, shown) ==
  /\ m.step = "put_terms" =>
       \A i \in DOMAIN m.fresh \ DOMAIN m.write :
         table[i].record.program = m.fresh[i].record.program
  /\ m.step \in {"clear_coverage", "put_coverage"} => m.programs = CoverageOf(table)
  /\ m.step = "put_coverage" => shown = {}
  /\ m.step = "put_term" => table[m.line].record.program = m.row.record.program

NobodyCovers ==
  \A p \in Requests : request[p].step \notin {"rebuild_coverage", "clear_coverage", "put_coverage"}

CoverageInv ==
  Quiet => /\ \A p \in Requests : ProgramsHold(request[p], terms, coverage)
           /\ NobodyReads /\ NobodyCovers => coverage = CoverageOf(terms)

\* What leaves the coverage alone leaves the terms in force alone.
LEMMA QuietIsCalm == Quiet => Calm
BY DEF Quiet, Calm, Crossed

\* Tables with the same terms in force, of the same programs, show the same coverage.
LEMMA SameCoverage ==
  ASSUME NEW a, NEW b, Listed(a) = Listed(b),
         \A i \in Listed(a) : a[i].record.program = b[i].record.program
  PROVE  CoverageOf(a) = CoverageOf(b)
BY DEF CoverageOf

SamePrograms ==
  /\ Listed(terms') = Listed(terms)
  /\ \A i \in Lines : terms'[i].record.program = terms[i].record.program

\* Where no program changes, what a request remembers of them holds on.
LEMMA ProgramsTravel ==
  ASSUME RowsOK, SamePrograms, NEW m \in Memory, NEW shown, ProgramsHold(m, terms, shown)
  PROVE  /\ ProgramsHold(m, terms', shown)
         /\ CoverageOf(terms') = CoverageOf(terms)
<1>1. Listed(terms) \subseteq Lines
  BY DEF RowsOK, Listed
<1>2. CoverageOf(terms') = CoverageOf(terms)
  BY <1>1, SameCoverage DEF SamePrograms
<1>3. m.step = "put_terms" => DOMAIN m.fresh \subseteq Lines
  BY Shapes DEF Putting, Batches
<1>4. m.step = "put_term" => m.line \in Lines
  BY Shapes DEF Correcting
<1> QED
  BY <1>2, <1>3, <1>4 DEF ProgramsHold, SamePrograms

\* While a reading or a correction is at work undisturbed, nobody else is at the
\* coverage.
LEMMA OwnerOfCoverage ==
  ASSUME IInv', CompanyInv', NEW p \in Requests, request'[p].kind \in {"extract", "patch_term"},
         Quiet' => ProgramsHold(request'[p], terms', coverage'),
         Quiet' /\ NobodyReads' /\ NobodyCovers' => coverage' = CoverageOf(terms')
  PROVE  CoverageInv'
<1> SUFFICES ASSUME Quiet'
             PROVE  \A q \in Requests : ProgramsHold(request'[q], terms', coverage')
  BY DEF CoverageInv
<1>1. ASSUME NEW q \in Requests, q # p
      PROVE  ProgramsHold(request'[q], terms', coverage')
  <2>1. request'[q] \in Memory
    BY DEF IInv, TypeOK
  <2>2. CASE request'[q] = Idle
    BY <2>2 DEF ProgramsHold, Idle
  <2>3. CASE request'[q] # Idle
    <3>1. request'[p] # Idle
      BY DEF Idle
    <3>2. /\ {request'[p].kind, request'[q].kind} \in overlaps'
          /\ {request'[q].kind, request'[p].kind} \in overlaps'
      BY <1>1, <2>3, <3>1 DEF CompanyInv, Busy
    <3>3. request'[q].kind \notin {"extract", "patch_term", "correct_billing"}
      BY <3>2 DEF Quiet, Crossed
    <3> QED
      BY <2>1, <3>3, Stages DEF ProgramsHold
  <2> QED
    BY <2>2, <2>3
<1> QED
  BY <1>1

\* A request that changes no program.
LEMMA CoverageKept ==
  ASSUME IInv, CoverageInv, NEW p \in Requests, overlaps \subseteq overlaps',
         Quiet => SamePrograms, coverage' = coverage,
         \A q \in Requests : q # p => request'[q] = request[q],
         Quiet => ProgramsHold(request'[p], terms', coverage),
         Quiet /\ NobodyReads' /\ NobodyCovers' => coverage = CoverageOf(terms)
  PROVE  CoverageInv'
<1>0. RowsOK /\ request \in [Requests -> Memory]
  BY Parts DEF Requesting
<1> SUFFICES ASSUME Quiet'
             PROVE  /\ \A q \in Requests : ProgramsHold(request'[q], terms', coverage')
                    /\ NobodyReads' /\ NobodyCovers' => coverage' = CoverageOf(terms')
  BY DEF CoverageInv
<1>1. Quiet
  BY DEF Quiet, Crossed
<1>2. ProgramsHold(Idle, terms, coverage)
  BY DEF ProgramsHold, Idle
<1>3. CoverageOf(terms') = CoverageOf(terms)
  BY <1>0, <1>1, <1>2, ProgramsTravel DEF Memory
<1>4. \A q \in Requests : q # p => ProgramsHold(request'[q], terms', coverage')
  BY <1>0, <1>1, ProgramsTravel DEF CoverageInv
<1> QED
  BY <1>1, <1>3, <1>4

\* Nobody becomes the owner of the coverage by going idle: what was held is held.
LEMMA CoverageUntouched ==
  ASSUME NEW p \in Requests, request[p].step \notin {"rebuild_coverage", "clear_coverage", "put_coverage"},
         request[p].kind # "extract", queued' = queued,
         \A q \in Requests : q # p => request'[q] = request[q],
         CoverageInv, Quiet, NobodyReads', NobodyCovers'
  PROVE  coverage = CoverageOf(terms)
<1>1. NobodyReads
  BY DEF NobodyReads
<1>2. NobodyCovers
  BY DEF NobodyCovers
<1> QED
  BY <1>1, <1>2 DEF CoverageInv

\* Requests that begin.
LEMMA BeginningKeepsCoverage ==
  ASSUME IInv, IInv', CompanyInv, CompanyInv', CoverageInv, NEW p \in Requests, Begins(p)
  PROVE  CoverageInv'
<1>0. RowsOK /\ request \in [Requests -> Memory]
  BY Parts DEF Requesting
<1>1. CASE ReadDocument(p)
  <2>1. PICK reading :
          Begin(p, [step |-> "merge", kind |-> "extract", fresh |-> BuiltRows(reading)])
    BY <1>1, Beginnings
  <2>2. request'[p] = [step |-> "merge", kind |-> "extract", fresh |-> BuiltRows(reading)]
    BY <1>0, <2>1 DEF Begin, Remember
  <2>3. ProgramsHold(request'[p], terms', coverage') /\ ~NobodyReads'
    BY <2>2 DEF ProgramsHold, NobodyReads
  <2> QED
    BY <2>2, <2>3, OwnerOfCoverage
<1>2. CASE PatchTerm(p) \/ ApproveTerms(p) \/ CorrectBilling(p)
  <2>1. /\ terms' = terms /\ coverage' = coverage /\ queued' = queued
    BY <1>2 DEF PatchTerm, ApproveTerms, CorrectBilling
  <2>2. \E m : /\ Begin(p, m) /\ m # Idle /\ m.kind # "extract"
               /\ ProgramsHold(m, terms, coverage)
    <3>1. \A m \in Patching \cup Approving :
            m # Idle /\ m.kind # "extract" /\ ProgramsHold(m, terms, coverage)
      BY DEF Patching, Approving, Idle, ProgramsHold
    <3>2. CASE PatchTerm(p) \/ ApproveTerms(p)
      BY <3>1, <3>2, Beginnings
    <3>3. CASE CorrectBilling(p)
      <4>1. PICK i \in Listed(terms) :
              /\ i \in Lines /\ terms[i] \in Rows
              /\ Begin(p, [step |-> "put_term", kind |-> "correct_billing", line |-> i,
                           row |-> [terms[i] EXCEPT !.record.override = TRUE, !.corrected = TRUE]])
        BY <3>3, Beginnings
      <4> DEFINE row == [terms[i] EXCEPT !.record.override = TRUE, !.corrected = TRUE]
                 m == [step |-> "put_term", kind |-> "correct_billing", line |-> i, row |-> row]
      <4>2. row.record.program = terms[i].record.program
        BY <4>1 DEF Rows, Records
      <4>3. m # Idle /\ m.kind # "extract" /\ ProgramsHold(m, terms, coverage)
        <5> HIDE DEF row
        <5> QED
          BY <4>2 DEF Idle, ProgramsHold
      <4> QED
        BY <4>1, <4>3
    <3> QED
      BY <1>2, <3>2, <3>3
  <2>3. PICK m : /\ Begin(p, m) /\ m # Idle /\ m.kind # "extract"
                 /\ ProgramsHold(m, terms, coverage)
    BY <2>2
  <2>4. /\ request[p] = Idle /\ request'[p] = m
        /\ overlaps \subseteq overlaps'
        /\ \A q \in Requests : q # p => request'[q] = request[q]
    BY <1>0, <2>3, Beginning
  <2>5. SamePrograms
    BY <2>1 DEF SamePrograms
  <2>6. Quiet /\ NobodyReads' /\ NobodyCovers' => coverage = CoverageOf(terms)
    BY <2>1, <2>4, CoverageUntouched DEF Idle
  <2> QED
    BY <2>1, <2>3, <2>4, <2>5, <2>6, CoverageKept
<1> QED
  BY <1>1, <1>2 DEF Begins

\* The reading that puts its terms.
LEMMA ReadingKeepsCoverage ==
  ASSUME IInv, IInv', CompanyInv', BuiltInv, InForceInv, CoverageInv, NEW p \in Requests,
         ListAndMerge(p) \/ PutTerm(p) \/ TermsPut(p)
  PROVE  CoverageInv'
<1>0. RowsOK /\ request \in [Requests -> Memory]
  BY Parts DEF Requesting
<1>1. overlaps' = overlaps
  BY DEF ListAndMerge, PutTerm, PutWritten, PutSuperseded, TermsPut
<1>2. Quiet' => Quiet
  BY <1>1 DEF Quiet, Crossed
<1>3. Quiet => ProgramsHold(request[p], terms, coverage)
  BY DEF CoverageInv
<1>4. CASE ListAndMerge(p)
  <2> DEFINE fresh == request[p].fresh
  <2>1. /\ fresh \in Batches /\ request'[p].step = "put_terms" /\ request'[p].kind = "extract"
        /\ request'[p].fresh = fresh
        /\ DOMAIN request'[p].write = ToWrite(terms, fresh)
    BY <1>4, MergeEffect
  <2>2. \A i \in DOMAIN fresh \ ToWrite(terms, fresh) :
          terms[i].record.program = fresh[i].record.program
    BY DEF ToWrite, SameBody
  <2>3. terms' = terms
    BY <1>4 DEF ListAndMerge
  <2> HIDE DEF fresh
  <2>4. ProgramsHold(request'[p], terms', coverage') /\ ~NobodyReads'
    BY <2>1, <2>2, <2>3 DEF ProgramsHold, NobodyReads
  <2> QED
    BY <2>1, <2>4, OwnerOfCoverage
<1>5. CASE PutWritten(p)
  <2>1. PICK i \in Lines :
           LET m == request[p]  n == request'[p] IN
           /\ m \in Putting /\ m.step = "put_terms"
           /\ i \in DOMAIN m.write /\ m.write[i] \in Rows /\ PutRow(i, m.write[i])
           /\ Listed(terms') = Listed(terms) \cup {i}
           /\ n.step = "put_terms" /\ n.kind = "extract"
           /\ n.fresh = m.fresh /\ n.supersede = m.supersede
           /\ DOMAIN n.write = DOMAIN m.write \ {i}
           /\ \A j \in DOMAIN n.write : n.write[j] = m.write[j]
    BY <1>5, WrittenEffect
  <2>2. DOMAIN request[p].fresh \subseteq Lines
    BY <2>1 DEF Putting, Batches
  <2>3. /\ terms'[i].record.program = request[p].fresh[i].record.program
        /\ \A j \in Lines : j # i => terms'[j] = terms[j]
    BY <1>0, <2>1, PutEffect DEF BuiltInv, Built
  <2>4. Quiet' => ProgramsHold(request'[p], terms', coverage')
    BY <1>2, <1>3, <2>1, <2>2, <2>3 DEF ProgramsHold
  <2>5. ~NobodyReads'
    BY <2>1 DEF NobodyReads
  <2> QED
    BY <2>1, <2>4, <2>5, OwnerOfCoverage
<1>6. CASE PutSuperseded(p)
  <2>1. PICK i \in Lines :
           LET m == request[p]  n == request'[p] IN
           /\ m \in Putting /\ m.step = "put_terms" /\ DOMAIN m.write = {}
           /\ i \in DOMAIN m.supersede /\ m.supersede[i] \in Rows /\ PutRow(i, m.supersede[i])
           /\ Listed(terms') = Listed(terms) \ {i}
           /\ n.step = "put_terms" /\ n.kind = "extract"
           /\ n.fresh = m.fresh /\ n.write = m.write
           /\ DOMAIN n.supersede = DOMAIN m.supersede \ {i}
           /\ \A j \in DOMAIN n.supersede : n.supersede[j] = m.supersede[j]
    BY <1>6, SupersededEffect
  <2>2. DOMAIN request[p].fresh \subseteq Lines
    BY <2>1 DEF Putting, Batches
  <2>3. i \notin DOMAIN request[p].fresh /\ \A j \in Lines : j # i => terms'[j] = terms[j]
    BY <1>0, <2>1, PutEffect DEF BuiltInv, Built
  <2>4. Quiet' => ProgramsHold(request'[p], terms', coverage')
    BY <1>2, <1>3, <2>1, <2>2, <2>3 DEF ProgramsHold
  <2>5. ~NobodyReads'
    BY <2>1 DEF NobodyReads
  <2> QED
    BY <2>1, <2>4, <2>5, OwnerOfCoverage
<1>7. CASE TermsPut(p)
  <2> DEFINE fresh == request[p].fresh
  <2>1. /\ request[p] \in Putting /\ request[p].step = "put_terms"
        /\ DOMAIN request[p].write = {} /\ DOMAIN request[p].supersede = {}
    BY <1>0, <1>7, Shapes DEF TermsPut, At
  <2>2. PICK D \in SUBSET Lines : fresh \in [D -> Rows]
    BY <2>1 DEF Putting, Batches
  <2>3. Listed(fresh) = D
    <3>1. \A i \in D : ~fresh[i].superseded
      BY <2>1, <2>2 DEF BuiltInv, Built
    <3>2. \A i \in D : fresh[i] # NoValue
      BY <2>2, LinesAssumption
    <3> QED
      BY <2>2, <3>1, <3>2 DEF Listed
  <2>4. Quiet => Listed(terms) = D
    <3>1. Listed(terms) \subseteq Lines
      BY <1>0 DEF Listed, RowsOK
    <3>2. Calm => \A i \in Lines : i \in Listed(terms) <=> i \in D
      BY <2>1, <2>2 DEF InForceInv, ListsHold
    <3> QED
      BY <2>2, <3>1, <3>2, QuietIsCalm
  <2>5. Quiet => \A i \in D : terms[i].record.program = fresh[i].record.program
    BY <1>3, <2>1, <2>2 DEF ProgramsHold
  <2>6. Quiet => CoverageOf(terms) = CoverageOf(fresh)
    BY <2>3, <2>4, <2>5, SameCoverage
  <2>7. terms' = terms
    BY <1>7 DEF TermsPut
  <2>8. request'[p] = [step |-> "clear_coverage", kind |-> "extract", programs |-> CoverageOf(fresh)]
    BY <1>0, <1>7 DEF TermsPut, Remember
  <2> HIDE DEF fresh
  <2>9. Quiet' => ProgramsHold(request'[p], terms', coverage')
    BY <1>2, <2>6, <2>7, <2>8 DEF ProgramsHold
  <2>10. ~NobodyReads'
    BY <2>8 DEF NobodyReads
  <2> QED
    BY <2>8, <2>9, <2>10, OwnerOfCoverage
<1> QED
  BY <1>4, <1>5, <1>6, <1>7 DEF PutTerm

\* Those who withdraw the coverage and write it.
LEMMA CoveringKeepsCoverage ==
  ASSUME IInv, IInv', CompanyInv, CompanyInv', CoverageInv, NEW p \in Requests,
         RebuildCoverage(p) \/ ClearCoverage(p) \/ PutCoverage(p)
  PROVE  CoverageInv'
<1>0. request \in [Requests -> Memory] /\ terms' = terms /\ overlaps' = overlaps
  BY Parts DEF Requesting, RebuildCoverage, ClearCoverage, PutCoverage
<1>1. Quiet' => Quiet
  BY <1>0 DEF Quiet, Crossed
<1>2. Quiet => ProgramsHold(request[p], terms, coverage)
  BY DEF CoverageInv
<1>3. CASE RebuildCoverage(p)
  <2>1. request'[p] = [step |-> "clear_coverage", kind |-> "patch_term", programs |-> CoverageOf(terms)]
    BY <1>0, <1>3 DEF RebuildCoverage, Remember
  <2>2. ProgramsHold(request'[p], terms', coverage') /\ ~NobodyCovers'
    BY <1>0, <2>1 DEF ProgramsHold, NobodyCovers
  <2> QED
    BY <2>1, <2>2, OwnerOfCoverage
<1>4. CASE ClearCoverage(p)
  <2>1. request[p] \in Covering /\ request[p].step = "clear_coverage"
    BY <1>0, <1>4, Shapes DEF ClearCoverage, At
  <2>2. request'[p] = [request[p] EXCEPT !.step = "put_coverage"]
    BY <1>0, <1>4 DEF ClearCoverage, Remember
  <2>3. /\ request'[p].step = "put_coverage" /\ request'[p].programs = request[p].programs
        /\ request'[p].kind \in {"extract", "patch_term"}
    BY <2>1, <2>2 DEF Covering
  <2>4. coverage' = {}
    BY <1>4 DEF ClearCoverage
  <2>5. Quiet' => ProgramsHold(request'[p], terms', coverage')
    BY <1>0, <1>1, <1>2, <2>1, <2>3, <2>4 DEF ProgramsHold
  <2>6. ~NobodyCovers'
    BY <2>3 DEF NobodyCovers
  <2> QED
    BY <2>3, <2>5, <2>6, OwnerOfCoverage
<1>5. CASE PutCoverage(p)
  <2>1. request[p] \in Covering /\ request[p].step = "put_coverage"
    BY <1>0, <1>5, Shapes DEF PutCoverage, At
  <2>2. coverage' = coverage \cup request[p].programs
    BY <1>5 DEF PutCoverage
  <2>3. Quiet => coverage' = CoverageOf(terms')
    BY <1>0, <1>2, <2>1, <2>2 DEF ProgramsHold
  <2>4. request'[p] = Idle /\ \A q \in Requests : q # p => request'[q] = request[q]
    BY <1>0, <1>5 DEF PutCoverage, Done, Remember
  <2>5. ASSUME Quiet, NEW q \in Requests, q # p PROVE request[q].step # "put_coverage"
    <3>1. SUFFICES ASSUME request[q].step = "put_coverage" PROVE FALSE
      OBVIOUS
    <3>2. p \in Busy /\ q \in Busy
      BY <2>1, <3>1 DEF Busy, Idle
    <3>3. request[p].kind \in {"extract", "patch_term"} /\ request[q].kind \in {"extract", "patch_term"}
      BY <1>0, <2>1, <3>1, Stages
    <3>4. /\ {request[p].kind, request[q].kind} \in overlaps
          /\ {request[q].kind, request[p].kind} \in overlaps
      BY <2>5, <3>2 DEF CompanyInv
    <3> QED
      BY <2>5, <3>3, <3>4 DEF Quiet, Crossed
  <2>6. ASSUME Quiet, NEW q \in Requests PROVE ProgramsHold(request'[q], terms', coverage')
    <3>1. CASE q = p
      BY <2>4, <3>1 DEF ProgramsHold, Idle
    <3>2. CASE q # p
      BY <1>0, <2>4, <2>5, <2>6, <3>2 DEF CoverageInv, ProgramsHold
    <3> QED
      BY <3>1, <3>2
  <2> QED
    BY <1>1, <2>3, <2>6 DEF CoverageInv
<1> QED
  BY <1>3, <1>4, <1>5

\* Everybody else who goes on.
LEMMA OthersKeepCoverage ==
  ASSUME IInv, IInv', CompanyInv', BuiltInv, InForceInv, CoverageInv, NEW p \in Requests,
         UpdateTerm(p) \/ ApproveNext(p) \/ PutCorrection(p) \/ Die(p)
  PROVE  CoverageInv'
<1>0. RowsOK /\ request \in [Requests -> Memory]
  BY Parts DEF Requesting
<1>1. ProgramsHold(Idle, terms', coverage)
  BY DEF ProgramsHold, Idle
<1>2. CASE UpdateTerm(p)
  <2> DEFINE i == request[p].line
             row == Updated(terms[i], request[p].approve, request[p].record)
  <2>1. /\ request[p] \in Patching /\ i \in Lines /\ terms[i] \in Rows /\ row \in Rows
        /\ Listed(terms') = Listed(terms)
    BY <1>2, UpdateEffect
  <2>2. PutRow(i, row)
    BY <1>2 DEF UpdateTerm
  <2>3. coverage' = coverage /\ queued' = queued /\ overlaps' = overlaps
    BY <1>2 DEF UpdateTerm
  <2>4. CASE request[p].record = NoValue
    <3>1. row.record = terms[i].record
      BY <2>1, <2>4, UpdatesInPlace DEF Patching
    <3>2. SamePrograms
      <4> HIDE DEF i, row
      <4> QED
        BY <1>0, <2>1, <2>2, <3>1, PutEffect DEF SamePrograms
    <3>3. request'[p] = Idle /\ \A q \in Requests : q # p => request'[q] = request[q]
      BY <1>0, <1>2, <2>4 DEF UpdateTerm, Done, Remember
    <3>4. request[p].step = "update_term" /\ request[p].kind = "patch_term"
      BY <2>1 DEF Patching
    <3>5. Quiet /\ NobodyReads' /\ NobodyCovers' => coverage = CoverageOf(terms)
      BY <2>3, <3>3, <3>4, CoverageUntouched
    <3> QED
      BY <1>1, <2>3, <3>2, <3>3, <3>5, CoverageKept
  <2>5. CASE request[p].record # NoValue
    <3>1. request'[p] = [step |-> "rebuild_coverage", kind |-> "patch_term"]
      BY <1>0, <1>2, <2>5 DEF UpdateTerm, Remember
    <3>2. ProgramsHold(request'[p], terms', coverage') /\ ~NobodyCovers'
      BY <3>1 DEF ProgramsHold, NobodyCovers
    <3> QED
      BY <3>1, <3>2, OwnerOfCoverage
  <2> QED
    BY <2>4, <2>5
<1>3. CASE ApproveNext(p)
  <2>1. PICK i \in Lines :
          /\ terms[i] \in Rows /\ Approved(terms[i]) \in Rows
          /\ PutRow(i, Approved(terms[i]))
          /\ Listed(terms') = Listed(terms)
    BY <1>3, ApproveEffect
  <2>2. SamePrograms
    <3>1. Approved(terms[i]).record = terms[i].record
      BY <2>1 DEF Approved, Rows
    <3>2. /\ terms'[i].record.program = terms[i].record.program
          /\ \A j \in Lines : j # i => terms'[j] = terms[j]
      BY <1>0, <2>1, <3>1, PutEffect
    <3> QED
      BY <2>1, <3>2 DEF SamePrograms
  <2>3. coverage' = coverage /\ queued' = queued /\ overlaps' = overlaps
    BY <1>3 DEF ApproveNext
  <2>4. PICK m : Remember(p, m) /\ (m = Idle \/ m.kind = request[p].kind)
    BY <1>3, Continuing DEF Continues
  <2>5. request'[p] = m /\ \A q \in Requests : q # p => request'[q] = request[q]
    BY <1>0, <2>4 DEF Remember
  <2>6. request[p].step = "approve" /\ request[p].kind = "approve_terms"
    BY <1>0, <1>3, Stages DEF ApproveNext, At
  <2>7. ProgramsHold(m, terms', coverage)
    <3>1. m \in Memory
      BY <2>5 DEF IInv, TypeOK
    <3> QED
      BY <1>1, <2>4, <2>6, <3>1, Stages DEF ProgramsHold
  <2>8. Quiet /\ NobodyReads' /\ NobodyCovers' => coverage = CoverageOf(terms)
    BY <2>3, <2>5, <2>6, CoverageUntouched
  <2> QED
    BY <2>2, <2>3, <2>5, <2>7, <2>8, CoverageKept
<1>4. CASE PutCorrection(p)
  <2> DEFINE i == request[p].line
             row == request[p].row
  <2>1. /\ request[p].step = "put_term" /\ i \in Lines /\ row \in Rows
        /\ PutRow(i, row) /\ request'[p] = Idle
        /\ Listed(terms') = Listed(terms) \cup {i}
    BY <1>4, CorrectionEffect
  <2>2. Quiet => SamePrograms
    <3> SUFFICES ASSUME Quiet PROVE SamePrograms
      OBVIOUS
    <3>1. Listed(terms') = Listed(terms)
      BY <2>1, QuietIsCalm DEF InForceInv, ListsHold
    <3>2. terms[i].record.program = row.record.program
      BY <2>1 DEF CoverageInv, ProgramsHold
    <3> HIDE DEF i, row
    <3> QED
      BY <1>0, <2>1, <3>1, <3>2, PutEffect DEF SamePrograms
  <2>3. /\ coverage' = coverage /\ queued' = queued /\ overlaps' = overlaps
        /\ \A q \in Requests : q # p => request'[q] = request[q]
    BY <1>0, <1>4 DEF PutCorrection, Done, Remember
  <2>4. request[p].kind = "correct_billing"
    BY <1>0, <2>1, Stages
  <2>5. Quiet /\ NobodyReads' /\ NobodyCovers' => coverage = CoverageOf(terms)
    BY <2>1, <2>3, <2>4, CoverageUntouched
  <2> QED
    BY <1>1, <2>1, <2>2, <2>3, <2>5, CoverageKept
<1>5. CASE Die(p)
  <2>1. /\ terms' = terms /\ coverage' = coverage /\ request[p] # Idle /\ request'[p] = Idle
        /\ overlaps \subseteq overlaps'
        /\ \A q \in Requests : q # p => request'[q] = request[q]
    BY <1>0, <1>5 DEF Die, Done, Remember
  <2>2. SamePrograms
    BY <2>1 DEF SamePrograms
  <2>3. CASE request[p].kind = "extract"
    <3>1. queued' = queued + 1 /\ queued \in Nat
      BY <1>5, <2>3, Parts DEF Die
    <3>2. ~NobodyReads'
      BY <3>1 DEF NobodyReads
    <3> QED
      BY <1>1, <2>1, <2>2, <3>2, CoverageKept
  <2>4. CASE request[p].kind = "patch_term"
    <3>1. {"patch_term", "died"} \in overlaps'
      BY <1>5, <2>4 DEF Die
    <3>2. ~Quiet'
      BY <3>1 DEF Quiet, Crossed
    <3> QED
      BY <3>2 DEF CoverageInv
  <2>5. CASE request[p].kind \notin {"extract", "patch_term"}
    <3>1. queued' = queued
      BY <1>5, <2>5 DEF Die
    <3>2. request[p].step \notin {"rebuild_coverage", "clear_coverage", "put_coverage"}
      BY <1>0, <2>5, Stages
    <3>3. Quiet /\ NobodyReads' /\ NobodyCovers' => coverage = CoverageOf(terms)
      BY <2>1, <2>5, <3>1, <3>2, CoverageUntouched
    <3> QED
      BY <1>1, <2>1, <2>2, <3>3, CoverageKept
  <2> QED
    BY <2>3, <2>4, <2>5
<1> QED
  BY <1>2, <1>3, <1>4, <1>5

\* Every step keeps what undisturbed requests know of the programs.
LEMMA CoverageStep ==
  IInv /\ IInv' /\ CompanyInv /\ CompanyInv' /\ BuiltInv /\ InForceInv /\ CoverageInv /\ [Next]_vars
    => CoverageInv'
<1> SUFFICES ASSUME IInv, IInv', CompanyInv, CompanyInv', BuiltInv, InForceInv, CoverageInv,
                    [Next]_vars
             PROVE  CoverageInv'
  OBVIOUS
<1>1. CASE Enqueue
  <2>1. /\ queued \in Nat /\ queued' = queued + 1 /\ terms' = terms /\ request' = request
        /\ coverage' = coverage /\ overlaps' = overlaps
    BY <1>1, Parts DEF Enqueue
  <2>2. ~NobodyReads'
    BY <2>1 DEF NobodyReads
  <2> QED
    BY <2>1, <2>2 DEF CoverageInv, Quiet, Crossed
<1>2. CASE UNCHANGED vars
  BY <1>2 DEF vars, CoverageInv, Quiet, Crossed, NobodyReads, NobodyCovers
<1>3. ASSUME NEW p \in Requests, Begins(p) PROVE CoverageInv'
  BY <1>3, BeginningKeepsCoverage
<1>4. ASSUME NEW p \in Requests, Continues(p) PROVE CoverageInv'
  BY <1>4, ReadingKeepsCoverage, CoveringKeepsCoverage, OthersKeepCoverage DEF Continues
<1> QED
  BY <1>1, <1>2, <1>3, <1>4, Steps

\* The invariant of the coverage holds in every reachable state.
THEOREM CoverageInvariance == Spec => []CoverageInv
<1>1. Init => CoverageInv
  <2> SUFFICES ASSUME Init PROVE CoverageInv
    OBVIOUS
  <2>1. CoverageOf(terms) = {}
    BY DEF Init, CoverageOf, Listed
  <2> QED
    BY <2>1 DEF Init, CoverageInv, ProgramsHold, Idle
<1>2. CoverageInv /\ InForceInv /\ (IInv /\ CompanyInv /\ BuiltInv)
        /\ (IInv /\ CompanyInv /\ BuiltInv)' /\ [Next]_vars => CoverageInv'
  BY CoverageStep
<1> QED
  BY <1>1, <1>2, MeetingsAreKnown, ReadingInvariance, PTL DEF Spec

\* When nobody is at work and no reading is asked for, the coverage is that of the
\* terms in force, although the worker takes it from the reading; unless two of those
\* who write it crossed, or a correction died.
THEOREM CoverageFollows == Spec => []CoverageFollowsTerms
<1>1. CoverageInv => CoverageFollowsTerms
  <2> SUFFICES ASSUME CoverageInv, AtRest, Quiet PROVE coverage = CoverageOf(terms)
    BY DEF CoverageFollowsTerms, Quiet
  <2>1. NobodyReads /\ NobodyCovers
    BY DEF AtRest, NobodyReads, NobodyCovers, Busy, Idle
  <2> QED
    BY <2>1 DEF CoverageInv
<1> QED
  BY <1>1, CoverageInvariance, PTL

-----------------------------------------------------------------------------
(* Approvals. *)

\* A row to be put over another keeps its approval only with its record, and
\* tells when it lost one.
Carries(row, prior) ==
  /\ row.approved => prior # NoValue /\ prior.approved /\ prior.record = Stored(row.record)
  /\ prior # NoValue /\ prior.approved /\ ~row.approved => row.changed_since_approval

ReadsAlone == ~Crossed("extract", {"extract"} \cup DeskKinds)
AuditsAlone == ~Crossed("correct_billing", DeskKinds)

ApprovalInv ==
  \A p \in Requests :
    LET m == request[p] IN
    /\ ReadsAlone /\ m.step = "put_terms" =>
         /\ \A i \in DOMAIN m.write : Carries(m.write[i], terms[i])
         /\ \A i \in DOMAIN m.supersede : Carries(m.supersede[i], terms[i])
    /\ ReadsAlone /\ AuditsAlone /\ m.step = "put_term" => m.row.approved = terms[m.line].approved

\* A reading nobody has crossed is at work alone, and so is a billing correction.
LEMMA AtWorkAlone ==
  ASSUME IInv, IInv', CompanyInv, CompanyInv', NEW p \in Requests, NEW q \in Requests, p # q,
         Begins(q) \/ Continues(q), ReadsAlone'
  PROVE  /\ request'[p].step # "put_terms"
         /\ AuditsAlone' => request'[p].step # "put_term"
<1>0. request \in [Requests -> Memory] /\ request' \in [Requests -> Memory]
  BY DEF IInv, TypeOK
<1>1. SUFFICES ASSUME request'[p].step \in {"put_terms", "put_term"}
      PROVE  ReadsAlone' /\ (AuditsAlone' \/ request'[p].step = "put_terms") => FALSE
  OBVIOUS
<1>2. /\ request'[p] # Idle
      /\ request'[p].kind = IF request'[p].step = "put_terms" THEN "extract" ELSE "correct_billing"
  BY <1>0, <1>1, Stages DEF Idle
<1>3. \E kind \in Kinds : {request'[p].kind, kind} \in overlaps'
  <2>1. CASE Begins(q)
    <3>1. \E m : m # Idle /\ Begin(q, m)
      <4>1. \A m \in Patching \cup Approving : m # Idle
        BY DEF Patching, Approving, Idle
      <4>2. \A fresh : [step |-> "merge", kind |-> "extract", fresh |-> fresh] # Idle
        BY DEF Idle
      <4>3. \A i, row : [step |-> "put_term", kind |-> "correct_billing", line |-> i, row |-> row] # Idle
        BY DEF Idle
      <4> QED
        BY <2>1, <4>1, <4>2, <4>3, Beginnings DEF Begins
    <3>2. request'[q] # Idle
      BY <1>0, <3>1 DEF Begin, Remember
    <3>3. {request'[p].kind, request'[q].kind} \in overlaps'
      BY <1>2, <3>2 DEF CompanyInv, Busy
    <3> QED
      BY <1>0, <3>2, <3>3, Stages
  <2>2. CASE Continues(q)
    <3>1. /\ request[q] # Idle /\ overlaps \subseteq overlaps'
          /\ \E m : Remember(q, m)
      BY <2>2, Continuing
    <3>2. request'[p] = request[p]
      BY <1>0, <3>1 DEF Remember
    <3>3. {request'[p].kind, request[q].kind} \in overlaps'
      BY <1>2, <3>1, <3>2 DEF CompanyInv, Busy
    <3> QED
      BY <1>0, <3>1, <3>3, Stages
  <2> QED
    BY <2>1, <2>2
<1>4. PICK kind \in Kinds : {request'[p].kind, kind} \in overlaps'
  BY <1>3
<1>5. CASE request'[p].step = "put_terms"
  <2>1. Crossed("extract", {"extract"} \cup DeskKinds)'
    BY <1>2, <1>4, <1>5 DEF Crossed, Kinds
  <2> QED
    BY <2>1 DEF ReadsAlone
<1>6. CASE request'[p].step = "put_term"
  <2>1. request'[p].kind = "correct_billing" /\ "correct_billing" \in DeskKinds
    BY <1>2, <1>6 DEF DeskKinds
  <2>2. CASE kind = "extract"
    <3>1. {"extract", "correct_billing"} = {request'[p].kind, kind}
      BY <2>1, <2>2
    <3>2. Crossed("extract", {"extract"} \cup DeskKinds)'
      BY <1>4, <2>1, <3>1 DEF Crossed
    <3> QED
      BY <3>2 DEF ReadsAlone
  <2>3. CASE kind \in DeskKinds
    <3>1. Crossed("correct_billing", DeskKinds)'
      BY <1>4, <2>1, <2>3 DEF Crossed
    <3> QED
      BY <1>1, <1>6, <3>1 DEF AuditsAlone
  <2> QED
    BY <2>2, <2>3 DEF Kinds
<1> QED
  BY <1>1, <1>5, <1>6

\* What merge_rows keeps of an approval.
LEMMA MergingCarries ==
  ASSUME NEW prior \in Rows \cup {NoValue}, prior # NoValue => ~prior.record.float,
         NEW row \in Rows, Unreviewed(row)
  PROVE  Carries(Merged(prior, row), prior)
<1>1. CASE prior = NoValue
  BY <1>1 DEF Merged, Carries, Unreviewed
<1>2. CASE prior # NoValue /\ SameBody(prior, row)
  <2>1. prior \in Rows /\ prior.record \in Records /\ ~prior.record.float
    BY <1>2 DEF Rows
  <2>2. Stored(prior.record) = prior.record
    BY <2>1 DEF Stored, Records
  <2>3. LET merged == [prior EXCEPT !.superseded = FALSE]
        IN merged.record = prior.record /\ merged.approved = prior.approved
    BY <2>1 DEF Rows
  <2>4. Merged(prior, row) = [prior EXCEPT !.superseded = FALSE]
    BY <1>2 DEF Merged
  <2> QED
    BY <1>2, <2>2, <2>3, <2>4 DEF Carries
<1>3. CASE prior # NoValue /\ ~SameBody(prior, row)
  <2>1. Merged(prior, row) = MovedRow(prior, row)
    BY <1>3 DEF Merged
  <2>2. /\ ~MovedRow(prior, row).approved
        /\ MovedRow(prior, row).changed_since_approval = prior.approved
    BY DEF MovedRow, Rows
  <2> QED
    BY <2>1, <2>2 DEF Carries
<1> QED
  BY <1>1, <1>2, <1>3

\* A row is superseded as it is.
LEMMA SupersedingCarries ==
  ASSUME NEW prior \in Rows, prior # NoValue, ~prior.record.float
  PROVE  Carries([prior EXCEPT !.superseded = TRUE], prior)
<1>1. prior.record \in Records
  BY DEF Rows
<1>2. Stored(prior.record) = prior.record
  BY <1>1 DEF Stored, Records
<1>3. LET gone == [prior EXCEPT !.superseded = TRUE]
      IN gone.record = prior.record /\ gone.approved = prior.approved
  BY DEF Rows
<1> QED
  BY <1>2, <1>3 DEF Carries

\* A request at neither of the two steps remembers no row.
LEMMA ApprovalKept ==
  ASSUME IInv, IInv', CompanyInv, CompanyInv', NEW p \in Requests, Begins(p) \/ Continues(p),
         ReadsAlone' /\ request'[p].step = "put_terms" =>
           /\ \A i \in DOMAIN request'[p].write : Carries(request'[p].write[i], terms'[i])
           /\ \A i \in DOMAIN request'[p].supersede : Carries(request'[p].supersede[i], terms'[i]),
         ReadsAlone' /\ AuditsAlone' /\ request'[p].step = "put_term" =>
           request'[p].row.approved = terms'[request'[p].line].approved
  PROVE  ApprovalInv'
<1> SUFFICES ASSUME NEW q \in Requests
             PROVE  LET m == request'[q] IN
                    /\ ReadsAlone' /\ m.step = "put_terms" =>
                         /\ \A i \in DOMAIN m.write : Carries(m.write[i], terms'[i])
                         /\ \A i \in DOMAIN m.supersede : Carries(m.supersede[i], terms'[i])
                    /\ ReadsAlone' /\ AuditsAlone' /\ m.step = "put_term" =>
                         m.row.approved = terms'[m.line].approved
  BY DEF ApprovalInv
<1>1. CASE q = p
  BY <1>1
<1>2. CASE q # p
  BY <1>2, AtWorkAlone
<1> QED
  BY <1>1, <1>2

\* Every step keeps what undisturbed requests know of approvals.
LEMMA ApprovalStep ==
  IInv /\ IInv' /\ CompanyInv /\ CompanyInv' /\ BuiltInv /\ ApprovalInv /\ [Next]_vars => ApprovalInv'
<1> SUFFICES ASSUME IInv, IInv', CompanyInv, CompanyInv', BuiltInv, ApprovalInv, [Next]_vars
             PROVE  ApprovalInv'
  OBVIOUS
<1>0. RowsOK /\ Requesting /\ request \in [Requests -> Memory] /\ request' \in [Requests -> Memory]
  BY Parts DEF IInv, TypeOK
<1>1. CASE Enqueue \/ UNCHANGED vars
  BY <1>1 DEF Enqueue, vars, ApprovalInv, ReadsAlone, AuditsAlone, Crossed
<1>2. ASSUME NEW p \in Requests, Begins(p) \/ Continues(p),
             request'[p].step \notin {"put_terms", "put_term"}
      PROVE  ApprovalInv'
  BY <1>2, ApprovalKept
<1>3. ASSUME NEW p \in Requests, Begins(p) PROVE ApprovalInv'
  <2>1. CASE ReadDocument(p) \/ PatchTerm(p) \/ ApproveTerms(p)
    <3>1. PICK m : Begin(p, m) /\ m.step \notin {"put_terms", "put_term"}
      <4>1. \A m \in Patching \cup Approving : m.step \notin {"put_terms", "put_term"}
        BY DEF Patching, Approving
      <4>2. CASE ReadDocument(p)
        <5>1. PICK reading :
                Begin(p, [step |-> "merge", kind |-> "extract", fresh |-> BuiltRows(reading)])
          BY <4>2, Beginnings
        <5> QED
          BY <5>1
      <4>3. CASE PatchTerm(p) \/ ApproveTerms(p)
        BY <4>1, <4>3, Beginnings
      <4> QED
        BY <2>1, <4>2, <4>3
    <3>2. request'[p] = m
      BY <1>0, <3>1 DEF Begin, Remember
    <3> QED
      BY <1>2, <1>3, <3>1, <3>2
  <2>2. CASE CorrectBilling(p)
    <3>1. PICK i \in Listed(terms) :
            /\ i \in Lines /\ terms[i] \in Rows
            /\ Begin(p, [step |-> "put_term", kind |-> "correct_billing", line |-> i,
                         row |-> [terms[i] EXCEPT !.record.override = TRUE, !.corrected = TRUE]])
      BY <2>2, Beginnings
    <3> DEFINE row == [terms[i] EXCEPT !.record.override = TRUE, !.corrected = TRUE]
    <3>2. row.approved = terms[i].approved
      BY <3>1 DEF Rows
    <3>3. request'[p] = [step |-> "put_term", kind |-> "correct_billing", line |-> i, row |-> row]
      BY <1>0, <3>1 DEF Begin, Remember
    <3>4. terms' = terms
      BY <2>2 DEF CorrectBilling
    <3> HIDE DEF row
    <3>5. request'[p].row.approved = terms'[request'[p].line].approved /\ request'[p].step = "put_term"
      BY <3>2, <3>3, <3>4
    <3> QED
      BY <1>3, <3>5, ApprovalKept
  <2> QED
    BY <1>3, <2>1, <2>2 DEF Begins
<1>4. ASSUME NEW p \in Requests, Continues(p) PROVE ApprovalInv'
  <2>1. CASE ListAndMerge(p)
    <3> DEFINE fresh == request[p].fresh
    <3>1. /\ request[p] \in Merging /\ request[p].step = "merge" /\ fresh \in Batches
          /\ request'[p].step = "put_terms"
          /\ request'[p].write = [i \in ToWrite(terms, fresh) |-> Merged(terms[i], fresh[i])]
          /\ request'[p].supersede =
               [i \in ToSupersede(terms, fresh) |-> [terms[i] EXCEPT !.superseded = TRUE]]
      BY <2>1, MergeEffect
    <3>2. PICK D \in SUBSET Lines : fresh \in [D -> Rows]
      BY <3>1 DEF Batches
    <3>3. \A i \in D : Unreviewed(fresh[i])
      BY <1>0, <3>1, <3>2 DEF Requesting, Sound
    <3>4. ToWrite(terms, fresh) \subseteq D
      BY <3>2 DEF ToWrite
    <3>5. \A i \in D : Carries(Merged(terms[i], fresh[i]), terms[i])
      BY <1>0, <3>2, <3>3, MergingCarries DEF RowsOK
    <3>6. \A i \in ToSupersede(terms, fresh) :
            Carries([terms[i] EXCEPT !.superseded = TRUE], terms[i])
      BY <1>0, SupersedingCarries DEF ToSupersede, RowsOK
    <3>7. terms' = terms
      BY <2>1 DEF ListAndMerge
    <3> HIDE DEF fresh
    <3>8. /\ \A i \in DOMAIN request'[p].write : Carries(request'[p].write[i], terms'[i])
          /\ \A i \in DOMAIN request'[p].supersede : Carries(request'[p].supersede[i], terms'[i])
      BY <3>1, <3>4, <3>5, <3>6, <3>7
    <3> QED
      BY <1>4, <3>1, <3>8, ApprovalKept
  <2>2. CASE PutWritten(p)
    <3>1. PICK i \in Lines :
           LET m == request[p]  n == request'[p] IN
           /\ m \in Putting /\ m.step = "put_terms"
           /\ i \in DOMAIN m.write /\ m.write[i] \in Rows /\ PutRow(i, m.write[i])
           /\ Listed(terms') = Listed(terms) \cup {i}
           /\ n.step = "put_terms" /\ n.kind = "extract"
           /\ n.fresh = m.fresh /\ n.supersede = m.supersede
           /\ DOMAIN n.write = DOMAIN m.write \ {i}
           /\ \A j \in DOMAIN n.write : n.write[j] = m.write[j]
      BY <2>2, WrittenEffect
    <3>2. \A j \in Lines : j # i => terms'[j] = terms[j]
      BY <1>0, <3>1, PutEffect
    <3>3. /\ i \notin DOMAIN request[p].supersede
          /\ DOMAIN request[p].write \subseteq Lines /\ DOMAIN request[p].supersede \subseteq Lines
      BY <3>1 DEF BuiltInv, Built, Putting, Batches
    <3>4. ReadsAlone' => ReadsAlone
      BY <2>2 DEF PutWritten, ReadsAlone, Crossed
    <3>5. ReadsAlone' =>
            /\ \A j \in DOMAIN request'[p].write : Carries(request'[p].write[j], terms'[j])
            /\ \A j \in DOMAIN request'[p].supersede : Carries(request'[p].supersede[j], terms'[j])
      BY <3>1, <3>2, <3>3, <3>4 DEF ApprovalInv
    <3> QED
      BY <1>4, <3>1, <3>5, ApprovalKept
  <2>3. CASE PutSuperseded(p)
    <3>1. PICK i \in Lines :
           LET m == request[p]  n == request'[p] IN
           /\ m \in Putting /\ m.step = "put_terms" /\ DOMAIN m.write = {}
           /\ i \in DOMAIN m.supersede /\ m.supersede[i] \in Rows /\ PutRow(i, m.supersede[i])
           /\ Listed(terms') = Listed(terms) \ {i}
           /\ n.step = "put_terms" /\ n.kind = "extract"
           /\ n.fresh = m.fresh /\ n.write = m.write
           /\ DOMAIN n.supersede = DOMAIN m.supersede \ {i}
           /\ \A j \in DOMAIN n.supersede : n.supersede[j] = m.supersede[j]
      BY <2>3, SupersededEffect
    <3>2. \A j \in Lines : j # i => terms'[j] = terms[j]
      BY <1>0, <3>1, PutEffect
    <3>3. DOMAIN request[p].supersede \subseteq Lines
      BY <3>1 DEF Putting, Batches
    <3>4. ReadsAlone' => ReadsAlone
      BY <2>3 DEF PutSuperseded, ReadsAlone, Crossed
    <3>5. ReadsAlone' =>
            /\ \A j \in DOMAIN request'[p].write : Carries(request'[p].write[j], terms'[j])
            /\ \A j \in DOMAIN request'[p].supersede : Carries(request'[p].supersede[j], terms'[j])
      BY <3>1, <3>2, <3>3, <3>4 DEF ApprovalInv
    <3> QED
      BY <1>4, <3>1, <3>5, ApprovalKept
  <2>4. CASE ~(ListAndMerge(p) \/ PutTerm(p))
    <3>1. request'[p].step \notin {"put_terms", "put_term"}
      <4>1. CASE TermsPut(p) \/ RebuildCoverage(p)
        BY <1>0, <4>1 DEF TermsPut, RebuildCoverage, Remember
      <4>2. CASE ClearCoverage(p)
        <5>1. request[p] \in Covering
          BY <1>0, <4>2, Shapes DEF ClearCoverage, At
        <5> QED
          BY <1>0, <4>2, <5>1 DEF ClearCoverage, Remember, Covering
      <4>3. CASE PutCoverage(p) \/ PutCorrection(p) \/ Die(p) \/ UpdateTerm(p)
        BY <1>0, <4>3 DEF PutCoverage, PutCorrection, Die, UpdateTerm, Done, Remember, Idle
      <4>4. CASE ApproveNext(p)
        <5>1. request[p].kind = "approve_terms"
          BY <1>0, <4>4, Stages DEF ApproveNext, At
        <5>2. request'[p] = Idle \/ request'[p].kind = "approve_terms"
          BY <1>0, <1>4, <5>1, Continuing DEF Remember
        <5> QED
          BY <1>0, <5>2, Stages DEF Idle
      <4> QED
        BY <1>4, <2>4, <4>1, <4>2, <4>3, <4>4 DEF Continues
    <3> QED
      BY <1>2, <1>4, <3>1
  <2> QED
    BY <2>1, <2>2, <2>3, <2>4 DEF PutTerm
<1> QED
  BY <1>1, <1>3, <1>4, Steps

\* The invariant of approvals holds in every reachable state.
THEOREM ApprovalInvariance == Spec => []ApprovalInv
<1>1. Init => ApprovalInv
  BY DEF Init, ApprovalInv, Idle
<1>2. ApprovalInv /\ (IInv /\ CompanyInv /\ BuiltInv) /\ (IInv /\ CompanyInv /\ BuiltInv)'
        /\ [Next]_vars => ApprovalInv'
  BY ApprovalStep
<1> QED
  BY <1>1, <1>2, MeetingsAreKnown, PTL DEF Spec

\* No reading that nobody crosses, finished or not, leaves approved a term that says
\* something else than it did when it was approved.
THEOREM ReadingsApproveNothing == Spec => ReadingApprovesNothing
<1> DEFINE Nothing ==
      \A i \in Lines :
       /\ \E p \in Requests : PutTerm(p)
       /\ ~Crossed("extract", {"extract"} \cup DeskKinds)
       /\ terms'[i] # NoValue /\ terms'[i].approved
       => /\ terms[i] # NoValue /\ terms[i].approved
          /\ terms'[i].record = terms[i].record
<1>1. (IInv /\ CompanyInv /\ BuiltInv) /\ ApprovalInv /\ [Next]_vars => [Nothing]_vars
  <2> SUFFICES ASSUME IInv, BuiltInv, ApprovalInv, NEW p \in Requests, PutTerm(p), ReadsAlone,
                      NEW j \in Lines, terms'[j] # NoValue, terms'[j].approved
               PROVE  /\ terms[j] # NoValue /\ terms[j].approved
                      /\ terms'[j].record = terms[j].record
    BY DEF ReadsAlone
  <2>1. PICK i \in Lines, row \in Rows :
          PutRow(i, row) /\ Carries(row, terms[i])
    <3>1. CASE PutWritten(p)
      BY <3>1, WrittenEffect DEF ApprovalInv
    <3>2. CASE PutSuperseded(p)
      BY <3>2, SupersededEffect DEF ApprovalInv
    <3> QED
      BY <3>1, <3>2 DEF PutTerm
  <2>2. /\ terms'[i].record = Stored(row.record) /\ terms'[i].approved = row.approved
        /\ \A k \in Lines : k # i => terms'[k] = terms[k]
    BY <2>1, PutEffect, Parts
  <2> QED
    BY <2>1, <2>2 DEF Carries
<1> QED
  BY <1>1, MeetingsAreKnown, ApprovalInvariance, PTL DEF Spec, ReadingApprovesNothing

\* An approval lost to a reading or a correction that nobody crosses is shown: the row
\* says that it changed since.
THEOREM LostApprovalsShow == Spec => LostApprovalsAreShown
<1> DEFINE Shown ==
      \A i \in Lines :
       /\ ~Crossed("extract", {"extract"} \cup DeskKinds)
       /\ ~Crossed("correct_billing", DeskKinds)
       /\ terms[i] # NoValue /\ terms[i].approved /\ ~terms'[i].approved
       => terms'[i].changed_since_approval
<1>1. (IInv /\ CompanyInv /\ BuiltInv) /\ ApprovalInv /\ [Next]_vars => [Shown]_vars
  <2> SUFFICES ASSUME IInv, BuiltInv, ApprovalInv, [Next]_vars, ReadsAlone, AuditsAlone,
                      NEW j \in Lines, terms[j] # NoValue, terms[j].approved, ~terms'[j].approved
               PROVE  terms'[j].changed_since_approval
    BY DEF ReadsAlone, AuditsAlone
  <2>0. RowsOK
    BY Parts
  <2>1. ASSUME NEW i \in Lines, NEW row \in Rows, PutRow(i, row),
               \/ Carries(row, terms[i])
               \/ terms[i] # NoValue /\ terms[i].approved => row.approved
        PROVE  terms'[j].changed_since_approval
    <3>1. /\ terms'[i].approved = row.approved
          /\ terms'[i].changed_since_approval = row.changed_since_approval
          /\ \A k \in Lines : k # i => terms'[k] = terms[k]
      BY <2>0, <2>1, PutEffect
    <3> QED
      BY <2>1, <3>1 DEF Carries
  <2>2. terms' # terms
    OBVIOUS
  <2>3. ASSUME NEW p \in Requests, PutTerm(p) PROVE terms'[j].changed_since_approval
    <3>1. PICK i \in Lines, row \in Rows : PutRow(i, row) /\ Carries(row, terms[i])
      <4>1. CASE PutWritten(p)
        BY <4>1, WrittenEffect DEF ApprovalInv
      <4>2. CASE PutSuperseded(p)
        BY <4>2, SupersededEffect DEF ApprovalInv
      <4> QED
        BY <2>3, <4>1, <4>2 DEF PutTerm
    <3> QED
      BY <2>1, <3>1
  <2>4. ASSUME NEW p \in Requests, UpdateTerm(p) PROVE terms'[j].changed_since_approval
    <3> DEFINE i == request[p].line
               row == Updated(terms[i], request[p].approve, request[p].record)
    <3>1. request[p] \in Patching /\ i \in Lines /\ terms[i] \in Rows /\ row \in Rows
      BY <2>4, UpdateEffect
    <3>2. terms[i].approved => row.approved
      BY <3>1, UpdatesInPlace DEF Patching
    <3>3. PutRow(i, row)
      BY <2>4 DEF UpdateTerm
    <3> HIDE DEF i, row
    <3> QED
      BY <2>1, <3>1, <3>2, <3>3
  <2>5. ASSUME NEW p \in Requests, ApproveNext(p) PROVE terms'[j].changed_since_approval
    <3>1. PICK i \in Lines :
            terms[i] \in Rows /\ Approved(terms[i]) \in Rows /\ PutRow(i, Approved(terms[i]))
      BY <2>5, ApproveEffect
    <3>2. Approved(terms[i]).approved
      BY <3>1 DEF Approved, Rows
    <3> QED
      BY <2>1, <3>1, <3>2
  <2>6. ASSUME NEW p \in Requests, PutCorrection(p) PROVE terms'[j].changed_since_approval
    <3>1. /\ request[p].step = "put_term" /\ request[p].line \in Lines /\ request[p].row \in Rows
          /\ PutRow(request[p].line, request[p].row)
      BY <2>6, CorrectionEffect
    <3>2. request[p].row.approved = terms[request[p].line].approved
      BY <3>1 DEF ApprovalInv
    <3> QED
      BY <2>1, <3>1, <3>2
  <2>7. \/ \E p \in Requests : PutTerm(p) \/ UpdateTerm(p) \/ ApproveNext(p) \/ PutCorrection(p)
        \/ terms' = terms
    <3>1. ASSUME NEW p \in Requests, Begins(p) PROVE terms' = terms
      BY <3>1 DEF Begins, ReadDocument, PatchTerm, ApproveTerms, CorrectBilling
    <3>2. ASSUME NEW p \in Requests, Continues(p),
                 ~(PutTerm(p) \/ UpdateTerm(p) \/ ApproveNext(p) \/ PutCorrection(p))
          PROVE  terms' = terms
      BY <3>2 DEF Continues, ListAndMerge, TermsPut, ClearCoverage, PutCoverage, RebuildCoverage, Die
    <3>3. Enqueue \/ UNCHANGED vars => terms' = terms
      BY DEF Enqueue, vars
    <3> QED
      BY <3>1, <3>2, <3>3, Steps
  <2> QED
    BY <2>2, <2>3, <2>4, <2>5, <2>6, <2>7
<1> QED
  BY <1>1, MeetingsAreKnown, ApprovalInvariance, PTL DEF Spec, LostApprovalsAreShown

=============================================================================
