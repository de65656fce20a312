---------------------------- MODULE AnswerRepair ----------------------------
(***************************************************************************)
(* Getting the records out of an answer that should have been an array and *)
(* came back as text, cut off or with its quotation marks unescaped        *)
(* (extraction/schema.py, coerce_record_list and what it calls).  A text   *)
(* is a sequence of symbols: the quotation mark, the backslash, braces,    *)
(* one sign that may follow a string and one letter.                       *)
(***************************************************************************)
EXTENDS Integers, Sequences, FiniteSets, SequencesExt

CONSTANTS
  Strings,     \* what a string of a record may say, before it is written out
  MaxRecords   \* bound: records in one answer

Quote  == "q"
Escape == "b"
Open   == "o"
Close  == "c"
After  == "a"
Letter == "x"
Symbols == {Quote, Escape, Open, Close, After, Letter}

ASSUME StringsAssumption == Strings \subseteq Seq(Symbols)

VARIABLE answer   \* the records, how they were written and where the text ends

-----------------------------------------------------------------------------
(* _repair_inner_quotes                                                    *)

\* Whether a quotation mark at i can end a string: the next symbol may follow
\* one, or there is none.
CanClose(text, i) == i = Len(text) \/ text[i + 1] \in {After, Close}

\* One symbol at a time: [in, escaped, out].
RepairStep(text, i, s) ==
  LET ch == text[i]
  IN  IF ~s.in THEN [s EXCEPT !.in = (ch = Quote), !.out = Append(@, ch)]
      ELSE IF s.escaped THEN [s EXCEPT !.escaped = FALSE, !.out = Append(@, ch)]
      ELSE IF ch = Quote /\ ~CanClose(text, i) THEN [s EXCEPT !.out = @ \o <<Escape, Quote>>]
      ELSE [s EXCEPT !.in = (ch # Quote), !.escaped = (ch = Escape), !.out = Append(@, ch)]

RepairInnerQuotes(text) ==
  LET scan[i \in 0..Len(text)] ==
        IF i = 0 THEN [in |-> FALSE, escaped |-> FALSE, out |-> <<>>]
        ELSE RepairStep(text, i, scan[i - 1])
  IN  scan[Len(text)].out

-----------------------------------------------------------------------------
(* _salvage_json_objects                                                   *)

\* Whether a string goes on after ch; above it, a scan that takes an escaped
\* quotation mark for the end.
GoesOnUnescaped(ch, escaped) == ch # Quote
GoesOn(ch, escaped) == escaped \/ ch # Quote

\* [in, escaped, depth, start, out]: out holds the first and last position of
\* each balanced object.
SalvageStep(text, i, s) ==
  LET ch == text[i]
  IN  IF s.in
      THEN [s EXCEPT !.in = GoesOn(ch, s.escaped), !.escaped = ~s.escaped /\ ch = Escape]
      ELSE IF ch = Quote THEN [s EXCEPT !.in = TRUE]
      ELSE IF ch = Open
      THEN [s EXCEPT !.depth = @ + 1, !.start = IF s.depth = 0 THEN i ELSE @]
      ELSE IF ch # Close THEN s
      ELSE IF s.depth = 1 /\ s.start > 0
      THEN [s EXCEPT !.depth = 0, !.start = 0, !.out = Append(@, <<s.start, i>>)]
      ELSE [s EXCEPT !.depth = @ - 1]

Salvage(text) ==
  LET scan[i \in 0..Len(text)] ==
        IF i = 0 THEN [in |-> FALSE, escaped |-> FALSE, depth |-> 0, start |-> 0, out |-> <<>>]
        ELSE SalvageStep(text, i, scan[i - 1])
      spans == scan[Len(text)].out
  IN  [n \in DOMAIN spans |-> SubSeq(text, spans[n][1], spans[n][2])]

\* coerce_record_list, of a text that decodes in no other way.
CoerceRecordList(text) == Salvage(RepairInnerQuotes(text))

-----------------------------------------------------------------------------
(* The answers.                                                            *)

\* A string written out, escaped as it should be or as it is said.
Written(string, escaping) ==
  FlattenSeq([i \in DOMAIN string |->
    IF escaping /\ string[i] \in {Quote, Escape} THEN <<Escape, string[i]>> ELSE <<string[i]>>])

\* A record holds one string, alone or in an object of its own.
Object(r, escaping) ==
  LET string == <<Quote>> \o Written(r.says, escaping) \o <<Quote>>
  IN  IF r.nested THEN <<Open, Open>> \o string \o <<Close, Close>>
      ELSE <<Open>> \o string \o <<Close>>

Text(records, escaping) ==
  FlattenSeq([n \in DOMAIN records |->
    (IF n > 1 THEN <<After>> ELSE <<>>) \o Object(records[n], escaping)])

Records == [says : Strings, nested : BOOLEAN]

\* The model says something, and the text stops where it stops.
Answer(records, end) ==
  /\ answer = {}
  /\ answer' = {[records |-> records, end |-> end]}

AnswerInit == answer = {}
AnswerNext ==
  \E n \in 1..MaxRecords : \E records \in [1..n -> Records] :
    \E end \in 0..Len(Text(records, TRUE)) : Answer(records, end)
AnswerSpec == AnswerInit /\ [][AnswerNext]_answer

-----------------------------------------------------------------------------
(* What must hold.                                                         *)

\* The records that were complete where the text stops.
Complete(a) ==
  {n \in DOMAIN a.records : Len(Text(SubSeq(a.records, 1, n), TRUE)) <= a.end}

\* Strings that say nothing a closing quotation mark could be taken for.
IsPlain(string) ==
  /\ Escape \notin {string[i] : i \in DOMAIN string}
  /\ \A i \in DOMAIN string : string[i] = Quote =>
       i < Len(string) /\ string[i + 1] \notin {After, Close}

\* From an answer cut off anywhere exactly the records that were complete come
\* back, whatever braces and escaped quotation marks their strings hold; a
\* text that was written well is not changed by the repair, and one whose
\* strings quote without escaping becomes the one that was meant
\* (coerce_record_list).
WholeRecordsComeBack ==
  \A a \in answer :
    LET text == Text(a.records, TRUE)
    IN  /\ CoerceRecordList(SubSeq(text, 1, a.end)) = [n \in Complete(a) |-> Object(a.records[n], TRUE)]
        /\ RepairInnerQuotes(text) = text
        /\ (\A n \in DOMAIN a.records : IsPlain(a.records[n].says)) =>
             RepairInnerQuotes(Text(a.records, FALSE)) = text
=============================================================================
