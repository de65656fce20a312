------------------------ MODULE DocumentReadingProofs ------------------------
(***************************************************************************)
(* Why a reading of a contract is the whole contract, whatever its pages,  *)
(* its terms, what is asked of it, what one answer may hold and how often  *)
(* a call goes wrong.                                                      *)
(*                                                                         *)
(* The windows first. The packing is followed page by page: cut greedily,  *)
(* every page is in a block and neighbouring pages are in one block or at  *)
(* the seam of two. The fold of a thin tail keeps that, and the page that  *)
(* is read again closes the seams, so every page and every two neighbours  *)
(* are in one window. The plan therefore asks every category of all of     *)
(* them, in whatever order.                                                *)
(*                                                                         *)
(* Then the reading. The invariant says of the jobs where their pages are  *)
(* from, of the prefixes that they are pages of jobs that carry their      *)
(* index, of the answers that each is what its job's prefix shows, or part *)
(* of it if the call was in trouble, besides records of lines it shows in  *)
(* part, and of the jobs asked again that they are the halves of those cut *)
(* off. So an answer of each term is among those that are merged, and the  *)
(* merge of readings that show a term at least once, and each list entry   *)
(* of it, is the reading with everything in view. A record that lost part  *)
(* of its identity meets none of a term that has it, and what stands       *)
(* beside the terms comes from a window that did not see one whole.        *)
(***************************************************************************)
EXTENDS DocumentReading, FirstAndLast, SequenceTheorems, FiniteSetTheorems, TLAPS

-----------------------------------------------------------------------------
(* Windows: every page is in one, and so is every pair of neighbours.      *)

\* Blocks cut from the first p of n pages: every page is in one, and pages that
\* follow each other are in one block, or the first ends a block and the second
\* is in the next.
Cut(blocks, p, n) ==
  /\ blocks \in Seq(Seq(1..n)) /\ blocks # <<>>
  /\ \A m \in 1..Len(blocks) : Len(blocks[m]) > 0
  /\ \A q \in 1..p : \E m \in 1..Len(blocks) : q \in ToSet(blocks[m])
  /\ \A q \in 1..(p - 1) :
       \/ \E m \in 1..Len(blocks) : q \in ToSet(blocks[m]) /\ q + 1 \in ToSet(blocks[m])
       \/ \E m \in 1..(Len(blocks) - 1) : q = Last(blocks[m]) /\ q + 1 \in ToSet(blocks[m + 1])

\* Blocks cut in the order of the pages: the last one ends with the page cut last.
CutUpTo(blocks, p, n) == Cut(blocks, p, n) /\ Last(Last(blocks)) = p

\* What a sequence shows after it has grown at its end.
LEMMA GrownAtTheEnd ==
  ASSUME NEW S, NEW s \in Seq(S), NEW e \in S
  PROVE  /\ Append(s, e) \in Seq(S) /\ Append(s, e) # <<>> /\ Len(Append(s, e)) = Len(s) + 1
         /\ \A i \in 1..Len(s) : Append(s, e)[i] = s[i]
         /\ Append(s, e)[Len(s) + 1] = e
         /\ Last(Append(s, e)) = e
         /\ ToSet(Append(s, e)) = ToSet(s) \cup {e}
<1>1. /\ Append(s, e) \in Seq(S) /\ Len(Append(s, e)) = Len(s) + 1
      /\ \A i \in 1..Len(s) : Append(s, e)[i] = s[i]
      /\ Append(s, e)[Len(s) + 1] = e
      /\ Append(s, e) # <<>>
  BY AppendProperties
<1>2. DOMAIN s = 1..Len(s) /\ DOMAIN Append(s, e) = 1..(Len(s) + 1) /\ Len(s) \in Nat
  BY <1>1, LenProperties
<1>3. 1..(Len(s) + 1) = (1..Len(s)) \cup {Len(s) + 1}
  BY <1>2
<1> QED
  BY <1>1, <1>2, <1>3 DEF Last, ToSet

\* What it shows without its end.
LEMMA WithoutTheEnd ==
  ASSUME NEW S, NEW s \in Seq(S), s # <<>>
  PROVE  /\ Front(s) \in Seq(S) /\ Len(Front(s)) = Len(s) - 1
         /\ \A i \in 1..(Len(s) - 1) : Front(s)[i] = s[i]
         /\ Last(s) \in S /\ Last(s) = s[Len(s)]
<1>1. Len(s) \in Nat /\ Len(s) >= 1 /\ \A i \in 1..Len(s) : s[i] \in S
  BY LenProperties, EmptySeq, ElementOfSeq
<1> DEFINE k == Len(s) - 1
<1>2. k \in Int /\ k >= 0 /\ 1 \in Int /\ k - 1 + 1 = k /\ \A i \in 1..k : s[i] \in S /\ 1 + i - 1 = i
  BY <1>1
<1> HIDE DEF k
<1>3. /\ SubSeq(s, 1, k) \in Seq(S)
      /\ Len(SubSeq(s, 1, k)) = IF 1 <= k THEN k - 1 + 1 ELSE 0
      /\ \A i \in 1..(k - 1 + 1) : SubSeq(s, 1, k)[i] = s[1 + i - 1]
  BY <1>2, SubSeqProperties
<1>4. SubSeq(s, 1, k) \in Seq(S) /\ Len(SubSeq(s, 1, k)) = k /\ \A i \in 1..k : SubSeq(s, 1, k)[i] = s[i]
  BY <1>2, <1>3
<1>5. Last(s) \in S /\ Last(s) = s[Len(s)]
  BY <1>1 DEF Last
<1> QED
  BY <1>4, <1>5 DEF Front, k

\* The first page of all.
LEMMA FirstBlock ==
  ASSUME NEW n \in Nat, 1 \in 1..n
  PROVE  CutUpTo(Append(<<>>, <<1>>), 1, n)
<1>1. <<1>> \in Seq(1..n) /\ Len(<<1>>) = 1 /\ <<1>>[1] = 1 /\ ToSet(<<1>>) = {1}
  BY DEF ToSet
<1>2. Append(<<>>, <<1>>) = << <<1>> >>
  OBVIOUS
<1>3. << <<1>> >> \in Seq(Seq(1..n)) /\ Len(<< <<1>> >>) = 1 /\ << <<1>> >>[1] = <<1>>
  BY <1>1
<1> QED
  BY <1>1, <1>2, <1>3 DEF Cut, CutUpTo, Last

\* A page that begins a block of its own.
LEMMA NewBlock ==
  ASSUME NEW n \in Nat, NEW p \in Nat, p >= 1, p + 1 \in 1..n, NEW b, CutUpTo(b, p, n)
  PROVE  CutUpTo(Append(b, <<p + 1>>), p + 1, n)
<1> DEFINE one == <<p + 1>>
           c   == Append(b, one)
           k   == Len(b)
<1>1. b \in Seq(Seq(1..n)) /\ b # <<>> /\ k \in Nat /\ k >= 1
  BY LenProperties, EmptySeq DEF CutUpTo, Cut
<1>2. one \in Seq(1..n) /\ Len(one) = 1 /\ one[1] = p + 1 /\ ToSet(one) = {p + 1}
  BY DEF ToSet
<1> HIDE DEF one
<1>3. /\ c \in Seq(Seq(1..n)) /\ c # <<>> /\ Len(c) = k + 1
      /\ \A i \in 1..k : c[i] = b[i]
      /\ c[k + 1] = one
  <2> DEFINE rows == Seq(1..n)
  <2>1. b \in Seq(rows) /\ one \in rows
    BY <1>1, <1>2
  <2> HIDE DEF rows
  <2>2. /\ c \in Seq(rows) /\ c # <<>> /\ Len(c) = k + 1
        /\ \A i \in 1..k : c[i] = b[i]
        /\ c[k + 1] = one
    BY <2>1, GrownAtTheEnd
  <2> QED
    BY <2>2 DEF rows
<1> HIDE DEF c
<1>4. ASSUME NEW m \in 1..Len(c) PROVE Len(c[m]) > 0
  <2>1. \A i \in 1..k : Len(b[i]) > 0
    BY DEF CutUpTo, Cut
  <2>2. m \in 1..k \/ m = k + 1
    BY <1>1, <1>3
  <2>3. CASE m \in 1..k
    BY <1>3, <2>1, <2>3
  <2>4. CASE m = k + 1
    <3>1. c[m] = one
      BY <1>3, <2>4
    <3>2. Len(c[m]) = 1
      BY <1>2, <3>1
    <3> QED
      BY <3>2
  <2> QED
    BY <2>2, <2>3, <2>4
<1>5. ASSUME NEW q \in 1..(p + 1) PROVE \E m \in 1..Len(c) : q \in ToSet(c[m])
  <2>1. CASE q = p + 1
    <3>1. k + 1 \in 1..Len(c) /\ p + 1 \in ToSet(c[k + 1])
      BY <1>1, <1>2, <1>3
    <3> QED
      BY <2>1, <3>1
  <2>2. CASE q \in 1..p
    <3>1. PICK m \in 1..k : q \in ToSet(b[m])
      BY <2>2 DEF CutUpTo, Cut
    <3>2. m \in 1..Len(c) /\ c[m] = b[m]
      BY <1>1, <1>3
    <3> QED
      BY <3>1, <3>2
  <2> QED
    BY <2>1, <2>2
<1>6. ASSUME NEW q \in 1..(p + 1 - 1)
      PROVE  \/ \E m \in 1..Len(c) : q \in ToSet(c[m]) /\ q + 1 \in ToSet(c[m])
             \/ \E m \in 1..(Len(c) - 1) : q = Last(c[m]) /\ q + 1 \in ToSet(c[m + 1])
  <2>1. CASE q = p
    <3>1. k \in 1..(Len(c) - 1) /\ c[k] = b[k]
      BY <1>1, <1>3
    <3>2. Last(c[k]) = p
      BY <3>1 DEF CutUpTo, Last
    <3>3. p + 1 \in ToSet(c[k + 1])
      BY <1>2, <1>3
    <3> QED
      BY <2>1, <3>1, <3>2, <3>3
  <2>2. CASE q \in 1..(p - 1)
    <3>1. CASE \E m \in 1..k : q \in ToSet(b[m]) /\ q + 1 \in ToSet(b[m])
      <4>1. PICK m \in 1..k : q \in ToSet(b[m]) /\ q + 1 \in ToSet(b[m])
        BY <3>1
      <4>2. m \in 1..Len(c) /\ c[m] = b[m]
        BY <1>1, <1>3
      <4> QED
        BY <4>1, <4>2
    <3>2. CASE \E m \in 1..(k - 1) : q = Last(b[m]) /\ q + 1 \in ToSet(b[m + 1])
      <4>1. PICK m \in 1..(k - 1) : q = Last(b[m]) /\ q + 1 \in ToSet(b[m + 1])
        BY <3>2
      <4>2. m \in 1..k /\ m + 1 \in 1..k /\ m \in 1..(Len(c) - 1)
        BY <1>1, <1>3
      <4> QED
        BY <1>3, <4>1, <4>2
    <3> QED
      BY <2>2, <3>1, <3>2 DEF CutUpTo, Cut
  <2> QED
    BY <2>1, <2>2
<1>7. Last(Last(c)) = p + 1
  BY <1>2, <1>3 DEF Last
<1>8. CutUpTo(c, p + 1, n)
  BY <1>3, <1>4, <1>5, <1>6, <1>7 DEF Cut, CutUpTo
<1> QED
  BY <1>8 DEF c, one

\* A page that goes into the last block.
LEMMA LongerBlock ==
  ASSUME NEW n \in Nat, NEW p \in Nat, p >= 1, p + 1 \in 1..n, NEW b, CutUpTo(b, p, n)
  PROVE  CutUpTo(Append(Front(b), Append(Last(b), p + 1)), p + 1, n)
<1> DEFINE grown == Append(Last(b), p + 1)
           c     == Append(Front(b), grown)
           k     == Len(b)
<1>1. b \in Seq(Seq(1..n)) /\ b # <<>> /\ k \in Nat /\ k >= 1
  BY LenProperties, EmptySeq DEF CutUpTo, Cut
<1>2. \A m \in 1..k : b[m] \in Seq(1..n) /\ Len(b[m]) \in Nat
  BY <1>1, ElementOfSeq, LenProperties
<1> DEFINE last == Last(b)
<1>3. last = b[k] /\ last \in Seq(1..n) /\ Last(last) = p
  BY <1>1, <1>2 DEF Last, CutUpTo
<1> HIDE DEF last
<1>4. /\ grown \in Seq(1..n) /\ Len(grown) = Len(b[k]) + 1
      /\ Last(grown) = p + 1 /\ ToSet(grown) = ToSet(b[k]) \cup {p + 1}
  <2> DEFINE T    == 1..n
             next == p + 1
  <2>1. last \in Seq(T) /\ next \in T /\ grown = Append(last, next)
    BY <1>3 DEF last
  <2> HIDE DEF T, next, grown
  <2>2. /\ grown \in Seq(T) /\ Len(grown) = Len(last) + 1
        /\ Last(grown) = next /\ ToSet(grown) = ToSet(last) \cup {next}
    BY <2>1, GrownAtTheEnd
  <2> QED
    BY <1>3, <2>2 DEF T, next
<1>5. /\ Front(b) \in Seq(Seq(1..n)) /\ Len(Front(b)) = k - 1
      /\ \A i \in 1..(k - 1) : Front(b)[i] = b[i]
  <2> DEFINE rows == Seq(1..n)
  <2>1. b \in Seq(rows) /\ b # <<>>
    BY <1>1
  <2> HIDE DEF rows
  <2>2. /\ Front(b) \in Seq(rows) /\ Len(Front(b)) = k - 1
        /\ \A i \in 1..(k - 1) : Front(b)[i] = b[i]
    BY <2>1, WithoutTheEnd
  <2> QED
    BY <2>2 DEF rows
<1> HIDE DEF grown
<1>6. /\ c \in Seq(Seq(1..n)) /\ c # <<>> /\ Len(c) = k
      /\ \A i \in 1..(k - 1) : c[i] = b[i]
      /\ c[k] = grown
  <2> DEFINE rows == Seq(1..n)
  <2>1. Front(b) \in Seq(rows) /\ grown \in rows
    BY <1>4, <1>5
  <2> HIDE DEF rows
  <2>2. /\ c \in Seq(rows) /\ c # <<>> /\ Len(c) = Len(Front(b)) + 1
        /\ \A i \in 1..Len(Front(b)) : c[i] = Front(b)[i]
        /\ c[Len(Front(b)) + 1] = grown
    BY <2>1, GrownAtTheEnd
  <2> HIDE DEF c
  <2>3. Len(c) = k /\ c[k] = grown
    BY <1>1, <1>5, <2>2
  <2>4. \A i \in 1..(k - 1) : c[i] = b[i]
    BY <1>5, <2>2
  <2> QED
    BY <2>2, <2>3, <2>4 DEF rows
<1> HIDE DEF c
<1>7. ASSUME NEW m \in 1..k
      PROVE  Len(c[m]) > 0 /\ ToSet(b[m]) \subseteq ToSet(c[m])
  <2>1. CASE m = k
    BY <1>1, <1>2, <1>4, <1>6, <2>1
  <2>2. CASE m # k
    <3>1. c[m] = b[m]
      BY <1>1, <1>6, <2>2
    <3> QED
      BY <3>1 DEF CutUpTo, Cut
  <2> QED
    BY <2>1, <2>2
<1>8. p \in ToSet(b[k])
  <2>1. k \in 1..k /\ Len(b[k]) > 0 /\ p = b[k][Len(b[k])]
    BY <1>1, <1>3 DEF CutUpTo, Cut, Last
  <2>2. DOMAIN b[k] = 1..Len(b[k]) /\ Len(b[k]) \in Nat
    BY <1>2, <2>1, LenProperties
  <2> QED
    BY <2>1, <2>2 DEF ToSet
<1>9. k \in 1..k /\ p + 1 \in ToSet(c[k]) /\ p \in ToSet(c[k])
  BY <1>1, <1>4, <1>6, <1>7, <1>8
<1>10. ASSUME NEW q \in 1..(p + 1) PROVE \E m \in 1..Len(c) : q \in ToSet(c[m])
  <2>1. CASE q = p + 1
    BY <1>6, <1>9, <2>1
  <2>2. CASE q \in 1..p
    BY <1>6, <1>7, <2>2 DEF CutUpTo, Cut
  <2> QED
    BY <2>1, <2>2
<1>11. ASSUME NEW q \in 1..(p + 1 - 1)
      PROVE  \/ \E m \in 1..Len(c) : q \in ToSet(c[m]) /\ q + 1 \in ToSet(c[m])
             \/ \E m \in 1..(Len(c) - 1) : q = Last(c[m]) /\ q + 1 \in ToSet(c[m + 1])
  <2>1. CASE q = p
    BY <1>6, <1>9, <2>1
  <2>2. CASE q \in 1..(p - 1)
    <3>1. CASE \E m \in 1..k : q \in ToSet(b[m]) /\ q + 1 \in ToSet(b[m])
      BY <1>6, <1>7, <3>1
    <3>2. CASE \E m \in 1..(k - 1) : q = Last(b[m]) /\ q + 1 \in ToSet(b[m + 1])
      <4>1. PICK m \in 1..(k - 1) : q = Last(b[m]) /\ q + 1 \in ToSet(b[m + 1])
        BY <3>2
      <4>2. m + 1 \in 1..k
        BY <1>1
      <4>3. q + 1 \in ToSet(c[m + 1]) /\ q = Last(c[m])
        BY <1>6, <1>7, <4>1, <4>2
      <4> QED
        BY <1>6, <4>3
    <3> QED
      BY <2>2, <3>1, <3>2 DEF CutUpTo, Cut
  <2> QED
    BY <2>1, <2>2
<1>12. Last(Last(c)) = p + 1
  BY <1>4, <1>6 DEF Last
<1>13. \A m \in 1..Len(c) : Len(c[m]) > 0
  BY <1>6, <1>7
<1>14. CutUpTo(c, p + 1, n)
  BY <1>6, <1>10, <1>11, <1>12, <1>13 DEF Cut, CutUpTo
<1> QED
  BY <1>14 DEF c, grown

-----------------------------------------------------------------------------
(* The packing, page by page.                                              *)

\* The blocks after page p, from those before it.
Packing(doc, target, cap, blocks, p) ==
  IF p = 0 THEN <<>>
  ELSE IF p = 1 \/ Opens(doc, target, cap, blocks, p) THEN Append(blocks, <<p>>)
  ELSE Append(Front(blocks), Append(Last(blocks), p))

Packs(doc, target, cap, k, g) ==
  g = [p \in 0..k |-> Packing(doc, target, cap, g[p - 1], p)]

\* The packing is defined page by page.
LEMMA PackedUnfolds ==
  ASSUME NEW doc, NEW target, NEW cap
  PROVE  Packed(doc, target, cap) = (CHOOSE g : Packs(doc, target, cap, Len(doc.pages), g))[Len(doc.pages)]
BY Zenon DEF Packed, Packs, Packing

\* The pages can be packed one after the other.
LEMMA PacksExist ==
  ASSUME NEW doc, NEW target, NEW cap, NEW k \in Nat
  PROVE  \E g : Packs(doc, target, cap, k, g)
<1> DEFINE Bad == {n \in Nat : ~ \E g : Packs(doc, target, cap, n, g)}
<1> SUFFICES ASSUME Bad # {} PROVE FALSE
  OBVIOUS
<1>1. PICK n \in Bad : \A m \in Nat : m < n => m \notin Bad
  BY FirstOne
<1>2. n \in Nat /\ ~ \E g : Packs(doc, target, cap, n, g)
  BY <1>1
<1>3. n # 0
  <2> SUFFICES ASSUME n = 0 PROVE FALSE
    OBVIOUS
  <2> DEFINE none == [p \in 0..0 |-> <<>>]
  <2>1. none = [p \in 0..0 |-> Packing(doc, target, cap, none[p - 1], p)]
    <3>1. ASSUME NEW p \in 0..0 PROVE Packing(doc, target, cap, none[p - 1], p) = <<>>
      BY DEF Packing
    <3> QED
      BY <3>1
  <2> HIDE DEF none
  <2> QED
    BY <1>2, <2>1 DEF Packs
<1>4. n - 1 \in Nat /\ n - 1 < n
  BY <1>2, <1>3
<1>5. n - 1 \notin Bad
  BY <1>1, <1>4
<1>6. PICK h : Packs(doc, target, cap, n - 1, h)
  BY <1>4, <1>5
<1> HIDE DEF Bad
<1> DEFINE g == [p \in 0..n |-> IF p = n THEN Packing(doc, target, cap, h[p - 1], p) ELSE h[p]]
<1>7. \A p \in 0..(n - 1) : h[p] = Packing(doc, target, cap, h[p - 1], p)
  BY <1>6, Zenon DEF Packs
<1>8. ASSUME NEW p \in 0..n PROVE g[p] = Packing(doc, target, cap, g[p - 1], p)
  <2>1. CASE p = 0
    <3>1. g[0] = h[0] /\ 0 \in 0..(n - 1)
      BY <1>2, <1>3
    <3>2. h[0] = <<>> /\ Packing(doc, target, cap, g[p - 1], p) = <<>>
      BY <1>7, <2>1, <3>1 DEF Packing
    <3> QED
      BY <2>1, <3>1, <3>2
  <2>2. CASE p # 0
    <3>1. p - 1 \in 0..n /\ p - 1 # n
      BY <1>2, <2>2
    <3>2. g[p - 1] = h[p - 1]
      BY <3>1
    <3>3. CASE p = n
      BY <3>2, <3>3
    <3>4. CASE p # n
      <4>1. p \in 0..(n - 1) /\ g[p] = h[p]
        BY <1>2, <3>4
      <4> QED
        BY <1>7, <3>2, <4>1
    <3> QED
      BY <3>3, <3>4
  <2> QED
    BY <2>1, <2>2
<1>9. g = [p \in 0..n |-> g[p]]
  OBVIOUS
<1> HIDE DEF g
<1>10. Packs(doc, target, cap, n, g)
  BY <1>8, <1>9 DEF Packs
<1> QED
  BY <1>2, <1>10

\* So the blocks the pages are packed into are cut from all of them.
LEMMA PackedIsCut ==
  ASSUME NEW doc, NEW target, NEW cap, NEW n \in Nat, n = Len(doc.pages), n >= 1
  PROVE  CutUpTo(Packed(doc, target, cap), n, n)
<1> DEFINE g == CHOOSE f : Packs(doc, target, cap, n, f)
<1>1. Packs(doc, target, cap, n, g)
  BY PacksExist
<1>2. Packed(doc, target, cap) = g[n]
  BY PackedUnfolds
<1> HIDE DEF g
<1>3. \A p \in 0..n : g[p] = Packing(doc, target, cap, g[p - 1], p)
  BY <1>1, Zenon DEF Packs
<1> DEFINE Bad == {p \in 1..n : ~CutUpTo(g[p], p, n)}
<1>4. ASSUME Bad # {} PROVE FALSE
  <2>1. Bad \subseteq Nat
    OBVIOUS
  <2>2. PICK p \in Bad : \A m \in Nat : m < p => m \notin Bad
    BY <1>4, <2>1, FirstOne
  <2>3. p \in 1..n /\ ~CutUpTo(g[p], p, n) /\ p \in 0..n
    BY <2>2
  <2>4. p # 1
    <3> SUFFICES ASSUME p = 1 PROVE FALSE
      OBVIOUS
    <3>1. g[0] = <<>>
      <4>1. g[0] = Packing(doc, target, cap, g[0 - 1], 0)
        BY <1>3
      <4> QED
        BY <4>1 DEF Packing
    <3>2. g[1] = Append(g[0], <<1>>)
      <4>1. g[1] = Packing(doc, target, cap, g[0], 1)
        BY <1>3, <2>3
      <4> QED
        BY <4>1 DEF Packing
    <3> QED
      BY <2>3, <3>1, <3>2, FirstBlock
  <2> DEFINE q == p - 1
  <2>5. q \in Nat /\ q >= 1 /\ q < p /\ q \in 1..n /\ q + 1 = p /\ q + 1 \in 1..n
    BY <2>3, <2>4
  <2>6. q \notin Bad
    BY <2>2, <2>5
  <2>7. CutUpTo(g[q], q, n)
    BY <2>5, <2>6
  <2>8. g[p] = Packing(doc, target, cap, g[q], p)
    BY <1>3, <2>3
  <2> HIDE DEF Bad, q
  <2>9. g[p] = Append(g[q], <<q + 1>>) \/ g[p] = Append(Front(g[q]), Append(Last(g[q]), q + 1))
    BY <2>3, <2>4, <2>5, <2>8 DEF Packing
  <2>10. CutUpTo(g[p], q + 1, n)
    BY <2>5, <2>7, <2>9, NewBlock, LongerBlock
  <2> QED
    BY <2>3, <2>5, <2>10
<1>5. CutUpTo(g[n], n, n)
  BY <1>4
<1> QED
  BY <1>2, <1>5

-----------------------------------------------------------------------------
(* The fold of a thin tail, and the page read again.                       *)

\* Two sequences put together.
LEMMA PutTogether ==
  ASSUME NEW S, NEW s \in Seq(S), NEW t \in Seq(S)
  PROVE  /\ s \o t \in Seq(S) /\ Len(s \o t) = Len(s) + Len(t)
         /\ ToSet(s \o t) = ToSet(s) \cup ToSet(t)
<1> DEFINE c == s \o t
<1>1. /\ c \in Seq(S) /\ Len(c) = Len(s) + Len(t)
      /\ \A i \in 1..(Len(s) + Len(t)) : c[i] = IF i <= Len(s) THEN s[i] ELSE t[i - Len(s)]
  BY ConcatProperties
<1> HIDE DEF c
<1>2. /\ Len(s) \in Nat /\ Len(t) \in Nat
      /\ DOMAIN s = 1..Len(s) /\ DOMAIN t = 1..Len(t) /\ DOMAIN c = 1..(Len(s) + Len(t))
  BY <1>1, LenProperties
<1>3. ASSUME NEW x \in ToSet(c) PROVE x \in ToSet(s) \cup ToSet(t)
  <2>1. PICK i \in 1..(Len(s) + Len(t)) : x = c[i]
    BY <1>2 DEF ToSet
  <2>2. CASE i <= Len(s)
    BY <1>1, <1>2, <2>1, <2>2 DEF ToSet
  <2>3. CASE i > Len(s)
    <3>1. i - Len(s) \in 1..Len(t) /\ x = t[i - Len(s)]
      BY <1>1, <1>2, <2>1, <2>3
    <3> QED
      BY <1>2, <3>1 DEF ToSet
  <2> QED
    BY <1>2, <2>2, <2>3
<1>4. ASSUME NEW x \in ToSet(s) PROVE x \in ToSet(c)
  <2>1. PICK i \in 1..Len(s) : x = s[i]
    BY <1>2 DEF ToSet
  <2>2. i \in 1..(Len(s) + Len(t)) /\ c[i] = s[i]
    BY <1>1, <1>2
  <2> QED
    BY <1>2, <2>1, <2>2 DEF ToSet
<1>5. ASSUME NEW x \in ToSet(t) PROVE x \in ToSet(c)
  <2>1. PICK i \in 1..Len(t) : x = t[i]
    BY <1>2 DEF ToSet
  <2>2. i + Len(s) \in 1..(Len(s) + Len(t)) /\ c[i + Len(s)] = t[i]
    <3> DEFINE j == i + Len(s)
    <3>1. j \in 1..(Len(s) + Len(t)) /\ ~(j <= Len(s)) /\ j - Len(s) = i
      BY <1>2
    <3> HIDE DEF j
    <3>2. c[j] = t[i]
      BY <1>1, <3>1
    <3> QED
      BY <3>1, <3>2 DEF j
  <2> QED
    BY <1>2, <2>1, <2>2 DEF ToSet
<1>6. ToSet(c) = ToSet(s) \cup ToSet(t)
  BY <1>3, <1>4, <1>5
<1> QED
  BY <1>1, <1>6 DEF c

\* The last block put into the one before it.
LEMMA JoinedBlocks ==
  ASSUME NEW n \in Nat, NEW b, Cut(b, n, n), Len(b) > 1
  PROVE  Cut(Append(Front(Front(b)), Last(Front(b)) \o Last(b)), n, n)
<1> DEFINE rows == Seq(1..n)
           k    == Len(b) - 1
           f    == Front(b)
           both == Last(f) \o Last(b)
           c    == Append(Front(f), both)
<1>1. b \in Seq(rows) /\ b # <<>> /\ Len(b) \in Nat /\ k \in Nat /\ k >= 1 /\ Len(b) = k + 1
  BY LenProperties DEF Cut
<1> HIDE DEF rows
<1>2. /\ f \in Seq(rows) /\ Len(f) = k /\ \A i \in 1..k : f[i] = b[i]
      /\ Last(b) \in rows /\ Last(b) = b[k + 1]
  BY <1>1, WithoutTheEnd
<1> HIDE DEF f
<1>3. f # <<>>
  <2>1. Len(f) # 0
    BY <1>1, <1>2
  <2> QED
    BY <2>1, EmptySeq
<1>4. /\ Front(f) \in Seq(rows) /\ Len(Front(f)) = k - 1 /\ \A i \in 1..(k - 1) : Front(f)[i] = f[i]
      /\ Last(f) \in rows /\ Last(f) = f[k]
  BY <1>2, <1>3, WithoutTheEnd
<1>5. Last(f) = b[k] /\ k \in 1..k
  BY <1>1, <1>2, <1>4
<1>6. /\ both \in rows /\ Len(both) = Len(b[k]) + Len(b[k + 1])
      /\ ToSet(both) = ToSet(b[k]) \cup ToSet(b[k + 1])
  <2> DEFINE T == 1..n
  <2>1. Last(f) \in Seq(T) /\ Last(b) \in Seq(T)
    BY <1>2, <1>4 DEF rows
  <2> HIDE DEF T
  <2>2. both \in Seq(T) /\ Len(both) = Len(Last(f)) + Len(Last(b)) /\ ToSet(both) = ToSet(Last(f)) \cup ToSet(Last(b))
    BY <2>1, PutTogether
  <2> HIDE DEF both
  <2> QED
    BY <1>2, <1>5, <2>2 DEF rows, T
<1> HIDE DEF both
<1>7. /\ c \in Seq(rows) /\ c # <<>> /\ Len(c) = Len(Front(f)) + 1
      /\ \A i \in 1..Len(Front(f)) : c[i] = Front(f)[i]
      /\ c[Len(Front(f)) + 1] = both
  BY <1>4, <1>6, GrownAtTheEnd
<1> HIDE DEF c
<1>8. Len(c) = k /\ c[k] = both /\ \A i \in 1..(k - 1) : c[i] = b[i]
  BY <1>1, <1>2, <1>4, <1>7
<1> HIDE DEF k
<1>9. \A i \in 1..(k + 1) : Len(b[i]) > 0 /\ Len(b[i]) \in Nat
  <2>1. \A i \in 1..(k + 1) : b[i] \in rows
    BY <1>1, ElementOfSeq
  <2> QED
    BY <1>1, <2>1, LenProperties DEF Cut, rows
<1>10. ASSUME NEW i \in 1..k PROVE Len(c[i]) > 0 /\ ToSet(b[i]) \subseteq ToSet(c[i])
  <2>1. CASE i = k
    <3>1. c[i] = both /\ b[i] = b[k]
      BY <1>8, <2>1
    <3>2. Len(b[k]) > 0 /\ Len(b[k]) \in Nat /\ Len(b[k + 1]) \in Nat
      BY <1>1, <1>5, <1>9
    <3>3. Len(both) > 0
      <4> DEFINE x == Len(b[k])
                 y == Len(b[k + 1])
                 z == Len(both)
      <4>1. z = x + y /\ x \in Nat /\ x > 0 /\ y \in Nat
        BY <1>6, <3>2
      <4> HIDE DEF x, y, z
      <4>2. z > 0
        BY <4>1
      <4> QED
        BY <4>2 DEF z
    <3> QED
      BY <1>6, <3>1, <3>3
  <2>2. CASE i # k
    <3>1. i \in 1..(k - 1) /\ i \in 1..(k + 1)
      BY <1>1, <2>2
    <3>2. c[i] = b[i]
      BY <1>8, <3>1
    <3> QED
      BY <1>9, <3>1, <3>2
  <2> QED
    BY <2>1, <2>2
<1>11. ToSet(b[k + 1]) \subseteq ToSet(c[k])
  BY <1>6, <1>8
<1>12. ASSUME NEW q \in 1..n PROVE \E m \in 1..k : q \in ToSet(c[m])
  <2>1. PICK m \in 1..(k + 1) : q \in ToSet(b[m])
    BY <1>1 DEF Cut
  <2>2. m \in 1..k \/ m = k + 1
    BY <1>1
  <2> QED
    BY <1>5, <1>10, <1>11, <2>1, <2>2
<1>13. ASSUME NEW q \in 1..(n - 1)
      PROVE  \/ \E m \in 1..k : q \in ToSet(c[m]) /\ q + 1 \in ToSet(c[m])
             \/ \E m \in 1..(k - 1) : q = Last(c[m]) /\ q + 1 \in ToSet(c[m + 1])
  <2>1. CASE \E m \in 1..(k + 1) : q \in ToSet(b[m]) /\ q + 1 \in ToSet(b[m])
    <3>1. PICK m \in 1..(k + 1) : q \in ToSet(b[m]) /\ q + 1 \in ToSet(b[m])
      BY <2>1
    <3>2. m \in 1..k \/ m = k + 1
      BY <1>1
    <3> QED
      BY <1>5, <1>10, <1>11, <3>1, <3>2
  <2>2. CASE \E m \in 1..k : q = Last(b[m]) /\ q + 1 \in ToSet(b[m + 1])
    <3>1. PICK m \in 1..k : q = Last(b[m]) /\ q + 1 \in ToSet(b[m + 1])
      BY <2>2
    <3>2. CASE m = k
      <4>1. q \in ToSet(b[k])
        <5>1. b[k] \in rows /\ q = b[k][Len(b[k])] /\ Len(b[k]) \in Nat /\ Len(b[k]) > 0
          BY <1>1, <1>4, <1>5, <1>9, <3>1, <3>2 DEF Last
        <5>2. DOMAIN b[k] = 1..Len(b[k])
          BY <5>1, LenProperties DEF rows
        <5> QED
          BY <5>1, <5>2 DEF ToSet
      <4> QED
        BY <1>5, <1>10, <1>11, <3>1, <3>2, <4>1
    <3>3. CASE m # k
      <4>1. m \in 1..(k - 1) /\ m + 1 \in 1..k
        BY <1>1, <3>3
      <4>2. q = Last(c[m]) /\ q + 1 \in ToSet(c[m + 1])
        BY <1>8, <1>10, <3>1, <4>1
      <4> QED
        BY <4>1, <4>2
    <3> QED
      BY <3>2, <3>3
  <2>3. (k + 1) - 1 = k
    BY <1>1
  <2> QED
    BY <1>1, <2>1, <2>2, <2>3 DEF Cut
<1>14. Cut(c, n, n)
  BY <1>7, <1>8, <1>10, <1>12, <1>13 DEF Cut, rows
<1> QED
  BY <1>14 DEF c, both, f

\* Windows that show every page, and pages that follow each other together.
Shows(windows, n) ==
  /\ windows \in Seq(Seq(1..n))
  /\ \A m \in 1..Len(windows) : Len(windows[m]) > 0
  /\ \A q \in 1..n : \E m \in 1..Len(windows) : {q, q + 1} \cap (1..n) \subseteq ToSet(windows[m])

\* The page read again at the head of a window puts the pages it divides together.
LEMMA OverlappedShows ==
  ASSUME NEW n \in Nat, NEW b, Cut(b, n, n)
  PROVE  Shows(Overlapped(b), n)
<1> DEFINE rows == Seq(1..n)
           w    == Overlapped(b)
<1>1. b \in Seq(rows) /\ Len(b) \in Nat /\ DOMAIN b = 1..Len(b) /\ \A m \in 1..Len(b) : b[m] \in rows /\ Len(b[m]) > 0
  BY LenProperties, ElementOfSeq DEF Cut
<1>2. ASSUME NEW m \in 1..Len(b), m # 1
      PROVE  /\ w[m] = <<Last(b[m - 1])>> \o b[m] /\ w[m] \in rows
             /\ Len(w[m]) > 0 /\ ToSet(w[m]) = {Last(b[m - 1])} \cup ToSet(b[m])
  <2> DEFINE l    == Last(b[m - 1])
             head == <<l>>
             T    == 1..n
  <2>1. m - 1 \in 1..Len(b)
    BY <1>1, <1>2
  <2>2. b[m - 1] \in Seq(T) /\ Len(b[m - 1]) > 0 /\ b[m] \in Seq(T) /\ Len(b[m]) > 0
    BY <1>1, <2>1
  <2>3. w[m] = head \o b[m]
    BY <1>1, <1>2 DEF Overlapped
  <2> HIDE DEF T
  <2>4. l \in T
    <3>1. Len(b[m - 1]) \in 1..Len(b[m - 1])
      BY <2>2, LenProperties
    <3> QED
      BY <2>2, <3>1, ElementOfSeq DEF Last
  <2> HIDE DEF l
  <2>5. head \in Seq(T) /\ Len(head) = 1 /\ ToSet(head) = {l}
    BY <2>4 DEF ToSet
  <2> HIDE DEF head
  <2>6. head \o b[m] \in Seq(T) /\ Len(head \o b[m]) = 1 + Len(b[m]) /\ ToSet(head \o b[m]) = {l} \cup ToSet(b[m])
    <3>1. /\ head \o b[m] \in Seq(T) /\ Len(head \o b[m]) = Len(head) + Len(b[m])
          /\ ToSet(head \o b[m]) = ToSet(head) \cup ToSet(b[m])
      <4> DEFINE tail == b[m]
      <4>1. head \in Seq(T) /\ tail \in Seq(T)
        BY <2>2, <2>5
      <4> HIDE DEF tail
      <4>2. /\ head \o tail \in Seq(T) /\ Len(head \o tail) = Len(head) + Len(tail)
            /\ ToSet(head \o tail) = ToSet(head) \cup ToSet(tail)
        BY <4>1, PutTogether
      <4> QED
        BY <4>2 DEF tail
    <3> QED
      BY <2>5, <3>1
  <2>7. Len(b[m]) \in Nat
    BY <2>2, LenProperties
  <2> QED
    BY <2>2, <2>3, <2>6, <2>7 DEF l, head, T
<1>3. 1 \in 1..Len(b) => w[1] = b[1]
  BY <1>1 DEF Overlapped
<1>4. DOMAIN w = 1..Len(b)
  BY <1>1 DEF Overlapped
<1>5. w = [m \in 1..Len(b) |-> w[m]]
  BY <1>1 DEF Overlapped
<1> HIDE DEF w, rows
<1>6. ASSUME NEW m \in 1..Len(b) PROVE w[m] \in rows /\ Len(w[m]) > 0 /\ ToSet(b[m]) \subseteq ToSet(w[m])
  <2>1. CASE m = 1
    BY <1>1, <1>3, <2>1
  <2>2. CASE m # 1
    BY <1>2, <2>2
  <2> QED
    BY <2>1, <2>2
<1>7. w \in Seq(rows) /\ Len(w) = Len(b)
  BY <1>1, <1>5, <1>6
<1>8. ASSUME NEW q \in 1..n
      PROVE  \E m \in 1..Len(b) : {q, q + 1} \cap (1..n) \subseteq ToSet(w[m])
  <2>1. CASE q = n
    <3>1. PICK m \in 1..Len(b) : q \in ToSet(b[m])
      BY DEF Cut
    <3> QED
      BY <1>6, <2>1, <3>1
  <2>2. CASE q # n
    <3>1. q \in 1..(n - 1)
      BY <2>2
    <3>2. CASE \E m \in 1..Len(b) : q \in ToSet(b[m]) /\ q + 1 \in ToSet(b[m])
      BY <1>6, <3>2
    <3>3. CASE \E m \in 1..(Len(b) - 1) : q = Last(b[m]) /\ q + 1 \in ToSet(b[m + 1])
      <4>1. PICK m \in 1..(Len(b) - 1) : q = Last(b[m]) /\ q + 1 \in ToSet(b[m + 1])
        BY <3>3
      <4> DEFINE o == m + 1
      <4>2. o \in 1..Len(b) /\ o # 1 /\ o - 1 = m
        BY <1>1
      <4> HIDE DEF o
      <4>3. ToSet(w[o]) = {Last(b[m])} \cup ToSet(b[o])
        BY <1>2, <4>2
      <4> QED
        BY <4>1, <4>2, <4>3 DEF o
    <3> QED
      BY <3>1, <3>2, <3>3 DEF Cut
  <2> QED
    BY <2>1, <2>2
<1>9. Shows(w, n)
  BY <1>6, <1>7, <1>8 DEF Shows, rows
<1> QED
  BY <1>9 DEF w

\* What a category is asked over shows the whole document, two pages at a time
\* (page_windows).
LEMMA WindowsShowTheDocument ==
  ASSUME NEW doc \in Contracts, NEW perPage
  PROVE  /\ Len(doc.pages) \in Nat /\ Len(doc.pages) >= 1 /\ DOMAIN doc.pages = 1..Len(doc.pages)
         /\ Shows(WindowsFor(doc, perPage), Len(doc.pages))
<1> DEFINE n == Len(doc.pages)
<1>1. n \in Nat /\ n >= 1 /\ DOMAIN doc.pages = 1..n
  BY ContractsAssumption, LenProperties, EmptySeq
<1> DEFINE need   == Ceil(perPage * Len(doc.pages), (OutputCap * 85) \div 100)
           target == Max({1, Tokens(doc, Whole(doc)) \div need})
           cap    == (target * 3) \div 2
           packed == Packed(doc, target, cap)
           folded == Folded(doc, packed, target, cap)
           one    == <<Whole(doc)>>
<1>2. WindowsFor(doc, perPage) = IF need <= 1 THEN one ELSE Overlapped(folded)
  BY Zenon DEF WindowsFor
<1> HIDE DEF need, target, cap
<1>3. Shows(one, n)
  <2> DEFINE whole == Whole(doc)
  <2>1. whole \in Seq(1..n) /\ Len(whole) = n /\ ToSet(whole) = 1..n
    <3>1. whole = [p \in 1..n |-> p]
      BY <1>1 DEF Whole
    <3> HIDE DEF whole, n
    <3>2. whole \in Seq(1..n) /\ Len(whole) = n /\ DOMAIN whole = 1..n
      BY <1>1, <3>1
    <3>3. ToSet(whole) = 1..n
      BY <3>1, <3>2 DEF ToSet
    <3> QED
      BY <3>2, <3>3
  <2> HIDE DEF whole
  <2> DEFINE rows == Seq(1..n)
  <2>2. whole \in rows
    BY <2>1
  <2> HIDE DEF rows
  <2>3. one \in Seq(rows) /\ Len(one) = 1 /\ one[1] = whole
    BY <2>2 DEF whole
  <2> HIDE DEF one
  <2>4. one \in Seq(Seq(1..n))
    BY <2>3 DEF rows
  <2> HIDE DEF n
  <2>5. ASSUME NEW m \in 1..Len(one) PROVE Len(one[m]) > 0
    <3>1. m = 1
      BY <2>3
    <3> QED
      BY <1>1, <2>1, <2>3, <3>1
  <2>6. 1 \in 1..Len(one) /\ ToSet(one[1]) = 1..n
    BY <2>1, <2>3
  <2> QED
    BY <2>4, <2>5, <2>6 DEF Shows
<1>4. Cut(packed, n, n)
  BY <1>1, PackedIsCut DEF CutUpTo
<1> HIDE DEF packed, n
<1>5. Cut(folded, n, n)
  BY <1>1, <1>4, JoinedBlocks, Zenon DEF Folded
<1> HIDE DEF folded, one
<1>6. Shows(Overlapped(folded), n)
  BY <1>1, <1>5, OverlappedShows
<1> QED
  BY <1>1, <1>2, <1>3, <1>6 DEF n

-----------------------------------------------------------------------------
(* Sequences made into one (FlattenSeq).                                   *)

Flats(s, k, g) == g = [i \in 1..k |-> IF i = 1 THEN s[i] ELSE g[i - 1] \o s[i]]

\* So is the sequence made of sequences.
LEMMA FlattenUnfolds ==
  ASSUME NEW s, Len(s) # 0
  PROVE  FlattenSeq(s) = (CHOOSE g : Flats(s, Len(s), g))[Len(s)]
BY Zenon DEF FlattenSeq, Flats

\* Sequences can be put together one after the other.
LEMMA FlatsExist ==
  ASSUME NEW s, NEW k \in Nat
  PROVE  \E g : Flats(s, k, g)
<1> DEFINE Bad == {n \in Nat : ~ \E g : Flats(s, n, g)}
<1> SUFFICES ASSUME Bad # {} PROVE FALSE
  OBVIOUS
<1>1. PICK n \in Bad : \A m \in Nat : m < n => m \notin Bad
  BY FirstOne
<1>2. n \in Nat /\ ~ \E g : Flats(s, n, g)
  BY <1>1
<1>3. n # 0
  <2> SUFFICES ASSUME n = 0 PROVE FALSE
    OBVIOUS
  <2> DEFINE none == [i \in 1..0 |-> s[i]]
  <2>1. none = [i \in 1..0 |-> IF i = 1 THEN s[i] ELSE none[i - 1] \o s[i]]
    OBVIOUS
  <2> HIDE DEF none
  <2> QED
    BY <1>2, <2>1 DEF Flats
<1>4. n - 1 \in Nat /\ n - 1 < n
  BY <1>2, <1>3
<1>5. n - 1 \notin Bad
  BY <1>1, <1>4
<1>6. PICK h : Flats(s, n - 1, h)
  BY <1>4, <1>5
<1> HIDE DEF Bad
<1> DEFINE Put(f, i) == IF i = 1 THEN s[i] ELSE f[i - 1] \o s[i]
           g         == [i \in 1..n |-> IF i = n THEN Put(h, i) ELSE h[i]]
<1>7. \A i \in 1..(n - 1) : h[i] = Put(h, i)
  BY <1>6 DEF Flats
<1>8. ASSUME NEW i \in 1..n PROVE g[i] = Put(g, i)
  <2>1. g[i] = Put(h, i)
    <3>1. CASE i = n
      BY <3>1
    <3>2. CASE i # n
      <4>1. i \in 1..(n - 1) /\ g[i] = h[i]
        BY <1>2, <3>2
      <4> QED
        BY <1>7, <4>1
    <3> QED
      BY <3>1, <3>2
  <2>2. CASE i = 1
    BY <2>1, <2>2
  <2>3. CASE i # 1
    <3>1. i - 1 \in 1..n /\ i - 1 # n
      BY <1>2, <2>3
    <3>2. g[i - 1] = h[i - 1]
      BY <3>1
    <3> QED
      BY <2>1, <2>3, <3>2
  <2> QED
    BY <2>2, <2>3
<1>9. g = [i \in 1..n |-> g[i]]
  OBVIOUS
<1> HIDE DEF g
<1>10. Flats(s, n, g)
  BY <1>8, <1>9 DEF Flats
<1> QED
  BY <1>2, <1>10

\* The one sequence holds what the sequences hold, and nothing else.
LEMMA FlattenHolds ==
  ASSUME NEW A, NEW s, NEW n \in Nat, Len(s) = n, s \in Seq(Seq(A))
  PROVE  /\ FlattenSeq(s) \in Seq(A)
         /\ \A x : x \in ToSet(FlattenSeq(s)) <=> \E i \in 1..n : x \in ToSet(s[i])
<1>1. CASE n = 0
  <2>1. s = <<>>
    BY <1>1, EmptySeq
  <2>2. FlattenSeq(s) = <<>>
    BY <1>1, <2>1 DEF FlattenSeq
  <2>3. ToSet(<<>>) = {}
    BY DEF ToSet
  <2> QED
    BY <1>1, <2>2, <2>3
<1>2. CASE n # 0
  <2> DEFINE g == CHOOSE f : Flats(s, n, f)
  <2>1. Flats(s, n, g)
    BY FlatsExist
  <2>2. FlattenSeq(s) = g[n]
    BY <1>2, FlattenUnfolds
  <2> HIDE DEF g
  <2>3. \A i \in 1..n : g[i] = IF i = 1 THEN s[i] ELSE g[i - 1] \o s[i]
    BY <2>1 DEF Flats
  <2>4. \A i \in 1..n : s[i] \in Seq(A)
    <3> DEFINE rows == Seq(A)
    <3>1. s \in Seq(rows)
      OBVIOUS
    <3> HIDE DEF rows
    <3>2. \A i \in 1..n : s[i] \in rows
      BY <3>1, ElementOfSeq
    <3> QED
      BY <3>2 DEF rows
  <2> DEFINE Fine(k) == /\ g[k] \in Seq(A)
                        /\ \A x : x \in ToSet(g[k]) <=> \E i \in 1..k : x \in ToSet(s[i])
             Bad == {k \in 1..n : ~Fine(k)}
  <2>5. ASSUME Bad # {} PROVE FALSE
    <3>1. Bad \subseteq Nat
      OBVIOUS
    <3>2. PICK k \in Bad : \A m \in Nat : m < k => m \notin Bad
      BY <2>5, <3>1, FirstOne
    <3>3. k \in 1..n /\ ~Fine(k)
      BY <3>2
    <3>4. k # 1
      <4> SUFFICES ASSUME k = 1 PROVE FALSE
        OBVIOUS
      <4>1. g[1] = s[1]
        BY <2>3, <3>3
      <4>2. 1..1 = {1}
        OBVIOUS
      <4> QED
        BY <2>4, <3>3, <4>1, <4>2
    <3> DEFINE q == k - 1
    <3>5. q \in Nat /\ q < k /\ q \in 1..n /\ 1..k = (1..q) \cup {k}
      BY <3>3, <3>4
    <3>6. q \notin Bad
      BY <3>2, <3>5
    <3>7. Fine(q)
      BY <3>5, <3>6
    <3>8. g[k] = g[q] \o s[k] /\ s[k] \in Seq(A)
      BY <2>3, <2>4, <3>3, <3>4
    <3> HIDE DEF Bad, q
    <3>9. g[k] \in Seq(A) /\ ToSet(g[k]) = ToSet(g[q]) \cup ToSet(s[k])
      BY <3>7, <3>8, PutTogether
    <3>10. \A x : x \in ToSet(g[k]) <=> \E i \in 1..k : x \in ToSet(s[i])
      BY <3>5, <3>7, <3>9
    <3> QED
      BY <3>3, <3>9, <3>10
  <2>6. Fine(n)
    <3>1. n \in 1..n
      BY <1>2
    <3>2. n \notin Bad
      BY <2>5
    <3> QED
      BY <3>1, <3>2
  <2> QED
    BY <2>2, <2>6
<1> QED
  BY <1>1, <1>2

-----------------------------------------------------------------------------
(* The plan asks everything of every page.                                 *)

JobsOver(doc) == [call : STRING, index : Nat, pages : Seq(DOMAIN doc.pages)]

\* Whether these jobs ask each category of every two pages together, and nothing else.
AsksAll(doc, jobs) ==
  /\ \A job \in jobs : \E i \in DOMAIN doc.asked : job.call = doc.asked[i].call
  /\ \A i \in DOMAIN doc.asked, q \in DOMAIN doc.pages : \E job \in jobs :
       job.call = doc.asked[i].call /\ {q, q + 1} \cap DOMAIN doc.pages \subseteq ToSet(job.pages)

\* The jobs of one category.
LEMMA JobsOfOne ==
  ASSUME NEW doc \in Contracts, NEW i \in DOMAIN doc.asked
  PROVE  /\ JobsOf(doc, doc.asked[i]) \in Seq(JobsOver(doc))
         /\ \A job \in ToSet(JobsOf(doc, doc.asked[i])) : job.call = doc.asked[i].call
         /\ \A q \in DOMAIN doc.pages : \E job \in ToSet(JobsOf(doc, doc.asked[i])) :
              {q, q + 1} \cap DOMAIN doc.pages \subseteq ToSet(job.pages)
<1> DEFINE a    == doc.asked[i]
           n    == Len(doc.pages)
           w    == WindowsFor(doc, a.perPage)
           jobs == JobsOf(doc, a)
           page == DOMAIN doc.pages
<1>1. a.call \in STRING
  <2>1. doc.asked \in Seq([call : STRING, perPage : Nat])
    BY ContractsAssumption
  <2>2. a \in [call : STRING, perPage : Nat]
    BY <2>1, LenProperties, ElementOfSeq
  <2> QED
    BY <2>2
<1>2. page = 1..n /\ Shows(w, n)
  BY WindowsShowTheDocument
<1> DEFINE rows == Seq(page)
<1>3. w \in Seq(rows)
  BY <1>2 DEF Shows
<1>4. jobs = [m \in DOMAIN w |-> [call |-> a.call, index |-> m - 1, pages |-> w[m]]]
  BY DEF JobsOf
<1> HIDE DEF a, w, jobs, rows
<1>5. Len(w) \in Nat /\ DOMAIN w = 1..Len(w) /\ \A m \in 1..Len(w) : w[m] \in rows
  BY <1>3, LenProperties, ElementOfSeq
<1>6. \A m \in 1..Len(w) : jobs[m] = [call |-> a.call, index |-> m - 1, pages |-> w[m]]
  BY <1>4, <1>5
<1>7. DOMAIN jobs = 1..Len(w) /\ jobs = [m \in 1..Len(w) |-> jobs[m]]
  BY <1>4, <1>5
<1>8. \A m \in 1..Len(w) : jobs[m] \in JobsOver(doc)
  <2> SUFFICES ASSUME NEW m \in 1..Len(w) PROVE jobs[m] \in JobsOver(doc)
    OBVIOUS
  <2> DEFINE k == m - 1
             T == Seq(page)
             v == w[m]
             c == a.call
  <2>1. k \in Nat /\ v \in T /\ c \in STRING
    BY <1>1, <1>5 DEF rows
  <2>2. jobs[m] = [call |-> c, index |-> k, pages |-> v]
    BY <1>6
  <2> HIDE DEF k, T, v, c
  <2>3. jobs[m] \in [call : STRING, index : Nat, pages : T]
    BY <2>1, <2>2
  <2> QED
    BY <2>3 DEF JobsOver, T
<1> DEFINE J == JobsOver(doc)
<1>9. jobs \in Seq(J)
  <2> HIDE DEF J
  <2>1. \A m \in 1..Len(w) : jobs[m] \in J
    BY <1>8 DEF J
  <2> QED
    BY <1>5, <1>7, <2>1
<1>10. \A job \in ToSet(jobs) : job.call = a.call
  BY <1>6, <1>7 DEF ToSet
<1>11. ASSUME NEW q \in page
       PROVE  \E job \in ToSet(jobs) : {q, q + 1} \cap page \subseteq ToSet(job.pages)
  <2>1. PICK m \in 1..Len(w) : {q, q + 1} \cap (1..n) \subseteq ToSet(w[m])
    BY <1>2 DEF Shows
  <2>2. jobs[m] \in ToSet(jobs) /\ jobs[m].pages = w[m]
    BY <1>6, <1>7 DEF ToSet
  <2> QED
    BY <1>2, <2>1, <2>2
<1> QED
  BY <1>9, <1>10, <1>11 DEF a, jobs

\* The jobs of all categories.
LEMMA PlanAsksAll ==
  ASSUME NEW doc \in Contracts
  PROVE  PlanCalls(doc) \in Seq(JobsOver(doc)) /\ AsksAll(doc, ToSet(PlanCalls(doc)))
<1> DEFINE J    == JobsOver(doc)
           k    == Len(doc.asked)
           each == [i \in DOMAIN doc.asked |-> JobsOf(doc, doc.asked[i])]
<1>1. k \in Nat /\ DOMAIN doc.asked = 1..k
  BY ContractsAssumption, LenProperties
<1>2. each \in Seq(Seq(J)) /\ Len(each) = k /\ \A i \in 1..k : each[i] = JobsOf(doc, doc.asked[i])
  <2> DEFINE rows == Seq(J)
  <2>1. \A i \in 1..k : JobsOf(doc, doc.asked[i]) \in rows
    BY <1>1, JobsOfOne
  <2> HIDE DEF rows, k
  <2>2. each \in Seq(rows) /\ Len(each) = k /\ \A i \in 1..k : each[i] = JobsOf(doc, doc.asked[i])
    BY <1>1, <2>1
  <2> QED
    BY <2>2 DEF rows
<1>3. PlanCalls(doc) = FlattenSeq(each)
  BY DEF PlanCalls
<1> HIDE DEF each, J, k
<1>4. /\ FlattenSeq(each) \in Seq(J)
      /\ \A x : x \in ToSet(FlattenSeq(each)) <=> \E i \in 1..k : x \in ToSet(each[i])
  BY <1>1, <1>2, FlattenHolds
<1>5. \A x : x \in ToSet(PlanCalls(doc)) <=> \E i \in DOMAIN doc.asked : x \in ToSet(JobsOf(doc, doc.asked[i]))
  BY <1>1, <1>2, <1>3, <1>4
<1>6. AsksAll(doc, ToSet(PlanCalls(doc)))
  <2>1. ASSUME NEW job \in ToSet(PlanCalls(doc)) PROVE \E i \in DOMAIN doc.asked : job.call = doc.asked[i].call
    BY <1>5, JobsOfOne
  <2>2. ASSUME NEW i \in DOMAIN doc.asked, NEW q \in DOMAIN doc.pages
        PROVE  \E job \in ToSet(PlanCalls(doc)) :
                 job.call = doc.asked[i].call /\ {q, q + 1} \cap DOMAIN doc.pages \subseteq ToSet(job.pages)
    BY <1>5, JobsOfOne
  <2> QED
    BY <2>1, <2>2 DEF AsksAll
<1> QED
  BY <1>3, <1>4, <1>6 DEF J

\* Choosing jobs by what they ask, in their order.
LEMMA ChosenHolds ==
  ASSUME NEW A, NEW jobs \in Seq(A), NEW priming \in BOOLEAN
  PROVE  /\ Chosen(jobs, priming) \in Seq(A)
         /\ \A x : x \in ToSet(Chosen(jobs, priming)) <=>
                     \E j \in 1..Len(jobs) : x = jobs[j] /\ (jobs[j].call = Priming) = priming
<1> DEFINE Kept(j) == (jobs[j].call = Priming) = priming
           k    == Len(jobs)
           each == [j \in DOMAIN jobs |-> IF Kept(j) THEN <<jobs[j]>> ELSE <<>>]
           rows == Seq(A)
<1>1. k \in Nat /\ DOMAIN jobs = 1..k /\ \A j \in 1..k : jobs[j] \in A
  BY LenProperties, ElementOfSeq
<1>2. Chosen(jobs, priming) = FlattenSeq(each)
  BY DEF Chosen
<1> HIDE DEF Kept, k
<1>3. ASSUME NEW j \in 1..k
      PROVE  each[j] \in Seq(A) /\ \A x : x \in ToSet(each[j]) <=> x = jobs[j] /\ Kept(j)
  <2>1. CASE Kept(j)
    <3>1. each[j] = <<jobs[j]>>
      BY <1>1, <2>1
    <3> QED
      BY <1>1, <2>1, <3>1 DEF ToSet
  <2>2. CASE ~Kept(j)
    <3>1. each[j] = <<>>
      BY <1>1, <2>2
    <3>2. ToSet(<<>>) = {}
      BY DEF ToSet
    <3>3. <<>> \in Seq(A)
      BY EmptySeq
    <3> HIDE DEF each
    <3>4. \A x : x \notin ToSet(each[j])
      BY <3>1, <3>2
    <3> QED
      BY <2>2, <3>1, <3>3, <3>4
  <2> QED
    BY <2>1, <2>2
<1>4. each \in Seq(rows) /\ Len(each) = k
  <2>1. each = [j \in 1..k |-> each[j]] /\ \A j \in 1..k : each[j] \in rows
    BY <1>1, <1>3
  <2> HIDE DEF each, rows
  <2> QED
    BY <1>1, <2>1
<1> HIDE DEF each
<1>5. /\ FlattenSeq(each) \in Seq(A)
      /\ \A x : x \in ToSet(FlattenSeq(each)) <=> \E i \in 1..k : x \in ToSet(each[i])
  BY <1>1, <1>4, FlattenHolds
<1>6. \A x : x \in ToSet(FlattenSeq(each)) <=> \E j \in 1..k : x = jobs[j] /\ Kept(j)
  BY <1>3, <1>5
<1> QED
  BY <1>2, <1>5, <1>6 DEF Kept, k

\* The order the calls are made in drops none and adds none.
LEMMA OrderingKeepsTheJobs ==
  ASSUME NEW A, NEW jobs \in Seq(A)
  PROVE  Ordered(jobs) \in Seq(A) /\ ToSet(Ordered(jobs)) = ToSet(jobs)
<1> DEFINE first == Chosen(jobs, TRUE)
           rest  == Chosen(jobs, FALSE)
<1>1. /\ first \in Seq(A) /\ rest \in Seq(A)
      /\ \A x : x \in ToSet(first) <=> \E j \in 1..Len(jobs) : x = jobs[j] /\ (jobs[j].call = Priming) = TRUE
      /\ \A x : x \in ToSet(rest) <=> \E j \in 1..Len(jobs) : x = jobs[j] /\ (jobs[j].call = Priming) = FALSE
  BY ChosenHolds
<1>2. DOMAIN jobs = 1..Len(jobs)
  BY LenProperties
<1> HIDE DEF first, rest
<1>3. first \o rest \in Seq(A) /\ ToSet(first \o rest) = ToSet(first) \cup ToSet(rest)
  BY <1>1, PutTogether
<1>4. \A x : x \in ToSet(jobs) <=> \E j \in 1..Len(jobs) : x = jobs[j]
  BY <1>2 DEF ToSet
<1>5. ToSet(first \o rest) = ToSet(jobs)
  BY <1>1, <1>3, <1>4
<1> QED
  BY <1>3, <1>5, Zenon DEF Ordered, PrimingOrder, first, rest

\* So what a reading begins with asks everything of every page.
LEMMA ReadingAsksAll ==
  ASSUME NEW doc \in Contracts
  PROVE  Ordered(PlanCalls(doc)) \in Seq(JobsOver(doc)) /\ AsksAll(doc, ToSet(Ordered(PlanCalls(doc))))
<1> DEFINE jobs == PlanCalls(doc)
           J    == JobsOver(doc)
<1>1. jobs \in Seq(J) /\ AsksAll(doc, ToSet(jobs))
  BY PlanAsksAll
<1> HIDE DEF jobs, J
<1>2. Ordered(jobs) \in Seq(J) /\ ToSet(Ordered(jobs)) = ToSet(jobs)
  BY <1>1, OrderingKeepsTheJobs
<1>3. Ordered(jobs) \in Seq(J) /\ AsksAll(doc, ToSet(Ordered(jobs)))
  BY <1>1, <1>2
<1> QED
  BY <1>3 DEF jobs, J

-----------------------------------------------------------------------------
(* What is asked again.                                                    *)

\* A set of numbers holds its least one.
LEMMA LeastIsThere ==
  ASSUME NEW T, T \subseteq Nat, T # {}
  PROVE  Min(T) \in T
<1>1. PICK t \in T : \A u \in Nat : u < t => u \notin T
  BY FirstOne
<1>2. \A u \in T : t <= u
  BY <1>1
<1> QED
  BY <1>2 DEF Min

\* A set of positions holds its greatest one.
LEMMA GreatestIsThere ==
  ASSUME NEW n \in Nat, NEW T, T \subseteq 1..n, T # {}
  PROVE  Max(T) \in T
<1>1. PICK t \in T : \A u \in T : u <= t
  BY LastOne
<1>2. \A u \in T : t >= u
  BY <1>1
<1> QED
  BY <1>2 DEF Max

\* The two halves of a window hold its pages.
LEMMA HalvesHold ==
  ASSUME NEW A, NEW pages \in Seq(A)
  PROVE  /\ Halves(pages)[1] \in Seq(A) /\ Halves(pages)[2] \in Seq(A)
         /\ ToSet(pages) \subseteq ToSet(Halves(pages)[1]) \cup ToSet(Halves(pages)[2])
<1> DEFINE n     == Len(pages)
           half  == n \div 2
           front == SubSeq(pages, 1, half)
           back  == SubSeq(pages, half + 1, n)
<1>1. n \in Nat /\ DOMAIN pages = 1..n /\ \A i \in 1..n : pages[i] \in A
  BY LenProperties, ElementOfSeq
<1>2. half \in Int /\ half >= 0 /\ half <= n
  <2> HIDE DEF n
  <2> QED
    BY <1>1
<1>3. Halves(pages)[1] = front /\ Halves(pages)[2] = back
  BY DEF Halves
<1> HIDE DEF n, half
<1>4. front \in Seq(A) /\ Len(front) = half /\ \A i \in 1..half : front[i] = pages[i]
  <2>1. 1 \in Int /\ half - 1 + 1 = half /\ \A i \in 1..half : pages[i] \in A /\ 1 + i - 1 = i
    BY <1>1, <1>2
  <2>2. /\ front \in Seq(A)
        /\ Len(front) = IF 1 <= half THEN half - 1 + 1 ELSE 0
        /\ \A i \in 1..(half - 1 + 1) : front[i] = pages[1 + i - 1]
    BY <1>2, <2>1, SubSeqProperties
  <2> HIDE DEF front
  <2> QED
    BY <1>2, <2>1, <2>2
<1> DEFINE from == half + 1
           rest == n - half
<1>5. back \in Seq(A) /\ Len(back) = rest /\ \A i \in 1..rest : back[i] = pages[half + i]
  <2>1. /\ from \in Int /\ n \in Int /\ n - from + 1 = rest /\ rest \in Nat
        /\ \A i \in from..n : pages[i] \in A
        /\ \A i \in 1..rest : from + i - 1 = half + i
    BY <1>1, <1>2
  <2>2. back = SubSeq(pages, from, n)
    OBVIOUS
  <2>3. from <= n <=> 1 <= rest
    BY <1>1, <1>2
  <2> HIDE DEF from, rest, back
  <2>4. /\ back \in Seq(A)
        /\ Len(back) = IF from <= n THEN n - from + 1 ELSE 0
        /\ \A i \in 1..(n - from + 1) : back[i] = pages[from + i - 1]
    BY <2>1, <2>2, SubSeqProperties
  <2>5. Len(back) = rest
    BY <2>1, <2>3, <2>4
  <2> QED
    BY <2>1, <2>4, <2>5
<1> HIDE DEF front, back
<1>6. DOMAIN front = 1..half /\ DOMAIN back = 1..rest
  BY <1>4, <1>5, LenProperties
<1>7. ASSUME NEW p \in ToSet(pages) PROVE p \in ToSet(front) \/ p \in ToSet(back)
  <2>1. PICK i \in 1..n : p = pages[i]
    BY <1>1 DEF ToSet
  <2>2. CASE i <= half
    <3>1. i \in 1..half
      BY <1>1, <1>2, <2>2
    <3> QED
      BY <1>4, <1>6, <2>1, <3>1 DEF ToSet
  <2>3. CASE i > half
    <3> DEFINE j == i - half
    <3>1. j \in 1..rest /\ half + j = i
      BY <1>1, <1>2, <2>3
    <3> HIDE DEF j, rest
    <3>2. back[j] = p
      BY <1>5, <2>1, <3>1
    <3> QED
      BY <1>6, <3>1, <3>2 DEF ToSet
  <2> QED
    BY <1>1, <1>2, <2>2, <2>3
<1> QED
  BY <1>3, <1>4, <1>5, <1>7

\* The window a call was made over is one of the plan's.
LEMMA WindowIsPlanned ==
  ASSUME NEW J, plan \in Seq(J), NEW c, NEW k \in DOMAIN plan,
         plan[k].call = c.call, plan[k].index = c.index
  PROVE  \E j \in DOMAIN plan :
           plan[j].call = c.call /\ plan[j].index = c.index /\ WindowOf(c) = plan[j].pages
<1> DEFINE T == {j \in DOMAIN plan : plan[j].call = c.call /\ plan[j].index = c.index}
<1>1. T \subseteq Nat /\ T # {}
  <2>1. DOMAIN plan = 1..Len(plan)
    BY LenProperties
  <2> QED
    BY <2>1
<1>2. Min(T) \in T
  BY <1>1, LeastIsThere
<1>3. WindowOf(c) = plan[Min(T)].pages
  BY DEF WindowOf
<1> QED
  BY <1>2, <1>3

\* The calls made so far, each of a job of the plan.
CallsOver == [call : STRING, index : Nat, truncated : BOOLEAN, error : BOOLEAN]
CallsArePlanned ==
  /\ calls \in Seq(CallsOver) /\ Len(calls) <= Len(plan)
  /\ \A k \in 1..Len(calls) : calls[k].call = plan[k].call /\ calls[k].index = plan[k].index

\* The two calls over the halves of what one call was made over.
LEMMA RetriesOfOne ==
  ASSUME NEW doc, plan \in Seq(JobsOver(doc)), CallsArePlanned, NEW k \in 1..Len(calls)
  PROVE  /\ RetriesOf(calls[k]) \in Seq(JobsOver(doc))
         /\ \A x \in ToSet(RetriesOf(calls[k])) : x.index >= 1000 /\ x.call = calls[k].call
         /\ Len(WindowOf(calls[k])) > 1 =>
              \A p \in ToSet(WindowOf(calls[k])) : \E x \in ToSet(RetriesOf(calls[k])) : p \in ToSet(x.pages)
<1> DEFINE c    == calls[k]
           page == DOMAIN doc.pages
           J    == JobsOver(doc)
           w    == WindowOf(c)
           h    == Halves(w)
           again == [n \in 1..2 |-> [call |-> c.call, index |-> 1000 * (c.index + 1) + n - 1, pages |-> h[n]]]
<1>1. c \in CallsOver /\ Len(calls) \in Nat /\ Len(plan) \in Nat /\ DOMAIN plan = 1..Len(plan) /\ k \in DOMAIN plan
  BY LenProperties, ElementOfSeq DEF CallsArePlanned
<1>2. c.call \in STRING /\ c.index \in Nat
  BY <1>1 DEF CallsOver
<1>3. w \in Seq(page)
  <2>1. PICK j \in DOMAIN plan : w = plan[j].pages
    BY <1>1, WindowIsPlanned DEF CallsArePlanned
  <2>2. plan[j] \in J
    BY <1>1, <2>1, ElementOfSeq
  <2> QED
    BY <2>1, <2>2 DEF JobsOver
<1>4. RetriesOf(c) = IF Len(w) < 2 THEN <<>> ELSE again
  BY DEF RetriesOf
<1> HIDE DEF c, w, page
<1>5. Len(w) \in Nat
  BY <1>3, LenProperties
<1>6. h[1] \in Seq(page) /\ h[2] \in Seq(page) /\ ToSet(w) \subseteq ToSet(h[1]) \cup ToSet(h[2])
  BY <1>3, HalvesHold
<1> HIDE DEF h
<1>7. ASSUME NEW n \in 1..2
      PROVE  again[n] \in J /\ again[n].index >= 1000 /\ again[n].call = c.call /\ again[n].pages = h[n]
  <2> DEFINE i == 1000 * (c.index + 1) + n - 1
             T == Seq(page)
             v == h[n]
             s == c.call
  <2>1. i \in Nat /\ i >= 1000
    BY <1>2
  <2>2. v \in T /\ s \in STRING
    BY <1>2, <1>6
  <2>3. again[n] = [call |-> s, index |-> i, pages |-> v]
    OBVIOUS
  <2> HIDE DEF i, T, v, s, again
  <2>4. again[n] \in [call : STRING, index : Nat, pages : T]
    BY <2>1, <2>2, <2>3
  <2>5. again[n].index = i /\ again[n].call = s /\ again[n].pages = v
    BY <2>3
  <2> QED
    BY <2>1, <2>4, <2>5 DEF JobsOver, T, page, v, s
<1>8. again = [n \in 1..2 |-> again[n]]
  OBVIOUS
<1> HIDE DEF again
<1>9. CASE Len(w) < 2
  <2>1. RetriesOf(c) = <<>> /\ ~(Len(w) > 1)
    BY <1>4, <1>5, <1>9
  <2>2. ToSet(<<>>) = {} /\ <<>> \in Seq(J)
    BY DEF ToSet
  <2> QED
    BY <2>1, <2>2 DEF c, w
<1>10. CASE ~(Len(w) < 2)
  <2>1. RetriesOf(c) = again
    BY <1>4, <1>10
  <2>2. again \in Seq(J)
    <3> HIDE DEF J
    <3> QED
      BY <1>7, <1>8
  <2>3. DOMAIN again = 1..2
    BY <1>8
  <2>4. \A x : x \in ToSet(again) <=> \E n \in 1..2 : x = again[n]
    BY <2>3 DEF ToSet
  <2>5. ASSUME NEW p \in ToSet(w) PROVE \E x \in ToSet(again) : p \in ToSet(x.pages)
    <3>1. p \in ToSet(h[1]) \/ p \in ToSet(h[2])
      BY <1>6
    <3> QED
      BY <1>7, <2>4, <3>1
  <2>6. \A x \in ToSet(again) : x.index >= 1000 /\ x.call = c.call
    BY <1>7, <2>4
  <2> QED
    BY <2>1, <2>2, <2>5, <2>6 DEF c, w
<1> QED
  BY <1>9, <1>10

\* What is asked again: the categories asked before, over every page of a
\* window that can be split whose answer was cut off.
LEMMA RetriesHold ==
  ASSUME NEW doc, plan \in Seq(JobsOver(doc)), CallsArePlanned
  PROVE  /\ Retries \in Seq(JobsOver(doc))
         /\ \A x \in ToSet(Retries) : x.index >= 1000 /\ \E k \in 1..Len(calls) : x.call = calls[k].call
         /\ \A k \in 1..Len(calls) : calls[k].truncated /\ Len(WindowOf(calls[k])) > 1 =>
              \A p \in ToSet(WindowOf(calls[k])) :
                \E x \in ToSet(Retries) : x.call = calls[k].call /\ p \in ToSet(x.pages)
<1> DEFINE n    == Len(calls)
           J    == JobsOver(doc)
           each == [i \in DOMAIN calls |-> IF calls[i].truncated THEN RetriesOf(calls[i]) ELSE <<>>]
           rows == Seq(J)
<1>1. n \in Nat /\ DOMAIN calls = 1..n /\ \A i \in 1..n : calls[i] \in CallsOver
  BY LenProperties, ElementOfSeq DEF CallsArePlanned
<1>2. Retries = FlattenSeq(each)
  BY DEF Retries
<1>3. ASSUME NEW k \in 1..n
      PROVE  /\ each[k] \in Seq(J)
             /\ \A x \in ToSet(each[k]) : x.index >= 1000 /\ x.call = calls[k].call
             /\ calls[k].truncated => each[k] = RetriesOf(calls[k])
  <2>1. CASE calls[k].truncated
    <3>1. each[k] = RetriesOf(calls[k])
      BY <1>1, <2>1
    <3> QED
      BY <3>1, RetriesOfOne
  <2>2. CASE ~calls[k].truncated
    <3>1. each[k] = <<>>
      BY <1>1, <2>2
    <3>2. <<>> \in Seq(J) /\ ToSet(<<>>) = {}
      BY DEF ToSet
    <3> QED
      BY <2>2, <3>1, <3>2
  <2> QED
    BY <2>1, <2>2
<1>4. each = [k \in 1..n |-> each[k]]
  BY <1>1
<1> HIDE DEF each, J, n
<1>5. each \in Seq(rows) /\ Len(each) = n
  <2>1. \A k \in 1..n : each[k] \in rows
    BY <1>3
  <2> HIDE DEF rows
  <2> QED
    BY <1>1, <1>4, <2>1
<1>6. /\ FlattenSeq(each) \in Seq(J)
      /\ \A x : x \in ToSet(FlattenSeq(each)) <=> \E i \in 1..n : x \in ToSet(each[i])
  BY <1>1, <1>5, FlattenHolds
<1>7. ASSUME NEW x \in ToSet(Retries)
      PROVE  x.index >= 1000 /\ \E k \in 1..n : x.call = calls[k].call
  BY <1>2, <1>3, <1>6
<1>8. ASSUME NEW k \in 1..n, calls[k].truncated, Len(WindowOf(calls[k])) > 1, NEW p \in ToSet(WindowOf(calls[k]))
      PROVE  \E x \in ToSet(Retries) : x.call = calls[k].call /\ p \in ToSet(x.pages)
  <2>1. each[k] = RetriesOf(calls[k])
    BY <1>3, <1>8
  <2>2. PICK x \in ToSet(RetriesOf(calls[k])) : p \in ToSet(x.pages)
    BY <1>8, RetriesOfOne DEF n
  <2>3. x \in ToSet(Retries) /\ x.call = calls[k].call
    BY <1>2, <1>3, <1>6, <2>1, <2>2
  <2> QED
    BY <2>2, <2>3
<1> QED
  BY <1>2, <1>6, <1>7, <1>8 DEF J, n

-----------------------------------------------------------------------------
(* The inductive invariant of a reading.                                   *)

\* The plan asks everything, over windows of the document.
PlanIsWhole(doc) == plan \in Seq(JobsOver(doc)) /\ AsksAll(doc, ToSet(plan))

\* Each index the plan carries has a prefix, and each prefix is some job's.
PrefixesArePlanned ==
  /\ \A j \in DOMAIN plan : plan[j].index \in DOMAIN prefixes
  /\ \A i \in DOMAIN prefixes : \E j \in DOMAIN plan : plan[j].index = i /\ prefixes[i] = plan[j].pages

\* The records a term may give rise to, and the document's.
RecordsOf(t) == {Losing(t, parts) : parts \in SUBSET t.key}
RecordsIn(doc) == UNION {RecordsOf(t) : t \in doc.terms}

\* An answer: for some of the document's records, what was read of them.
AnswersOn(doc) == UNION {[S -> [bands : SUBSET DOMAIN doc.pages, detail : BOOLEAN]] : S \in SUBSET RecordsIn(doc)}

Bookkeeping(doc) ==
  /\ asked \in Nat /\ Len(calls) = asked /\ CallsArePlanned
  /\ found \in Seq(AnswersOn(doc)) /\ Len(found) = asked
  /\ retried \in BOOLEAN

\* The terms the pages of a job show.
SeenBy(doc, job) == {t \in doc.terms : t.call = job.call /\ SeenIn(t, ToSet(job.pages))}

\* The terms they show a part of, and the records those may give rise to.
InPart(doc, job) ==
  {t \in doc.terms : t.call = job.call /\ ~SeenIn(t, ToSet(job.pages)) /\ GlimpsedIn(t, ToSet(job.pages))}
GlimpsedBy(doc, job) == UNION {RecordsOf(t) : t \in InPart(doc, job)}

\* An answer holds what its pages show, or show a part of, and all they show
\* when the call came back whole.
AnswersAreReadings(doc) ==
  CutAlike => \A k \in 1..asked :
    /\ DOMAIN found[k] \subseteq SeenBy(doc, plan[k]) \cup GlimpsedBy(doc, plan[k])
    /\ k \notin Troubles => SeenBy(doc, plan[k]) \subseteq DOMAIN found[k]
    /\ \A t \in DOMAIN found[k] : found[k][t] = Reading(t, ToSet(plan[k].pages))

\* Once calls are made again, what is left to ask are halves, and the halves
\* hold every page of a window that was cut off.
RepairsArePlanned ==
  retried =>
    /\ \A k \in (asked + 1)..Len(plan) : plan[k].index >= 1000
    /\ CutAlike => \A k \in 1..asked :
         (calls[k].truncated /\ calls[k].index < 1000 /\ Len(plan[k].pages) > 1) =>
           \A p \in ToSet(plan[k].pages) : \E h \in DOMAIN plan :
             plan[h].call = plan[k].call /\ plan[h].index >= 1000 /\ p \in ToSet(plan[h].pages)

\* A reading is made once, of all the answers.
MadeOfTheAnswers ==
  extraction # {} => retried /\ asked = Len(plan) /\ extraction = {MergeRecords(found)}

Under(doc) ==
  /\ contract = {doc}
  /\ PlanIsWhole(doc) /\ PrefixesArePlanned /\ Bookkeeping(doc)
  /\ AnswersAreReadings(doc) /\ RepairsArePlanned /\ MadeOfTheAnswers

RInv == ReadingInit \/ \E doc \in Contracts : Under(doc)

-----------------------------------------------------------------------------
(* Its steps.                                                              *)

\* What a line of a document is made of.
LEMMA LineOf ==
  ASSUME NEW doc \in Contracts, NEW t \in doc.terms
  PROVE  /\ t \in ClausesOf(doc) /\ t.lost = {}
         /\ t.needs \subseteq DOMAIN doc.pages /\ t.bands \subseteq DOMAIN doc.pages
<1>1. t \in ClausesOf(doc)
  BY ContractsAssumption
<1> QED
  BY <1>1 DEF ClausesOf

\* A record of another loss differs in the loss alone.
LEMMA LosingIs ==
  ASSUME NEW c, NEW g, NEW r, NEW n, NEW b, NEW d, NEW k, NEW l, NEW parts
  PROVE  Losing([call |-> c, program |-> g, priced |-> r, needs |-> n,
                 bands |-> b, detail |-> d, key |-> k, lost |-> l], parts) =
           [call |-> c, program |-> g, priced |-> r, needs |-> n,
            bands |-> b, detail |-> d, key |-> k, lost |-> parts]
BY DEF Losing

\* A record that misses parts of a line says the rest of it, and leads back to it.
LEMMA RecordIs ==
  ASSUME NEW doc \in Contracts, NEW t \in doc.terms, NEW parts
  PROVE  /\ Whence(Losing(t, parts)) = t /\ Losing(t, parts).lost = parts
         /\ Losing(t, parts).call = t.call /\ Losing(t, parts).program = t.program
         /\ Losing(t, parts).priced = t.priced /\ Losing(t, parts).key = t.key
         /\ Losing(t, {}) = t
<1>1. t \in ClausesOf(doc)
  BY LineOf
<1>2. PICK c \in STRING, g \in STRING, r \in BOOLEAN, n \in SUBSET DOMAIN doc.pages,
           b \in SUBSET DOMAIN doc.pages, d \in Nat, k \in SUBSET {"amount", "frequency", "section"} :
        t = [call |-> c, program |-> g, priced |-> r, needs |-> n,
             bands |-> b, detail |-> d, key |-> k, lost |-> {}]
  BY <1>1 DEF ClausesOf
<1> DEFINE Of(l) == [call |-> c, program |-> g, priced |-> r, needs |-> n,
                     bands |-> b, detail |-> d, key |-> k, lost |-> l]
<1>3. \A l, m : Losing(Of(l), m) = Of(m)
  BY LosingIs
<1>4. /\ Of(parts).lost = parts /\ Of(parts).call = t.call /\ Of(parts).program = t.program
      /\ Of(parts).priced = t.priced /\ Of(parts).key = t.key
  BY <1>2
<1>5. t = Of({})
  BY <1>2
<1> HIDE DEF Of
<1>6. Losing(t, parts) = Of(parts) /\ Losing(t, {}) = t /\ Losing(Losing(t, parts), {}) = t
  BY <1>3, <1>5
<1> QED
  BY <1>4, <1>6 DEF Whence

\* A record of a document, and the line of it that the record is of.
IsOf(x, t) ==
  /\ Whence(x) = t /\ x.call = t.call /\ x.program = t.program /\ x.priced = t.priced
  /\ x.lost \subseteq x.key /\ (x.lost = {} => x = t)

\* A record is of the line it was read from.
LEMMA RecordIsOf ==
  ASSUME NEW doc \in Contracts, NEW t \in doc.terms, NEW x \in RecordsOf(t)
  PROVE  IsOf(x, t)
<1>1. PICK parts \in SUBSET t.key : x = Losing(t, parts)
  BY DEF RecordsOf
<1>2. /\ Whence(x) = t /\ x.lost = parts /\ x.call = t.call /\ x.program = t.program
      /\ x.priced = t.priced /\ x.key = t.key
  BY <1>1, RecordIs
<1>3. parts = {} => x = t
  BY <1>1, RecordIs
<1> QED
  BY <1>2, <1>3 DEF IsOf

\* A line is a record of itself, with nothing lost.
LEMMA LineIsOf ==
  ASSUME NEW doc \in Contracts, NEW t \in doc.terms
  PROVE  t \in RecordsOf(t) /\ t \in RecordsIn(doc) /\ IsOf(t, t)
<1>1. t = Losing(t, {})
  BY RecordIs
<1>2. t \in RecordsOf(t)
  BY <1>1 DEF RecordsOf
<1> QED
  BY <1>2, RecordIsOf DEF RecordsIn

\* The document being read.
LEMMA DocIs ==
  ASSUME NEW doc, contract = {doc}
  PROVE  Doc = doc
BY DEF Doc

\* A prefix is the pages of a job that carries its index, or was there before.
LEMMA PrefixesHold ==
  ASSUME NEW A, NEW jobs \in Seq(A), NEW known
  PROVE  /\ DOMAIN PrefixesOf(jobs, known) = DOMAIN known \cup Indices(jobs)
         /\ \A i \in DOMAIN PrefixesOf(jobs, known) :
              \/ \E j \in DOMAIN jobs : jobs[j].index = i /\ PrefixesOf(jobs, known)[i] = jobs[j].pages
              \/ i \in DOMAIN known /\ PrefixesOf(jobs, known)[i] = known[i]
<1> DEFINE Carriers(i) == {j \in DOMAIN jobs : jobs[j].index = i}
           p == [i \in DOMAIN known \cup Indices(jobs) |->
                   IF Carriers(i) = {} THEN known[i] ELSE jobs[Max(Carriers(i))].pages]
<1>1. PrefixesOf(jobs, known) = p
  BY DEF PrefixesOf
<1>2. Len(jobs) \in Nat /\ DOMAIN jobs = 1..Len(jobs)
  BY LenProperties
<1>3. ASSUME NEW i \in DOMAIN known \cup Indices(jobs)
      PROVE  \/ \E j \in DOMAIN jobs : jobs[j].index = i /\ p[i] = jobs[j].pages
             \/ i \in DOMAIN known /\ p[i] = known[i]
  <2>1. CASE Carriers(i) = {}
    <3>1. i \notin Indices(jobs)
      BY <2>1 DEF Indices
    <3> QED
      BY <2>1, <3>1
  <2>2. CASE Carriers(i) # {}
    <3>1. p[i] = jobs[Max(Carriers(i))].pages
      BY <2>2
    <3>2. Max(Carriers(i)) \in Carriers(i)
      BY <1>2, <2>2, GreatestIsThere
    <3> QED
      BY <3>1, <3>2
  <2> QED
    BY <2>1, <2>2
<1> QED
  BY <1>1, <1>3

\* A reading begins with a plan that asks everything.
LEMMA BeginStep ==
  ASSUME ReadingInit, NEW doc \in Contracts, BeginReading(doc)
  PROVE  Under(doc)'
<1> DEFINE jobs == Ordered(PlanCalls(doc))
<1>1. /\ contract' = {doc} /\ plan' = jobs /\ prefixes' = PrefixesOf(plan', NoPrefixes)
      /\ asked' = 0 /\ calls' = <<>> /\ found' = <<>> /\ retried' = FALSE /\ extraction' = {}
  BY DEF ReadingInit, BeginReading
<1>2. plan' \in Seq(JobsOver(doc)) /\ AsksAll(doc, ToSet(plan'))
  BY <1>1, ReadingAsksAll
<1> HIDE DEF jobs
<1>3. PlanIsWhole(doc)'
  BY <1>2 DEF PlanIsWhole
<1>4. PrefixesArePlanned'
  <2> DEFINE p == PrefixesOf(plan', NoPrefixes)
  <2>1. DOMAIN NoPrefixes = {}
    BY DEF NoPrefixes
  <2>2. /\ DOMAIN p = DOMAIN NoPrefixes \cup Indices(plan')
        /\ \A i \in DOMAIN p :
             \/ \E j \in DOMAIN plan' : plan'[j].index = i /\ p[i] = plan'[j].pages
             \/ i \in DOMAIN NoPrefixes /\ p[i] = NoPrefixes[i]
    <3> DEFINE J == JobsOver(doc)
    <3>1. PICK js : js = plan'
      OBVIOUS
    <3>2. js \in Seq(J)
      BY <1>2, <3>1
    <3> HIDE DEF J
    <3> DEFINE Fine(known, f) ==
                 /\ DOMAIN f = DOMAIN known \cup Indices(js)
                 /\ \A i \in DOMAIN f :
                      \/ \E j \in DOMAIN js : js[j].index = i /\ f[i] = js[j].pages
                      \/ i \in DOMAIN known /\ f[i] = known[i]
    <3>3. \A known : Fine(known, PrefixesOf(js, known))
      BY <3>2, PrefixesHold
    <3>4. Fine(NoPrefixes, PrefixesOf(js, NoPrefixes))
      BY <3>3
    <3> QED
      BY <3>1, <3>4
  <2>3. prefixes' = p
    BY <1>1
  <2> HIDE DEF p
  <2>4. \A j \in DOMAIN plan' : plan'[j].index \in Indices(plan')
    BY DEF Indices
  <2> QED
    BY <2>1, <2>2, <2>3, <2>4 DEF PrefixesArePlanned
<1>5. Len(plan') \in Nat
  BY <1>2, LenProperties
<1>6. Bookkeeping(doc)'
  <2>1. CallsArePlanned'
    BY <1>1, <1>5 DEF CallsArePlanned
  <2>2. found' \in Seq(AnswersOn(doc)) /\ Len(found') = 0 /\ Len(calls') = 0
    BY <1>1
  <2> QED
    BY <1>1, <2>1, <2>2 DEF Bookkeeping
<1>7. AnswersAreReadings(doc)' /\ RepairsArePlanned' /\ MadeOfTheAnswers'
  BY <1>1 DEF AnswersAreReadings, RepairsArePlanned, MadeOfTheAnswers
<1> QED
  BY <1>1, <1>3, <1>4, <1>6, <1>7 DEF Under

\* One call's answer is what its pages show.
LEMMA CallStep ==
  ASSUME NEW doc \in Contracts, Under(doc),
         NEW outcome \in {"whole", "cut", "overflow", "failed"}, NEW kept, RunCall(outcome, kept)
  PROVE  Under(doc)'
<1> DEFINE k     == asked + 1
           job   == plan[k]
           shown == prefixes[job.index]
           call  == [call |-> job.call, index |-> job.index,
                     truncated |-> outcome \in {"cut", "overflow"},
                     error |-> outcome \in {"overflow", "failed"}]
           ans   == [t \in kept |-> Reading(t, ToSet(shown))]
           Jobs  == JobsOver(doc)
           Ans   == AnswersOn(doc)
<1>1. /\ asked < Len(plan)
      /\ kept \subseteq Visible(job) \cup Partial(job) /\ (outcome = "whole" => Visible(job) \subseteq kept)
      /\ calls' = Append(calls, call) /\ found' = Append(found, ans) /\ asked' = k
      /\ UNCHANGED <<contract, plan, prefixes, retried, extraction>>
  BY DEF RunCall
<1>2. /\ contract = {doc} /\ plan \in Seq(Jobs) /\ asked \in Nat /\ Len(calls) = asked /\ Len(found) = asked
      /\ calls \in Seq(CallsOver) /\ found \in Seq(Ans) /\ retried \in BOOLEAN
  BY DEF Under, PlanIsWhole, Bookkeeping, CallsArePlanned
<1>3. Doc = doc
  BY <1>2, DocIs
<1> HIDE DEF Jobs, Ans
<1>4. /\ Len(plan) \in Nat /\ k \in 1..Len(plan) /\ DOMAIN plan = 1..Len(plan) /\ job \in Jobs
      /\ k \in Nat /\ k >= 1 /\ 1..k = (1..asked) \cup {k} /\ k \notin 1..asked
  BY <1>1, <1>2, LenProperties, ElementOfSeq
<1>5. job.call \in STRING /\ job.index \in Nat
  BY <1>4 DEF Jobs, JobsOver
<1>6. PICK j \in DOMAIN plan : plan[j].index = job.index /\ shown = plan[j].pages
  <2>1. job.index \in DOMAIN prefixes
    BY <1>4 DEF Under, PrefixesArePlanned
  <2> QED
    BY <2>1 DEF Under, PrefixesArePlanned
<1>7. shown \in Seq(DOMAIN doc.pages)
  <2>1. plan[j] \in Jobs
    BY <1>2, <1>4, <1>6, ElementOfSeq
  <2> QED
    BY <1>6, <2>1 DEF Jobs, JobsOver
<1> DEFINE glimpsed ==
             {t \in doc.terms : t.call = job.call /\ ~SeenIn(t, ToSet(shown)) /\ GlimpsedIn(t, ToSet(shown))}
<1>8. /\ Visible(job) = {t \in doc.terms : t.call = job.call /\ SeenIn(t, ToSet(shown))}
      /\ Partial(job) = UNION {RecordsOf(t) : t \in glimpsed}
  BY <1>3, Zenon DEF Visible, Partial, RecordsOf
<1> HIDE DEF k, job, shown
<1>9. call \in CallsOver /\ call.call = job.call /\ call.index = job.index
      /\ (~call.truncated /\ ~call.error => outcome = "whole")
  <2>1. call.call = job.call /\ call.index = job.index
    OBVIOUS
  <2>2. call \in CallsOver
    <3> DEFINE c == job.call
               i == job.index
               t == outcome \in {"cut", "overflow"}
               e == outcome \in {"overflow", "failed"}
    <3>1. c \in STRING /\ i \in Nat /\ t \in BOOLEAN /\ e \in BOOLEAN
      BY <1>5
    <3>2. call = [call |-> c, index |-> i, truncated |-> t, error |-> e]
      OBVIOUS
    <3> HIDE DEF c, i, t, e, call
    <3> QED
      BY <3>1, <3>2 DEF CallsOver
  <2>3. ~call.truncated /\ ~call.error => outcome = "whole"
    OBVIOUS
  <2> QED
    BY <2>1, <2>2, <2>3
<1>10. ans \in Ans /\ DOMAIN ans = kept /\ \A t \in kept : ans[t] = Reading(t, ToSet(shown))
  <2> DEFINE R == [bands : SUBSET DOMAIN doc.pages, detail : BOOLEAN]
  <2>1. kept \in SUBSET RecordsIn(doc)
    <3>1. Visible(job) \subseteq RecordsIn(doc)
      BY <1>8, LineIsOf
    <3>2. Partial(job) \subseteq RecordsIn(doc)
      BY <1>8 DEF RecordsIn
    <3> QED
      BY <1>1, <3>1, <3>2
  <2>2. ToSet(shown) \subseteq DOMAIN doc.pages
    <3> DEFINE P == DOMAIN doc.pages
    <3>1. shown \in Seq(P)
      BY <1>7
    <3> HIDE DEF P
    <3>2. DOMAIN shown = 1..Len(shown) /\ \A i \in 1..Len(shown) : shown[i] \in P
      BY <3>1, LenProperties, ElementOfSeq
    <3>3. ToSet(shown) \subseteq P
      BY <3>2 DEF ToSet
    <3> QED
      BY <3>3 DEF P
  <2>3. \A t : Reading(t, ToSet(shown)) \in R
    BY <2>2 DEF Reading
  <2> HIDE DEF R
  <2>4. ans \in [kept -> R]
    BY <2>3
  <2> QED
    BY <2>1, <2>4 DEF Ans, AnswersOn, R
<1> HIDE DEF call, ans
<1>11. /\ calls' \in Seq(CallsOver) /\ Len(calls') = k
       /\ \A i \in 1..asked : calls'[i] = calls[i]
       /\ calls'[k] = call
  <2>1. /\ calls' \in Seq(CallsOver) /\ Len(calls') = Len(calls) + 1
        /\ \A i \in 1..Len(calls) : calls'[i] = calls[i]
        /\ calls'[Len(calls) + 1] = call
    BY <1>1, <1>2, <1>9, GrownAtTheEnd
  <2> QED
    BY <1>2, <2>1 DEF k
<1>12. /\ found' \in Seq(Ans) /\ Len(found') = k
       /\ \A i \in 1..asked : found'[i] = found[i]
       /\ found'[k] = ans
  <2>1. /\ found' \in Seq(Ans) /\ Len(found') = Len(found) + 1
        /\ \A i \in 1..Len(found) : found'[i] = found[i]
        /\ found'[Len(found) + 1] = ans
    BY <1>1, <1>2, <1>10, GrownAtTheEnd
  <2> QED
    BY <1>2, <2>1 DEF k
<1>13. DOMAIN calls = 1..asked /\ DOMAIN calls' = 1..k
  BY <1>2, <1>11, LenProperties
<1>14. CallsArePlanned'
  <2>1. \A i \in 1..k : calls'[i].call = plan[i].call /\ calls'[i].index = plan[i].index
    <3> SUFFICES ASSUME NEW i \in 1..k
                 PROVE  calls'[i].call = plan[i].call /\ calls'[i].index = plan[i].index
      OBVIOUS
    <3>1. CASE i = k
      BY <1>9, <1>11, <3>1 DEF job
    <3>2. CASE i \in 1..asked
      BY <1>2, <1>11, <3>2 DEF Under, Bookkeeping, CallsArePlanned
    <3> QED
      BY <1>4, <3>1, <3>2
  <2> QED
    BY <1>1, <1>4, <1>11, <2>1 DEF CallsArePlanned
<1>15. Bookkeeping(doc)'
  BY <1>1, <1>2, <1>4, <1>11, <1>12, <1>14 DEF Bookkeeping, Ans
<1>16. AnswersAreReadings(doc)'
  <2> SUFFICES ASSUME CutAlike', NEW i \in 1..k
               PROVE  /\ DOMAIN found'[i] \subseteq SeenBy(doc, plan[i]) \cup GlimpsedBy(doc, plan[i])
                      /\ i \notin Troubles' => SeenBy(doc, plan[i]) \subseteq DOMAIN found'[i]
                      /\ \A t \in DOMAIN found'[i] : found'[i][t] = Reading(t, ToSet(plan[i].pages))
    BY <1>1 DEF AnswersAreReadings
  <2>1. CutAlike
    BY <1>1 DEF CutAlike
  <2>2. CASE i = k
    <3>1. shown = plan[k].pages
      BY <1>4, <1>6, <2>1 DEF CutAlike, job
    <3>2. Visible(job) = SeenBy(doc, plan[k]) /\ Partial(job) = GlimpsedBy(doc, plan[k])
      BY <1>8, <3>1 DEF SeenBy, GlimpsedBy, InPart, job
    <3>3. k \notin Troubles' => ~call.truncated /\ ~call.error
      BY <1>4, <1>11, <1>13 DEF Troubles
    <3> QED
      BY <1>1, <1>9, <1>10, <1>12, <2>2, <3>1, <3>2, <3>3
  <2>3. CASE i \in 1..asked
    <3>1. i \in 1..k /\ found'[i] = found[i] /\ calls'[i] = calls[i]
      BY <1>4, <1>11, <1>12, <2>3
    <3>2. i \notin Troubles' => i \notin Troubles
      BY <1>13, <2>3, <3>1 DEF Troubles
    <3>3. /\ DOMAIN found[i] \subseteq SeenBy(doc, plan[i]) \cup GlimpsedBy(doc, plan[i])
          /\ i \notin Troubles => SeenBy(doc, plan[i]) \subseteq DOMAIN found[i]
          /\ \A t \in DOMAIN found[i] : found[i][t] = Reading(t, ToSet(plan[i].pages))
      BY <2>1, <2>3 DEF Under, AnswersAreReadings
    <3> QED
      BY <3>1, <3>2, <3>3
  <2> QED
    BY <1>4, <2>2, <2>3
<1>17. RepairsArePlanned'
  <2> SUFFICES ASSUME retried'
               PROVE  /\ \A i \in (asked' + 1)..Len(plan') : plan'[i].index >= 1000
                      /\ CutAlike' => \A i \in 1..asked' :
                           (calls'[i].truncated /\ calls'[i].index < 1000 /\ Len(plan'[i].pages) > 1) =>
                             \A p \in ToSet(plan'[i].pages) : \E h \in DOMAIN plan' :
                               plan'[h].call = plan'[i].call /\ plan'[h].index >= 1000 /\ p \in ToSet(plan'[h].pages)
    BY DEF RepairsArePlanned
  <2>1. retried /\ \A i \in (asked + 1)..Len(plan) : plan[i].index >= 1000
    BY <1>1 DEF Under, RepairsArePlanned
  <2>2. \A i \in (k + 1)..Len(plan) : i \in (asked + 1)..Len(plan)
    BY <1>2, <1>4 DEF k
  <2>3. k \in (asked + 1)..Len(plan)
    BY <1>4 DEF k
  <2>4. ~(calls'[k].index < 1000)
    BY <1>5, <1>9, <1>11, <2>1, <2>3 DEF job
  <2>5. ASSUME CutAlike, NEW i \in 1..k, calls'[i].truncated, calls'[i].index < 1000, Len(plan[i].pages) > 1
        PROVE  \A p \in ToSet(plan[i].pages) : \E h \in DOMAIN plan :
                 plan[h].call = plan[i].call /\ plan[h].index >= 1000 /\ p \in ToSet(plan[h].pages)
    <3>1. i \in 1..asked
      BY <1>4, <2>4, <2>5
    <3>2. calls'[i] = calls[i]
      BY <1>11, <3>1
    <3> QED
      BY <2>1, <2>5, <3>1, <3>2 DEF Under, RepairsArePlanned
  <2>6. CutAlike' => CutAlike
    BY <1>1 DEF CutAlike
  <2>7. plan' = plan /\ asked' = k
    BY <1>1
  <2>8. \A i \in (k + 1)..Len(plan) : plan[i].index >= 1000
    BY <2>1, <2>2
  <2>9. ASSUME CutAlike', NEW i \in 1..k
        PROVE  (calls'[i].truncated /\ calls'[i].index < 1000 /\ Len(plan[i].pages) > 1) =>
                 \A p \in ToSet(plan[i].pages) : \E h \in DOMAIN plan :
                   plan[h].call = plan[i].call /\ plan[h].index >= 1000 /\ p \in ToSet(plan[h].pages)
    BY <2>5, <2>6, <2>9
  <2>10. \A i \in (asked' + 1)..Len(plan') : plan'[i].index >= 1000
    BY <2>7, <2>8
  <2>11. ASSUME CutAlike', NEW i \in 1..asked'
         PROVE  (calls'[i].truncated /\ calls'[i].index < 1000 /\ Len(plan'[i].pages) > 1) =>
                  \A p \in ToSet(plan'[i].pages) : \E h \in DOMAIN plan' :
                    plan'[h].call = plan'[i].call /\ plan'[h].index >= 1000 /\ p \in ToSet(plan'[h].pages)
    <3>1. i \in 1..k
      BY <2>7, <2>11
    <3> QED
      BY <2>7, <2>9, <2>11, <3>1
  <2> QED
    BY <2>10, <2>11
<1>18. MadeOfTheAnswers'
  BY <1>1, <1>2, <1>4 DEF Under, MadeOfTheAnswers
<1>19. PlanIsWhole(doc)' /\ PrefixesArePlanned'
  BY <1>1 DEF Under, PlanIsWhole, PrefixesArePlanned
<1> QED
  BY <1>1, <1>2, <1>15, <1>16, <1>17, <1>18, <1>19 DEF Under

\* What was cut off is asked again over windows that are in the plan.
LEMMA RetryStep ==
  ASSUME NEW doc \in Contracts, Under(doc), Retry
  PROVE  Under(doc)'
<1> DEFINE n    == Len(plan)
           R    == Retries
           m    == Len(R)
           Jobs == JobsOver(doc)
<1>1. /\ asked = n /\ ~retried /\ retried' = TRUE /\ plan' = plan \o R /\ prefixes' = PrefixesOf(R, prefixes)
      /\ UNCHANGED <<contract, asked, calls, found, extraction>>
  BY DEF Retry
<1>2. /\ contract = {doc} /\ plan \in Seq(Jobs) /\ AsksAll(doc, ToSet(plan))
      /\ Len(calls) = n /\ Len(found) = n /\ calls \in Seq(CallsOver) /\ CallsArePlanned
  BY <1>1 DEF Under, PlanIsWhole, Bookkeeping, CallsArePlanned
<1>3. n \in Nat /\ DOMAIN plan = 1..n /\ DOMAIN calls = 1..n /\ (\A i \in 1..n : plan[i] \in Jobs)
      /\ \A i \in 1..n : plan[i] \in ToSet(plan)
  <2>1. n \in Nat /\ DOMAIN plan = 1..n /\ DOMAIN calls = 1..n /\ \A i \in 1..n : plan[i] \in Jobs
    BY <1>2, LenProperties, ElementOfSeq
  <2> QED
    BY <2>1 DEF ToSet
<1>4. /\ R \in Seq(Jobs)
      /\ \A x \in ToSet(R) : x.index >= 1000 /\ \E k \in 1..n : x.call = calls[k].call
      /\ \A k \in 1..n : calls[k].truncated /\ Len(WindowOf(calls[k])) > 1 =>
           \A p \in ToSet(WindowOf(calls[k])) :
             \E x \in ToSet(R) : x.call = calls[k].call /\ p \in ToSet(x.pages)
  <2>1. /\ R \in Seq(Jobs)
        /\ \A x \in ToSet(R) : x.index >= 1000 /\ \E k \in 1..Len(calls) : x.call = calls[k].call
        /\ \A k \in 1..Len(calls) : calls[k].truncated /\ Len(WindowOf(calls[k])) > 1 =>
             \A p \in ToSet(WindowOf(calls[k])) :
               \E x \in ToSet(R) : x.call = calls[k].call /\ p \in ToSet(x.pages)
    BY <1>2, RetriesHold
  <2> HIDE DEF Jobs, R, n
  <2> QED
    BY <1>2, <2>1
<1> HIDE DEF Jobs, R, n
<1>5. m \in Nat /\ DOMAIN R = 1..m
  BY <1>4, LenProperties
<1> HIDE DEF m
<1>6. /\ plan' \in Seq(Jobs) /\ Len(plan') = n + m /\ ToSet(plan') = ToSet(plan) \cup ToSet(R)
      /\ \A i \in 1..n : plan'[i] = plan[i]
      /\ \A i \in 1..(n + m) : i > n => plan'[i] = R[i - n]
      /\ DOMAIN plan' = 1..(n + m)
  <2> DEFINE c == plan \o R
  <2>1. /\ c \in Seq(Jobs) /\ Len(c) = Len(plan) + Len(R) /\ ToSet(c) = ToSet(plan) \cup ToSet(R)
    BY <1>2, <1>4, PutTogether
  <2>2. \A i \in 1..(Len(plan) + Len(R)) : c[i] = IF i <= Len(plan) THEN plan[i] ELSE R[i - Len(plan)]
    BY <1>2, <1>4, ConcatProperties
  <2>3. DOMAIN c = 1..Len(c)
    BY <2>1, LenProperties
  <2>4. plan' = c /\ Len(plan) = n /\ Len(R) = m
    BY <1>1 DEF n, m
  <2> HIDE DEF c
  <2>5. \A i \in 1..n : i \in 1..(n + m) /\ i <= n
    BY <1>3, <1>5
  <2>6. \A i \in 1..(n + m) : i > n => ~(i <= n)
    BY <1>3, <1>5
  <2>7. \A i \in 1..n : plan'[i] = plan[i]
    BY <2>2, <2>4, <2>5
  <2>8. \A i \in 1..(n + m) : i > n => plan'[i] = R[i - n]
    BY <2>2, <2>4, <2>6
  <2> QED
    BY <2>1, <2>3, <2>4, <2>7, <2>8
<1>7. \A i \in 1..(n + m) : i > n => plan'[i] \in ToSet(R)
  <2> SUFFICES ASSUME NEW i \in 1..(n + m), i > n PROVE plan'[i] \in ToSet(R)
    OBVIOUS
  <2>1. i - n \in 1..m
    BY <1>3, <1>5
  <2> QED
    BY <1>5, <1>6, <2>1 DEF ToSet
<1>8. \A x \in ToSet(R) : \E h \in DOMAIN plan' : plan'[h] = x
  <2> SUFFICES ASSUME NEW x \in ToSet(R) PROVE \E h \in DOMAIN plan' : plan'[h] = x
    OBVIOUS
  <2>1. x \in ToSet(plan')
    BY <1>6
  <2> QED
    BY <2>1 DEF ToSet
<1>9. PlanIsWhole(doc)'
  <2>1. ASSUME NEW x \in ToSet(plan') PROVE \E i \in DOMAIN doc.asked : x.call = doc.asked[i].call
    <3>1. CASE x \in ToSet(plan)
      BY <1>2, <3>1 DEF AsksAll
    <3>2. CASE x \in ToSet(R)
      <4>1. PICK k \in 1..n : x.call = calls[k].call
        BY <1>4, <3>2
      <4>2. x.call = plan[k].call /\ plan[k] \in ToSet(plan)
        BY <1>2, <1>3, <4>1 DEF CallsArePlanned
      <4> QED
        BY <1>2, <4>2 DEF AsksAll
    <3> QED
      BY <1>6, <3>1, <3>2
  <2>2. AsksAll(doc, ToSet(plan'))
    BY <1>2, <1>6, <2>1 DEF AsksAll
  <2> QED
    BY <1>6, <2>2 DEF PlanIsWhole, Jobs
<1>10. PrefixesArePlanned'
  <2> DEFINE Fine(known, f) ==
               /\ DOMAIN f = DOMAIN known \cup Indices(R)
               /\ \A i \in DOMAIN f :
                    \/ \E j \in DOMAIN R : R[j].index = i /\ f[i] = R[j].pages
                    \/ i \in DOMAIN known /\ f[i] = known[i]
  <2>1. \A known : Fine(known, PrefixesOf(R, known))
    <3>1. PICK jobs : jobs = R
      OBVIOUS
    <3>2. jobs \in Seq(Jobs)
      BY <1>4, <3>1
    <3> DEFINE Holds(known, f) ==
                 /\ DOMAIN f = DOMAIN known \cup Indices(jobs)
                 /\ \A i \in DOMAIN f :
                      \/ \E j \in DOMAIN jobs : jobs[j].index = i /\ f[i] = jobs[j].pages
                      \/ i \in DOMAIN known /\ f[i] = known[i]
    <3>3. \A known : Holds(known, PrefixesOf(jobs, known))
      BY <3>2, PrefixesHold
    <3> QED
      BY <3>1, <3>3
  <2>2. Fine(prefixes, prefixes')
    <3>1. Fine(prefixes, PrefixesOf(R, prefixes))
      BY <2>1
    <3> QED
      BY <1>1, <3>1
  <2>3. ASSUME NEW j \in DOMAIN plan' PROVE plan'[j].index \in DOMAIN prefixes'
    <3>1. CASE j \in 1..n
      <4>1. plan[j].index \in DOMAIN prefixes
        BY <1>3, <3>1 DEF Under, PrefixesArePlanned
      <4> QED
        BY <1>6, <2>2, <3>1, <4>1
    <3>2. CASE j \notin 1..n
      <4>1. j \in 1..(n + m) /\ j > n
        BY <1>3, <1>5, <1>6, <3>2
      <4>2. plan'[j] \in ToSet(R)
        BY <1>7, <4>1
      <4>3. plan'[j].index \in Indices(R)
        BY <4>2 DEF ToSet, Indices
      <4> QED
        BY <2>2, <4>3
    <3> QED
      BY <3>1, <3>2
  <2>4. ASSUME NEW i \in DOMAIN prefixes'
        PROVE  \E j \in DOMAIN plan' : plan'[j].index = i /\ prefixes'[i] = plan'[j].pages
    <3>1. CASE \E j \in DOMAIN R : R[j].index = i /\ prefixes'[i] = R[j].pages
      <4>1. PICK j \in DOMAIN R : R[j].index = i /\ prefixes'[i] = R[j].pages
        BY <3>1
      <4>2. R[j] \in ToSet(R)
        BY DEF ToSet
      <4> QED
        BY <1>8, <4>1, <4>2
    <3>2. CASE i \in DOMAIN prefixes /\ prefixes'[i] = prefixes[i]
      <4>1. PICK j \in 1..n : plan[j].index = i /\ prefixes[i] = plan[j].pages
        BY <1>3, <3>2 DEF Under, PrefixesArePlanned
      <4>2. j \in DOMAIN plan' /\ plan'[j] = plan[j]
        BY <1>3, <1>5, <1>6
      <4> QED
        BY <3>2, <4>1, <4>2
    <3> QED
      BY <2>2, <3>1, <3>2
  <2> QED
    BY <2>3, <2>4 DEF PrefixesArePlanned
<1>11. n <= n + m /\ \A k \in 1..n : k \in DOMAIN plan'
  BY <1>3, <1>5, <1>6
<1>12. Bookkeeping(doc)'
  <2>1. CallsArePlanned'
    BY <1>1, <1>2, <1>6, <1>11 DEF CallsArePlanned
  <2> QED
    BY <1>1, <2>1 DEF Under, Bookkeeping
<1>13. CutAlike' => CutAlike
  BY <1>3, <1>6, <1>11 DEF CutAlike
<1>14. AnswersAreReadings(doc)'
  <2> SUFFICES ASSUME CutAlike', NEW k \in 1..asked'
               PROVE  /\ DOMAIN found'[k] \subseteq SeenBy(doc, plan'[k]) \cup GlimpsedBy(doc, plan'[k])
                      /\ k \notin Troubles' => SeenBy(doc, plan'[k]) \subseteq DOMAIN found'[k]
                      /\ \A t \in DOMAIN found'[k] : found'[k][t] = Reading(t, ToSet(plan'[k].pages))
    BY DEF AnswersAreReadings
  <2>1. k \in 1..asked /\ k \in 1..n
    BY <1>1
  <2>2. plan'[k] = plan[k] /\ found' = found /\ Troubles' = Troubles
    BY <1>1, <1>6, <2>1 DEF Troubles
  <2>3. /\ DOMAIN found[k] \subseteq SeenBy(doc, plan[k]) \cup GlimpsedBy(doc, plan[k])
        /\ k \notin Troubles => SeenBy(doc, plan[k]) \subseteq DOMAIN found[k]
        /\ \A t \in DOMAIN found[k] : found[k][t] = Reading(t, ToSet(plan[k].pages))
    BY <1>13, <2>1 DEF Under, AnswersAreReadings
  <2> QED
    BY <2>2, <2>3
<1>15. RepairsArePlanned'
  <2>1. ASSUME NEW i \in (asked' + 1)..Len(plan') PROVE plan'[i].index >= 1000
    <3>1. i \in 1..(n + m) /\ i > n
      BY <1>1, <1>3, <1>5, <1>6
    <3> QED
      BY <1>4, <1>7, <3>1
  <2>2. ASSUME CutAlike', NEW k \in 1..asked', calls'[k].truncated, calls'[k].index < 1000,
               Len(plan'[k].pages) > 1, NEW p \in ToSet(plan'[k].pages)
        PROVE  \E h \in DOMAIN plan' :
                 plan'[h].call = plan'[k].call /\ plan'[h].index >= 1000 /\ p \in ToSet(plan'[h].pages)
    <3>1. k \in 1..n /\ calls' = calls
      BY <1>1
    <3>2. plan'[k] = plan[k] /\ calls[k].truncated
      BY <1>6, <2>2, <3>1
    <3>3. calls[k].call = plan[k].call /\ calls[k].index = plan[k].index
      BY <1>2, <3>1 DEF CallsArePlanned
    <3>4. k \in DOMAIN plan
      BY <1>3, <3>1
    <3>5. PICK j \in DOMAIN plan : plan[j].index = calls[k].index /\ WindowOf(calls[k]) = plan[j].pages
      BY <1>2, <3>3, <3>4, WindowIsPlanned
    <3>6. WindowOf(calls[k]) = plan[k].pages
      BY <1>13, <2>2, <3>3, <3>4, <3>5 DEF CutAlike
    <3>7. PICK x \in ToSet(R) : x.call = calls[k].call /\ p \in ToSet(x.pages)
      BY <1>4, <2>2, <3>1, <3>2, <3>6
    <3>8. PICK h \in DOMAIN plan' : plan'[h] = x
      BY <1>8
    <3> QED
      BY <1>4, <3>2, <3>3, <3>7, <3>8
  <2> QED
    BY <2>1, <2>2 DEF RepairsArePlanned
<1>16. MadeOfTheAnswers'
  <2>1. extraction' = {}
    BY <1>1 DEF Under, MadeOfTheAnswers
  <2> QED
    BY <2>1 DEF MadeOfTheAnswers
<1> QED
  BY <1>1, <1>2, <1>9, <1>10, <1>12, <1>14, <1>15, <1>16 DEF Under

\* The reading is made of the answers.
LEMMA FinishStep ==
  ASSUME NEW doc \in Contracts, Under(doc), Finish
  PROVE  Under(doc)'
<1>1. /\ retried /\ asked = Len(plan) /\ extraction' = {MergeRecords(found)}
      /\ UNCHANGED <<contract, plan, prefixes, asked, calls, found, retried>>
  BY DEF Finish
<1>2. MadeOfTheAnswers'
  <2>1. MergeRecords(found)' = MergeRecords(found)
    BY <1>1 DEF MergeRecords, IsBare, Fold
  <2> QED
    BY <1>1, <2>1 DEF MadeOfTheAnswers
<1> QED
  BY <1>1, <1>2 DEF Under, PlanIsWhole, PrefixesArePlanned, Bookkeeping, CallsArePlanned,
       AnswersAreReadings, RepairsArePlanned, CutAlike, Troubles

\* Every step of a reading keeps the invariant.
LEMMA ReadingIsKept == RInv /\ [ReadingNext]_readingVars => RInv'
<1> SUFFICES ASSUME RInv, [ReadingNext]_readingVars PROVE RInv'
  OBVIOUS
<1>1. CASE UNCHANGED readingVars
  <2>1. ReadingInit => ReadingInit'
    BY <1>1 DEF ReadingInit, readingVars
  <2>2. ASSUME NEW doc \in Contracts, Under(doc) PROVE Under(doc)'
    <3>1. MergeRecords(found)' = MergeRecords(found)
      BY <1>1 DEF MergeRecords, IsBare, Fold, readingVars
    <3>2. UNCHANGED <<contract, plan, prefixes, asked, calls, found, retried, extraction>>
      BY <1>1 DEF readingVars
    <3>3. AnswersAreReadings(doc)'
      BY <2>2, <3>2 DEF Under, AnswersAreReadings, CutAlike, Troubles
    <3> QED
      BY <2>2, <3>1, <3>2, <3>3 DEF Under, PlanIsWhole, PrefixesArePlanned, Bookkeeping,
           CallsArePlanned, RepairsArePlanned, CutAlike, MadeOfTheAnswers
  <2> QED
    BY <2>1, <2>2 DEF RInv
<1>2. CASE ReadingNext
  <2>1. CASE \E doc \in Contracts : BeginReading(doc)
    <3>1. PICK doc \in Contracts : BeginReading(doc)
      BY <2>1
    <3>2. ReadingInit
      BY <3>1 DEF RInv, Under, BeginReading
    <3> QED
      BY <3>1, <3>2, BeginStep DEF RInv
  <2>2. CASE asked < Len(plan) /\ \E outcome \in {"whole", "cut", "overflow", "failed"} : \E kept : RunCall(outcome, kept)
    <3> PICK outcome \in {"whole", "cut", "overflow", "failed"} : \E kept : RunCall(outcome, kept)
      BY <2>2
    <3>1. PICK kept : RunCall(outcome, kept)
      OBVIOUS
    <3>2. PICK doc \in Contracts : Under(doc)
      <4>1. ReadingInit => ~(asked < Len(plan))
        BY DEF ReadingInit
      <4> QED
        BY <2>2, <4>1 DEF RInv
    <3> QED
      BY <3>1, <3>2, CallStep DEF RInv
  <2>3. CASE Retry
    <3>1. PICK doc \in Contracts : Under(doc)
      BY <2>3 DEF RInv, ReadingInit, Retry
    <3> QED
      BY <2>3, <3>1, RetryStep DEF RInv
  <2>4. CASE Finish
    <3>1. PICK doc \in Contracts : Under(doc)
      BY <2>4 DEF RInv, ReadingInit, Finish
    <3> QED
      BY <2>4, <3>1, FinishStep DEF RInv
  <2> QED
    BY <1>2, <2>1, <2>2, <2>3, <2>4 DEF ReadingNext
<1> QED
  BY <1>1, <1>2

\* So every state a reading reaches satisfies it.
THEOREM ReadingInvariant == ReadingSpec => []RInv
<1>1. ReadingInit => RInv
  BY DEF RInv
<1> QED
  BY <1>1, ReadingIsKept, PTL DEF ReadingSpec

-----------------------------------------------------------------------------
(* What the merge makes of the answers.                                    *)

TermsIn(answers) == UNION {DOMAIN answers[i] : i \in DOMAIN answers}
Joined(answers, t) == Fold({answers[i][t] : i \in {j \in DOMAIN answers : t \in DOMAIN answers[j]}})

\* The merge, in the words of the lemmas below.
LEMMA MergeIs ==
  ASSUME NEW answers
  PROVE  MergeRecords(answers) =
           [t \in {x \in TermsIn(answers) : ~IsBare(x, TermsIn(answers))} |-> Joined(answers, t)]
BY Zenon DEF MergeRecords, TermsIn, Joined

\* Two truths that imply each other are one value.
LEMMA SomeDetail ==
  ASSUME NEW R, NEW x, NEW D, (\E r \in R : r.detail) <=> x \in D
  PROVE  (\E r \in R : r.detail) = (x \in D)
<1> DEFINE e == \E r \in R : r.detail
           f == x \in D
<1>1. e \in BOOLEAN
  OBVIOUS
<1>2. f \in BOOLEAN
  OBVIOUS
<1>3. e <=> f
  OBVIOUS
<1> HIDE DEF e, f
<1>4. e = f
  BY <1>1, <1>2, <1>3
<1> QED
  BY <1>4 DEF e, f

\* What a reading over some pages says of the detail.
LEMMA DetailRead ==
  ASSUME NEW t, NEW pages
  PROVE  Reading(t, pages).bands = t.bands \cap pages /\ (Reading(t, pages).detail <=> t.detail \in pages)
BY DEF Reading

\* The terms of the document some category asked is about.
AskedIn(doc) == {x \in doc.terms : \E i \in DOMAIN doc.asked : doc.asked[i].call = x.call}
InFull(doc, t) == [bands |-> t.bands, detail |-> t.detail \in DOMAIN doc.pages]

\* The document as one call would read it: each term with all of it.
LEMMA AsWrittenIs ==
  ASSUME NEW doc \in Contracts
  PROVE  AsWritten(doc) = [t \in {x \in AskedIn(doc) : ~IsBare(x, AskedIn(doc))} |-> InFull(doc, t)]
<1> DEFINE W == AskedIn(doc)
           f == [t \in W |-> Reading(t, DOMAIN doc.pages)]
           a == <<f>>
<1>1. AsWritten(doc) = MergeRecords(a)
  BY Zenon DEF AsWritten, AskedIn
<1>2. \A t \in W : Reading(t, DOMAIN doc.pages) = InFull(doc, t)
  <2> SUFFICES ASSUME NEW t \in W PROVE Reading(t, DOMAIN doc.pages) = InFull(doc, t)
    OBVIOUS
  <2>1. t.bands \cap DOMAIN doc.pages = t.bands
    BY LineOf DEF AskedIn
  <2> QED
    BY <2>1 DEF Reading, InFull
<1> HIDE DEF W
<1>3. DOMAIN f = W /\ \A t \in W : f[t] = InFull(doc, t)
  BY <1>2
<1> HIDE DEF f
<1>4. DOMAIN a = {1} /\ a[1] = f
  OBVIOUS
<1> HIDE DEF a
<1>5. TermsIn(a) = W
  BY <1>3, <1>4 DEF TermsIn
<1>6. ASSUME NEW t \in W PROVE Joined(a, t) = InFull(doc, t)
  <2>1. {a[i][t] : i \in {j \in DOMAIN a : t \in DOMAIN a[j]}} = {InFull(doc, t)}
    BY <1>3, <1>4
  <2>2. UNION {r.bands : r \in {InFull(doc, t)}} = t.bands
    BY DEF InFull
  <2>3. (\E r \in {InFull(doc, t)} : r.detail) = (t.detail \in DOMAIN doc.pages)
    <3>1. InFull(doc, t).detail <=> t.detail \in DOMAIN doc.pages
      BY DEF InFull
    <3> DEFINE e == \E r \in {InFull(doc, t)} : r.detail
               d == t.detail \in DOMAIN doc.pages
    <3>2. e \in BOOLEAN
      OBVIOUS
    <3>3. d \in BOOLEAN
      OBVIOUS
    <3>4. e <=> d
      BY <3>1
    <3> HIDE DEF e, d
    <3>5. e = d
      BY <3>2, <3>3, <3>4
    <3> QED
      BY <3>5 DEF e, d
  <2> QED
    BY <2>1, <2>2, <2>3 DEF Joined, Fold, InFull
<1>7. MergeRecords(a) = [t \in {x \in W : ~IsBare(x, W)} |-> Joined(a, t)]
  BY <1>5, MergeIs
<1>8. [t \in {x \in W : ~IsBare(x, W)} |-> Joined(a, t)] = [t \in {x \in W : ~IsBare(x, W)} |-> InFull(doc, t)]
  BY <1>6
<1> QED
  BY <1>1, <1>7, <1>8 DEF W

\* The pages of a job are pages of the document.
LEMMA PagesOfJob ==
  ASSUME NEW doc, plan \in Seq(JobsOver(doc)), NEW k \in DOMAIN plan
  PROVE  plan[k].pages \in Seq(DOMAIN doc.pages) /\ ToSet(plan[k].pages) \subseteq DOMAIN doc.pages
<1> DEFINE J == JobsOver(doc)
           P == DOMAIN doc.pages
           w == plan[k].pages
<1>1. plan[k] \in J
  <2>1. plan \in Seq(J)
    OBVIOUS
  <2> HIDE DEF J
  <2> QED
    BY <2>1, LenProperties, ElementOfSeq
<1>2. w \in Seq(P)
  BY <1>1 DEF JobsOver
<1> HIDE DEF P, w
<1>3. DOMAIN w = 1..Len(w) /\ \A i \in 1..Len(w) : w[i] \in P
  BY <1>2, LenProperties, ElementOfSeq
<1>4. ToSet(w) \subseteq P
  BY <1>3 DEF ToSet
<1> QED
  BY <1>2, <1>4 DEF P, w

\* What the merge makes of a term is in full once each of its list entries was
\* seen by a call that saw the term, and its detail too.
LEMMA JoinedInFull ==
  ASSUME NEW doc \in Contracts, Under(doc), CutAlike, NEW t \in doc.terms,
         \A p \in t.bands : \E k \in 1..asked : t \in DOMAIN found[k] /\ p \in ToSet(plan[k].pages),
         t.detail \in DOMAIN doc.pages =>
           \E k \in 1..asked : t \in DOMAIN found[k] /\ t.detail \in ToSet(plan[k].pages)
  PROVE  Joined(found, t) = InFull(doc, t)
<1> DEFINE I == {j \in DOMAIN found : t \in DOMAIN found[j]}
           R == {found[i][t] : i \in I}
<1>1. DOMAIN found = 1..asked /\ asked <= Len(plan) /\ asked \in Nat /\ Len(plan) \in Nat /\ DOMAIN plan = 1..Len(plan)
      /\ plan \in Seq(JobsOver(doc))
  BY LenProperties DEF Under, Bookkeeping, PlanIsWhole, CallsArePlanned
<1>2. \A i \in I : /\ i \in 1..asked /\ found[i][t] = Reading(t, ToSet(plan[i].pages))
                    /\ ToSet(plan[i].pages) \subseteq DOMAIN doc.pages
  <2> SUFFICES ASSUME NEW i \in I
               PROVE  /\ i \in 1..asked /\ found[i][t] = Reading(t, ToSet(plan[i].pages))
                      /\ ToSet(plan[i].pages) \subseteq DOMAIN doc.pages
    OBVIOUS
  <2>1. i \in 1..asked /\ t \in DOMAIN found[i] /\ i \in DOMAIN plan
    BY <1>1
  <2> QED
    BY <1>1, <2>1, PagesOfJob DEF Under, AnswersAreReadings
<1>3. UNION {r.bands : r \in R} = t.bands
  <2>1. ASSUME NEW p \in t.bands PROVE \E r \in R : p \in r.bands
    <3>1. PICK k \in 1..asked : t \in DOMAIN found[k] /\ p \in ToSet(plan[k].pages)
      OBVIOUS
    <3>2. k \in I
      BY <1>1, <3>1
    <3>3. found[k][t] \in R /\ p \in found[k][t].bands
      BY <1>2, <3>1, <3>2 DEF Reading
    <3> QED
      BY <3>3
  <2>2. ASSUME NEW r \in R PROVE r.bands \subseteq t.bands
    BY <1>2 DEF Reading
  <2> QED
    BY <2>1, <2>2
<1>4. (\E r \in R : r.detail) = (t.detail \in DOMAIN doc.pages)
  <2>1. ASSUME NEW r \in R, r.detail PROVE t.detail \in DOMAIN doc.pages
    <3>1. PICK i \in I : r = Reading(t, ToSet(plan[i].pages))
      BY <1>2
    <3>2. t.detail \in ToSet(plan[i].pages)
      BY <2>1, <3>1, DetailRead
    <3> QED
      BY <1>2, <3>2
  <2>2. ASSUME t.detail \in DOMAIN doc.pages PROVE \E r \in R : r.detail
    <3>1. PICK k \in 1..asked : t \in DOMAIN found[k] /\ t.detail \in ToSet(plan[k].pages)
      BY <2>2
    <3>2. k \in I
      BY <1>1, <3>1
    <3>3. found[k][t] \in R /\ found[k][t] = Reading(t, ToSet(plan[k].pages))
      BY <1>2, <3>2
    <3>4. found[k][t].detail
      BY <3>1, <3>3, DetailRead
    <3> QED
      BY <3>3, <3>4
  <2> HIDE DEF R
  <2>3. (\E r \in R : r.detail) <=> t.detail \in DOMAIN doc.pages
    BY <2>1, <2>2
  <2> QED
    BY <2>3, SomeDetail
<1>5. Joined(found, t) = Fold(R)
  BY DEF Joined
<1> HIDE DEF R
<1> QED
  BY <1>3, <1>4, <1>5 DEF Fold, InFull

\* What is found is of a line that was asked about; where it is not the line
\* itself, some job of its category shows the line in part.
LEMMA FoundWasAsked ==
  ASSUME NEW doc \in Contracts, Under(doc), CutAlike, NEW x \in TermsIn(found)
  PROVE  /\ Whence(x) \in AskedIn(doc) /\ IsOf(x, Whence(x))
         /\ x.lost # {} => \E j \in DOMAIN plan :
              plan[j].call = x.call /\ ~SeenIn(Whence(x), ToSet(plan[j].pages))
<1>1. DOMAIN found = 1..asked /\ asked <= Len(plan) /\ asked \in Nat /\ Len(plan) \in Nat /\ DOMAIN plan = 1..Len(plan)
      /\ AsksAll(doc, ToSet(plan))
  BY LenProperties DEF Under, Bookkeeping, PlanIsWhole, CallsArePlanned
<1>2. PICK k \in 1..asked : x \in DOMAIN found[k]
  BY <1>1 DEF TermsIn
<1>3. k \in DOMAIN plan /\ plan[k] \in ToSet(plan)
  BY <1>1 DEF ToSet
<1>4. \A t \in doc.terms : t.call = plan[k].call => t \in AskedIn(doc)
  BY <1>1, <1>3 DEF AskedIn, AsksAll
<1>5. x \in SeenBy(doc, plan[k]) \cup GlimpsedBy(doc, plan[k])
  BY <1>2 DEF Under, AnswersAreReadings
<1>6. CASE x \in SeenBy(doc, plan[k])
  <2>1. x \in doc.terms /\ x.call = plan[k].call
    BY <1>6 DEF SeenBy
  <2>2. x.lost = {} /\ IsOf(x, x)
    BY <2>1, LineOf, LineIsOf
  <2>3. Whence(x) = x
    BY <2>2 DEF IsOf
  <2> QED
    BY <1>4, <2>1, <2>2, <2>3
<1>7. CASE x \in GlimpsedBy(doc, plan[k])
  <2>1. PICK t \in InPart(doc, plan[k]) : x \in RecordsOf(t)
    BY <1>7 DEF GlimpsedBy
  <2>2. t \in doc.terms /\ t.call = plan[k].call /\ ~SeenIn(t, ToSet(plan[k].pages))
    BY DEF InPart
  <2>3. IsOf(x, t)
    BY <2>1, <2>2, RecordIsOf
  <2>4. Whence(x) = t /\ x.call = t.call
    BY <2>3 DEF IsOf
  <2> QED
    BY <1>3, <1>4, <2>2, <2>3, <2>4
<1> QED
  BY <1>5, <1>6, <1>7

\* A line the rest of whose program is found is as bare among what is found as
\* in the document, and so is every record of it.
LEMMA BareAsWritten ==
  ASSUME NEW doc \in Contracts, Under(doc), CutAlike, NEW x, NEW t, IsOf(x, t)
  PROVE  /\ IsBare(x, TermsIn(found)) => IsBare(t, AskedIn(doc))
         /\ AskedIn(doc) \subseteq TermsIn(found) /\ IsBare(t, AskedIn(doc)) => IsBare(x, TermsIn(found))
<1>1. x.call = t.call /\ x.program = t.program /\ x.priced = t.priced
  BY DEF IsOf
<1>2. ASSUME NEW o \in TermsIn(found)
      PROVE  Whence(o) \in AskedIn(doc) /\ o.program = Whence(o).program /\ o.priced = Whence(o).priced
  <2>1. Whence(o) \in AskedIn(doc) /\ IsOf(o, Whence(o))
    BY FoundWasAsked
  <2> QED
    BY <2>1 DEF IsOf
<1>3. ASSUME IsBare(x, TermsIn(found)) PROVE IsBare(t, AskedIn(doc))
  <2>1. t.call = Priming /\ ~t.priced /\ \E o \in TermsIn(found) : o.priced /\ o.program = t.program
    BY <1>1, <1>3 DEF IsBare
  <2>2. PICK o \in TermsIn(found) : o.priced /\ o.program = t.program
    BY <2>1
  <2>3. Whence(o) \in AskedIn(doc) /\ Whence(o).priced /\ Whence(o).program = t.program
    BY <1>2, <2>2
  <2> QED
    BY <2>1, <2>3 DEF IsBare
<1>4. AskedIn(doc) \subseteq TermsIn(found) /\ IsBare(t, AskedIn(doc)) => IsBare(x, TermsIn(found))
  BY <1>1 DEF IsBare
<1> QED
  BY <1>3, <1>4

\* Some job asks about a term over any two neighbouring pages.
LEMMA SomeJobSees ==
  ASSUME NEW doc \in Contracts, Under(doc), NEW t \in AskedIn(doc),
         NEW pages \in SUBSET DOMAIN doc.pages, NEW q \in DOMAIN doc.pages, pages \subseteq {q, q + 1}
  PROVE  \E k \in DOMAIN plan : plan[k].call = t.call /\ pages \subseteq ToSet(plan[k].pages)
<1>1. PICK i \in DOMAIN doc.asked : doc.asked[i].call = t.call
  BY DEF AskedIn
<1>2. PICK job \in ToSet(plan) : job.call = t.call /\ {q, q + 1} \cap DOMAIN doc.pages \subseteq ToSet(job.pages)
  BY <1>1 DEF Under, PlanIsWhole, AsksAll
<1>3. PICK k \in DOMAIN plan : job = plan[k]
  BY DEF ToSet
<1> QED
  BY <1>2, <1>3

\* A call that came back whole answers what its pages show.
LEMMA WholeCallsAnswer ==
  ASSUME NEW doc \in Contracts, Under(doc), CutAlike, NEW t \in doc.terms,
         NEW k \in 1..asked, k \notin Troubles, plan[k].call = t.call,
         t.needs \subseteq ToSet(plan[k].pages),
         t.bands = {} \/ t.bands \cap ToSet(plan[k].pages) # {}
  PROVE  t \in DOMAIN found[k]
<1>1. t \in SeenBy(doc, plan[k])
  BY DEF SeenBy, SeenIn
<1> QED
  BY <1>1 DEF Under, AnswersAreReadings

\* A reading of which each term was seen in full is the document.
LEMMA SeenInFull ==
  ASSUME NEW doc \in Contracts, Under(doc), CutAlike, NEW t \in AskedIn(doc),
         \E k \in 1..asked : t \in DOMAIN found[k],
         \A p \in t.bands : \E k \in 1..asked : t \in DOMAIN found[k] /\ p \in ToSet(plan[k].pages),
         t.detail \in DOMAIN doc.pages =>
           \E k \in 1..asked : t \in DOMAIN found[k] /\ t.detail \in ToSet(plan[k].pages)
  PROVE  t \in TermsIn(found) /\ Joined(found, t) = InFull(doc, t)
<1>1. t \in doc.terms
  BY DEF AskedIn
<1>2. DOMAIN found = 1..asked
  BY LenProperties DEF Under, Bookkeeping
<1>3. t \in TermsIn(found)
  BY <1>2 DEF TermsIn
<1> QED
  BY <1>1, <1>3, JoinedInFull

\* A document all of whose terms stand together is read in full.
LEMMA QuietIsFull ==
  ASSUME NEW doc \in Contracts, Under(doc), CutAlike, Troubles = {}, asked = Len(plan),
         \A t \in doc.terms : StandsTogether(doc, t), NEW t \in AskedIn(doc)
  PROVE  t \in TermsIn(found) /\ Joined(found, t) = InFull(doc, t)
<1> DEFINE D           == DOMAIN doc.pages
           shown       == {t.detail} \cap D
           Near(pages) == \E q \in D : pages \subseteq {q, q + 1}
           Seen(pages) == \E k \in 1..asked : t \in DOMAIN found[k] /\ pages \subseteq ToSet(plan[k].pages)
<1>1. t \in doc.terms /\ t.needs \subseteq D /\ t.bands \subseteq D
  BY LineOf DEF AskedIn
<1>2. IF t.bands = {} THEN Near(t.needs \cup shown)
      ELSE /\ \A p \in t.bands : Near(t.needs \cup {p})
           /\ \E p \in t.bands : Near(t.needs \cup {p} \cup shown)
  BY <1>1 DEF StandsTogether
<1>3. ASSUME NEW pages, pages \subseteq D, Near(pages), t.needs \subseteq pages,
             t.bands = {} \/ t.bands \cap pages # {}
      PROVE  Seen(pages)
  <2>1. PICK q \in DOMAIN doc.pages : pages \subseteq {q, q + 1}
    BY <1>3
  <2>2. DOMAIN plan = 1..asked /\ pages \in SUBSET DOMAIN doc.pages
    BY <1>3, LenProperties DEF Under, PlanIsWhole
  <2>3. PICK k \in DOMAIN plan : plan[k].call = t.call /\ pages \subseteq ToSet(plan[k].pages)
    BY <2>1, <2>2, SomeJobSees
  <2>4. t \in doc.terms /\ t.needs \subseteq ToSet(plan[k].pages)
        /\ (t.bands = {} \/ t.bands \cap ToSet(plan[k].pages) # {})
    BY <1>1, <1>3, <2>3
  <2>5. t \in DOMAIN found[k]
    BY <2>2, <2>3, <2>4, WholeCallsAnswer
  <2> QED
    BY <2>2, <2>3, <2>5
<1> HIDE DEF D, Near, Seen
<1>4. Seen(t.needs \cup shown) \/ \E p \in t.bands : Seen(t.needs \cup {p} \cup shown)
  <2>1. CASE t.bands = {}
    <3>1. t.needs \cup shown \subseteq D /\ Near(t.needs \cup shown)
      BY <1>1, <1>2, <2>1
    <3> QED
      BY <1>3, <2>1, <3>1
  <2>2. CASE t.bands # {}
    <3>1. PICK p \in t.bands : Near(t.needs \cup {p} \cup shown)
      BY <1>2, <2>2
    <3>2. t.needs \cup {p} \cup shown \subseteq D /\ t.bands \cap (t.needs \cup {p} \cup shown) # {}
      BY <1>1
    <3>3. Seen(t.needs \cup {p} \cup shown)
      BY <1>3, <3>1, <3>2
    <3> QED
      BY <3>3
  <2> QED
    BY <2>1, <2>2
<1>5. ASSUME NEW p \in t.bands PROVE Seen(t.needs \cup {p})
  <2>1. Near(t.needs \cup {p})
    BY <1>2
  <2>2. t.needs \cup {p} \subseteq D /\ t.bands \cap (t.needs \cup {p}) # {}
    BY <1>1
  <2> QED
    BY <1>3, <2>1, <2>2
<1>6. PICK k \in 1..asked : t \in DOMAIN found[k] /\ shown \subseteq ToSet(plan[k].pages)
  BY <1>4 DEF Seen
<1>7. \A p \in t.bands : \E j \in 1..asked : t \in DOMAIN found[j] /\ p \in ToSet(plan[j].pages)
  BY <1>5 DEF Seen
<1>8. t.detail \in D => t.detail \in ToSet(plan[k].pages)
  BY <1>6
<1> QED
  BY <1>6, <1>7, <1>8, SeenInFull DEF D

\* The merged reading of such a document: the document, and besides it rows that
\* miss part of one of its lines, where some job of the category shows a part.
LEMMA QuietIsWhole ==
  ASSUME NEW doc \in Contracts, Under(doc), CutAlike, Troubles = {}, asked = Len(plan),
         \A t \in doc.terms : StandsTogether(doc, t), NEW e, e = MergeRecords(found)
  PROVE  /\ \A t \in DOMAIN AsWritten(doc) : t \in DOMAIN e /\ e[t] = AsWritten(doc)[t]
         /\ \A x \in DOMAIN e \ DOMAIN AsWritten(doc) :
              /\ x.lost # {} /\ Whence(x) \in DOMAIN AsWritten(doc)
              /\ \E j \in DOMAIN plan :
                   plan[j].call = x.call /\ ~SeenIn(Whence(x), ToSet(plan[j].pages))
              /\ x.call = Priming /\ x.lost = {"amount"} => x \in AmountConflicts(DOMAIN e)
<1> DEFINE A == AskedIn(doc)
           F == TermsIn(found)
           S == {x \in F : ~IsBare(x, F)}
           W == {x \in A : ~IsBare(x, A)}
<1>1. \A t \in A : t \in F /\ Joined(found, t) = InFull(doc, t)
  BY QuietIsFull
<1>2. e = [x \in S |-> Joined(found, x)]
  BY MergeIs
<1>3. AsWritten(doc) = [t \in W |-> InFull(doc, t)]
  BY AsWrittenIs
<1>4. \A t \in A : IsOf(t, t)
  BY LineIsOf DEF AskedIn
<1>5. \A x \in F : Whence(x) \in A /\ IsOf(x, Whence(x))
  BY FoundWasAsked
<1>6. \A x, t : IsOf(x, t) => (IsBare(x, F) <=> IsBare(t, A))
  BY <1>1, BareAsWritten
<1>7. \A x \in F : x.lost # {} => \E j \in DOMAIN plan :
         plan[j].call = x.call /\ ~SeenIn(Whence(x), ToSet(plan[j].pages))
  BY FoundWasAsked
<1> HIDE DEF A, F
<1>8. DOMAIN e = S /\ DOMAIN AsWritten(doc) = W
  BY <1>2, <1>3
<1>9. ASSUME NEW t \in W PROVE t \in S /\ e[t] = AsWritten(doc)[t]
  <2>1. t \in F /\ ~IsBare(t, F)
    BY <1>1, <1>4, <1>6
  <2> QED
    BY <1>1, <1>2, <1>3, <2>1
<1>10. ASSUME NEW x \in S, x \notin W
       PROVE  /\ x.lost # {} /\ Whence(x) \in W
              /\ x.call = Priming /\ x.lost = {"amount"} => x \in AmountConflicts(S)
  <2>1. Whence(x) \in A /\ IsOf(x, Whence(x))
    BY <1>5
  <2>2. ~IsBare(Whence(x), A)
    BY <1>6, <2>1
  <2>3. Whence(x) \in W
    BY <2>1, <2>2
  <2>4. x.lost # {}
    BY <1>10, <2>1, <2>3 DEF IsOf
  <2>5. ASSUME x.call = Priming, x.lost = {"amount"} PROVE x \in AmountConflicts(S)
    <3> DEFINE o == Whence(x)
    <3>1. o \in S /\ o # x
      BY <1>9, <1>10, <2>3
    <3>2. o \in doc.terms
      BY <2>1 DEF A, AskedIn
    <3>3. o.lost = {} /\ Losing(o, {}) = o
      BY <3>2, LineOf, RecordIs
    <3>4. x.lost \ {"amount"} = {} /\ o.lost \ {"amount"} = {}
      BY <2>5, <3>3
    <3>5. Losing(x, {}) = o
      BY DEF Whence
    <3> HIDE DEF o
    <3>6. SameLine(x, o)
      BY <3>3, <3>4, <3>5 DEF SameLine
    <3> QED
      BY <2>5, <3>1, <3>6 DEF AmountConflicts
  <2> QED
    BY <2>3, <2>4, <2>5
<1> HIDE DEF W
<1>11. \A x \in S : x \in F
  OBVIOUS
<1> HIDE DEF S
<1> QED
  BY <1>7, <1>8, <1>9, <1>10, <1>11

\* The halves give every page of a window that was cut off another reading.
LEMMA RepairedCallsSee ==
  ASSUME NEW doc \in Contracts, Under(doc), CutAlike, asked = Len(plan), retried,
         \A i \in Troubles : calls[i].truncated /\ calls[i].index < 1000 /\ Len(WindowOf(calls[i])) > 1,
         NEW t \in AskedIn(doc), NEW p \in DOMAIN doc.pages
  PROVE  \E k \in 1..asked : k \notin Troubles /\ plan[k].call = t.call /\ p \in ToSet(plan[k].pages)
<1>1. /\ DOMAIN plan = 1..asked /\ DOMAIN calls = 1..asked
      /\ \A k \in 1..asked : calls[k].call = plan[k].call /\ calls[k].index = plan[k].index
  BY LenProperties DEF Under, PlanIsWhole, Bookkeeping, CallsArePlanned
<1> DEFINE one == {p}
<1>2. one \in SUBSET DOMAIN doc.pages /\ one \subseteq {p, p + 1}
  OBVIOUS
<1> HIDE DEF one
<1>3. PICK k \in DOMAIN plan : plan[k].call = t.call /\ one \subseteq ToSet(plan[k].pages)
  BY <1>2, SomeJobSees
<1>4. CASE k \notin Troubles
  BY <1>1, <1>3, <1>4 DEF one
<1>5. CASE k \in Troubles
  <2>1. calls[k].truncated /\ calls[k].index < 1000 /\ Len(WindowOf(calls[k])) > 1
    BY <1>5
  <2>2. PICK j \in DOMAIN plan : plan[j].index = calls[k].index /\ WindowOf(calls[k]) = plan[j].pages
    BY <1>1, <1>3, WindowIsPlanned DEF Under, PlanIsWhole
  <2>3. WindowOf(calls[k]) = plan[k].pages
    BY <1>1, <2>2 DEF CutAlike
  <2>4. Len(plan[k].pages) > 1 /\ p \in ToSet(plan[k].pages)
    BY <1>3, <2>1, <2>3 DEF one
  <2>5. PICK h \in DOMAIN plan : plan[h].call = plan[k].call /\ plan[h].index >= 1000 /\ p \in ToSet(plan[h].pages)
    BY <1>1, <2>1, <2>4 DEF Under, RepairsArePlanned
  <2>6. h \notin Troubles
    <3> SUFFICES ASSUME h \in Troubles PROVE FALSE
      OBVIOUS
    <3>1. calls[h].index < 1000 /\ calls[h].index = plan[h].index
      BY <1>1
    <3>2. plan[h].index \in Nat
      <4> DEFINE J == JobsOver(doc)
      <4>1. plan \in Seq(J)
        BY DEF Under, PlanIsWhole
      <4> HIDE DEF J
      <4>2. plan[h] \in J
        BY <4>1, LenProperties, ElementOfSeq
      <4> QED
        BY <4>2 DEF J, JobsOver
    <3> QED
      BY <2>5, <3>1, <3>2
  <2> QED
    BY <1>1, <1>3, <2>5, <2>6
<1> QED
  BY <1>4, <1>5

\* A term on one page comes back from repairs with all of it.
LEMMA RepairedIsKept ==
  ASSUME NEW doc \in Contracts, Under(doc), CutAlike, asked = Len(plan), retried,
         \A i \in Troubles : calls[i].truncated /\ calls[i].index < 1000 /\ Len(WindowOf(calls[i])) > 1,
         NEW t \in DOMAIN AsWritten(doc), NEW p \in DOMAIN doc.pages,
         t.needs \cup t.bands \cup {t.detail} \subseteq {p, 0}
  PROVE  t \in DOMAIN MergeRecords(found) /\ MergeRecords(found)[t] = AsWritten(doc)[t]
<1> DEFINE W == AskedIn(doc)
           D == DOMAIN doc.pages
<1>1. t \in W /\ ~IsBare(t, W) /\ AsWritten(doc)[t] = InFull(doc, t)
  BY AsWrittenIs
<1>2. 0 \notin D /\ t.needs \subseteq D /\ t.bands \subseteq D /\ t \in doc.terms
  <2>1. D = 1..Len(doc.pages)
    BY WindowsShowTheDocument
  <2>2. t \in doc.terms
    BY <1>1 DEF AskedIn
  <2>3. t.needs \cup t.bands \subseteq D
    BY <2>2, LineOf
  <2> QED
    BY <2>1, <2>2, <2>3
<1>3. t.needs \subseteq {p} /\ t.bands \subseteq {p} /\ (t.detail \in D => t.detail = p)
  BY <1>2
<1>4. PICK k \in 1..asked : k \notin Troubles /\ plan[k].call = t.call /\ p \in ToSet(plan[k].pages)
  BY <1>1, RepairedCallsSee
<1>5. t \in DOMAIN found[k]
  <2>1. t.needs \subseteq ToSet(plan[k].pages) /\ (t.bands = {} \/ t.bands \cap ToSet(plan[k].pages) # {})
    BY <1>3, <1>4
  <2> QED
    BY <1>2, <1>4, <2>1, WholeCallsAnswer
<1>6. t \in TermsIn(found) /\ Joined(found, t) = InFull(doc, t)
  BY <1>1, <1>3, <1>4, <1>5, SeenInFull
<1>7. ~IsBare(t, TermsIn(found))
  <2>1. IsOf(t, t)
    BY <1>2, LineIsOf
  <2> QED
    BY <1>1, <2>1, BareAsWritten
<1> DEFINE S == {x \in TermsIn(found) : ~IsBare(x, TermsIn(found))}
<1>8. MergeRecords(found) = [x \in S |-> Joined(found, x)]
  BY MergeIs
<1>9. t \in S
  BY <1>6, <1>7
<1> QED
  BY <1>1, <1>6, <1>8, <1>9

-----------------------------------------------------------------------------
(* The theorems.                                                           *)

\* A reading keeps its types, whatever comes back (extract_contract).
THEOREM ReadingTypes == ReadingSpec => []ReadingTypeOK
<1>1. RInv => ReadingTypeOK
  <2>1. ReadingInit => ReadingTypeOK
    BY DEF ReadingInit, ReadingTypeOK, NoPrefixes
  <2>2. ASSUME NEW doc \in Contracts, Under(doc) PROVE ReadingTypeOK
    <3>1. Doc = doc
      BY <2>2, DocIs DEF Under
    <3>2. asked = Len(calls) /\ asked = Len(found) /\ asked <= Len(plan)
      BY <2>2 DEF Under, Bookkeeping, CallsArePlanned
    <3>3. ASSUME NEW i \in DOMAIN prefixes, NEW n \in DOMAIN prefixes[i]
          PROVE  prefixes[i][n] \in DOMAIN doc.pages
      <4>1. PICK j \in DOMAIN plan : prefixes[i] = plan[j].pages
        BY <2>2 DEF Under, PrefixesArePlanned
      <4>2. ToSet(plan[j].pages) \subseteq DOMAIN doc.pages
        BY <2>2, PagesOfJob DEF Under, PlanIsWhole
      <4> QED
        BY <4>1, <4>2 DEF ToSet
    <3>4. ASSUME NEW e \in extraction, NEW x \in DOMAIN e
          PROVE  Whence(x) \in doc.terms /\ x.lost \subseteq x.key
      <4>1. e = MergeRecords(found)
        BY <2>2 DEF Under, MadeOfTheAnswers
      <4>2. DOMAIN e \subseteq TermsIn(found)
        BY <4>1, MergeIs
      <4>3. TermsIn(found) \subseteq RecordsIn(doc)
        <5> DEFINE A == AnswersOn(doc)
        <5>1. found \in Seq(A)
          BY <2>2 DEF Under, Bookkeeping
        <5> HIDE DEF A
        <5>2. DOMAIN found = 1..Len(found) /\ \A i \in 1..Len(found) : found[i] \in A
          BY <5>1, LenProperties, ElementOfSeq
        <5>3. \A f \in A : DOMAIN f \subseteq RecordsIn(doc)
          BY DEF A, AnswersOn
        <5> QED
          BY <5>2, <5>3 DEF TermsIn
      <4>4. PICK t \in doc.terms : x \in RecordsOf(t)
        BY <4>2, <4>3 DEF RecordsIn
      <4>5. IsOf(x, t)
        BY <4>4, RecordIsOf
      <4> QED
        BY <4>5 DEF IsOf
    <3> QED
      BY <3>1, <3>2, <3>3, <3>4 DEF ReadingTypeOK
  <2> QED
    BY <2>1, <2>2 DEF RInv
<1> QED
  BY <1>1, ReadingInvariant, PTL

\* A reading nothing was reported about has the whole document, however its
\* pages are packed into windows and whatever order the calls answer in; what it
\* has besides are second rows of lines that some window shows in part
\* (page_windows, extract_contract, merge_records).
THEOREM QuietReadings == ReadingSpec => []QuietReadingsAreWhole
<1>1. RInv => QuietReadingsAreWhole
  <2> SUFFICES ASSUME RInv, Troubles = {}, CutAlike,
                      \A doc \in contract : \A t \in doc.terms : StandsTogether(doc, t),
                      NEW e \in extraction
               PROVE  /\ \A t \in DOMAIN AsWritten(Doc) : t \in DOMAIN e /\ e[t] = AsWritten(Doc)[t]
                      /\ \A x \in DOMAIN e \ DOMAIN AsWritten(Doc) :
                           /\ x.lost # {} /\ Whence(x) \in DOMAIN AsWritten(Doc)
                           /\ \E j \in DOMAIN plan :
                                plan[j].call = x.call /\ ~SeenIn(Whence(x), ToSet(plan[j].pages))
                           /\ x.call = Priming /\ x.lost = {"amount"} => x \in AmountConflicts(DOMAIN e)
    BY DEF QuietReadingsAreWhole
  <2>1. PICK doc \in Contracts : Under(doc)
    BY DEF RInv, ReadingInit
  <2>2. contract = {doc} /\ asked = Len(plan) /\ e = MergeRecords(found)
    BY <2>1 DEF Under, MadeOfTheAnswers
  <2>3. Doc = doc
    BY <2>2, DocIs
  <2>4. \A t \in doc.terms : StandsTogether(doc, t)
    BY <2>2
  <2> QED
    BY <2>1, <2>2, <2>3, <2>4, QuietIsWhole
<1> QED
  BY <1>1, ReadingInvariant, PTL

\* The repair of answers that were cut off gives back each term that stands on
\* one page, with all of it (_retry_truncated, merge_records).
THEOREM Repairs == ReadingSpec => []RepairsKeepEveryPage
<1>1. RInv => RepairsKeepEveryPage
  <2> SUFFICES ASSUME RInv, CutAlike,
                      \A i \in Troubles : calls[i].truncated /\ calls[i].index < 1000 /\ Len(WindowOf(calls[i])) > 1,
                      NEW e \in extraction, NEW t \in DOMAIN AsWritten(Doc), NEW p \in DOMAIN Doc.pages,
                      t.needs \cup t.bands \cup {t.detail} \subseteq {p, 0}
               PROVE  t \in DOMAIN e /\ e[t] = AsWritten(Doc)[t]
    BY DEF RepairsKeepEveryPage
  <2>1. PICK doc \in Contracts : Under(doc)
    BY DEF RInv, ReadingInit
  <2>2. contract = {doc} /\ asked = Len(plan) /\ retried /\ e = MergeRecords(found)
    BY <2>1 DEF Under, MadeOfTheAnswers
  <2>3. Doc = doc
    BY <2>2, DocIs
  <2> QED
    BY <2>1, <2>2, <2>3, RepairedIsKept
<1> QED
  BY <1>1, ReadingInvariant, PTL

=============================================================================
