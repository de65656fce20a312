-------------------------- MODULE AnswerRepairProofs --------------------------
(***************************************************************************)
(* Why an answer that stops anywhere gives back the records that were      *)
(* complete in it, whatever strings the records hold and however many      *)
(* there are, and why the repair of quotation marks leaves every answer    *)
(* alone that needs none.                                                  *)
(*                                                                         *)
(* Where each symbol of a string, each string of an object and each object *)
(* of a text is written comes first. Then the scan for objects: it passes  *)
(* over a string whatever it says, so it finds an object when it reads its *)
(* last brace and none before, and record by record exactly those that are *)
(* complete. A quotation mark that ends a string always has a brace behind *)
(* it, so the repair, which goes through the strings in step with the      *)
(* scan, copies every symbol, also of the answer cut off. Last, an answer  *)
(* whose strings quote without escapes is followed next to the one they    *)
(* were meant as: a quotation mark the repair meets inside a plain string  *)
(* has no closing sign behind it, so it gets its escape.                   *)
(***************************************************************************)
EXTENDS AnswerRepair, DocumentReadingProofs

-----------------------------------------------------------------------------
(* Where each of the sequences lies in the one made of them.               *)

\* How far the first k of the sequences s reach.
Lies(s, n, pos) ==
  /\ pos \in [0..n -> Nat] /\ pos[0] = 0
  /\ \A k \in 1..n : pos[k] = pos[k - 1] + Len(s[k])

\* More sequences reach further.
LEMMA NeverShorter ==
  ASSUME NEW n \in Nat, NEW s, NEW pos, Lies(s, n, pos), \A k \in 1..n : Len(s[k]) \in Nat
  PROVE  \A m \in 0..n : \A k \in 0..m : pos[k] <= pos[m]
<1> DEFINE Bad == {m \in 0..n : \E k \in 0..m : ~(pos[k] <= pos[m])}
<1> SUFFICES ASSUME Bad # {} PROVE FALSE
  OBVIOUS
<1>1. Bad \subseteq Nat
  OBVIOUS
<1>2. PICK m \in Bad : \A o \in Nat : o < m => o \notin Bad
  BY <1>1, FirstOne
<1>3. PICK k \in 0..m : ~(pos[k] <= pos[m])
  BY <1>2
<1>4. m \in 0..n /\ \A i \in 0..n : pos[i] \in Nat
  BY <1>2 DEF Lies
<1>5. k \in 0..(m - 1) /\ m - 1 \in Nat /\ m - 1 < m /\ m - 1 \in 0..n /\ m \in 1..n /\ k \in 0..n
  BY <1>3, <1>4
<1>6. m - 1 \notin Bad
  BY <1>2, <1>5
<1>7. pos[k] <= pos[m - 1]
  BY <1>5, <1>6
<1>8. pos[m] = pos[m - 1] + Len(s[m]) /\ Len(s[m]) \in Nat
  BY <1>5 DEF Lies
<1> QED
  BY <1>3, <1>4, <1>5, <1>7, <1>8

\* What stands where when one sequence follows another.
LEMMA Joint ==
  ASSUME NEW A, NEW a \in Seq(A), NEW b \in Seq(A)
  PROVE  /\ a \o b \in Seq(A) /\ Len(a) \in Nat /\ Len(b) \in Nat /\ Len(a \o b) = Len(a) + Len(b)
         /\ \A i \in 1..Len(a) : (a \o b)[i] = a[i]
         /\ \A i \in 1..Len(b) : (a \o b)[Len(a) + i] = b[i]
<1> DEFINE c == a \o b
<1>1. /\ c \in Seq(A) /\ Len(c) = Len(a) + Len(b)
      /\ \A i \in 1..(Len(a) + Len(b)) : c[i] = IF i <= Len(a) THEN a[i] ELSE b[i - Len(a)]
  BY ConcatProperties
<1> HIDE DEF c
<1>2. Len(a) \in Nat /\ Len(b) \in Nat
  BY LenProperties
<1>3. \A i \in 1..Len(a) : c[i] = a[i]
  BY <1>1, <1>2
<1>4. \A i \in 1..Len(b) : c[Len(a) + i] = b[i]
  <2> TAKE i \in 1..Len(b)
  <2> DEFINE j == Len(a) + i
  <2>1. j \in 1..(Len(a) + Len(b)) /\ ~(j <= Len(a)) /\ j - Len(a) = i
    BY <1>2
  <2> HIDE DEF j
  <2>2. c[j] = b[i]
    BY <1>1, <2>1
  <2> QED
    BY <2>2 DEF j
<1> QED
  BY <1>1, <1>2, <1>3, <1>4 DEF c

\* In the one sequence each of the sequences follows the one before it.
LEMMA Laid ==
  ASSUME NEW A, NEW n \in Nat, NEW s \in Seq(Seq(A)), Len(s) = n
  PROVE  \E pos :
           /\ Lies(s, n, pos) /\ FlattenSeq(s) \in Seq(A) /\ Len(FlattenSeq(s)) = pos[n]
           /\ \A k \in 1..n : \A i \in 1..Len(s[k]) : FlattenSeq(s)[pos[k - 1] + i] = s[k][i]
<1>1. CASE n = 0
  <2>1. s = <<>>
    BY <1>1, EmptySeq
  <2>2. FlattenSeq(s) = <<>>
    BY <1>1, <2>1 DEF FlattenSeq
  <2> DEFINE pos == [k \in 0..0 |-> 0]
  <2>3. Lies(s, 0, pos) /\ pos[0] = 0
    BY DEF Lies
  <2>4. <<>> \in Seq(A) /\ Len(<<>>) = 0
    BY EmptySeq
  <2> QED
    BY <1>1, <2>2, <2>3, <2>4
<1>2. CASE n # 0
  <2> DEFINE g == CHOOSE f : Flats(s, n, f)
  <2>1. Flats(s, n, g)
    BY FlatsExist
  <2>2. FlattenSeq(s) = g[n]
    BY <1>2, FlattenUnfolds
  <2> HIDE DEF g
  <2>3. \A i \in 1..n : g[i] = IF i = 1 THEN s[i] ELSE g[i - 1] \o s[i]
    BY <2>1 DEF Flats
  <2>4. \A i \in 1..n : s[i] \in Seq(A) /\ Len(s[i]) \in Nat
    <3> DEFINE rows == Seq(A)
    <3>1. s \in Seq(rows)
      OBVIOUS
    <3> HIDE DEF rows
    <3>2. \A i \in 1..n : s[i] \in rows
      BY <3>1, ElementOfSeq
    <3> QED
      BY <3>2, LenProperties DEF rows
  <2> DEFINE pos == [k \in 0..n |-> IF k = 0 THEN 0 ELSE Len(g[k])]
             Fine(k) == /\ g[k] \in Seq(A) /\ Len(g[k]) \in Nat
                        /\ Len(g[k]) = pos[k - 1] + Len(s[k])
                        /\ \A i \in 1..Len(s[k]) : g[k][pos[k - 1] + i] = s[k][i]
                        /\ k > 1 => \A i \in 1..pos[k - 1] : g[k][i] = g[k - 1][i]
             Bad == {k \in 1..n : ~Fine(k)}
  <2>5. ASSUME Bad # {} PROVE FALSE
    <3>1. Bad \subseteq Nat
      OBVIOUS
    <3>2. PICK k \in Bad : \A m \in Nat : m < k => m \notin Bad
      BY <2>5, <3>1, FirstOne
    <3>3. k \in 1..n /\ ~Fine(k)
      BY <3>2
    <3>4. k # 1
      <4> SUFFICES ASSUME k = 1 PROVE FALSE
        OBVIOUS
      <4>1. g[1] = s[1] /\ pos[0] = 0
        BY <2>3, <3>3
      <4>2. g[1] \in Seq(A) /\ Len(g[1]) \in Nat
        BY <2>4, <3>3, <4>1
      <4> QED
        BY <3>3, <4>1, <4>2
    <3> DEFINE q == k - 1
    <3>5. q \in Nat /\ q < k /\ q \in 1..n /\ q # 0
      BY <3>3, <3>4
    <3>6. q \notin Bad
      BY <3>2, <3>5
    <3>7. Fine(q)
      BY <3>5, <3>6
    <3>8. g[k] = g[q] \o s[k] /\ s[k] \in Seq(A) /\ g[q] \in Seq(A)
      BY <2>3, <2>4, <3>3, <3>4, <3>7
    <3>9. pos[q] = Len(g[q])
      BY <3>5
    <3> HIDE DEF Bad, q, pos
    <3> DEFINE a == g[q]
               b == s[k]
    <3>10. a \in Seq(A) /\ b \in Seq(A) /\ g[k] = a \o b
      BY <3>8
    <3> HIDE DEF a, b
    <3>11. /\ a \o b \in Seq(A) /\ Len(a) \in Nat /\ Len(b) \in Nat /\ Len(a \o b) = Len(a) + Len(b)
           /\ \A i \in 1..Len(a) : (a \o b)[i] = a[i]
           /\ \A i \in 1..Len(b) : (a \o b)[Len(a) + i] = b[i]
      BY <3>10, Joint
    <3>12. Fine(k)
      <4>1. pos[k - 1] = Len(a)
        BY <3>9 DEF a, q
      <4>2. g[k - 1] = a /\ s[k] = b
        BY DEF a, b, q
      <4> QED
        BY <3>10, <3>11, <4>1, <4>2
    <3> QED
      BY <3>3, <3>12
  <2>6. \A k \in 1..n : Fine(k)
    BY <2>5
  <2>7. Lies(s, n, pos)
    <3>1. pos \in [0..n -> Nat]
      <4>1. ASSUME NEW k \in 0..n PROVE (IF k = 0 THEN 0 ELSE Len(g[k])) \in Nat
        <5>1. CASE k = 0
          BY <5>1
        <5>2. CASE k # 0
          <6>1. k \in 1..n
            BY <5>2
          <6> QED
            BY <2>6, <5>2, <6>1
        <5> QED
          BY <5>1, <5>2
      <4> QED
        BY <4>1
    <3>2. pos[0] = 0
      OBVIOUS
    <3>3. \A k \in 1..n : pos[k] = pos[k - 1] + Len(s[k])
      <4> TAKE k \in 1..n
      <4>1. pos[k] = Len(g[k])
        OBVIOUS
      <4>2. Fine(k)
        BY <2>6
      <4> HIDE DEF pos
      <4> QED
        BY <4>1, <4>2
    <3> HIDE DEF pos
    <3> QED
      BY <3>1, <3>2, <3>3 DEF Lies
  <2>8. \A k \in 1..n : pos[k] = Len(g[k])
    OBVIOUS
  <2>9. pos[0] = 0
    OBVIOUS
  <2> DEFINE Same(m) == \A k \in 1..m : \A i \in 1..Len(s[k]) : g[m][pos[k - 1] + i] = s[k][i]
             Odd == {m \in 1..n : ~Same(m)}
  <2> HIDE DEF pos
  <2>10. ASSUME Odd # {} PROVE FALSE
    <3>1. Odd \subseteq Nat
      OBVIOUS
    <3>2. PICK m \in Odd : \A o \in Nat : o < m => o \notin Odd
      BY <2>10, <3>1, FirstOne
    <3>3. m \in 1..n /\ ~Same(m)
      BY <3>2
    <3>4. PICK k \in 1..m : \E i \in 1..Len(s[k]) : g[m][pos[k - 1] + i] # s[k][i]
      BY <3>3
    <3>41. PICK i \in 1..Len(s[k]) : g[m][pos[k - 1] + i] # s[k][i]
      BY <3>4
    <3>5. k # m
      BY <2>6, <3>3, <3>41
    <3> HIDE DEF Odd, Same
    <3> DEFINE q == m - 1
    <3>6. q \in Nat /\ q < m /\ q \in 1..n /\ k \in 1..q /\ m > 1 /\ k \in 1..n /\ k - 1 \in 0..n /\ q \in 0..n
      BY <3>3, <3>4, <3>5
    <3>7. Same(q)
      BY <3>2, <3>6 DEF Odd
    <3>8. g[q][pos[k - 1] + i] = s[k][i]
      BY <3>41, <3>6, <3>7 DEF Same
    <3>9. \A j \in 1..pos[q] : g[m][j] = g[q][j]
      BY <2>6, <3>3, <3>6
    <3> HIDE DEF q
    <3>10. pos[k] = pos[k - 1] + Len(s[k]) /\ pos[k - 1] \in Nat /\ pos[k] \in Nat /\ pos[q] \in Nat
      BY <2>7, <3>6 DEF Lies
    <3>11. pos[k] <= pos[q]
      BY <2>4, <2>7, <3>6, NeverShorter
    <3>12. pos[k - 1] + i \in 1..pos[q]
      <4>1. Len(s[k]) \in Nat /\ i \in 1..Len(s[k])
        BY <2>4, <3>41, <3>6
      <4> QED
        BY <3>10, <3>11, <4>1
    <3> QED
      BY <3>41, <3>8, <3>9, <3>12
  <2>11. Same(n)
    <3>1. n \in 1..n
      BY <1>2
    <3>2. n \notin Odd
      BY <2>10
    <3> QED
      BY <3>1, <3>2
  <2>12. g[n] \in Seq(A) /\ Len(g[n]) = pos[n]
    BY <1>2, <2>6, <2>8
  <2> HIDE DEF Same
  <2> QED
    BY <2>2, <2>7, <2>11, <2>12 DEF Same
<1> QED
  BY <1>1, <1>2

\* The first of the sequences reach as far by themselves.
LEMMA ReachAlone ==
  ASSUME NEW n \in Nat, NEW k \in 0..n, NEW s, NEW pos, Lies(s, n, pos),
         NEW part, NEW reach, Lies(part, k, reach), \A i \in 1..k : part[i] = s[i]
  PROVE  reach[k] = pos[k]
<1> DEFINE Bad == {m \in 0..k : reach[m] # pos[m]}
<1>1. ASSUME Bad # {} PROVE FALSE
  <2>1. Bad \subseteq Nat
    OBVIOUS
  <2>2. PICK m \in Bad : \A o \in Nat : o < m => o \notin Bad
    BY <1>1, <2>1, FirstOne
  <2>3. m \in 0..k /\ reach[m] # pos[m]
    BY <2>2
  <2>4. m # 0
    BY <2>3 DEF Lies
  <2>5. m - 1 \in Nat /\ m - 1 < m /\ m - 1 \in 0..k /\ m \in 1..k /\ m \in 1..n
    BY <2>3, <2>4
  <2>6. reach[m - 1] = pos[m - 1]
    BY <2>2, <2>5
  <2>7. reach[m] = reach[m - 1] + Len(part[m]) /\ pos[m] = pos[m - 1] + Len(s[m]) /\ part[m] = s[m]
    BY <2>5 DEF Lies
  <2> QED
    BY <2>3, <2>6, <2>7
<1>2. k \in 0..k
  OBVIOUS
<1> QED
  BY <1>1, <1>2

-----------------------------------------------------------------------------
(* The two scans of an answer, symbol by symbol.                           *)

\* Where the scan for objects begins, and the states it goes through.
SalvageStart == [in |-> FALSE, escaped |-> FALSE, depth |-> 0, start |-> 0, out |-> <<>>]
Salvages(text, k, f) ==
  f = [i \in 0..k |-> IF i = 0 THEN SalvageStart ELSE SalvageStep(text, i, f[i - 1])]

\* Where the repair begins, and the states it goes through.
RepairStart == [in |-> FALSE, escaped |-> FALSE, out |-> <<>>]
Repairing(text, k, f) ==
  f = [i \in 0..k |-> IF i = 0 THEN RepairStart ELSE RepairStep(text, i, f[i - 1])]

\* The objects a scan has found.
Spans(text, found_) == [n \in DOMAIN found_ |-> SubSeq(text, found_[n][1], found_[n][2])]

\* Both scans are defined symbol by symbol.
LEMMA ScansUnfold ==
  ASSUME NEW text
  PROVE  /\ Salvage(text) = Spans(text, (CHOOSE f : Salvages(text, Len(text), f))[Len(text)].out)
         /\ RepairInnerQuotes(text) = (CHOOSE f : Repairing(text, Len(text), f))[Len(text)].out
<1>1. Salvage(text) = Spans(text, (CHOOSE f : Salvages(text, Len(text), f))[Len(text)].out)
  BY Zenon DEF Salvage, Salvages, Spans, SalvageStart
<1>2. RepairInnerQuotes(text) = (CHOOSE f : Repairing(text, Len(text), f))[Len(text)].out
  BY Zenon DEF RepairInnerQuotes, Repairing, RepairStart
<1> QED
  BY <1>1, <1>2

\* A text can be salvaged symbol by symbol.
LEMMA SalvagesExist ==
  ASSUME NEW text, NEW k \in Nat
  PROVE  \E f : Salvages(text, k, f)
<1> DEFINE Bad == {n \in Nat : ~ \E f : Salvages(text, n, f)}
<1> SUFFICES ASSUME Bad # {} PROVE FALSE
  OBVIOUS
<1>1. PICK n \in Bad : \A m \in Nat : m < n => m \notin Bad
  BY FirstOne
<1>2. n \in Nat /\ ~ \E f : Salvages(text, n, f)
  BY <1>1
<1>3. n # 0
  <2> SUFFICES ASSUME n = 0 PROVE FALSE
    OBVIOUS
  <2> DEFINE none == [i \in 0..0 |-> SalvageStart]
  <2>1. none = [i \in 0..0 |-> IF i = 0 THEN SalvageStart ELSE SalvageStep(text, i, none[i - 1])]
    OBVIOUS
  <2> HIDE DEF none
  <2> QED
    BY <1>2, <2>1 DEF Salvages
<1>4. n - 1 \in Nat /\ n - 1 < n
  BY <1>2, <1>3
<1>5. PICK h : Salvages(text, n - 1, h)
  BY <1>1, <1>4
<1> HIDE DEF Bad
<1> DEFINE Put(f, i) == IF i = 0 THEN SalvageStart ELSE SalvageStep(text, i, f[i - 1])
           g         == [i \in 0..n |-> IF i = n THEN Put(h, i) ELSE h[i]]
<1>6. \A i \in 0..(n - 1) : h[i] = Put(h, i)
  BY <1>5 DEF Salvages
<1>7. ASSUME NEW i \in 0..n PROVE g[i] = Put(g, i)
  <2>1. g[i] = Put(h, i)
    <3>1. CASE i = n
      BY <3>1
    <3>2. CASE i # n
      <4>1. i \in 0..(n - 1) /\ g[i] = h[i]
        BY <1>2, <3>2
      <4> QED
        BY <1>6, <4>1
    <3> QED
      BY <3>1, <3>2
  <2>2. CASE i = 0
    BY <2>1, <2>2
  <2>3. CASE i # 0
    <3>1. i - 1 \in 0..n /\ i - 1 # n
      BY <1>2, <2>3
    <3>2. g[i - 1] = h[i - 1]
      BY <3>1
    <3> QED
      BY <2>1, <2>3, <3>2
  <2> QED
    BY <2>2, <2>3
<1>8. g = [i \in 0..n |-> g[i]]
  OBVIOUS
<1> HIDE DEF g
<1>9. Salvages(text, n, g)
  BY <1>7, <1>8 DEF Salvages
<1> QED
  BY <1>2, <1>9

\* A text can be repaired symbol by symbol.
LEMMA RepairsExist ==
  ASSUME NEW text, NEW k \in Nat
  PROVE  \E f : Repairing(text, k, f)
<1> DEFINE Bad == {n \in Nat : ~ \E f : Repairing(text, n, f)}
<1> SUFFICES ASSUME Bad # {} PROVE FALSE
  OBVIOUS
<1>1. PICK n \in Bad : \A m \in Nat : m < n => m \notin Bad
  BY FirstOne
<1>2. n \in Nat /\ ~ \E f : Repairing(text, n, f)
  BY <1>1
<1>3. n # 0
  <2> SUFFICES ASSUME n = 0 PROVE FALSE
    OBVIOUS
  <2> DEFINE none == [i \in 0..0 |-> RepairStart]
  <2>1. none = [i \in 0..0 |-> IF i = 0 THEN RepairStart ELSE RepairStep(text, i, none[i - 1])]
    OBVIOUS
  <2> HIDE DEF none
  <2> QED
    BY <1>2, <2>1 DEF Repairing
<1>4. n - 1 \in Nat /\ n - 1 < n
  BY <1>2, <1>3
<1>5. PICK h : Repairing(text, n - 1, h)
  BY <1>1, <1>4
<1> HIDE DEF Bad
<1> DEFINE Put(f, i) == IF i = 0 THEN RepairStart ELSE RepairStep(text, i, f[i - 1])
           g         == [i \in 0..n |-> IF i = n THEN Put(h, i) ELSE h[i]]
<1>6. \A i \in 0..(n - 1) : h[i] = Put(h, i)
  BY <1>5 DEF Repairing
<1>7. ASSUME NEW i \in 0..n PROVE g[i] = Put(g, i)
  <2>1. g[i] = Put(h, i)
    <3>1. CASE i = n
      BY <3>1
    <3>2. CASE i # n
      <4>1. i \in 0..(n - 1) /\ g[i] = h[i]
        BY <1>2, <3>2
      <4> QED
        BY <1>6, <4>1
    <3> QED
      BY <3>1, <3>2
  <2>2. CASE i = 0
    BY <2>1, <2>2
  <2>3. CASE i # 0
    <3>1. i - 1 \in 0..n /\ i - 1 # n
      BY <1>2, <2>3
    <3>2. g[i - 1] = h[i - 1]
      BY <3>1
    <3> QED
      BY <2>1, <2>3, <3>2
  <2> QED
    BY <2>2, <2>3
<1>8. g = [i \in 0..n |-> g[i]]
  OBVIOUS
<1> HIDE DEF g
<1>9. Repairing(text, n, g)
  BY <1>7, <1>8 DEF Repairing
<1> QED
  BY <1>2, <1>9

\* What a scan finds is what it holds after the last symbol.
LEMMA ScansRun ==
  ASSUME NEW text, Len(text) \in Nat
  PROVE  /\ \E f : /\ f[0] = SalvageStart
                   /\ \A i \in 1..Len(text) : f[i] = SalvageStep(text, i, f[i - 1])
                   /\ Salvage(text) = Spans(text, f[Len(text)].out)
         /\ \E g : /\ g[0] = RepairStart
                   /\ \A i \in 1..Len(text) : g[i] = RepairStep(text, i, g[i - 1])
                   /\ RepairInnerQuotes(text) = g[Len(text)].out
<1> DEFINE n == Len(text)
           f == CHOOSE x : Salvages(text, n, x)
           g == CHOOSE x : Repairing(text, n, x)
<1>1. n \in Nat
  OBVIOUS
<1>2. Salvages(text, n, f) /\ Repairing(text, n, g)
  BY <1>1, SalvagesExist, RepairsExist
<1>3. Salvage(text) = Spans(text, f[n].out) /\ RepairInnerQuotes(text) = g[n].out
  BY ScansUnfold
<1> HIDE DEF n, f, g
<1>4. 0 \in 0..n /\ \A i \in 1..n : i \in 0..n /\ i # 0
  BY <1>1
<1>5. f[0] = SalvageStart /\ \A i \in 1..n : f[i] = SalvageStep(text, i, f[i - 1])
  BY <1>2, <1>4 DEF Salvages
<1>6. g[0] = RepairStart /\ \A i \in 1..n : g[i] = RepairStep(text, i, g[i - 1])
  BY <1>2, <1>4 DEF Repairing
<1> QED
  BY <1>3, <1>5, <1>6 DEF n

\* How far the scan is: between strings, in one, or after a backslash in one.
Outside(depth, start, out) ==
  [in |-> FALSE, escaped |-> FALSE, depth |-> depth, start |-> start, out |-> out]
Inside(depth, start, out) ==
  [in |-> TRUE, escaped |-> FALSE, depth |-> depth, start |-> start, out |-> out]
Skipping(depth, start, out) ==
  [in |-> TRUE, escaped |-> TRUE, depth |-> depth, start |-> start, out |-> out]

\* What one symbol does to the scan inside a string.
LEMMA StepsInside ==
  ASSUME NEW text, NEW i, NEW d, NEW st, NEW o
  PROVE  /\ text[i] = Quote =>
              SalvageStep(text, i, Inside(d, st, o)) = Outside(d, st, o)
         /\ text[i] = Escape =>
              SalvageStep(text, i, Inside(d, st, o)) = Skipping(d, st, o)
         /\ text[i] \notin {Quote, Escape} =>
              SalvageStep(text, i, Inside(d, st, o)) = Inside(d, st, o)
         /\ SalvageStep(text, i, Skipping(d, st, o)) = Inside(d, st, o)
BY DEF SalvageStep, Outside, Inside, Skipping, Quote, Escape, GoesOn

-----------------------------------------------------------------------------
(* How answers are written.                                                *)

\* The symbols are different from each other.
LEMMA Different ==
  /\ Quote \in Symbols /\ Escape \in Symbols /\ Open \in Symbols /\ Close \in Symbols /\ After \in Symbols
  /\ Quote # Escape /\ Quote # Open /\ Quote # Close /\ Quote # After
  /\ Escape # Close /\ Escape # After /\ Open # Close /\ Open # After /\ Close # After
BY DEF Symbols, Quote, Escape, Open, Close, After, Letter

\* What stands where when one follows another.
MadeOf(a, b, c) ==
  /\ c \in Seq(Symbols) /\ Len(a) \in Nat /\ Len(b) \in Nat /\ Len(c) = Len(a) + Len(b)
  /\ \A i \in 1..Len(a) : c[i] = a[i]
  /\ \A i \in 1..Len(b) : c[Len(a) + i] = b[i]

\* The one made of two sequences of symbols holds the first and then the second.
LEMMA Joins ==
  ASSUME NEW a \in Seq(Symbols), NEW b \in Seq(Symbols)
  PROVE  MadeOf(a, b, a \o b)
BY Joint DEF MadeOf

\* Where each piece lies in the text made of them.
InARow(pieces, n, pos) ==
  /\ Lies(pieces, n, pos) /\ FlattenSeq(pieces) \in Seq(Symbols) /\ Len(FlattenSeq(pieces)) = pos[n]
  /\ \A k \in 1..n : \A i \in 1..Len(pieces[k]) : FlattenSeq(pieces)[pos[k - 1] + i] = pieces[k][i]

\* Pieces of a text lie one after the other in it.
LEMMA PiecesInARow ==
  ASSUME NEW n \in Nat, NEW pieces \in Seq(Seq(Symbols)), Len(pieces) = n
  PROVE  \E pos : InARow(pieces, n, pos)
BY Laid DEF InARow

\* What comes later lies further.
Rising(pos, n) == \A m \in 0..n : \A k \in 0..m : pos[k] <= pos[m]

\* Where each symbol of a string is written.
WritesAt(says, escaping, w, pos) ==
  /\ pos \in [0..Len(says) -> Nat] /\ pos[0] = 0 /\ Rising(pos, Len(says))
  /\ w \in Seq(Symbols) /\ Len(w) = pos[Len(says)]
  /\ \A k \in 1..Len(says) :
       /\ escaping /\ says[k] \in {Quote, Escape} =>
            pos[k] = pos[k - 1] + 2 /\ w[pos[k - 1] + 1] = Escape /\ w[pos[k - 1] + 2] = says[k]
       /\ ~(escaping /\ says[k] \in {Quote, Escape}) =>
            pos[k] = pos[k - 1] + 1 /\ w[pos[k - 1] + 1] = says[k]

\* A string is written symbol by symbol, an escape sign before each that needs one
\* where escapes are written.
LEMMA WrittenIs ==
  ASSUME NEW says \in Seq(Symbols), NEW escaping
  PROVE  \E pos : WritesAt(says, escaping, Written(says, escaping), pos)
<1> DEFINE m    == Len(says)
           rows == [i \in DOMAIN says |->
                      IF escaping /\ says[i] \in {Quote, Escape} THEN <<Escape, says[i]>> ELSE <<says[i]>>]
<1>1. m \in Nat /\ DOMAIN says = 1..m /\ \A i \in 1..m : says[i] \in Symbols
  BY LenProperties, ElementOfSeq
<1>2. Written(says, escaping) = FlattenSeq(rows)
  BY DEF Written
<1>3. rows \in Seq(Seq(Symbols)) /\ Len(rows) = m
  <2> DEFINE S == Seq(Symbols)
  <2>1. \A i \in 1..m : <<Escape, says[i]>> \in S /\ <<says[i]>> \in S
    BY <1>1, Different
  <2> HIDE DEF S
  <2>2. rows \in [1..m -> S]
    BY <1>1, <2>1
  <2> QED
    BY <1>1, <2>2 DEF S
<1>4. \A k \in 1..m :
        rows[k] = IF escaping /\ says[k] \in {Quote, Escape} THEN <<Escape, says[k]>> ELSE <<says[k]>>
  BY <1>1
<1> HIDE DEF rows, m
<1>4a. PICK pos : InARow(rows, m, pos)
  <2>1. m \in Nat /\ rows \in Seq(Seq(Symbols)) /\ Len(rows) = m
    BY <1>1, <1>3
  <2> QED
    BY <2>1, PiecesInARow
<1>5. /\ Lies(rows, m, pos) /\ FlattenSeq(rows) \in Seq(Symbols) /\ Len(FlattenSeq(rows)) = pos[m]
      /\ \A k \in 1..m : \A i \in 1..Len(rows[k]) : FlattenSeq(rows)[pos[k - 1] + i] = rows[k][i]
  BY <1>4a DEF InARow
<1> DEFINE w == FlattenSeq(rows)
<1>6. ASSUME NEW k \in 1..m, escaping /\ says[k] \in {Quote, Escape}
      PROVE  pos[k] = pos[k - 1] + 2 /\ w[pos[k - 1] + 1] = Escape /\ w[pos[k - 1] + 2] = says[k]
  <2>1. rows[k] = <<Escape, says[k]>>
    BY <1>4, <1>6
  <2>2. Len(rows[k]) = 2 /\ rows[k][1] = Escape /\ rows[k][2] = says[k]
    BY <2>1
  <2>3. 1 \in 1..Len(rows[k]) /\ 2 \in 1..Len(rows[k])
    BY <2>2
  <2> QED
    BY <1>5, <2>2, <2>3 DEF Lies
<1>7. ASSUME NEW k \in 1..m, ~(escaping /\ says[k] \in {Quote, Escape})
      PROVE  pos[k] = pos[k - 1] + 1 /\ w[pos[k - 1] + 1] = says[k]
  <2>1. rows[k] = <<says[k]>>
    BY <1>4, <1>7
  <2>2. Len(rows[k]) = 1 /\ rows[k][1] = says[k]
    BY <2>1
  <2>3. 1 \in 1..Len(rows[k])
    BY <2>2
  <2> QED
    BY <1>5, <2>2, <2>3 DEF Lies
<1>8. WritesAt(says, escaping, w, pos)
  <2> HIDE DEF w
  <2>1. pos \in [0..m -> Nat] /\ pos[0] = 0
    BY <1>5 DEF Lies
  <2>2. w \in Seq(Symbols) /\ Len(w) = pos[m]
    BY <1>5 DEF w
  <2>3. \A k \in 1..m : Len(rows[k]) \in Nat
    <3> TAKE k \in 1..m
    <3>1. Len(<<Escape, says[k]>>) = 2 /\ Len(<<says[k]>>) = 1
      OBVIOUS
    <3> QED
      BY <1>4, <3>1
  <2>4. Rising(pos, m)
    <3>1. m \in Nat /\ Lies(rows, m, pos)
      BY <1>1, <1>5
    <3> QED
      BY <2>3, <3>1, NeverShorter DEF Rising
  <2> QED
    BY <1>6, <1>7, <2>1, <2>2, <2>4 DEF WritesAt, m
<1> QED
  BY <1>2, <1>8

\* How many braces a record's object opens with, and what an object is made of.
Nested(r) == IF r.nested THEN 2 ELSE 1
IsObject(obj, r, w) ==
  /\ obj \in Seq(Symbols) /\ w \in Seq(Symbols) /\ Len(w) \in Nat /\ Len(obj) = Len(w) + 2 * Nested(r) + 2
  /\ \A i \in 1..Nested(r) : obj[i] = Open
  /\ obj[Nested(r) + 1] = Quote
  /\ \A i \in 1..Len(w) : obj[Nested(r) + 1 + i] = w[i]
  /\ obj[Nested(r) + Len(w) + 2] = Quote
  /\ \A i \in 1..Nested(r) : obj[Nested(r) + Len(w) + 2 + i] = Close

\* An object is written with the string it holds between its braces.
LEMMA ObjectIs ==
  ASSUME NEW r, r.says \in Seq(Symbols), NEW escaping
  PROVE  IsObject(Object(r, escaping), r, Written(r.says, escaping))
<1> DEFINE w == Written(r.says, escaping)
           one == <<Quote>>
           half == one \o w
           string == half \o one
           braces(c) == IF r.nested THEN <<c, c>> ELSE <<c>>
           left == braces(Open)
           right == braces(Close)
           both == left \o string
           L == Len(w)
           h == Nested(r)
<1>1. w \in Seq(Symbols)
  <2> DEFINE says == r.says
  <2>1. says \in Seq(Symbols)
    OBVIOUS
  <2> HIDE DEF says
  <2>2. Written(says, escaping) \in Seq(Symbols)
    BY <2>1, WrittenIs DEF WritesAt
  <2> QED
    BY <2>2 DEF says
<1>2. one \in Seq(Symbols) /\ Len(one) = 1 /\ one[1] = Quote
  BY Different
<1>3. /\ left \in Seq(Symbols) /\ right \in Seq(Symbols) /\ Len(left) = h /\ Len(right) = h
      /\ h \in {1, 2} /\ \A i \in 1..h : left[i] = Open /\ right[i] = Close
  BY Different DEF Nested
<1>4. Object(r, escaping) = both \o right
  BY DEF Object
<1> HIDE DEF w, one, left, right, h
<1>5. /\ half \in Seq(Symbols) /\ Len(w) \in Nat /\ Len(half) = 1 + Len(w)
      /\ half[1] = Quote /\ \A i \in 1..Len(w) : half[1 + i] = w[i]
  <2>1. w \in Seq(Symbols) /\ one \in Seq(Symbols)
    BY <1>1, <1>2
  <2>2. /\ half \in Seq(Symbols) /\ Len(w) \in Nat /\ Len(half) = Len(one) + Len(w)
        /\ \A i \in 1..Len(one) : half[i] = one[i]
        /\ \A i \in 1..Len(w) : half[Len(one) + i] = w[i]
    BY <2>1, Joins DEF MadeOf
  <2> HIDE DEF half
  <2>3. 1 \in 1..Len(one)
    BY <1>2
  <2> QED
    BY <1>2, <2>2, <2>3
<1> HIDE DEF half
<1>6. /\ string \in Seq(Symbols) /\ Len(string) = L + 2
      /\ string[1] = Quote /\ (\A i \in 1..L : string[1 + i] = w[i]) /\ string[L + 2] = Quote
  <2>0. half \in Seq(Symbols) /\ one \in Seq(Symbols)
    BY <1>2, <1>5
  <2>1. /\ string \in Seq(Symbols) /\ Len(string) = Len(half) + Len(one)
        /\ \A i \in 1..Len(half) : string[i] = half[i]
        /\ \A i \in 1..Len(one) : string[Len(half) + i] = one[i]
    BY <2>0, Joins DEF MadeOf
  <2> HIDE DEF string
  <2>2. 1 \in 1..Len(half) /\ (\A i \in 1..L : 1 + i \in 1..Len(half)) /\ 1 \in 1..Len(one)
        /\ Len(half) + 1 = L + 2
    BY <1>2, <1>5
  <2>3. string[L + 2] = one[1]
    BY <2>1, <2>2
  <2> QED
    BY <1>2, <1>5, <2>1, <2>2, <2>3
<1> HIDE DEF string
<1>7. /\ both \in Seq(Symbols) /\ Len(both) = h + L + 2
      /\ (\A i \in 1..h : both[i] = Open)
      /\ both[h + 1] = Quote /\ (\A i \in 1..L : both[h + 1 + i] = w[i]) /\ both[h + L + 2] = Quote
  <2>1. /\ both \in Seq(Symbols) /\ Len(both) = Len(left) + Len(string)
        /\ \A i \in 1..Len(left) : both[i] = left[i]
        /\ \A i \in 1..Len(string) : both[Len(left) + i] = string[i]
    <3>1. left \in Seq(Symbols) /\ string \in Seq(Symbols)
      BY <1>3, <1>6
    <3> QED
      BY <3>1, Joins DEF MadeOf
  <2> HIDE DEF both
  <2>2. 1 \in 1..Len(string) /\ (\A i \in 1..L : 1 + i \in 1..Len(string)) /\ L + 2 \in 1..Len(string)
    BY <1>5, <1>6
  <2>3. both[h + 1] = string[1] /\ (\A i \in 1..L : both[h + (1 + i)] = string[1 + i])
        /\ both[h + (L + 2)] = string[L + 2]
    BY <1>3, <2>1, <2>2
  <2>4. h + (L + 2) = h + L + 2 /\ \A i \in 1..L : h + (1 + i) = h + 1 + i
    BY <1>3, <1>5
  <2> QED
    BY <1>3, <1>5, <1>6, <2>1, <2>3, <2>4
<1> HIDE DEF both
<1> DEFINE obj == both \o right
<1>8. /\ obj \in Seq(Symbols) /\ Len(obj) = Len(both) + Len(right) /\ Len(both) \in Nat
      /\ \A i \in 1..Len(both) : obj[i] = both[i]
      /\ \A i \in 1..Len(right) : obj[Len(both) + i] = right[i]
  <2>1. both \in Seq(Symbols) /\ right \in Seq(Symbols)
    BY <1>3, <1>7
  <2> QED
    BY <2>1, Joins DEF MadeOf
<1> HIDE DEF obj
<1>9. /\ Len(obj) = L + 2 * h + 2 /\ (\A i \in 1..h : i \in 1..Len(both)) /\ h + 1 \in 1..Len(both)
      /\ (\A i \in 1..L : h + 1 + i \in 1..Len(both)) /\ h + L + 2 \in 1..Len(both)
  <2>1. L \in Nat /\ h \in {1, 2} /\ Len(both) = h + L + 2
    BY <1>3, <1>5, <1>7
  <2>2. Len(obj) = Len(both) + h
    BY <1>3, <1>8
  <2> HIDE DEF L
  <2> QED
    BY <2>1, <2>2
<1>10. IsObject(obj, r, w)
  BY <1>1, <1>3, <1>5, <1>7, <1>8, <1>9 DEF IsObject, h
<1> QED
  BY <1>4, <1>10 DEF obj, w

\* Records as they may be.
AreRecords(records, n) ==
  /\ n \in Nat /\ records \in Seq(Records) /\ Len(records) = n
  /\ \A k \in 1..n : records[k].says \in Seq(Symbols) /\ records[k].nested \in BOOLEAN

\* Between two records stands one sign.
Gap(k) == IF k > 1 THEN 1 ELSE 0
Piece(records, escaping, k) ==
  (IF k > 1 THEN <<After>> ELSE <<>>) \o Object(records[k], escaping)

\* Where each object of an answer is written.
AnswersAt(records, escaping, n, text, pos) ==
  /\ pos \in [0..n -> Nat] /\ pos[0] = 0 /\ Rising(pos, n)
  /\ text \in Seq(Symbols) /\ Len(text) = pos[n]
  /\ \A k \in 1..n :
       /\ pos[k] = pos[k - 1] + Gap(k) + Len(Object(records[k], escaping))
       /\ k > 1 => text[pos[k - 1] + 1] = After
       /\ \A i \in 1..Len(Object(records[k], escaping)) :
            text[pos[k - 1] + Gap(k) + i] = Object(records[k], escaping)[i]

\* What is written of a record: the sign between two objects, if one came before, and its object.
LEMMA PieceIs ==
  ASSUME NEW n, NEW records, AreRecords(records, n), NEW escaping, NEW k \in 1..n
  PROVE  LET obj == Object(records[k], escaping)
             piece == Piece(records, escaping, k)
         IN  /\ piece \in Seq(Symbols) /\ Len(obj) \in Nat /\ Len(piece) = Gap(k) + Len(obj)
             /\ k > 1 => piece[1] = After
             /\ \A i \in 1..Len(obj) : piece[Gap(k) + i] = obj[i]
<1> DEFINE obj == Object(records[k], escaping)
           piece == Piece(records, escaping, k)
           comma == IF k > 1 THEN <<After>> ELSE <<>>
<1>1. obj \in Seq(Symbols)
  <2> DEFINE r == records[k]
  <2>1. r.says \in Seq(Symbols) /\ r.nested \in BOOLEAN
    BY DEF AreRecords
  <2> HIDE DEF r
  <2>2. Object(r, escaping) \in Seq(Symbols)
    BY <2>1, ObjectIs DEF IsObject
  <2> QED
    BY <2>2 DEF r
<1>2. comma \in Seq(Symbols) /\ Len(comma) = Gap(k) /\ (k > 1 => comma[1] = After /\ 1 \in 1..Len(comma))
  BY Different DEF Gap
<1>3. piece = comma \o obj
  BY DEF Piece
<1> HIDE DEF comma, obj, piece
<1>4. /\ comma \o obj \in Seq(Symbols) /\ Len(comma) \in Nat /\ Len(obj) \in Nat
      /\ Len(comma \o obj) = Len(comma) + Len(obj)
      /\ \A i \in 1..Len(comma) : (comma \o obj)[i] = comma[i]
      /\ \A i \in 1..Len(obj) : (comma \o obj)[Len(comma) + i] = obj[i]
  <2>1. comma \in Seq(Symbols) /\ obj \in Seq(Symbols)
    BY <1>1, <1>2
  <2> QED
    BY <2>1, Joins DEF MadeOf
<1>5. /\ piece \in Seq(Symbols) /\ Len(obj) \in Nat /\ Len(piece) = Gap(k) + Len(obj)
      /\ k > 1 => piece[1] = After
      /\ \A i \in 1..Len(obj) : piece[Gap(k) + i] = obj[i]
  BY <1>2, <1>3, <1>4
<1> QED
  BY <1>5 DEF piece, obj

\* An answer's text is made of what is written of each record.
LEMMA PiecesMakeTheText ==
  ASSUME NEW n, NEW records, AreRecords(records, n), NEW escaping
  PROVE  LET pieces == [k \in DOMAIN records |-> Piece(records, escaping, k)]
         IN  /\ Text(records, escaping) = FlattenSeq(pieces) /\ DOMAIN records = 1..n
             /\ pieces \in Seq(Seq(Symbols)) /\ Len(pieces) = n
             /\ \A k \in 1..n : pieces[k] = Piece(records, escaping, k)
<1> DEFINE S == Seq(Symbols)
           pieces == [k \in DOMAIN records |-> Piece(records, escaping, k)]
<1>1. DOMAIN records = 1..n /\ n \in Nat
  BY LenProperties DEF AreRecords
<1>2. Text(records, escaping) = FlattenSeq(pieces)
  BY DEF Text, Piece
<1>3. \A k \in 1..n : Piece(records, escaping, k) \in S
  BY PieceIs
<1> HIDE DEF S
<1>4. pieces \in Seq(S) /\ Len(pieces) = n
  <2>1. pieces \in [1..n -> S]
    BY <1>1, <1>3
  <2> HIDE DEF pieces
  <2> QED
    BY <1>1, <2>1
<1>5. \A k \in 1..n : pieces[k] = Piece(records, escaping, k)
  BY <1>1
<1> QED
  BY <1>1, <1>2, <1>4, <1>5 DEF S

\* The first k of some records are k records.
LEMMA PartOfRecords ==
  ASSUME NEW n, NEW records, AreRecords(records, n), NEW k \in 0..n
  PROVE  /\ AreRecords(SubSeq(records, 1, k), k)
         /\ \A i \in 1..k : SubSeq(records, 1, k)[i] = records[i]
<1> DEFINE part == SubSeq(records, 1, k)
<1>1. n \in Nat /\ Len(records) = n /\ records \in Seq(Records)
  BY DEF AreRecords
<1>2. part \in Seq(Records) /\ Len(part) = k /\ \A i \in 1..k : part[i] = records[i]
  BY <1>1, SubSeqProperties
<1> HIDE DEF part
<1>3. AreRecords(part, k)
  BY <1>1, <1>2 DEF AreRecords
<1> QED
  BY <1>2, <1>3 DEF part

\* In an answer's text each object follows the one before it, and the first k records
\* written by themselves reach as far as they do in it.
LEMMA TextIs ==
  ASSUME NEW n, NEW records, AreRecords(records, n), NEW escaping
  PROVE  \E pos :
           /\ AnswersAt(records, escaping, n, Text(records, escaping), pos)
           /\ \A k \in 0..n : Len(Text(SubSeq(records, 1, k), escaping)) = pos[k]
<1> DEFINE pieces == [k \in DOMAIN records |-> Piece(records, escaping, k)]
           text == Text(records, escaping)
<1>1. /\ text = FlattenSeq(pieces) /\ n \in Nat
      /\ pieces \in Seq(Seq(Symbols)) /\ Len(pieces) = n
      /\ \A k \in 1..n : pieces[k] = Piece(records, escaping, k)
  BY PiecesMakeTheText DEF AreRecords
<1> HIDE DEF pieces, text
<1>11. PICK pos : InARow(pieces, n, pos)
  <2>1. n \in Nat /\ pieces \in Seq(Seq(Symbols)) /\ Len(pieces) = n
    BY <1>1
  <2> QED
    BY <2>1, PiecesInARow
<1>2. /\ Lies(pieces, n, pos) /\ FlattenSeq(pieces) \in Seq(Symbols) /\ Len(FlattenSeq(pieces)) = pos[n]
      /\ \A k \in 1..n : \A i \in 1..Len(pieces[k]) : FlattenSeq(pieces)[pos[k - 1] + i] = pieces[k][i]
  BY <1>11 DEF InARow
<1>3. ASSUME NEW k \in 1..n
      PROVE  /\ pos[k] = pos[k - 1] + Gap(k) + Len(Object(records[k], escaping))
             /\ k > 1 => text[pos[k - 1] + 1] = After
             /\ \A i \in 1..Len(Object(records[k], escaping)) :
                  text[pos[k - 1] + Gap(k) + i] = Object(records[k], escaping)[i]
  <2> DEFINE obj == Object(records[k], escaping)
             piece == Piece(records, escaping, k)
             g == Gap(k)
             from == pos[k - 1]
  <2>1. /\ piece \in Seq(Symbols) /\ Len(obj) \in Nat /\ Len(piece) = g + Len(obj)
        /\ k > 1 => piece[1] = After
        /\ \A i \in 1..Len(obj) : piece[g + i] = obj[i]
    BY PieceIs
  <2>2. pieces[k] = piece
    BY <1>1
  <2>3. pos[k] = from + Len(piece) /\ from \in Nat
    <3>1. k - 1 \in 0..n
      BY <1>1
    <3> QED
      BY <1>2, <2>2, <3>1 DEF Lies
  <2>4. \A i \in 1..Len(piece) : text[from + i] = piece[i]
    BY <1>1, <1>2, <2>2
  <2>5. g \in {0, 1} /\ (k > 1 => g = 1)
    BY DEF Gap
  <2> HIDE DEF obj, piece, g, from
  <2>6. pos[k] = from + g + Len(obj)
    BY <2>1, <2>3, <2>5
  <2>7. ASSUME k > 1 PROVE text[from + 1] = After
    <3>1. 1 \in 1..Len(piece)
      BY <2>1, <2>5, <2>7
    <3> QED
      BY <2>1, <2>4, <2>7, <3>1
  <2>8. ASSUME NEW i \in 1..Len(obj) PROVE text[from + g + i] = obj[i]
    <3>1. g + i \in 1..Len(piece) /\ from + (g + i) = from + g + i
      BY <2>1, <2>3, <2>5
    <3> QED
      BY <2>1, <2>4, <3>1
  <2> QED
    BY <2>6, <2>7, <2>8 DEF obj, g, from
<1>4. AnswersAt(records, escaping, n, text, pos)
  <2>1. \A k \in 1..n : Len(pieces[k]) \in Nat
    <3> TAKE k \in 1..n
    <3>1. Piece(records, escaping, k) \in Seq(Symbols)
      BY PieceIs
    <3> QED
      BY <1>1, <3>1, LenProperties
  <2>2. Rising(pos, n)
    <3>1. n \in Nat /\ Lies(pieces, n, pos)
      BY <1>1, <1>2
    <3> QED
      BY <2>1, <3>1, NeverShorter DEF Rising
  <2> QED
    BY <1>1, <1>2, <1>3, <2>2 DEF AnswersAt, Lies
<1>5. ASSUME NEW k \in 0..n PROVE Len(Text(SubSeq(records, 1, k), escaping)) = pos[k]
  <2> DEFINE part == SubSeq(records, 1, k)
             bits == [j \in DOMAIN part |-> Piece(part, escaping, j)]
  <2>1. AreRecords(part, k) /\ \A i \in 1..k : part[i] = records[i]
    BY PartOfRecords
  <2> HIDE DEF part
  <2>2. /\ Text(part, escaping) = FlattenSeq(bits)
        /\ bits \in Seq(Seq(Symbols)) /\ Len(bits) = k
        /\ \A j \in 1..k : bits[j] = Piece(part, escaping, j)
    <3>1. AreRecords(part, k)
      BY <2>1
    <3> QED
      BY <3>1, PiecesMakeTheText
  <2>21. k \in Nat
    BY <1>1
  <2> HIDE DEF bits
  <2>3. PICK reach : InARow(bits, k, reach)
    <3>1. k \in Nat /\ bits \in Seq(Seq(Symbols)) /\ Len(bits) = k
      BY <2>2, <2>21
    <3> QED
      BY <3>1, PiecesInARow
  <2>4. \A i \in 1..k : bits[i] = pieces[i]
    <3> TAKE i \in 1..k
    <3>1. i \in 1..n
      BY <1>1
    <3> QED
      BY <1>1, <2>1, <2>2, <3>1 DEF Piece
  <2>5. reach[k] = pos[k]
    <3>1. Lies(bits, k, reach) /\ n \in Nat
      BY <1>1, <2>3 DEF InARow
    <3> QED
      BY <1>2, <2>4, <3>1, ReachAlone
  <2> QED
    BY <2>2, <2>3, <2>5 DEF part, InARow
<1> QED
  BY <1>4, <1>5 DEF text

-----------------------------------------------------------------------------
(* What the scan for objects does with an answer written as it should be.  *)

\* A run of the scan for objects.
SalvageRun(text, n, f) ==
  /\ f[0] = SalvageStart
  /\ \A i \in 1..n : f[i] = SalvageStep(text, i, f[i - 1])

\* A symbol that means what it says.
Plain(ch) == ch \notin {Quote, Escape}

\* A string as it should be written.
Escaped(says, w, pos) == WritesAt(says, TRUE, w, pos)

\* A quotation mark that ends a string is followed by a closing brace.
Closes(text, n, f, i) ==
  f[i - 1].in /\ ~f[i - 1].escaped /\ text[i] = Quote => i < n /\ text[i + 1] = Close

\* What is written after p.
Holds(text, p, piece) == \A i \in 1..Len(piece) : text[p + i] = piece[i]

\* From one place to another the scan finds nothing.
Calm(text, n, f, p, q, o) ==
  \A i \in (p + 1)..q : f[i].out = o /\ Closes(text, n, f, i)

\* A stretch goes on.
LEMMA CalmAfterCalm ==
  ASSUME NEW text, NEW n, NEW f, NEW o, NEW p \in Nat, NEW q \in Nat, NEW r \in Nat,
         Calm(text, n, f, p, q, o), Calm(text, n, f, q, r, o)
  PROVE  Calm(text, n, f, p, r, o)
<1> SUFFICES ASSUME NEW i \in (p + 1)..r PROVE f[i].out = o /\ Closes(text, n, f, i)
  BY DEF Calm
<1>1. i \in (p + 1)..q \/ i \in (q + 1)..r
  OBVIOUS
<1> QED
  BY <1>1 DEF Calm

\* One symbol.
LEMMA CalmStep ==
  ASSUME NEW text, NEW n, NEW f, NEW o, NEW p \in Nat,
         f[p + 1].out = o, ~f[p].in \/ f[p].escaped \/ text[p + 1] # Quote
  PROVE  Calm(text, n, f, p, p + 1, o)
<1>1. p + 1 - 1 = p /\ (p + 1)..(p + 1) = {p + 1}
  OBVIOUS
<1>2. Closes(text, n, f, p + 1)
  BY <1>1 DEF Closes
<1> QED
  BY <1>1, <1>2 DEF Calm

\* Inside a string one symbol is passed over, or two of which the first escapes the other.
LEMMA SymbolScan ==
  ASSUME NEW text, NEW n \in Nat, NEW f, SalvageRun(text, n, f),
         NEW b \in Nat, NEW d, NEW st, NEW o, f[b] = Inside(d, st, o)
  PROVE  /\ b + 1 <= n /\ Plain(text[b + 1]) =>
              f[b + 1] = Inside(d, st, o) /\ Calm(text, n, f, b, b + 1, o)
         /\ b + 2 <= n /\ text[b + 1] = Escape =>
              f[b + 2] = Inside(d, st, o) /\ Calm(text, n, f, b, b + 2, o)
<1> DEFINE inside == Inside(d, st, o)
           skipping == Skipping(d, st, o)
<1>1. /\ inside.out = o /\ skipping.escaped /\ skipping.out = o
  BY DEF Inside, Outside, Skipping
<1>2. \A i \in 1..n : f[i] = SalvageStep(text, i, f[i - 1])
  BY DEF SalvageRun
<1>3. /\ \A i : text[i] = Escape => SalvageStep(text, i, inside) = skipping
      /\ \A i : Plain(text[i]) => SalvageStep(text, i, inside) = inside
      /\ \A i : SalvageStep(text, i, skipping) = inside
  <2>1. \A i : text[i] = Escape => SalvageStep(text, i, inside) = skipping
    BY StepsInside
  <2>2. \A i : Plain(text[i]) => SalvageStep(text, i, inside) = inside
    BY StepsInside DEF Plain
  <2>3. \A i : SalvageStep(text, i, skipping) = inside
    BY StepsInside
  <2> QED
    BY <2>1, <2>2, <2>3
<1>4. f[b] = inside
  OBVIOUS
<1> HIDE DEF inside, skipping
<1>5. ASSUME b + 1 <= n, Plain(text[b + 1])
      PROVE  f[b + 1] = inside /\ Calm(text, n, f, b, b + 1, o)
  <2>1. b + 1 \in 1..n /\ b + 1 - 1 = b
    BY <1>5
  <2>2. f[b + 1] = inside
    BY <1>2, <1>3, <1>4, <1>5, <2>1
  <2> QED
    BY <1>1, <1>5, <2>2, CalmStep DEF Plain
<1>6. ASSUME b + 2 <= n, text[b + 1] = Escape
      PROVE  f[b + 2] = inside /\ Calm(text, n, f, b, b + 2, o)
  <2>1. b + 1 \in 1..n /\ b + 1 - 1 = b /\ b + 2 \in 1..n /\ b + 2 - 1 = b + 1 /\ b + 1 + 1 = b + 2
        /\ b + 1 \in Nat /\ b + 2 \in Nat
    BY <1>6
  <2>2. f[b + 1] = skipping
    BY <1>2, <1>3, <1>4, <1>6, <2>1
  <2>3. f[b + 2] = inside
    BY <1>2, <1>3, <2>1, <2>2
  <2>4. Calm(text, n, f, b, b + 1, o)
    BY <1>1, <1>6, <2>2, CalmStep, Different
  <2>5. Calm(text, n, f, b + 1, b + 2, o)
    BY <1>1, <2>1, <2>2, <2>3, CalmStep
  <2>6. Calm(text, n, f, b, b + 2, o)
    BY <2>1, <2>4, <2>5, CalmAfterCalm
  <2> QED
    BY <2>3, <2>6
<1> QED
  BY <1>5, <1>6 DEF inside

\* A string w written after h.
WrittenAfter(text, n, f, h, w) ==
  /\ n \in Nat /\ SalvageRun(text, n, f)
  /\ h \in Nat /\ Len(w) \in Nat /\ h + Len(w) <= n /\ Holds(text, h, w)

\* From c to e stands one symbol of what the string w says.
OneSymbol(w, c, e) ==
  /\ c \in Nat /\ e \in Nat /\ e <= Len(w)
  /\ \/ e = c + 2 /\ w[c + 1] = Escape
     \/ e = c + 1 /\ Plain(w[c + 1])

\* One symbol of a string is passed over.
LEMMA SymbolOfString ==
  ASSUME NEW text, NEW n, NEW f, NEW h, NEW w, WrittenAfter(text, n, f, h, w),
         NEW c, NEW e, OneSymbol(w, c, e), NEW d, NEW st, NEW o, f[h + c] = Inside(d, st, o)
  PROVE  f[h + e] = Inside(d, st, o) /\ Calm(text, n, f, h + c, h + e, o)
<1> DEFINE b == h + c
<1>0. /\ h \in Nat /\ c \in Nat /\ e \in Nat /\ e <= Len(w) /\ h + Len(w) <= n
      /\ n \in Nat /\ Len(w) \in Nat
      /\ \/ e = c + 2 /\ w[c + 1] = Escape
         \/ e = c + 1 /\ Plain(w[c + 1])
  BY DEF WrittenAfter, OneSymbol
<1>1. b \in Nat /\ c + 1 \in 1..Len(w) /\ h + (c + 1) = b + 1 /\ f[b] = Inside(d, st, o)
  BY <1>0
<1>2. text[h + (c + 1)] = w[c + 1]
  BY <1>1 DEF Holds, WrittenAfter
<1>3. text[b + 1] = w[c + 1]
  BY <1>1, <1>2
<1>4. n \in Nat /\ SalvageRun(text, n, f)
  BY DEF WrittenAfter
<1>5. CASE e = c + 2 /\ w[c + 1] = Escape
  <2>1. b + 2 <= n /\ h + e = b + 2
    BY <1>0, <1>5
  <2> HIDE DEF b
  <2>2. text[b + 1] = Escape
    BY <1>3, <1>5
  <2>3. f[b + 2] = Inside(d, st, o) /\ Calm(text, n, f, b, b + 2, o)
    BY <1>1, <1>4, <2>1, <2>2, SymbolScan
  <2> QED
    BY <2>1, <2>3 DEF b
<1>6. CASE e = c + 1 /\ Plain(w[c + 1])
  <2>1. b + 1 <= n /\ h + e = b + 1
    BY <1>0, <1>6
  <2> HIDE DEF b
  <2>2. Plain(text[b + 1])
    BY <1>3, <1>6
  <2>3. f[b + 1] = Inside(d, st, o) /\ Calm(text, n, f, b, b + 1, o)
    BY <1>1, <1>4, <2>1, <2>2, SymbolScan
  <2> QED
    BY <2>1, <2>3 DEF b
<1> QED
  BY <1>0, <1>5, <1>6

\* A string is passed over, whatever it says.
LEMMA StringScan ==
  ASSUME NEW text, NEW n \in Nat, NEW f, SalvageRun(text, n, f),
         NEW p \in Nat, NEW d, NEW st, NEW o, f[p] = Outside(d, st, o),
         NEW says, Len(says) \in Nat, NEW w, NEW pos, Escaped(says, w, pos),
         p + Len(w) + 3 <= n, text[p + 1] = Quote, Holds(text, p + 1, w),
         text[p + Len(w) + 2] = Quote, text[p + Len(w) + 3] = Close
  PROVE  /\ f[p + Len(w) + 2] = Outside(d, st, o)
         /\ Calm(text, n, f, p, p + Len(w) + 2, o)
<1> DEFINE m == Len(says)
           outside == Outside(d, st, o)
           inside == Inside(d, st, o)
           here == p + 1
<1>1. /\ ~outside.in /\ outside.out = o /\ inside.out = o
  BY DEF Inside, Outside, Skipping
<1>2. m \in Nat
  OBVIOUS
<1>3. /\ pos \in [0..m -> Nat] /\ pos[0] = 0 /\ Len(w) = pos[m]
      /\ \A k \in 0..m : pos[k] <= pos[m]
  <2>1. m \in 0..m
    BY <1>2
  <2> QED
    BY <2>1 DEF Escaped, WritesAt, Rising
<1>4. \A i \in 1..n : f[i] = SalvageStep(text, i, f[i - 1])
  BY DEF SalvageRun
<1>5. /\ \A i : text[i] = Quote => SalvageStep(text, i, outside) = inside
      /\ \A i : text[i] = Quote => SalvageStep(text, i, inside) = outside
  <2>2. \A i : text[i] = Quote => SalvageStep(text, i, outside) = inside
    BY DEF SalvageStep, Outside, Inside
  <2>3. \A i : text[i] = Quote => SalvageStep(text, i, inside) = outside
    BY StepsInside
  <2> QED
    BY <2>2, <2>3
<1>6. Len(w) \in Nat
  <2>1. m \in 0..m
    BY <1>2
  <2> QED
    BY <1>3, <2>1
<1>7. \A k \in 1..m :
        /\ says[k] \in {Quote, Escape} =>
             pos[k] = pos[k - 1] + 2 /\ w[pos[k - 1] + 1] = Escape
        /\ says[k] \notin {Quote, Escape} =>
             pos[k] = pos[k - 1] + 1 /\ w[pos[k - 1] + 1] = says[k]
  BY DEF Escaped, WritesAt
<1> HIDE DEF outside, inside, m
<1>8. here \in Nat /\ f[here] = inside /\ Calm(text, n, f, p, here, o)
  <2>1. here \in 1..n /\ here - 1 = p
    BY <1>6
  <2>2. f[p] = outside
    BY DEF outside
  <2>3. f[here] = inside
    BY <1>4, <1>5, <2>1, <2>2
  <2>4. Calm(text, n, f, p, here, o)
    BY <1>1, <2>2, <2>3, CalmStep
  <2> QED
    BY <2>3, <2>4
<1>81. WrittenAfter(text, n, f, here, w)
  BY <1>6, <1>8 DEF WrittenAfter
<1>82. here \in Nat
  BY <1>8
<1> HIDE DEF here
<1> DEFINE At(k) == f[here + pos[k]] = inside /\ Calm(text, n, f, p, here + pos[k], o)
           Bad == {k \in 0..m : ~At(k)}
<1>9. ASSUME Bad # {} PROVE FALSE
  <2>1. Bad \subseteq Nat
    OBVIOUS
  <2>2. PICK k \in Bad : \A j \in Nat : j < k => j \notin Bad
    BY <1>9, <2>1, FirstOne
  <2>3. k \in 0..m /\ ~At(k)
    BY <2>2
  <2>4. k # 0
    <3> SUFFICES ASSUME k = 0 PROVE FALSE
      OBVIOUS
    <3>1. here + pos[0] = here
      BY <1>3, <1>8
    <3> QED
      BY <1>8, <2>3, <3>1
  <2> DEFINE q == k - 1
  <2>5. q \in Nat /\ q < k /\ q \in 0..m /\ k \in 1..m
    BY <1>2, <2>3, <2>4
  <2>6. At(q)
    BY <2>2, <2>5
  <2>7. pos[q] \in Nat /\ pos[k] \in Nat /\ pos[k] <= Len(w)
    BY <1>3, <2>3, <2>5
  <2>8. here + pos[q] \in Nat /\ here + pos[k] \in Nat
    BY <1>82, <2>7
  <2>9. OneSymbol(w, pos[q], pos[k])
    <3>1. \/ pos[k] = pos[q] + 2 /\ w[pos[q] + 1] = Escape
          \/ pos[k] = pos[q] + 1 /\ Plain(w[pos[q] + 1])
      BY <1>7, <2>5 DEF Plain
    <3> HIDE DEF q
    <3> QED
      BY <2>7, <3>1 DEF OneSymbol
  <2>10. f[here + pos[q]] = inside /\ Calm(text, n, f, p, here + pos[q], o)
    BY <2>6
  <2> HIDE DEF Bad, At, q
  <2>11. f[here + pos[k]] = inside /\ Calm(text, n, f, here + pos[q], here + pos[k], o)
    BY <1>81, <2>9, <2>10, SymbolOfString DEF inside
  <2>12. Calm(text, n, f, p, here + pos[k], o)
    BY <2>8, <2>10, <2>11, CalmAfterCalm
  <2> QED
    BY <2>3, <2>11, <2>12 DEF At
<1> DEFINE b == p + 1 + Len(w)
<1>10. f[b] = inside /\ Calm(text, n, f, p, b, o)
  <2>1. m \in 0..m
    BY <1>2
  <2>2. At(m)
    BY <1>9, <2>1
  <2> HIDE DEF At
  <2>3. here + pos[m] = b
    BY <1>3 DEF here
  <2> QED
    BY <2>2, <2>3 DEF At
<1>11. b \in Nat /\ b + 1 \in 1..n /\ b + 1 - 1 = b /\ b + 1 = p + Len(w) + 2 /\ b + 1 < n
       /\ b + 1 + 1 = p + Len(w) + 3 /\ b + 1 \in Nat
  BY <1>6
<1> HIDE DEF b
<1>12. text[b + 1] = Quote /\ text[b + 1 + 1] = Close
  BY <1>11
<1>13. f[b + 1] = outside
  BY <1>4, <1>5, <1>10, <1>11, <1>12
<1>14. Calm(text, n, f, b, b + 1, o)
  <2>1. (b + 1)..(b + 1) = {b + 1}
    BY <1>11
  <2>2. Closes(text, n, f, b + 1)
    BY <1>11, <1>12 DEF Closes
  <2> QED
    BY <1>1, <1>13, <2>1, <2>2 DEF Calm
<1>15. Calm(text, n, f, p, b + 1, o)
  BY <1>10, <1>11, <1>14, CalmAfterCalm
<1> QED
  BY <1>11, <1>13, <1>15 DEF outside

\* A string between its quotation marks, a brace behind it.
Quoted(text, n, p, w) ==
  /\ p \in Nat /\ n \in Nat /\ Len(w) \in Nat /\ p + Len(w) + 3 <= n
  /\ text[p + 1] = Quote /\ Holds(text, p + 1, w)
  /\ text[p + Len(w) + 2] = Quote /\ text[p + Len(w) + 3] = Close

\* What a string of a record may be written as.
IsString(w) == \E says : Len(says) \in Nat /\ \E pos : Escaped(says, w, pos)

\* A string between its quotation marks is passed over.
LEMMA StringPassed ==
  ASSUME NEW text, NEW n, NEW f, SalvageRun(text, n, f), NEW p, NEW w, Quoted(text, n, p, w), IsString(w),
         NEW d, NEW st, NEW o, f[p] = Outside(d, st, o), NEW z, z = p + Len(w) + 2
  PROVE  f[z] = Outside(d, st, o) /\ Calm(text, n, f, p, z, o)
<1>1. PICK says : Len(says) \in Nat /\ \E pos : Escaped(says, w, pos)
  BY DEF IsString
<1>2. PICK pos : Escaped(says, w, pos)
  BY <1>1
<1>3. /\ p \in Nat /\ n \in Nat /\ p + Len(w) + 3 <= n
      /\ text[p + 1] = Quote /\ Holds(text, p + 1, w)
      /\ text[p + Len(w) + 2] = Quote /\ text[p + Len(w) + 3] = Close
  BY DEF Quoted
<1> QED
  BY <1>1, <1>2, <1>3, StringScan

\* The next state of a scan.
LEMMA NextOfScan ==
  ASSUME NEW text, NEW n \in Nat, NEW f, SalvageRun(text, n, f), NEW p \in Nat, p + 1 <= n
  PROVE  f[p + 1] = SalvageStep(text, p + 1, f[p])
<1>1. p + 1 \in 1..n /\ p + 1 - 1 = p
  OBVIOUS
<1> QED
  BY <1>1 DEF SalvageRun

\* Between strings nothing is remembered of them.
LEMMA OutsideFields ==
  ASSUME NEW d, NEW s, NEW o
  PROVE  ~Outside(d, s, o).in /\ Outside(d, s, o).out = o
BY DEF Outside

\* The first opening brace.
LEMMA ObjectOpens ==
  ASSUME NEW text, NEW n \in Nat, NEW f, SalvageRun(text, n, f),
         NEW p \in Nat, p + 1 <= n, NEW o,
         f[p] = Outside(0, 0, o), text[p + 1] = Open
  PROVE  f[p + 1] = Outside(1, p + 1, o) /\ Calm(text, n, f, p, p + 1, o)
<1>1. SalvageStep(text, p + 1, Outside(0, 0, o)) = Outside(0 + 1, IF 0 = 0 THEN p + 1 ELSE 0, o)
  BY DEF SalvageStep, Outside, Quote, Open
<1>2. 0 + 1 = 1 /\ (IF 0 = 0 THEN p + 1 ELSE 0) = p + 1
  OBVIOUS
<1>3. SalvageStep(text, p + 1, Outside(0, 0, o)) = Outside(1, p + 1, o)
  BY <1>1, <1>2
<1>4. f[p + 1] = Outside(1, p + 1, o)
  <2>1. f[p + 1] = SalvageStep(text, p + 1, f[p])
    BY NextOfScan
  <2> QED
    BY <1>3, <2>1
<1>5. ~f[p].in /\ f[p + 1].out = o
  BY <1>4 DEF Outside
<1>6. Calm(text, n, f, p, p + 1, o)
  BY <1>5, CalmStep
<1> QED
  BY <1>4, <1>6

\* The opening brace of an object in an object.
LEMMA ObjectOpensAgain ==
  ASSUME NEW text, NEW n \in Nat, NEW f, SalvageRun(text, n, f),
         NEW p \in Nat, p + 1 <= n, NEW o, NEW st,
         f[p] = Outside(1, st, o), text[p + 1] = Open
  PROVE  f[p + 1] = Outside(2, st, o) /\ Calm(text, n, f, p, p + 1, o)
<1>1. SalvageStep(text, p + 1, Outside(1, st, o)) = Outside(1 + 1, IF 1 = 0 THEN p + 1 ELSE st, o)
  BY DEF SalvageStep, Outside, Quote, Open
<1>2. 1 + 1 = 2 /\ (IF 1 = 0 THEN p + 1 ELSE st) = st
  OBVIOUS
<1>3. SalvageStep(text, p + 1, Outside(1, st, o)) = Outside(2, st, o)
  BY <1>1, <1>2
<1>4. f[p + 1] = Outside(2, st, o)
  <2>1. f[p + 1] = SalvageStep(text, p + 1, f[p])
    BY NextOfScan
  <2> QED
    BY <1>3, <2>1
<1>5. ~f[p].in /\ f[p + 1].out = o
  BY <1>4 DEF Outside
<1>6. Calm(text, n, f, p, p + 1, o)
  BY <1>5, CalmStep
<1> QED
  BY <1>4, <1>6

\* The closing brace of an object in an object.
LEMMA ObjectGoesOn ==
  ASSUME NEW text, NEW n \in Nat, NEW f, SalvageRun(text, n, f),
         NEW p \in Nat, p + 1 <= n, NEW o, NEW st,
         f[p] = Outside(2, st, o), text[p + 1] = Close
  PROVE  f[p + 1] = Outside(1, st, o) /\ Calm(text, n, f, p, p + 1, o)
<1> DEFINE s == Outside(2, st, o)
<1>1. SalvageStep(text, p + 1, s) = [s EXCEPT !.depth = @ - 1]
  BY DEF SalvageStep, Outside, Quote, Open, Close
<1>2. s.depth - 1 = 1
  BY DEF Outside
<1>3. SalvageStep(text, p + 1, s) = Outside(1, st, o)
  BY <1>1, <1>2 DEF Outside
<1>4. f[p + 1] = Outside(1, st, o)
  <2>1. f[p + 1] = SalvageStep(text, p + 1, f[p])
    BY NextOfScan
  <2> QED
    BY <1>3, <2>1
<1>5. ~f[p].in /\ f[p + 1].out = o
  BY <1>4 DEF Outside
<1>6. Calm(text, n, f, p, p + 1, o)
  BY <1>5, CalmStep
<1> QED
  BY <1>4, <1>6

\* The last closing brace.
LEMMA ObjectCloses ==
  ASSUME NEW text, NEW n \in Nat, NEW f, SalvageRun(text, n, f),
         NEW p \in Nat, p + 1 <= n, NEW o, NEW st \in Nat, st > 0,
         f[p] = Outside(1, st, o), text[p + 1] = Close
  PROVE  f[p + 1] = Outside(0, 0, Append(o, <<st, p + 1>>)) /\ Closes(text, n, f, p + 1)
<1>1. SalvageStep(text, p + 1, Outside(1, st, o)) = Outside(0, 0, Append(o, <<st, p + 1>>))
  BY DEF SalvageStep, Outside, Quote, Open, Close
<1>2. p + 1 - 1 = p
  OBVIOUS
<1>3. Closes(text, n, f, p + 1)
  BY <1>2, OutsideFields DEF Closes
<1>4. f[p + 1] = SalvageStep(text, p + 1, f[p])
  BY NextOfScan
<1> QED
  BY <1>1, <1>3, <1>4

\* The sign between two objects.
LEMMA AnotherFollows ==
  ASSUME NEW text, NEW n \in Nat, NEW f, SalvageRun(text, n, f),
         NEW p \in Nat, p + 1 <= n, NEW o,
         f[p] = Outside(0, 0, o), text[p + 1] = After
  PROVE  f[p + 1] = Outside(0, 0, o) /\ Calm(text, n, f, p, p + 1, o)
<1>1. SalvageStep(text, p + 1, Outside(0, 0, o)) = Outside(0, 0, o)
  BY DEF SalvageStep, Outside, Quote, Open, Close, After
<1>2. f[p + 1] = Outside(0, 0, o)
  <2>1. f[p + 1] = SalvageStep(text, p + 1, f[p])
    BY NextOfScan
  <2> QED
    BY <1>1, <2>1
<1>5. ~f[p].in /\ f[p + 1].out = o
  BY <1>2 DEF Outside
<1>6. Calm(text, n, f, p, p + 1, o)
  BY <1>5, CalmStep
<1> QED
  BY <1>2, <1>6

\* An object that fits in the text.
ObjectAfter(text, n, p, obj, h, w) ==
  /\ p \in Nat /\ n \in Nat /\ h \in {1, 2} /\ Len(w) \in Nat
  /\ Len(obj) = Len(w) + 2 * h + 2 /\ p + Len(obj) <= n
  /\ text[p + 1] = Open /\ (h = 2 => text[p + 2] = Open)
  /\ Quoted(text, n, p + h, w)
  /\ text[p + h + Len(w) + 3] = Close /\ (h = 2 => text[p + h + Len(w) + 4] = Close)

\* A text that holds a record's object has its braces and its string in their places.
LEMMA ObjectHeld ==
  ASSUME NEW text, NEW n \in Nat, NEW p \in Nat, NEW obj, p + Len(obj) <= n, Holds(text, p, obj),
         NEW r, NEW w, IsObject(obj, r, w)
  PROVE  ObjectAfter(text, n, p, obj, Nested(r), w)
<1> DEFINE h == Nested(r)
           L == Len(w)
<1>1. h \in {1, 2}
  BY DEF Nested
<1> HIDE DEF h
<1>2. /\ L \in Nat /\ Len(obj) = L + 2 * h + 2
      /\ \A i \in 1..h : obj[i] = Open
      /\ obj[h + 1] = Quote
      /\ \A i \in 1..L : obj[h + 1 + i] = w[i]
      /\ obj[h + L + 2] = Quote
      /\ \A i \in 1..h : obj[h + L + 2 + i] = Close
  BY DEF IsObject, h
<1> HIDE DEF L
<1>3. \A i \in 1..Len(obj) : text[p + i] = obj[i]
  BY DEF Holds
<1>4. L \in Nat /\ h \in {1, 2} /\ Len(obj) = L + 2 * h + 2 /\ Len(obj) \in Nat
  BY <1>1, <1>2
<1>5. text[p + 1] = Open
  BY <1>1, <1>2, <1>3
<1>6. h = 2 => text[p + 2] = Open
  BY <1>1, <1>2, <1>3
<1>7. text[p + h + 1] = Quote
  <2>1. h + 1 \in 1..Len(obj) /\ p + (h + 1) = p + h + 1
    BY <1>4
  <2> QED
    BY <1>2, <1>3, <2>1
<1>8. ASSUME NEW i \in 1..L PROVE text[p + h + 1 + i] = w[i]
  <2>1. h + 1 + i \in 1..Len(obj) /\ p + (h + 1 + i) = p + h + 1 + i
    BY <1>4
  <2> QED
    BY <1>2, <1>3, <2>1
<1>9. text[p + h + L + 2] = Quote
  <2>1. h + L + 2 \in 1..Len(obj) /\ p + (h + L + 2) = p + h + L + 2
    BY <1>4
  <2> QED
    BY <1>2, <1>3, <2>1
<1>10. text[p + h + L + 3] = Close
  <2>1. h + L + 2 + 1 \in 1..Len(obj) /\ p + (h + L + 2 + 1) = p + h + L + 3 /\ 1 \in 1..h
    BY <1>4
  <2> QED
    BY <1>2, <1>3, <2>1
<1>11. h = 2 => text[p + h + L + 4] = Close
  <2> HAVE h = 2
  <2>1. h + L + 2 + 2 \in 1..Len(obj) /\ p + (h + L + 2 + 2) = p + h + L + 4 /\ 2 \in 1..h
    BY <1>4
  <2> QED
    BY <1>2, <1>3, <2>1
<1>12. Quoted(text, n, p + h, w)
  <2>1. p + h \in Nat /\ p + h + L + 3 <= n
    BY <1>4
  <2>2. Holds(text, p + h + 1, w)
    BY <1>8 DEF Holds, L
  <2> QED
    BY <1>2, <1>7, <1>9, <1>10, <2>1, <2>2 DEF Quoted, L
<1> QED
  BY <1>1, <1>2, <1>5, <1>6, <1>10, <1>11, <1>12 DEF ObjectAfter, L, h

\* After z comes the last brace.
LastOf(z, p, obj) == z \in Nat /\ z + 1 = p + Len(obj)

\* An object is found when its last brace has been read, and nothing before that.
LEMMA ObjectScan ==
  ASSUME NEW text, NEW n \in Nat, NEW f, SalvageRun(text, n, f), NEW p \in Nat, NEW obj, NEW h, NEW w,
         ObjectAfter(text, n, p, obj, h, w), IsString(w), NEW o, f[p] = Outside(0, 0, o),
         NEW z, LastOf(z, p, obj)
  PROVE  /\ f[z + 1] = Outside(0, 0, Append(o, <<p + 1, z + 1>>))
         /\ Calm(text, n, f, p, z, o)
         /\ Closes(text, n, f, z + 1)
<1> DEFINE L == Len(w)
<1>0. z \in Nat /\ z + 1 = p + Len(obj)
  BY DEF LastOf
<1>1. /\ p \in Nat /\ n \in Nat /\ h \in {1, 2} /\ L \in Nat
      /\ Len(obj) = L + 2 * h + 2 /\ p + Len(obj) <= n
      /\ text[p + 1] = Open /\ (h = 2 => text[p + 2] = Open)
      /\ Quoted(text, n, p + h, w)
      /\ text[p + h + L + 3] = Close /\ (h = 2 => text[p + h + L + 4] = Close)
  BY DEF ObjectAfter
<1> HIDE DEF L
<1>2. f[p + 1] = Outside(1, p + 1, o) /\ Calm(text, n, f, p, p + 1, o)
  <2>1. n \in Nat /\ p \in Nat /\ p + 1 <= n /\ text[p + 1] = Open
    BY <1>1
  <2> QED
    BY <2>1, ObjectOpens
<1>3. CASE h = 1
  <2> DEFINE a == p + 1
  <2>1. /\ a \in Nat /\ z = a + L + 2 /\ z + 1 <= n /\ text[z + 1] = Close /\ p \in Nat /\ a > 0
        /\ Quoted(text, n, a, w) /\ n \in Nat
    BY <1>0, <1>1, <1>3
  <2>2. f[a] = Outside(1, a, o) /\ Calm(text, n, f, p, a, o)
    BY <1>2
  <2> HIDE DEF a
  <2>3. f[z] = Outside(1, a, o) /\ Calm(text, n, f, a, z, o)
    BY <2>1, <2>2, StringPassed DEF L
  <2>4. Calm(text, n, f, p, z, o)
    <3>1. a \in Nat /\ p \in Nat /\ z \in Nat
      BY <1>0, <2>1
    <3>2. Calm(text, n, f, p, a, o) /\ Calm(text, n, f, a, z, o)
      BY <2>2, <2>3
    <3> QED
      BY <3>1, <3>2, CalmAfterCalm
  <2>5. f[z + 1] = Outside(0, 0, Append(o, <<a, z + 1>>)) /\ Closes(text, n, f, z + 1)
    <3>1. a \in Nat /\ n \in Nat /\ z \in Nat
      BY <1>0, <2>1
    <3>2. a > 0 /\ z + 1 <= n /\ text[z + 1] = Close
      BY <2>1
    <3>3. f[z] = Outside(1, a, o)
      BY <2>3
    <3> QED
      BY <3>1, <3>2, <3>3, ObjectCloses
  <2> QED
    BY <2>4, <2>5 DEF a
<1>4. CASE h = 2
  <2> DEFINE a == p + 1
             b == p + 2
             y == b + L + 2
  <2>1. /\ a \in Nat /\ b \in Nat /\ b = a + 1 /\ b <= n /\ y \in Nat /\ y + 1 <= n /\ z = y + 1 /\ z + 1 <= n
        /\ text[z + 1] = Close /\ text[y + 1] = Close /\ p \in Nat /\ a > 0 /\ n \in Nat
        /\ text[b] = Open /\ Quoted(text, n, b, w) /\ y = b + L + 2
    BY <1>0, <1>1, <1>4
  <2>2. f[a] = Outside(1, a, o) /\ Calm(text, n, f, p, a, o)
    BY <1>2
  <2> HIDE DEF a, b, y
  <2>3. f[b] = Outside(2, a, o) /\ Calm(text, n, f, a, b, o)
    <3>1. text[a + 1] = Open /\ a + 1 <= n
      BY <2>1
    <3>2. f[a + 1] = Outside(2, a, o) /\ Calm(text, n, f, a, a + 1, o)
      BY <2>1, <2>2, <3>1, ObjectOpensAgain
    <3> QED
      BY <2>1, <3>2
  <2>4. f[y] = Outside(2, a, o) /\ Calm(text, n, f, b, y, o)
    BY <2>1, <2>3, StringPassed DEF L
  <2>5. f[z] = Outside(1, a, o) /\ Calm(text, n, f, y, z, o)
    <3>1. f[y + 1] = Outside(1, a, o) /\ Calm(text, n, f, y, y + 1, o)
      BY <2>1, <2>4, ObjectGoesOn
    <3> QED
      BY <2>1, <3>1
  <2>6. Calm(text, n, f, p, b, o)
    BY <2>1, <2>2, <2>3, CalmAfterCalm
  <2>7. Calm(text, n, f, p, y, o)
    BY <2>1, <2>4, <2>6, CalmAfterCalm
  <2>8. Calm(text, n, f, p, z, o)
    BY <2>1, <2>5, <2>7, CalmAfterCalm
  <2>9. f[z + 1] = Outside(0, 0, Append(o, <<a, z + 1>>)) /\ Closes(text, n, f, z + 1)
    <3>1. a \in Nat /\ n \in Nat /\ z \in Nat
      BY <1>0, <2>1
    <3>2. a > 0 /\ z + 1 <= n /\ text[z + 1] = Close
      BY <2>1
    <3>3. f[z] = Outside(1, a, o)
      BY <2>5
    <3> QED
      BY <3>1, <3>2, <3>3, ObjectCloses
  <2> QED
    BY <2>8, <2>9 DEF a
<1> QED
  BY <1>1, <1>3, <1>4

\* An answer written as it should be.
WellWritten(records, n, text, pos) ==
  /\ AreRecords(records, n)
  /\ AnswersAt(records, TRUE, n, text, pos)

\* Where the record k stands.
RecordAt(text, n, from, to, k, obj, h, w) ==
  /\ from \in Nat /\ to \in Nat /\ n \in Nat /\ to <= n
  /\ k > 1 => text[from + 1] = After
  /\ to = from + Gap(k) + Len(obj)
  /\ ObjectAfter(text, n, from + Gap(k), obj, h, w)
  /\ IsString(w)

\* The record k, written so, from the end of the record before it.
RecordLies(records, escaping, n, text, pos, k) ==
  /\ pos[k - 1] \in Nat /\ pos[k] \in Nat /\ pos[n] \in Nat /\ pos[k] <= pos[n]
  /\ k > 1 => text[pos[k - 1] + 1] = After
  /\ pos[k] = pos[k - 1] + Gap(k) + Len(Object(records[k], escaping))
  /\ ObjectAfter(text, pos[n], pos[k - 1] + Gap(k), Object(records[k], escaping),
                 Nested(records[k]), Written(records[k].says, escaping))

\* Each record of an answer stands where the answer says.
LEMMA RecordsLie ==
  ASSUME NEW records, NEW n \in Nat, AreRecords(records, n), NEW escaping, NEW text, NEW pos,
         AnswersAt(records, escaping, n, text, pos), NEW k \in 1..n
  PROVE  RecordLies(records, escaping, n, text, pos, k)
<1> DEFINE r == records[k]
           obj == Object(records[k], escaping)
           w == Written(r.says, escaping)
           from == pos[k - 1]
           to == pos[k]
           end == pos[n]
           g == Gap(k)
           says == r.says
<1>1. /\ pos \in [0..n -> Nat] /\ Rising(pos, n)
      /\ to = from + g + Len(obj)
      /\ k > 1 => text[from + 1] = After
      /\ \A i \in 1..Len(obj) : text[from + g + i] = obj[i]
  BY DEF AnswersAt
<1>2. from \in Nat /\ to \in Nat /\ end \in Nat /\ to <= end
  <2>1. k - 1 \in 0..n /\ k \in 0..n /\ n \in 0..n
    OBVIOUS
  <2>2. pos[k - 1] \in Nat /\ pos[k] \in Nat /\ pos[n] \in Nat
    BY <1>1, <2>1
  <2>3. pos[k] <= pos[n]
    BY <1>1, <2>1 DEF Rising
  <2> QED
    BY <2>2, <2>3
<1>3. says \in Seq(Symbols)
  BY DEF AreRecords
<1>4. IsObject(obj, r, w)
  <2> HIDE DEF r
  <2>1. r.says \in Seq(Symbols)
    BY <1>3
  <2>2. IsObject(Object(r, escaping), r, Written(r.says, escaping))
    BY <2>1, ObjectIs
  <2> QED
    BY <2>2 DEF r
<1>5. Len(obj) \in Nat /\ obj \in Seq(Symbols)
  <2> HIDE DEF obj
  <2>1. obj \in Seq(Symbols)
    BY <1>4 DEF IsObject
  <2> QED
    BY <2>1, LenProperties
<1>6. g \in {0, 1}
  BY DEF Gap
<1> HIDE DEF r, obj, w, from, to, end, g, says
<1> DEFINE p == from + g
<1>7. p \in Nat /\ p + Len(obj) <= end
  BY <1>1, <1>2, <1>5, <1>6
<1>8. Holds(text, p, obj)
  BY <1>1 DEF Holds
<1> HIDE DEF p
<1>9. ObjectAfter(text, end, p, obj, Nested(r), w)
  BY <1>2, <1>4, <1>7, <1>8, ObjectHeld
<1> QED
  BY <1>1, <1>2, <1>9 DEF RecordLies, r, obj, w, from, to, end, g, p

\* Each record of an answer written as it should be is an object with a string in it.
LEMMA RecordStands ==
  ASSUME NEW records, NEW n \in Nat, NEW text, NEW pos, WellWritten(records, n, text, pos), NEW k \in 1..n
  PROVE  \E obj, h, w : RecordAt(text, pos[n], pos[k - 1], pos[k], k, obj, h, w)
<1> DEFINE t == TRUE
<1>1. t = TRUE
  OBVIOUS
<1> HIDE DEF t
<1> DEFINE says == records[k].says
           w == Written(says, t)
           obj == Object(records[k], t)
           h == Nested(records[k])
<1>2. AreRecords(records, n) /\ AnswersAt(records, t, n, text, pos)
  BY <1>1 DEF WellWritten
<1>3. RecordLies(records, t, n, text, pos, k)
  BY <1>2, RecordsLie
<1>4. says \in Seq(Symbols)
  BY <1>2 DEF AreRecords
<1> HIDE DEF says
<1>5. IsString(w)
  <2>1. PICK at : WritesAt(says, t, Written(says, t), at)
    BY <1>4, WrittenIs
  <2>2. Len(says) \in Nat
    BY <1>4, LenProperties
  <2> HIDE DEF w
  <2>3. Escaped(says, w, at)
    BY <1>1, <2>1 DEF Escaped, w
  <2> QED
    BY <2>2, <2>3 DEF IsString
<1>6. RecordAt(text, pos[n], pos[k - 1], pos[k], k, obj, h, w)
  BY <1>3, <1>5 DEF RecordAt, RecordLies, says
<1> HIDE DEF obj, h, w
<1> QED
  BY <1>6

\* What a scan holds after the first k records.
FoundBy(pos, k) == [j \in 1..k |-> <<pos[j - 1] + Gap(j) + 1, pos[j]>>]

\* From one end of a record to the next.
Stretch(text, n, f, from, to, o) ==
  /\ \A i \in from..(to - 1) : f[i].out = o
  /\ \A i \in (from + 1)..to : Closes(text, n, f, i)

\* After one more record one more object has been found, and none before its last brace.
LEMMA RecordScan ==
  ASSUME NEW text, NEW n, NEW f, SalvageRun(text, n, f),
         NEW from, NEW to, NEW k, NEW obj, NEW h, NEW w, RecordAt(text, n, from, to, k, obj, h, w),
         NEW o, f[from] = Outside(0, 0, o)
  PROVE  /\ f[to] = Outside(0, 0, Append(o, <<from + Gap(k) + 1, to>>))
         /\ Stretch(text, n, f, from, to, o)
         /\ from < to
<1> DEFINE g == Gap(k)
           p == from + g
           z == to - 1
<1>1. /\ from \in Nat /\ to \in Nat /\ n \in Nat /\ to <= n
      /\ k > 1 => text[from + 1] = After
      /\ to = p + Len(obj)
      /\ ObjectAfter(text, n, p, obj, h, w)
      /\ IsString(w)
  BY DEF RecordAt
<1>2. g \in {0, 1} /\ (g = 1 => k > 1)
  BY DEF Gap
<1> HIDE DEF g
<1>3. Len(obj) \in Nat /\ Len(obj) > 0
  BY DEF ObjectAfter, RecordAt
<1>4. p \in Nat /\ z \in Nat /\ z + 1 = to /\ z + 1 = p + Len(obj) /\ p <= n /\ from < to /\ from <= p
  BY <1>1, <1>2, <1>3
<1>5. f[p] = Outside(0, 0, o) /\ Calm(text, n, f, from, p, o)
  <2>1. CASE g = 0
    <3>1. p = from
      BY <1>1, <2>1
    <3>2. Calm(text, n, f, from, from, o)
      BY <1>1 DEF Calm
    <3> QED
      BY <3>1, <3>2
  <2>2. CASE g = 1
    <3>1. p = from + 1 /\ text[from + 1] = After /\ from + 1 <= n /\ from \in Nat /\ n \in Nat
      BY <1>1, <1>2, <1>4, <2>2
    <3>2. f[from + 1] = Outside(0, 0, o) /\ Calm(text, n, f, from, from + 1, o)
      BY <3>1, AnotherFollows
    <3> QED
      BY <3>1, <3>2
  <2> QED
    BY <1>2, <2>1, <2>2
<1> HIDE DEF p, z
<1>6. /\ f[z + 1] = Outside(0, 0, Append(o, <<p + 1, z + 1>>))
      /\ Calm(text, n, f, p, z, o)
      /\ Closes(text, n, f, z + 1)
  <2>1. ObjectAfter(text, n, p, obj, h, w) /\ IsString(w)
    BY <1>1
  <2>2. n \in Nat /\ p \in Nat /\ LastOf(z, p, obj)
    BY <1>1, <1>4 DEF LastOf
  <2>3. f[p] = Outside(0, 0, o)
    BY <1>5
  <2> QED
    BY <2>1, <2>2, <2>3, ObjectScan
<1>7. Calm(text, n, f, from, z, o)
  BY <1>1, <1>4, <1>5, <1>6, CalmAfterCalm
<1>8. f[from].out = o
  BY DEF Outside
<1>9. \A i \in from..(to - 1) : f[i].out = o
  <2> TAKE i \in from..(to - 1)
  <2>1. i = from \/ i \in (from + 1)..z
    BY <1>1, <1>4
  <2> QED
    BY <1>7, <1>8, <2>1 DEF Calm
<1>10. \A i \in (from + 1)..to : Closes(text, n, f, i)
  <2> TAKE i \in (from + 1)..to
  <2>1. i = z + 1 \/ i \in (from + 1)..z
    BY <1>1, <1>4
  <2> QED
    BY <1>6, <1>7, <2>1 DEF Calm
<1>11. f[to] = Outside(0, 0, Append(o, <<p + 1, to>>))
  BY <1>4, <1>6
<1> QED
  BY <1>4, <1>9, <1>10, <1>11 DEF Stretch, p, g

\* One more record, one more object.
LEMMA FoundGrows ==
  ASSUME NEW n \in Nat, NEW pos \in [0..n -> Nat], NEW k \in 1..n
  PROVE  FoundBy(pos, k) = Append(FoundBy(pos, k - 1), <<pos[k - 1] + Gap(k) + 1, pos[k]>>)
<1> DEFINE span(j) == <<pos[j - 1] + Gap(j) + 1, pos[j]>>
           q == k - 1
           o == FoundBy(pos, q)
<1>1. \A j \in 1..k : span(j) \in Nat \X Nat
  <2> TAKE j \in 1..k
  <2>1. j - 1 \in 0..n /\ j \in 0..n
    OBVIOUS
  <2>2. pos[j - 1] \in Nat /\ pos[j] \in Nat /\ Gap(j) \in Nat
    BY <2>1 DEF Gap
  <2> QED
    BY <2>2
<1>2. FoundBy(pos, k) = [j \in 1..k |-> span(j)] /\ o = [j \in 1..q |-> span(j)]
  BY DEF FoundBy
<1> HIDE DEF span, o
<1> DEFINE S == Nat \X Nat
<1> HIDE DEF S
<1>3. q \in Nat /\ k = q + 1 /\ \A j \in 1..k : span(j) \in S
  BY <1>1 DEF S
<1>4. o \in Seq(S) /\ Len(o) = q
  BY <1>2, <1>3
<1>5. /\ Append(o, span(k)) \in Seq(S) /\ Len(Append(o, span(k))) = k
      /\ \A j \in 1..q : Append(o, span(k))[j] = o[j]
      /\ Append(o, span(k))[k] = span(k)
  <2>1. span(k) \in S
    BY <1>3
  <2> QED
    BY <1>3, <1>4, <2>1, AppendProperties
<1> DEFINE b == Append(o, span(k))
<1> HIDE DEF b
<1>6. b = [j \in 1..k |-> span(j)]
  <2>1. b = [j \in 1..k |-> b[j]]
    <3>1. b \in Seq(S) /\ Len(b) = k
      BY <1>5 DEF b
    <3>2. DOMAIN b = 1..k /\ b = [j \in DOMAIN b |-> b[j]]
      BY <3>1, LenProperties
    <3> QED
      BY <3>2
  <2>2. \A j \in 1..k : b[j] = span(j)
    <3> TAKE j \in 1..k
    <3>1. CASE j = k
      BY <1>5, <3>1 DEF b
    <3>2. CASE j # k
      <4>1. j \in 1..q
        BY <3>2
      <4> QED
        BY <1>2, <1>5, <4>1 DEF b
    <3> QED
      BY <3>1, <3>2
  <2> QED
    BY <2>1, <2>2
<1> QED
  BY <1>2, <1>6 DEF b, span, o

\* The whole answer is scanned record by record.
LEMMA AnswerScan ==
  ASSUME NEW records, NEW n \in Nat, NEW text, NEW pos, WellWritten(records, n, text, pos),
         NEW f, SalvageRun(text, pos[n], f)
  PROVE  /\ \A k \in 0..n : f[pos[k]] = Outside(0, 0, FoundBy(pos, k))
         /\ \A k \in 1..n : pos[k - 1] < pos[k] /\ Stretch(text, pos[n], f, pos[k - 1], pos[k], FoundBy(pos, k - 1))
<1> DEFINE At(k) == f[pos[k]] = Outside(0, 0, FoundBy(pos, k))
           Bad == {k \in 0..n : ~At(k)}
<1>1. pos \in [0..n -> Nat] /\ pos[0] = 0
  BY DEF WellWritten, AnswersAt
<1>2. ASSUME NEW k \in 1..n, At(k - 1)
      PROVE  At(k) /\ pos[k - 1] < pos[k] /\ Stretch(text, pos[n], f, pos[k - 1], pos[k], FoundBy(pos, k - 1))
  <2> DEFINE from == pos[k - 1]
             to == pos[k]
             end == pos[n]
             o == FoundBy(pos, k - 1)
  <2>1. PICK obj, h, w : RecordAt(text, end, from, to, k, obj, h, w)
    BY RecordStands
  <2>2. f[from] = Outside(0, 0, o) /\ SalvageRun(text, end, f)
    BY <1>2
  <2>3. FoundBy(pos, k) = Append(o, <<from + Gap(k) + 1, to>>)
    BY <1>1, FoundGrows
  <2> HIDE DEF from, to, end, o
  <2>4. /\ f[to] = Outside(0, 0, Append(o, <<from + Gap(k) + 1, to>>))
        /\ Stretch(text, end, f, from, to, o)
        /\ from < to
    BY <2>1, <2>2, RecordScan
  <2> QED
    BY <2>3, <2>4 DEF from, to, end, o
<1>3. At(0)
  <2>1. FoundBy(pos, 0) = <<>>
    BY DEF FoundBy
  <2>2. f[0] = SalvageStart
    BY DEF SalvageRun
  <2> QED
    BY <1>1, <2>1, <2>2 DEF SalvageStart, Outside
<1>4. ASSUME Bad # {} PROVE FALSE
  <2>1. Bad \subseteq Nat
    OBVIOUS
  <2>2. PICK k \in Bad : \A m \in Nat : m < k => m \notin Bad
    BY <1>4, <2>1, FirstOne
  <2>3. k \in 0..n /\ ~At(k)
    BY <2>2
  <2>4. k # 0
    BY <1>3, <2>3
  <2>5. k \in 1..n /\ k - 1 \in Nat /\ k - 1 < k /\ k - 1 \in 0..n
    BY <2>3, <2>4
  <2>6. At(k - 1)
    BY <2>2, <2>5
  <2> QED
    BY <1>2, <2>3, <2>5, <2>6
<1>5. \A k \in 0..n : At(k)
  BY <1>4
<1>6. \A k \in 1..n : pos[k - 1] < pos[k] /\ Stretch(text, pos[n], f, pos[k - 1], pos[k], FoundBy(pos, k - 1))
  <2> TAKE k \in 1..n
  <2>1. k - 1 \in 0..n
    OBVIOUS
  <2>2. At(k - 1)
    BY <1>5, <2>1
  <2> QED
    BY <1>2, <2>2
<1> QED
  BY <1>5, <1>6

\* Whatever the place, it lies behind the last brace of so many records and before
\* that of the next.
LEMMA SomewhereInTheAnswer ==
  ASSUME NEW n \in Nat, NEW pos, pos \in [0..n -> Nat], pos[0] = 0,
         \A k \in 1..n : pos[k - 1] < pos[k], NEW e \in 0..pos[n]
  PROVE  \E k \in 0..n : /\ {j \in 1..n : pos[j] <= e} = 1..k
                         /\ pos[k] <= e /\ (k < n => e < pos[k + 1])
<1> DEFINE Over == {k \in 0..n : k < n => e < pos[k + 1]}
<1>1. n \in Over /\ Over \subseteq Nat
  OBVIOUS
<1>2. PICK k \in Over : \A m \in Nat : m < k => m \notin Over
  BY <1>1, FirstOne
<1>3. k \in 0..n /\ (k < n => e < pos[k + 1])
  BY <1>2
<1>4. \A m \in 0..n : pos[m] \in Nat
  OBVIOUS
<1>5. \A j \in 1..k : pos[j] <= e
  <2> TAKE j \in 1..k
  <2>1. j - 1 \in Nat /\ j - 1 < k /\ j - 1 \in 0..n /\ j - 1 + 1 = j /\ j - 1 < n /\ j \in 0..n
    BY <1>3
  <2>2. j - 1 \notin Over
    BY <1>2, <2>1
  <2>3. ~(e < pos[j])
    BY <2>1, <2>2
  <2> QED
    BY <1>4, <2>1, <2>3
<1>6. pos[k] <= e
  <2>1. k = 0 \/ k \in 1..k
    BY <1>3
  <2> QED
    BY <1>5, <2>1
<1> HIDE DEF Over
<1> DEFINE Bad == {j \in (k + 1)..n : pos[j] <= e}
<1>7. ASSUME Bad # {} PROVE FALSE
  <2>1. Bad \subseteq Nat
    BY <1>3
  <2>2. PICK j \in Bad : \A m \in Nat : m < j => m \notin Bad
    BY <1>7, <2>1, FirstOne
  <2>3. j \in (k + 1)..n /\ pos[j] <= e
    BY <2>2
  <2>4. j # k + 1
    <3> SUFFICES ASSUME j = k + 1 PROVE FALSE
      OBVIOUS
    <3>1. k < n /\ j \in 0..n
      BY <1>3, <2>3
    <3> QED
      BY <1>3, <1>4, <2>3, <3>1
  <2>5. j - 1 \in (k + 1)..n /\ j - 1 \in Nat /\ j - 1 < j /\ j \in 1..n /\ j - 1 \in 0..n /\ j \in 0..n
    BY <1>3, <2>3, <2>4
  <2>6. ~(pos[j - 1] <= e)
    BY <2>2, <2>5
  <2>7. pos[j - 1] < pos[j] /\ pos[j] \in Nat /\ pos[j - 1] \in Nat
    BY <1>4, <2>5
  <2> QED
    BY <2>3, <2>6, <2>7
<1>8. {j \in 1..n : pos[j] <= e} = 1..k
  <2>1. \A j \in 1..n : j \in 1..k \/ j \in (k + 1)..n
    BY <1>3
  <2>2. \A j \in 1..k : j \in 1..n
    BY <1>3
  <2> QED
    BY <1>5, <1>7, <2>1, <2>2
<1> QED
  BY <1>3, <1>6, <1>8

-----------------------------------------------------------------------------
(* What the repair does with an answer written as it should be: nothing.   *)

\* How far the repair is: between strings, in one, or after a backslash in one.
RepairOutside(x) == [in |-> FALSE, escaped |-> FALSE, out |-> x]
RepairInside(x) == [in |-> TRUE, escaped |-> FALSE, out |-> x]
RepairSkipping(x) == [in |-> TRUE, escaped |-> TRUE, out |-> x]

\* What one symbol does to the repair.
LEMMA RepairSteps ==
  ASSUME NEW text, NEW i, NEW x
  PROVE  /\ text[i] # Quote =>
              RepairStep(text, i, RepairOutside(x)) = RepairOutside(Append(x, text[i]))
         /\ text[i] = Quote =>
              RepairStep(text, i, RepairOutside(x)) = RepairInside(Append(x, text[i]))
         /\ Plain(text[i]) =>
              RepairStep(text, i, RepairInside(x)) = RepairInside(Append(x, text[i]))
         /\ text[i] = Escape =>
              RepairStep(text, i, RepairInside(x)) = RepairSkipping(Append(x, text[i]))
         /\ text[i] = Quote /\ CanClose(text, i) =>
              RepairStep(text, i, RepairInside(x)) = RepairOutside(Append(x, text[i]))
         /\ text[i] = Quote /\ ~CanClose(text, i) =>
              RepairStep(text, i, RepairInside(x)) = RepairInside(x \o <<Escape, Quote>>)
         /\ RepairStep(text, i, RepairSkipping(x)) = RepairInside(Append(x, text[i]))
<1> DEFINE can == CanClose(text, i)
<1> HIDE DEF can
<1>1. text[i] # Quote => RepairStep(text, i, RepairOutside(x)) = RepairOutside(Append(x, text[i]))
  BY DEF RepairStep, RepairOutside
<1>2. text[i] = Quote => RepairStep(text, i, RepairOutside(x)) = RepairInside(Append(x, text[i]))
  BY DEF RepairStep, RepairOutside, RepairInside
<1>3. Plain(text[i]) => RepairStep(text, i, RepairInside(x)) = RepairInside(Append(x, text[i]))
  BY DEF RepairStep, RepairInside, Plain, Quote, Escape
<1>4. text[i] = Escape => RepairStep(text, i, RepairInside(x)) = RepairSkipping(Append(x, text[i]))
  BY DEF RepairStep, RepairInside, RepairSkipping, Quote, Escape
<1>5. ASSUME text[i] = Quote, CanClose(text, i)
      PROVE  RepairStep(text, i, RepairInside(x)) = RepairOutside(Append(x, text[i]))
  BY <1>5 DEF RepairStep, RepairInside, RepairOutside, Quote, Escape
<1>6. ASSUME text[i] = Quote, ~CanClose(text, i)
      PROVE  RepairStep(text, i, RepairInside(x)) = RepairInside(x \o <<Escape, Quote>>)
  BY <1>6 DEF RepairStep, RepairInside
<1>7. RepairStep(text, i, RepairSkipping(x)) = RepairInside(Append(x, text[i]))
  BY DEF RepairStep, RepairSkipping, RepairInside
<1> QED
  BY <1>1, <1>2, <1>3, <1>4, <1>5, <1>6, <1>7

\* The two scans are in the same place.
InStep(s, r, x) ==
  \E d, st, o : \/ s = Outside(d, st, o) /\ r = RepairOutside(x)
                \/ s = Inside(d, st, o) /\ r = RepairInside(x)
                \/ s = Skipping(d, st, o) /\ r = RepairSkipping(x)

\* Only a quotation mark opens a string.
LEMMA StaysOutside ==
  ASSUME NEW text, NEW i, text[i] # Quote, NEW d, NEW st, NEW o
  PROVE  \E dd, ss, oo : SalvageStep(text, i, Outside(d, st, o)) = Outside(dd, ss, oo)
<1> DEFINE s == Outside(d, st, o)
<1>1. CASE text[i] = Open
  <2>1. SalvageStep(text, i, s) = Outside(d + 1, IF d = 0 THEN i ELSE st, o)
    BY <1>1 DEF SalvageStep, Outside, Quote, Open
  <2> QED
    BY <2>1
<1>2. CASE text[i] # Open /\ text[i] # Close
  BY <1>2 DEF SalvageStep, Outside
<1>3. CASE text[i] # Open /\ text[i] = Close /\ d = 1 /\ st > 0
  <2>1. SalvageStep(text, i, s) = Outside(0, 0, Append(o, <<st, i>>))
    BY <1>3 DEF SalvageStep, Outside, Quote, Open, Close
  <2> QED
    BY <2>1
<1>4. CASE text[i] # Open /\ text[i] = Close /\ ~(d = 1 /\ st > 0)
  <2>1. SalvageStep(text, i, s) = Outside(d - 1, st, o)
    BY <1>4 DEF SalvageStep, Outside, Quote, Open, Close
  <2> QED
    BY <2>1
<1> QED
  BY <1>1, <1>2, <1>3, <1>4

\* The repair goes through the strings as the scan for objects does, and copies, as long as
\* a quotation mark that ends a string looks like one.
LEMMA KeepsInStep ==
  ASSUME NEW text, NEW cut, NEW i, cut[i] = text[i], NEW s, NEW r, NEW x, InStep(s, r, x),
         s.in /\ ~s.escaped /\ text[i] = Quote => CanClose(cut, i)
  PROVE  InStep(SalvageStep(text, i, s), RepairStep(cut, i, r), Append(x, cut[i]))
<1> DEFINE y == Append(x, cut[i])
<1> HIDE DEF y
<1>1. PICK d : \E st, o : \/ s = Outside(d, st, o) /\ r = RepairOutside(x)
                          \/ s = Inside(d, st, o) /\ r = RepairInside(x)
                          \/ s = Skipping(d, st, o) /\ r = RepairSkipping(x)
  BY DEF InStep
<1>2. PICK st : \E o : \/ s = Outside(d, st, o) /\ r = RepairOutside(x)
                       \/ s = Inside(d, st, o) /\ r = RepairInside(x)
                       \/ s = Skipping(d, st, o) /\ r = RepairSkipping(x)
  BY <1>1
<1>3. PICK o : \/ s = Outside(d, st, o) /\ r = RepairOutside(x)
               \/ s = Inside(d, st, o) /\ r = RepairInside(x)
               \/ s = Skipping(d, st, o) /\ r = RepairSkipping(x)
  BY <1>2
<1>4. CASE s = Outside(d, st, o) /\ r = RepairOutside(x)
  <2>1. CASE text[i] = Quote
    <3>1. SalvageStep(text, i, s) = Inside(d, st, o)
      BY <1>4, <2>1 DEF SalvageStep, Outside, Inside
    <3>2. RepairStep(cut, i, r) = RepairInside(y)
      BY <1>4, <2>1, RepairSteps DEF y
    <3> QED
      BY <3>1, <3>2 DEF InStep, y
  <2>2. CASE text[i] # Quote
    <3>1. PICK dd : \E ss, oo : SalvageStep(text, i, s) = Outside(dd, ss, oo)
      BY <1>4, <2>2, StaysOutside
    <3>2. RepairStep(cut, i, r) = RepairOutside(y)
      BY <1>4, <2>2, RepairSteps DEF y
    <3> QED
      BY <3>1, <3>2 DEF InStep, y
  <2> QED
    BY <2>1, <2>2
<1>5. CASE s = Inside(d, st, o) /\ r = RepairInside(x)
  <2>1. CASE text[i] = Quote
    <3>1. SalvageStep(text, i, s) = Outside(d, st, o)
      BY <1>5, <2>1, StepsInside
    <3>2. s.in /\ ~s.escaped
      BY <1>5 DEF Inside
    <3>3. RepairStep(cut, i, r) = RepairOutside(y)
      BY <1>5, <2>1, <3>2, RepairSteps DEF y
    <3> QED
      BY <3>1, <3>3 DEF InStep, y
  <2>2. CASE text[i] = Escape
    <3>1. SalvageStep(text, i, s) = Skipping(d, st, o)
      BY <1>5, <2>2, StepsInside
    <3>2. RepairStep(cut, i, r) = RepairSkipping(y)
      BY <1>5, <2>2, RepairSteps DEF y
    <3> QED
      BY <3>1, <3>2 DEF InStep, y
  <2>3. CASE Plain(text[i])
    <3>1. SalvageStep(text, i, s) = Inside(d, st, o)
      BY <1>5, <2>3, StepsInside DEF Plain
    <3>2. RepairStep(cut, i, r) = RepairInside(y)
      BY <1>5, <2>3, RepairSteps DEF y
    <3> QED
      BY <3>1, <3>2 DEF InStep, y
  <2> QED
    BY <2>1, <2>2, <2>3 DEF Plain
<1>6. CASE s = Skipping(d, st, o) /\ r = RepairSkipping(x)
  <2>1. SalvageStep(text, i, s) = Inside(d, st, o)
    BY <1>6, StepsInside
  <2>2. RepairStep(cut, i, r) = RepairInside(y)
    BY <1>6, RepairSteps DEF y
  <2> QED
    BY <2>1, <2>2 DEF InStep, y
<1> QED
  BY <1>3, <1>4, <1>5, <1>6

\* So much of the text has been written.
Kept(x, text, k) == x \in Seq(Symbols) /\ Len(x) = k /\ \A j \in 1..k : x[j] = text[j]

\* One symbol more has been written.
LEMMA KeptGrows ==
  ASSUME NEW text, NEW k \in Nat, NEW x, Kept(x, text, k), NEW ch \in Symbols, text[k + 1] = ch
  PROVE  Kept(Append(x, ch), text, k + 1)
<1> DEFINE y == Append(x, ch)
<1>1. x \in Seq(Symbols) /\ Len(x) = k /\ \A j \in 1..k : x[j] = text[j]
  BY DEF Kept
<1>2. y \in Seq(Symbols) /\ Len(y) = k + 1 /\ (\A j \in 1..k : y[j] = x[j]) /\ y[k + 1] = ch
  BY <1>1, AppendProperties
<1> HIDE DEF y
<1>3. \A j \in 1..(k + 1) : j \in 1..k \/ j = k + 1
  OBVIOUS
<1>4. \A j \in 1..(k + 1) : y[j] = text[j]
  BY <1>1, <1>2, <1>3
<1> QED
  BY <1>2, <1>4 DEF Kept, y

\* Once all of a text has been written, it is what was written.
LEMMA KeptAll ==
  ASSUME NEW text \in Seq(Symbols), NEW x, Kept(x, text, Len(text))
  PROVE  x = text
<1>1. x \in Seq(Symbols) /\ Len(x) = Len(text) /\ \A j \in 1..Len(text) : x[j] = text[j]
  BY DEF Kept
<1> QED
  BY <1>1, SeqEqual

\* A run of the repair.
RepairRun(text, n, g) ==
  /\ g[0] = RepairStart
  /\ \A i \in 1..n : g[i] = RepairStep(text, i, g[i - 1])

\* What is found in a text is what the scan holds after its last symbol.
LEMMA SalvageRuns ==
  ASSUME NEW text \in Seq(Symbols)
  PROVE  \E f : SalvageRun(text, Len(text), f) /\ Salvage(text) = Spans(text, f[Len(text)].out)
<1>1. Len(text) \in Nat
  BY LenProperties
<1> QED
  BY <1>1, ScansRun DEF SalvageRun

\* What the repair makes of a text is what it has written after its last symbol.
LEMMA RepairRuns ==
  ASSUME NEW text \in Seq(Symbols)
  PROVE  \E g : RepairRun(text, Len(text), g) /\ RepairInnerQuotes(text) = g[Len(text)].out
<1>1. Len(text) \in Nat
  BY LenProperties
<1> QED
  BY <1>1, ScansRun DEF RepairRun

\* A text, or what is left of it, in which no quotation mark that ends a string looks
\* like one inside it.
Ended(text, n, f) == SalvageRun(text, n, f) /\ \A i \in 1..n : Closes(text, n, f, i)
\* What is left of a text that stops at e.
Begins(cut, text, e) == cut \in Seq(Symbols) /\ Len(cut) = e /\ \A i \in 1..e : cut[i] = text[i]

\* The repair changes nothing.
LEMMA RepairKeeps ==
  ASSUME NEW text, NEW n \in Nat, NEW f, Ended(text, n, f), NEW e \in 0..n, NEW cut, Begins(cut, text, e)
  PROVE  RepairInnerQuotes(cut) = cut
<1>1. cut \in Seq(Symbols) /\ Len(cut) = e /\ \A i \in 1..e : cut[i] = text[i]
  BY DEF Begins
<1>2. PICK g : RepairRun(cut, Len(cut), g) /\ RepairInnerQuotes(cut) = g[Len(cut)].out
  BY <1>1, RepairRuns
<1>3. g[0] = RepairStart /\ \A i \in 1..e : g[i] = RepairStep(cut, i, g[i - 1])
  BY <1>1, <1>2 DEF RepairRun
<1>4. f[0] = SalvageStart /\ \A i \in 1..n : f[i] = SalvageStep(text, i, f[i - 1])
  BY DEF Ended, SalvageRun
<1>5. \A i \in 1..e : cut[i] \in Symbols
  BY <1>1, ElementOfSeq
<1> DEFINE J(i) == \E x : Kept(x, cut, i) /\ InStep(f[i], g[i], x)
           Bad == {i \in 0..e : ~J(i)}
<1>6. J(0)
  <2>1. Kept(<<>>, cut, 0)
    BY EmptySeq DEF Kept
  <2>2. f[0] = Outside(0, 0, <<>>) /\ g[0] = RepairOutside(<<>>)
    BY <1>3, <1>4 DEF SalvageStart, RepairStart, Outside, RepairOutside
  <2>3. InStep(f[0], g[0], <<>>)
    BY <2>2 DEF InStep
  <2> QED
    BY <2>1, <2>3
<1>7. ASSUME NEW i \in 1..e, J(i - 1) PROVE J(i)
  <2>1. PICK x : Kept(x, cut, i - 1) /\ InStep(f[i - 1], g[i - 1], x)
    BY <1>7
  <2> DEFINE s == f[i - 1]
             r == g[i - 1]
             ch == cut[i]
             q == i - 1
  <2>2. i \in 1..n /\ q \in Nat /\ q + 1 = i
    OBVIOUS
  <2>3. f[i] = SalvageStep(text, i, s) /\ g[i] = RepairStep(cut, i, r) /\ ch = text[i] /\ ch \in Symbols
    BY <1>1, <1>3, <1>4, <1>5, <2>2
  <2>4. s.in /\ ~s.escaped /\ text[i] = Quote => CanClose(cut, i)
    <3> HAVE s.in /\ ~s.escaped /\ text[i] = Quote
    <3>1. Closes(text, n, f, i)
      BY <2>2 DEF Ended
    <3>2. text[i + 1] = Close
      BY <3>1 DEF Closes
    <3>3. CASE i = e
      BY <1>1, <3>3 DEF CanClose
    <3>4. CASE i # e
      <4>1. i + 1 \in 1..e
        BY <3>4
      <4>2. cut[i + 1] = Close
        BY <1>1, <3>2, <4>1
      <4> QED
        BY <4>2 DEF CanClose
    <3> QED
      BY <3>3, <3>4
  <2>5. InStep(s, r, x) /\ Kept(x, cut, q)
    BY <2>1
  <2> HIDE DEF s, r, ch, q
  <2>6. InStep(SalvageStep(text, i, s), RepairStep(cut, i, r), Append(x, cut[i]))
    <3>1. cut[i] = text[i]
      BY <2>3 DEF ch
    <3> QED
      BY <2>4, <2>5, <3>1, KeepsInStep
  <2>7. Kept(Append(x, ch), cut, q + 1)
    <3>1. cut[q + 1] = ch
      BY <2>2 DEF ch
    <3>2. ch \in Symbols /\ q \in Nat
      BY <2>2, <2>3
    <3> QED
      BY <2>5, <3>1, <3>2, KeptGrows
  <2> QED
    BY <2>2, <2>3, <2>6, <2>7 DEF ch
<1>8. ASSUME Bad # {} PROVE FALSE
  <2>1. Bad \subseteq Nat
    OBVIOUS
  <2>2. PICK k \in Bad : \A m \in Nat : m < k => m \notin Bad
    BY <1>8, <2>1, FirstOne
  <2>3. k \in 0..e /\ ~J(k)
    BY <2>2
  <2>4. k # 0
    BY <1>6, <2>3
  <2>5. k \in 1..e /\ k - 1 \in Nat /\ k - 1 < k /\ k - 1 \in 0..e
    BY <2>3, <2>4
  <2>6. J(k - 1)
    BY <2>2, <2>5
  <2> QED
    BY <1>7, <2>3, <2>5, <2>6
<1>9. J(e)
  BY <1>8
<1>10. PICK x : Kept(x, cut, e) /\ InStep(f[e], g[e], x)
  BY <1>9
<1>11. g[e].out = x
  BY <1>10 DEF InStep, RepairOutside, RepairInside, RepairSkipping
<1>12. x = cut
  BY <1>1, <1>10, KeptAll
<1> QED
  BY <1>1, <1>2, <1>11, <1>12

\* Every quotation mark of an answer that ends a string has a brace behind it.
LEMMA AnswerEnded ==
  ASSUME NEW records, NEW n \in Nat, NEW text, NEW pos, WellWritten(records, n, text, pos),
         NEW f, SalvageRun(text, pos[n], f)
  PROVE  Ended(text, pos[n], f)
<1>1. pos \in [0..n -> Nat] /\ pos[0] = 0
  BY DEF WellWritten, AnswersAt
<1>2. \A k \in 1..n : pos[k - 1] < pos[k] /\ Stretch(text, pos[n], f, pos[k - 1], pos[k], FoundBy(pos, k - 1))
  BY AnswerScan
<1>3. ASSUME NEW i \in 1..pos[n] PROVE Closes(text, pos[n], f, i)
  <2>1. pos[n] \in Nat
    BY <1>1
  <2> DEFINE e == i - 1
  <2>2. e \in 0..pos[n] /\ e < pos[n]
    BY <2>1
  <2> HIDE DEF e
  <2>3. PICK k \in 0..n : /\ {j \in 1..n : pos[j] <= e} = 1..k
                          /\ pos[k] <= e /\ (k < n => e < pos[k + 1])
    BY <1>1, <1>2, <2>2, SomewhereInTheAnswer
  <2>4. k # n
    BY <1>1, <2>2, <2>3
  <2> DEFINE m == k + 1
  <2>5. m \in 1..n /\ m - 1 = k /\ k < n /\ m \in 0..n
    BY <2>3, <2>4
  <2>6. pos[k] <= e /\ e < pos[m] /\ pos[k] \in Nat /\ pos[m] \in Nat
    BY <1>1, <2>3, <2>5
  <2> HIDE DEF m
  <2>7. i \in (pos[k] + 1)..pos[m]
    BY <2>1, <2>6 DEF e
  <2>8. Stretch(text, pos[n], f, pos[k], pos[m], FoundBy(pos, k))
    BY <1>2, <2>5
  <2> QED
    BY <2>7, <2>8 DEF Stretch
<1> QED
  BY <1>3 DEF Ended

\* What has been found where the text stops.
SoFar(pos, n, e, k, o) == {j \in 1..n : pos[j] <= e} = 1..k /\ o = FoundBy(pos, k)

\* Wherever the scan is, it has found the records complete there and no other.
LEMMA FoundSoFar ==
  ASSUME NEW records, NEW n \in Nat, NEW text, NEW pos, WellWritten(records, n, text, pos),
         NEW f, SalvageRun(text, pos[n], f), NEW e \in 0..pos[n]
  PROVE  \E k \in 0..n : SoFar(pos, n, e, k, f[e].out)
<1>1. pos \in [0..n -> Nat] /\ pos[0] = 0
  BY DEF WellWritten, AnswersAt
<1>2. /\ \A k \in 0..n : f[pos[k]] = Outside(0, 0, FoundBy(pos, k))
      /\ \A k \in 1..n : pos[k - 1] < pos[k] /\ Stretch(text, pos[n], f, pos[k - 1], pos[k], FoundBy(pos, k - 1))
  BY AnswerScan
<1>3. PICK k \in 0..n : /\ {j \in 1..n : pos[j] <= e} = 1..k
                        /\ pos[k] <= e /\ (k < n => e < pos[k + 1])
  BY <1>1, <1>2, SomewhereInTheAnswer
<1>4. CASE k = n
  <2>1. pos[n] \in Nat
    BY <1>1
  <2>2. e = pos[k]
    BY <1>3, <1>4, <2>1
  <2>3. f[e].out = FoundBy(pos, k)
    <3>1. f[e] = Outside(0, 0, FoundBy(pos, k))
      BY <1>2, <2>2
    <3> QED
      BY <3>1 DEF Outside
  <2> QED
    BY <1>3, <2>3 DEF SoFar
<1>5. CASE k # n
  <2> DEFINE m == k + 1
  <2>1. m \in 1..n /\ m - 1 = k /\ k < n /\ m \in 0..n
    BY <1>3, <1>5
  <2>2. pos[k] <= e /\ e < pos[m] /\ pos[k] \in Nat /\ pos[m] \in Nat /\ pos[n] \in Nat
    BY <1>1, <1>3, <2>1
  <2> HIDE DEF m
  <2>3. e \in pos[k]..(pos[m] - 1)
    BY <2>2
  <2>4. Stretch(text, pos[n], f, pos[k], pos[m], FoundBy(pos, k))
    BY <1>2, <2>1
  <2>5. f[e].out = FoundBy(pos, k)
    BY <2>3, <2>4 DEF Stretch
  <2> QED
    BY <1>3, <2>5 DEF SoFar
<1> QED
  BY <1>4, <1>5

\* What is left of a text is scanned as the text is.
LEMMA SameScan ==
  ASSUME NEW text, NEW n \in Nat, NEW f, SalvageRun(text, n, f), NEW e \in 0..n,
         NEW cut, Begins(cut, text, e), NEW h, SalvageRun(cut, e, h)
  PROVE  h[e] = f[e]
<1>1. \A i \in 1..e : cut[i] = text[i]
  BY DEF Begins
<1>2. f[0] = SalvageStart /\ \A i \in 1..n : f[i] = SalvageStep(text, i, f[i - 1])
  BY DEF SalvageRun
<1>3. h[0] = SalvageStart /\ \A i \in 1..e : h[i] = SalvageStep(cut, i, h[i - 1])
  BY DEF SalvageRun
<1> DEFINE Bad == {i \in 0..e : h[i] # f[i]}
<1>4. ASSUME Bad # {} PROVE FALSE
  <2>1. Bad \subseteq Nat
    OBVIOUS
  <2>2. PICK k \in Bad : \A m \in Nat : m < k => m \notin Bad
    BY <1>4, <2>1, FirstOne
  <2>3. k \in 0..e /\ h[k] # f[k]
    BY <2>2
  <2>4. k # 0
    BY <1>2, <1>3, <2>3
  <2>5. k \in 1..e /\ k \in 1..n /\ k - 1 \in Nat /\ k - 1 < k /\ k - 1 \in 0..e
    BY <2>3, <2>4
  <2>6. h[k - 1] = f[k - 1]
    BY <2>2, <2>5
  <2> DEFINE s == f[k - 1]
  <2>7. f[k] = SalvageStep(text, k, s) /\ h[k] = SalvageStep(cut, k, s) /\ cut[k] = text[k]
    BY <1>1, <1>2, <1>3, <2>5, <2>6
  <2> HIDE DEF s
  <2>8. SalvageStep(cut, k, s) = SalvageStep(text, k, s)
    BY <2>7 DEF SalvageStep
  <2> QED
    BY <2>3, <2>7, <2>8
<1>5. e \in 0..e
  OBVIOUS
<1> QED
  BY <1>4, <1>5

\* What stands between two places.
LEMMA CutOut ==
  ASSUME NEW cut \in Seq(Symbols), NEW obj \in Seq(Symbols), NEW a \in Nat, a + Len(obj) <= Len(cut),
         \A i \in 1..Len(obj) : cut[a + i] = obj[i]
  PROVE  SubSeq(cut, a + 1, a + Len(obj)) = obj
<1> DEFINE b == a + 1
           c == a + Len(obj)
           part == SubSeq(cut, b, c)
<1>1. Len(obj) \in Nat /\ Len(cut) \in Nat
  BY LenProperties
<1>2. b \in 1..(Len(cut) + 1) /\ c \in (b - 1)..Len(cut) /\ c - b + 1 = Len(obj)
  BY <1>1
<1>3. \A i \in 1..Len(obj) : b + i - 1 = a + i
  BY <1>1
<1> HIDE DEF b, c
<1>4. part \in Seq(Symbols) /\ Len(part) = c - b + 1 /\ \A i \in 1..(c - b + 1) : part[i] = cut[b + i - 1]
  BY <1>2, SubSeqProperties
<1> HIDE DEF part
<1>5. part \in Seq(Symbols) /\ Len(part) = Len(obj) /\ \A i \in 1..Len(obj) : part[i] = obj[i]
  BY <1>2, <1>3, <1>4
<1>6. part = obj
  BY <1>5, SeqEqual
<1> QED
  BY <1>6 DEF part, b, c

\* An object as it should be written.
WholeObject(r) == Object(r, TRUE)

\* The records complete where the text stops, each as it should be written.
CutAnswerOf(records, n, pos, e) == [j \in {j \in 1..n : pos[j] <= e} |-> WholeObject(records[j])]

\* Exactly the records that are complete where the text stops are found in it.
LEMMA SalvagedSoFar ==
  ASSUME NEW records, NEW n \in Nat, NEW text, NEW pos, WellWritten(records, n, text, pos),
         NEW e \in 0..pos[n], NEW cut, Begins(cut, text, e)
  PROVE  Salvage(cut) = CutAnswerOf(records, n, pos, e)
<1>1. /\ pos \in [0..n -> Nat] /\ Rising(pos, n) /\ text \in Seq(Symbols) /\ Len(text) = pos[n]
  BY DEF WellWritten, AnswersAt
<1>2. cut \in Seq(Symbols) /\ Len(cut) = e /\ \A i \in 1..e : cut[i] = text[i]
  BY DEF Begins
<1>3. PICK f : SalvageRun(text, Len(text), f)
  BY <1>1, SalvageRuns
<1>4. PICK h : SalvageRun(cut, Len(cut), h) /\ Salvage(cut) = Spans(cut, h[Len(cut)].out)
  BY <1>2, SalvageRuns
<1>5. pos[n] \in Nat /\ SalvageRun(text, pos[n], f) /\ SalvageRun(cut, e, h)
  BY <1>1, <1>2, <1>3, <1>4
<1>51. PICK k \in 0..n : SoFar(pos, n, e, k, f[e].out)
  BY <1>5, FoundSoFar
<1>6. {j \in 1..n : pos[j] <= e} = 1..k /\ f[e].out = FoundBy(pos, k)
  BY <1>51 DEF SoFar
<1>7. h[e] = f[e]
  <2> DEFINE m == pos[n]
  <2>1. m \in Nat /\ SalvageRun(text, m, f) /\ e \in 0..m
    BY <1>5
  <2> HIDE DEF m
  <2> QED
    BY <1>5, <2>1, SameScan
<1>8. Salvage(cut) = Spans(cut, FoundBy(pos, k))
  BY <1>2, <1>4, <1>6, <1>7
<1>9. DOMAIN FoundBy(pos, k) = 1..k
  BY DEF FoundBy
<1>10. ASSUME NEW j \in 1..k
       PROVE  SubSeq(cut, FoundBy(pos, k)[j][1], FoundBy(pos, k)[j][2]) = WholeObject(records[j])
  <2> DEFINE t == TRUE
  <2>1. t = TRUE
    OBVIOUS
  <2> HIDE DEF t
  <2> DEFINE obj == Object(records[j], t)
             a == pos[j - 1] + Gap(j)
             r == records[j]
  <2>2. j \in 1..n /\ j - 1 \in 0..n /\ j \in 0..n
    BY <1>6
  <2>3. pos[j] = a + Len(obj) /\ \A i \in 1..Len(obj) : text[a + i] = obj[i]
    BY <2>1, <2>2 DEF WellWritten, AnswersAt
  <2>4. a \in Nat /\ pos[j] \in Nat
    <3>1. Gap(j) \in Nat
      BY DEF Gap
    <3> QED
      BY <1>1, <2>2, <3>1
  <2>5. pos[j] <= e
    <3>1. j \in {i \in 1..n : pos[i] <= e}
      BY <1>6
    <3> QED
      BY <3>1
  <2>6. obj \in Seq(Symbols)
    <3>1. r.says \in Seq(Symbols)
      BY <2>2 DEF WellWritten, AreRecords
    <3> HIDE DEF r
    <3>2. Object(r, t) \in Seq(Symbols)
      BY <3>1, ObjectIs DEF IsObject
    <3> QED
      BY <3>2 DEF r
  <2>7. FoundBy(pos, k)[j] = <<a + 1, pos[j]>>
    BY DEF FoundBy
  <2> HIDE DEF a, obj, r
  <2>8. Len(obj) \in Nat
    BY <2>6, LenProperties
  <2>9. \A i \in 1..Len(obj) : cut[a + i] = obj[i]
    <3> TAKE i \in 1..Len(obj)
    <3>1. a + i \in 1..e
      BY <2>3, <2>4, <2>5, <2>8
    <3> QED
      BY <1>2, <2>3, <3>1
  <2>10. SubSeq(cut, a + 1, a + Len(obj)) = obj
    <3>1. cut \in Seq(Symbols) /\ obj \in Seq(Symbols) /\ a \in Nat /\ a + Len(obj) <= Len(cut)
      BY <1>2, <2>3, <2>4, <2>5, <2>6
    <3> QED
      BY <2>9, <3>1, CutOut
  <2>11. FoundBy(pos, k)[j][1] = a + 1 /\ FoundBy(pos, k)[j][2] = a + Len(obj)
    BY <2>3, <2>7
  <2> QED
    BY <2>1, <2>10, <2>11 DEF obj, WholeObject
<1>11. Spans(cut, FoundBy(pos, k)) = [j \in 1..k |-> WholeObject(records[j])]
  BY <1>9, <1>10 DEF Spans
<1> QED
  BY <1>6, <1>8, <1>11 DEF CutAnswerOf

-----------------------------------------------------------------------------
(* What the repair does with an answer whose strings quote without escaping. *)

\* After p symbols of the raw text the first q of the meant one have been written.
OutsideAt(g, p, text, q) == \E x : g[p] = RepairOutside(x) /\ Kept(x, text, q)
InsideAt(g, p, text, q) == \E x : g[p] = RepairInside(x) /\ Kept(x, text, q)

\* The next state of the repair.
LEMMA NextOfRepair ==
  ASSUME NEW raw, NEW n \in Nat, NEW g, RepairRun(raw, n, g), NEW p \in Nat, p + 1 <= n
  PROVE  g[p + 1] = RepairStep(raw, p + 1, g[p])
<1>1. p + 1 \in 1..n /\ p + 1 - 1 = p
  OBVIOUS
<1> QED
  BY <1>1 DEF RepairRun

\* Between strings a symbol is copied.
LEMMA CopiedOutside ==
  ASSUME NEW raw, NEW n \in Nat, NEW g, RepairRun(raw, n, g), NEW p \in Nat, p + 1 <= n,
         NEW text, NEW q \in Nat, OutsideAt(g, p, text, q),
         NEW ch \in Symbols, raw[p + 1] = ch, text[q + 1] = ch, ch # Quote
  PROVE  OutsideAt(g, p + 1, text, q + 1)
<1>1. PICK x : g[p] = RepairOutside(x) /\ Kept(x, text, q)
  BY DEF OutsideAt
<1>2. g[p + 1] = RepairStep(raw, p + 1, g[p])
  BY NextOfRepair
<1>3. RepairStep(raw, p + 1, RepairOutside(x)) = RepairOutside(Append(x, ch))
  BY RepairSteps
<1>4. Kept(Append(x, ch), text, q + 1)
  BY <1>1, KeptGrows
<1> QED
  BY <1>1, <1>2, <1>3, <1>4 DEF OutsideAt

\* A quotation mark between strings opens one and is copied.
LEMMA StringOpened ==
  ASSUME NEW raw, NEW n \in Nat, NEW g, RepairRun(raw, n, g), NEW p \in Nat, p + 1 <= n,
         NEW text, NEW q \in Nat, OutsideAt(g, p, text, q), raw[p + 1] = Quote, text[q + 1] = Quote
  PROVE  InsideAt(g, p + 1, text, q + 1)
<1>1. PICK x : g[p] = RepairOutside(x) /\ Kept(x, text, q)
  BY DEF OutsideAt
<1>2. g[p + 1] = RepairStep(raw, p + 1, g[p])
  BY NextOfRepair
<1>3. RepairStep(raw, p + 1, RepairOutside(x)) = RepairInside(Append(x, Quote))
  BY RepairSteps
<1>4. Kept(Append(x, Quote), text, q + 1)
  BY <1>1, KeptGrows, Different
<1> QED
  BY <1>1, <1>2, <1>3, <1>4 DEF InsideAt

\* A quotation mark with a closing brace behind it ends the string and is copied.
LEMMA StringClosed ==
  ASSUME NEW raw, NEW n \in Nat, NEW g, RepairRun(raw, n, g), NEW p \in Nat, p + 1 <= n,
         NEW text, NEW q \in Nat, InsideAt(g, p, text, q), raw[p + 1] = Quote, text[q + 1] = Quote,
         raw[p + 2] = Close
  PROVE  OutsideAt(g, p + 1, text, q + 1)
<1>1. PICK x : g[p] = RepairInside(x) /\ Kept(x, text, q)
  BY DEF InsideAt
<1>2. g[p + 1] = RepairStep(raw, p + 1, g[p])
  BY NextOfRepair
<1>3. CanClose(raw, p + 1)
  <2>1. p + 1 + 1 = p + 2
    OBVIOUS
  <2> QED
    BY <2>1 DEF CanClose
<1>4. RepairStep(raw, p + 1, RepairInside(x)) = RepairOutside(Append(x, Quote))
  BY <1>3, RepairSteps
<1>5. Kept(Append(x, Quote), text, q + 1)
  BY <1>1, KeptGrows, Different
<1> QED
  BY <1>1, <1>2, <1>4, <1>5 DEF OutsideAt

\* In a string a symbol that means what it says is copied.
LEMMA CopiedInside ==
  ASSUME NEW raw, NEW n \in Nat, NEW g, RepairRun(raw, n, g), NEW p \in Nat, p + 1 <= n,
         NEW text, NEW q \in Nat, InsideAt(g, p, text, q),
         NEW ch \in Symbols, raw[p + 1] = ch, text[q + 1] = ch, Plain(ch)
  PROVE  InsideAt(g, p + 1, text, q + 1)
<1>1. PICK x : g[p] = RepairInside(x) /\ Kept(x, text, q)
  BY DEF InsideAt
<1>2. g[p + 1] = RepairStep(raw, p + 1, g[p])
  BY NextOfRepair
<1>3. RepairStep(raw, p + 1, RepairInside(x)) = RepairInside(Append(x, ch))
  BY RepairSteps
<1>4. Kept(Append(x, ch), text, q + 1)
  BY <1>1, KeptGrows
<1> QED
  BY <1>1, <1>2, <1>3, <1>4 DEF InsideAt

\* A quotation mark in a string that has no closing sign behind it is escaped.
LEMMA EscapeAdded ==
  ASSUME NEW raw, NEW n \in Nat, NEW g, RepairRun(raw, n, g), NEW p \in Nat, p + 1 <= n,
         NEW text, NEW q \in Nat, InsideAt(g, p, text, q), raw[p + 1] = Quote,
         Len(raw) # p + 1, raw[p + 2] \notin {After, Close},
         text[q + 1] = Escape, text[q + 2] = Quote
  PROVE  InsideAt(g, p + 1, text, q + 2)
<1>1. PICK x : g[p] = RepairInside(x) /\ Kept(x, text, q)
  BY DEF InsideAt
<1>2. g[p + 1] = RepairStep(raw, p + 1, g[p])
  BY NextOfRepair
<1>3. ~CanClose(raw, p + 1)
  <2>1. p + 1 + 1 = p + 2
    OBVIOUS
  <2> QED
    BY <2>1 DEF CanClose
<1> DEFINE y == x \o <<Escape, Quote>>
<1>4. RepairStep(raw, p + 1, RepairInside(x)) = RepairInside(y)
  BY <1>3, RepairSteps
<1>5. x \in Seq(Symbols) /\ Len(x) = q /\ \A j \in 1..q : x[j] = text[j]
  BY <1>1 DEF Kept
<1> DEFINE two == <<Escape, Quote>>
<1>6. two \in Seq(Symbols) /\ Len(two) = 2 /\ two[1] = Escape /\ two[2] = Quote
  BY Different
<1> HIDE DEF two
<1>7. MadeOf(x, two, x \o two)
  BY <1>5, <1>6, Joins
<1>8. y = x \o two
  BY DEF two
<1> HIDE DEF y
<1>9. /\ y \in Seq(Symbols) /\ Len(y) = q + 2 /\ (\A j \in 1..q : y[j] = x[j])
      /\ y[q + 1] = Escape /\ y[q + 2] = Quote
  <2>1. /\ y \in Seq(Symbols) /\ Len(y) = Len(x) + Len(two)
        /\ \A i \in 1..Len(x) : y[i] = x[i]
        /\ \A i \in 1..Len(two) : y[Len(x) + i] = two[i]
    BY <1>7, <1>8 DEF MadeOf
  <2>2. 1 \in 1..Len(two) /\ 2 \in 1..Len(two)
    BY <1>6
  <2> QED
    BY <1>5, <1>6, <2>1, <2>2
<1>10. Kept(y, text, q + 2)
  <2>1. ASSUME NEW j \in 1..(q + 2) PROVE y[j] = text[j]
    <3>1. j \in 1..q \/ j = q + 1 \/ j = q + 2
      OBVIOUS
    <3> QED
      BY <1>5, <1>9, <3>1
  <2> QED
    BY <1>9, <2>1 DEF Kept
<1> QED
  BY <1>1, <1>2, <1>4, <1>10 DEF InsideAt

\* Written without escaping a string says what it says.
LEMMA RawIs ==
  ASSUME NEW says \in Seq(Symbols)
  PROVE  Written(says, FALSE) = says
<1> DEFINE t == FALSE
<1>1. ~t
  OBVIOUS
<1> HIDE DEF t
<1> DEFINE w == Written(says, t)
           m == Len(says)
<1>2. PICK pos : WritesAt(says, t, w, pos)
  BY WrittenIs
<1>3. m \in Nat
  BY LenProperties
<1> HIDE DEF w
<1>4. /\ pos \in [0..m -> Nat] /\ pos[0] = 0 /\ w \in Seq(Symbols) /\ Len(w) = pos[m]
      /\ \A k \in 1..m : pos[k] = pos[k - 1] + 1 /\ w[pos[k - 1] + 1] = says[k]
  BY <1>1, <1>2 DEF WritesAt
<1> HIDE DEF m
<1> DEFINE Bad == {k \in 0..m : pos[k] # k}
<1>5. ASSUME Bad # {} PROVE FALSE
  <2>1. Bad \subseteq Nat
    OBVIOUS
  <2>2. PICK k \in Bad : \A j \in Nat : j < k => j \notin Bad
    BY <1>5, <2>1, FirstOne
  <2>3. k \in 0..m /\ pos[k] # k
    BY <2>2
  <2>4. k # 0
    BY <1>4, <2>3
  <2>5. k \in 1..m /\ k - 1 \in Nat /\ k - 1 < k /\ k - 1 \in 0..m
    BY <1>3, <2>3, <2>4
  <2>6. pos[k - 1] = k - 1
    BY <2>2, <2>5
  <2> QED
    BY <1>4, <2>3, <2>5, <2>6
<1>6. Len(w) = m
  <2>1. m \in 0..m
    BY <1>3
  <2> QED
    BY <1>4, <1>5, <2>1
<1>7. \A k \in 1..m : w[k] = says[k]
  <2> TAKE k \in 1..m
  <2>1. k - 1 \in 0..m /\ k - 1 + 1 = k
    BY <1>3
  <2>2. pos[k - 1] = k - 1
    BY <1>5, <2>1
  <2> QED
    BY <1>4, <2>1, <2>2
<1>8. w = says
  <2>1. w \in Seq(Symbols) /\ says \in Seq(Symbols) /\ Len(w) = Len(says) /\ \A k \in 1..Len(w) : w[k] = says[k]
    BY <1>4, <1>6, <1>7 DEF m
  <2> QED
    BY <2>1, SeqEqual
<1> QED
  BY <1>8 DEF w, t

\* A string and what it should have been written as.
Meant(says, w, pos) == says \in Seq(Symbols) /\ IsPlain(says) /\ Escaped(says, w, pos)

\* In the raw text the string stands after p, in the meant one after q.
BothHold(raw, n, p, says, text, q, w) ==
  /\ n \in Nat /\ Len(raw) = n /\ p \in Nat /\ Len(says) \in Nat /\ p + Len(says) + 2 <= n /\ Holds(raw, p, says)
  /\ q \in Nat /\ Len(w) \in Nat /\ Holds(text, q, w)

\* One symbol of the string.
LEMMA RawSymbol ==
  ASSUME NEW raw, NEW n, NEW p, NEW says, NEW text, NEW q, NEW w, BothHold(raw, n, p, says, text, q, w),
         NEW pos, Meant(says, w, pos), NEW g, RepairRun(raw, n, g), NEW k \in 1..Len(says),
         InsideAt(g, p + (k - 1), text, q + pos[k - 1])
  PROVE  InsideAt(g, p + k, text, q + pos[k])
<1> DEFINE m == Len(says)
           l == k - 1
           ch == says[k]
           a == p + l
           c == pos[l]
           b == q + c
<1>1. /\ n \in Nat /\ Len(raw) = n /\ p \in Nat /\ m \in Nat /\ p + m + 2 <= n
      /\ q \in Nat /\ Len(w) \in Nat
  BY DEF BothHold
<1>2. (\A i \in 1..m : raw[p + i] = says[i]) /\ (\A i \in 1..Len(w) : text[q + i] = w[i])
  BY DEF BothHold, Holds
<1>3. says \in Seq(Symbols) /\ IsPlain(says) /\ DOMAIN says = 1..m /\ ch \in Symbols
  BY LenProperties, ElementOfSeq DEF Meant
<1>4. /\ pos \in [0..m -> Nat] /\ Len(w) = pos[m] /\ Rising(pos, m)
      /\ ch \in {Quote, Escape} =>
           pos[k] = c + 2 /\ w[c + 1] = Escape /\ w[c + 2] = ch
      /\ ch \notin {Quote, Escape} =>
           pos[k] = c + 1 /\ w[c + 1] = ch
  BY DEF Meant, Escaped, WritesAt
<1>5. l \in Nat /\ l \in 0..m /\ k \in 0..m /\ m \in 0..m /\ l + 1 = k /\ k \in 1..m
  BY <1>1
<1>6. ch # Escape /\ (ch = Quote => k < m /\ says[k + 1] \notin {After, Close})
  BY <1>3, <1>5 DEF IsPlain
<1>7. c \in Nat /\ pos[k] \in Nat /\ pos[k] <= Len(w)
  BY <1>4, <1>5 DEF Rising
<1>8. InsideAt(g, a, text, b)
  OBVIOUS
<1>9. RepairRun(raw, n, g)
  OBVIOUS
<1> HIDE DEF m, l, ch, c
<1>10. a \in Nat /\ b \in Nat /\ a + 1 = p + k /\ a + 1 <= n
  BY <1>1, <1>5, <1>7
<1>11. raw[a + 1] = ch
  BY <1>2, <1>5, <1>10 DEF ch
<1>12. CASE ch = Quote
  <2>1. pos[k] = c + 2 /\ w[c + 1] = Escape /\ w[c + 2] = ch
    BY <1>4, <1>12
  <2>2. c + 1 \in 1..Len(w) /\ c + 2 \in 1..Len(w) /\ q + (c + 1) = b + 1 /\ q + (c + 2) = b + 2 /\ q + pos[k] = b + 2
    BY <1>1, <1>7, <2>1
  <2>3. text[b + 1] = Escape /\ text[b + 2] = Quote
    BY <1>2, <1>12, <2>1, <2>2
  <2>4. k + 1 \in 1..m /\ p + (k + 1) = a + 2 /\ Len(raw) # a + 1
    BY <1>1, <1>5, <1>6, <1>10, <1>12
  <2>5. raw[a + 2] \notin {After, Close}
    BY <1>2, <1>6, <1>12, <2>4
  <2> HIDE DEF a, b
  <2>6. InsideAt(g, a + 1, text, b + 2)
    <3>1. n \in Nat /\ a \in Nat /\ b \in Nat /\ a + 1 <= n
      BY <1>1, <1>10
    <3>2. raw[a + 1] = Quote /\ Len(raw) # a + 1
      BY <1>11, <1>12, <2>4
    <3> QED
      BY <1>8, <1>9, <2>3, <2>5, <3>1, <3>2, EscapeAdded
  <2> QED
    BY <1>10, <2>2, <2>6
<1>13. CASE ch # Quote
  <2>1. Plain(ch)
    BY <1>6, <1>13 DEF Plain
  <2>2. pos[k] = c + 1 /\ w[c + 1] = ch
    BY <1>4, <2>1 DEF Plain
  <2>3. c + 1 \in 1..Len(w) /\ q + (c + 1) = b + 1 /\ q + pos[k] = b + 1
    BY <1>1, <1>7, <2>2
  <2>4. text[b + 1] = ch
    BY <1>2, <2>2, <2>3
  <2> HIDE DEF a, b
  <2>5. InsideAt(g, a + 1, text, b + 1)
    <3>1. n \in Nat /\ a \in Nat /\ b \in Nat /\ a + 1 <= n /\ ch \in Symbols
      BY <1>1, <1>3, <1>10
    <3> QED
      BY <1>8, <1>9, <1>11, <2>1, <2>4, <3>1, CopiedInside
  <2> QED
    BY <1>10, <2>3, <2>5
<1> QED
  BY <1>12, <1>13

\* The string between its quotation marks.
LEMMA RawString ==
  ASSUME NEW raw, NEW n \in Nat, Len(raw) = n, NEW g, RepairRun(raw, n, g), NEW p \in Nat, NEW says,
         Quoted(raw, n, p, says), NEW text, NEW tn, NEW q \in Nat, NEW w, Quoted(text, tn, q, w),
         NEW pos, Meant(says, w, pos), OutsideAt(g, p, text, q)
  PROVE  OutsideAt(g, p + Len(says) + 2, text, q + Len(w) + 2)
<1> DEFINE m == Len(says)
           a == p + 1
           b == q + 1
<1>1. /\ m \in Nat /\ p + m + 3 <= n /\ raw[p + 1] = Quote /\ Holds(raw, a, says)
      /\ raw[p + m + 2] = Quote /\ raw[p + m + 3] = Close
  BY DEF Quoted
<1>2. /\ Len(w) \in Nat /\ text[q + 1] = Quote /\ Holds(text, b, w) /\ text[q + Len(w) + 2] = Quote
  BY DEF Quoted
<1>3. /\ pos \in [0..m -> Nat] /\ pos[0] = 0 /\ Len(w) = pos[m]
  BY DEF Meant, Escaped, WritesAt
<1> HIDE DEF m
<1>4. InsideAt(g, a, text, b)
  <2>1. p + 1 <= n
    BY <1>1
  <2> QED
    BY <1>1, <1>2, <2>1, StringOpened
<1>5. a \in Nat /\ b \in Nat /\ a + m + 2 <= n
  BY <1>1
<1>6. BothHold(raw, n, a, says, text, b, w)
  BY <1>1, <1>2, <1>5 DEF BothHold, m
<1> HIDE DEF a, b
<1> DEFINE At(k) == InsideAt(g, a + k, text, b + pos[k])
           Bad == {k \in 0..m : ~At(k)}
<1>7. ASSUME Bad # {} PROVE FALSE
  <2>1. Bad \subseteq Nat
    OBVIOUS
  <2>2. PICK k \in Bad : \A j \in Nat : j < k => j \notin Bad
    BY <1>7, <2>1, FirstOne
  <2>3. k \in 0..m /\ ~At(k)
    BY <2>2
  <2>4. k # 0
    <3> SUFFICES ASSUME k = 0 PROVE FALSE
      OBVIOUS
    <3>1. a + 0 = a /\ b + pos[0] = b
      BY <1>3, <1>5
    <3> QED
      BY <1>4, <2>3, <3>1
  <2>5. k \in 1..m /\ k - 1 \in Nat /\ k - 1 < k /\ k - 1 \in 0..m
    BY <1>1, <2>3, <2>4
  <2>6. At(k - 1)
    BY <2>2, <2>5
  <2>7. InsideAt(g, a + (k - 1), text, b + pos[k - 1])
    BY <2>6
  <2>8. k \in 1..Len(says)
    BY <2>5 DEF m
  <2> HIDE DEF Bad, At
  <2>9. InsideAt(g, a + k, text, b + pos[k])
    BY <1>6, <2>7, <2>8, RawSymbol
  <2> QED
    BY <2>3, <2>9 DEF At
<1> DEFINE c == a + m
           d == b + Len(w)
<1>8. InsideAt(g, c, text, d)
  <2>1. m \in 0..m
    BY <1>1
  <2>2. At(m)
    BY <1>7, <2>1
  <2> QED
    BY <1>3, <2>2
<1>9. /\ c \in Nat /\ d \in Nat /\ c + 1 = p + m + 2 /\ c + 2 = p + m + 3 /\ d + 1 = q + Len(w) + 2
      /\ c + 1 <= n
  BY <1>1, <1>2 DEF a, b
<1> HIDE DEF c, d
<1>10. OutsideAt(g, c + 1, text, d + 1)
  <2>1. raw[c + 1] = Quote /\ text[d + 1] = Quote /\ raw[c + 2] = Close
    BY <1>1, <1>2, <1>9
  <2>2. c \in Nat /\ d \in Nat /\ c + 1 <= n
    BY <1>9
  <2> QED
    BY <1>8, <2>1, <2>2, StringClosed
<1> QED
  BY <1>9, <1>10 DEF m

\* The object around the string.
LEMMA RawObject ==
  ASSUME NEW raw, NEW n \in Nat, Len(raw) = n, NEW g, RepairRun(raw, n, g), NEW p \in Nat, NEW robj, NEW h, NEW says,
         ObjectAfter(raw, n, p, robj, h, says), NEW text, NEW tn, NEW q \in Nat, NEW obj, NEW w,
         ObjectAfter(text, tn, q, obj, h, w), NEW pos, Meant(says, w, pos), OutsideAt(g, p, text, q)
  PROVE  OutsideAt(g, p + Len(robj), text, q + Len(obj))
<1> DEFINE L == Len(says)
           M == Len(w)
           a == p + h
           b == q + h
           c == a + L + 2
           d == b + M + 2
<1>1. /\ h \in {1, 2} /\ L \in Nat /\ Len(robj) = L + 2 * h + 2 /\ p + Len(robj) <= n
      /\ raw[p + 1] = Open /\ (h = 2 => raw[p + 2] = Open)
      /\ Quoted(raw, n, a, says)
      /\ raw[p + h + L + 3] = Close /\ (h = 2 => raw[p + h + L + 4] = Close)
  BY DEF ObjectAfter
<1>2. /\ M \in Nat /\ Len(obj) = M + 2 * h + 2
      /\ text[q + 1] = Open /\ (h = 2 => text[q + 2] = Open)
      /\ Quoted(text, tn, b, w)
      /\ text[q + h + M + 3] = Close /\ (h = 2 => text[q + h + M + 4] = Close)
  BY DEF ObjectAfter
<1> HIDE DEF L, M
<1>3. /\ Open \in Symbols /\ Close \in Symbols /\ Open # Quote /\ Close # Quote
  BY Different
<1>4. /\ a \in Nat /\ b \in Nat /\ c \in Nat /\ d \in Nat /\ p + 1 <= n /\ c + 1 <= n
      /\ c + 1 = p + h + L + 3 /\ d + 1 = q + h + M + 3
  BY <1>1, <1>2
<1>5. raw[c + 1] = Close /\ text[d + 1] = Close
  BY <1>1, <1>2, <1>4
<1>6. OutsideAt(g, p + 1, text, q + 1)
  BY <1>1, <1>2, <1>3, <1>4, CopiedOutside
<1>7. OutsideAt(g, a, text, b)
  <2>1. CASE h = 1
    BY <1>6, <2>1
  <2>2. CASE h = 2
    <3> DEFINE pp == p + 1
               qq == q + 1
    <3>1. pp \in Nat /\ qq \in Nat /\ pp + 1 = p + 2 /\ qq + 1 = q + 2 /\ pp + 1 <= n /\ a = pp + 1 /\ b = qq + 1
      BY <1>1, <2>2
    <3>2. OutsideAt(g, pp, text, qq)
      BY <1>6
    <3>3. raw[pp + 1] = Open /\ text[qq + 1] = Open
      BY <1>1, <1>2, <2>2, <3>1
    <3> HIDE DEF pp, qq
    <3>4. OutsideAt(g, pp + 1, text, qq + 1)
      <4>1. pp \in Nat /\ qq \in Nat /\ pp + 1 <= n
        BY <3>1
      <4> QED
        BY <1>3, <3>2, <3>3, <4>1, CopiedOutside
    <3> QED
      BY <3>1, <3>4
  <2> QED
    BY <1>1, <2>1, <2>2
<1>8. OutsideAt(g, c, text, d)
  <2> HIDE DEF a, b
  <2>1. a \in Nat /\ b \in Nat
    BY <1>4
  <2>2. Quoted(raw, n, a, says) /\ Quoted(text, tn, b, w)
    BY <1>1, <1>2
  <2>3. OutsideAt(g, a + Len(says) + 2, text, b + Len(w) + 2)
    BY <1>7, <2>1, <2>2, RawString
  <2> QED
    BY <2>3 DEF L, M
<1>9. OutsideAt(g, c + 1, text, d + 1)
  <2> HIDE DEF c, d
  <2>1. c \in Nat /\ d \in Nat /\ c + 1 <= n
    BY <1>4
  <2> QED
    BY <1>3, <1>5, <1>8, <2>1, CopiedOutside
<1>10. CASE h = 1
  <2>1. p + Len(robj) = c + 1 /\ q + Len(obj) = d + 1
    BY <1>1, <1>2, <1>10
  <2> QED
    BY <1>9, <2>1
<1>11. CASE h = 2
  <2> DEFINE cc == c + 1
             dd == d + 1
  <2>1. /\ cc \in Nat /\ dd \in Nat /\ cc + 1 <= n /\ p + Len(robj) = cc + 1 /\ q + Len(obj) = dd + 1
        /\ cc + 1 = p + h + L + 4 /\ dd + 1 = q + h + M + 4
    BY <1>1, <1>2, <1>11
  <2>2. raw[cc + 1] = Close /\ text[dd + 1] = Close
    BY <1>1, <1>2, <1>11, <2>1
  <2>3. OutsideAt(g, cc, text, dd)
    BY <1>9
  <2> HIDE DEF cc, dd
  <2>4. OutsideAt(g, cc + 1, text, dd + 1)
    <3>1. cc \in Nat /\ dd \in Nat /\ cc + 1 <= n
      BY <2>1
    <3> QED
      BY <1>3, <2>2, <2>3, <3>1, CopiedOutside
  <2> QED
    BY <2>1, <2>4
<1> QED
  BY <1>1, <1>10, <1>11

\* From one record to the next.
LEMMA RawRecord ==
  ASSUME NEW raw, NEW g, NEW from \in Nat, NEW to, NEW n \in Nat, Len(raw) = n, RepairRun(raw, n, g), to <= n,
         NEW text, NEW tn, NEW tfrom \in Nat, NEW tto, NEW k \in Nat,
         k > 1 => raw[from + 1] = After, k > 1 => text[tfrom + 1] = After,
         NEW robj, Len(robj) \in Nat, to = from + Gap(k) + Len(robj), NEW obj, tto = tfrom + Gap(k) + Len(obj), NEW h, NEW says, NEW w,
         ObjectAfter(raw, n, from + Gap(k), robj, h, says), ObjectAfter(text, tn, tfrom + Gap(k), obj, h, w),
         NEW pos, Meant(says, w, pos), OutsideAt(g, from, text, tfrom)
  PROVE  OutsideAt(g, to, text, tto)
<1> DEFINE x == Gap(k)
           p == from + x
           q == tfrom + x
<1>1. x \in {0, 1} /\ (x = 1 => k > 1)
  BY DEF Gap
<1>2. /\ to = p + Len(robj) /\ tto = q + Len(obj)
      /\ ObjectAfter(raw, n, p, robj, h, says) /\ ObjectAfter(text, tn, q, obj, h, w)
  OBVIOUS
<1> HIDE DEF x
<1>3. p \in Nat /\ q \in Nat /\ p <= n
  BY <1>1, <1>2
<1>4. OutsideAt(g, p, text, q)
  <2>1. CASE x = 0
    <3>1. p = from /\ q = tfrom
      BY <2>1
    <3> QED
      BY <3>1
  <2>2. CASE x = 1
    <3>1. p = from + 1 /\ q = tfrom + 1 /\ from + 1 <= n /\ raw[from + 1] = After /\ text[tfrom + 1] = After
      BY <1>1, <1>3, <2>2
    <3>2. After \in Symbols /\ After # Quote
      BY Different
    <3>3. OutsideAt(g, from + 1, text, tfrom + 1)
      BY <3>1, <3>2, CopiedOutside
    <3> QED
      BY <3>1, <3>3
  <2> QED
    BY <1>1, <2>1, <2>2
<1> HIDE DEF p, q
<1>5. OutsideAt(g, p + Len(robj), text, q + Len(obj))
  BY <1>2, <1>3, <1>4, RawObject
<1> QED
  BY <1>2, <1>5

\* Where the records of a text end.
TextLies(records, escaping, n, pos) ==
  /\ AnswersAt(records, escaping, n, Text(records, escaping), pos)
  /\ \A k \in 0..n : Len(Text(SubSeq(records, 1, k), escaping)) = pos[k]

\* Every answer's text has its records somewhere.
LEMMA TextsLie ==
  ASSUME NEW n \in Nat, NEW records, AreRecords(records, n), NEW escaping
  PROVE  \E pos : TextLies(records, escaping, n, pos)
BY TextIs DEF TextLies

\* Written without escapes and repaired, an answer is written with them.
LEMMA RawRepaired ==
  ASSUME NEW n \in Nat, NEW records, AreRecords(records, n), \A k \in 1..n : IsPlain(records[k].says)
  PROVE  RepairInnerQuotes(Text(records, FALSE)) = Text(records, TRUE)
<1> DEFINE t == TRUE
           u == FALSE
<1>1. t = TRUE /\ u = FALSE
  OBVIOUS
<1> HIDE DEF t, u
<1> DEFINE text == Text(records, t)
           raw == Text(records, u)
<1>2. PICK tpos : TextLies(records, t, n, tpos)
  BY TextsLie
<1>3. PICK rpos : TextLies(records, u, n, rpos)
  BY TextsLie
<1>4. AnswersAt(records, t, n, text, tpos) /\ AnswersAt(records, u, n, raw, rpos)
  BY <1>2, <1>3 DEF TextLies
<1> HIDE DEF text, raw
<1>5. /\ tpos \in [0..n -> Nat] /\ tpos[0] = 0 /\ text \in Seq(Symbols) /\ Len(text) = tpos[n]
      /\ rpos \in [0..n -> Nat] /\ rpos[0] = 0 /\ raw \in Seq(Symbols) /\ Len(raw) = rpos[n]
  BY <1>4 DEF AnswersAt
<1>6. PICK g : RepairRun(raw, Len(raw), g) /\ RepairInnerQuotes(raw) = g[Len(raw)].out
  BY <1>5, RepairRuns
<1> DEFINE At(k) == OutsideAt(g, rpos[k], text, tpos[k])
           Bad == {k \in 0..n : ~At(k)}
<1>7. At(0)
  <2>1. Kept(<<>>, text, 0)
    BY EmptySeq DEF Kept
  <2>2. g[0] = RepairOutside(<<>>)
    BY <1>6 DEF RepairRun, RepairStart, RepairOutside
  <2> QED
    BY <1>5, <2>1, <2>2 DEF OutsideAt
<1>8. ASSUME NEW k \in 1..n, At(k - 1) PROVE At(k)
  <2> DEFINE says == records[k].says
             robj == Object(records[k], u)
             obj == Object(records[k], t)
             rw == Written(records[k].says, u)
             w == Written(records[k].says, t)
             h == Nested(records[k])
             from == rpos[k - 1]
             to == rpos[k]
             tfrom == tpos[k - 1]
             tto == tpos[k]
             m == rpos[n]
             tn == tpos[n]
  <2>1. RecordLies(records, t, n, text, tpos, k)
    BY <1>4, RecordsLie
  <2>2. RecordLies(records, u, n, raw, rpos, k)
    BY <1>4, RecordsLie
  <2>3. /\ from \in Nat /\ m \in Nat /\ to <= m
        /\ k > 1 => raw[from + 1] = After
        /\ to = from + Gap(k) + Len(robj)
        /\ ObjectAfter(raw, m, from + Gap(k), robj, h, rw)
    BY <2>2 DEF RecordLies
  <2>4. /\ tfrom \in Nat
        /\ k > 1 => text[tfrom + 1] = After
        /\ tto = tfrom + Gap(k) + Len(obj)
        /\ ObjectAfter(text, tn, tfrom + Gap(k), obj, h, w)
    BY <2>1 DEF RecordLies
  <2>5. says \in Seq(Symbols) /\ IsPlain(says)
    BY DEF AreRecords
  <2>6. rw = says
    <3> HIDE DEF says
    <3>1. Written(says, FALSE) = says
      BY <2>5, RawIs
    <3> QED
      BY <1>1, <3>1 DEF says
  <2>7. PICK pos : WritesAt(says, t, Written(says, t), pos)
    <3> HIDE DEF says
    <3> QED
      BY <2>5, WrittenIs
  <2>8. Meant(says, w, pos)
    <3>1. w = Written(says, t)
      OBVIOUS
    <3> HIDE DEF says, w
    <3>2. Escaped(says, w, pos)
      BY <1>1, <2>7, <3>1 DEF Escaped
    <3> QED
      BY <2>5, <3>2 DEF Meant
  <2>9. OutsideAt(g, from, text, tfrom) /\ Len(raw) = m /\ RepairRun(raw, m, g)
    BY <1>5, <1>6, <1>8
  <2>10. k \in Nat
    OBVIOUS
  <2>11. Len(robj) \in Nat
    <3> HIDE DEF robj
    <3>1. Len(rw) \in Nat /\ h \in {1, 2} /\ Len(robj) = Len(rw) + 2 * h + 2
      <4> HIDE DEF rw, h
      <4> QED
        BY <2>3 DEF ObjectAfter
    <3> QED
      BY <3>1
  <2> HIDE DEF says, robj, obj, rw, w, h, from, to, tfrom, tto, m, tn, At, Bad
  <2>12. ObjectAfter(raw, m, from + Gap(k), robj, h, says)
    BY <2>3, <2>6
  <2>13. OutsideAt(g, to, text, tto)
    BY <2>3, <2>4, <2>8, <2>9, <2>10, <2>11, <2>12, RawRecord
  <2> QED
    BY <2>13 DEF At, to, tto
<1>9. ASSUME Bad # {} PROVE FALSE
  <2>1. Bad \subseteq Nat
    OBVIOUS
  <2>2. PICK k \in Bad : \A j \in Nat : j < k => j \notin Bad
    BY <1>9, <2>1, FirstOne
  <2>3. k \in 0..n /\ ~At(k)
    BY <2>2
  <2>4. k # 0
    BY <1>7, <2>3
  <2>5. k \in 1..n /\ k - 1 \in Nat /\ k - 1 < k /\ k - 1 \in 0..n
    BY <2>3, <2>4
  <2>6. At(k - 1)
    BY <2>2, <2>5
  <2> QED
    BY <1>8, <2>3, <2>5, <2>6
<1>10. At(n)
  <2>1. n \in 0..n
    OBVIOUS
  <2> QED
    BY <1>9, <2>1
<1>11. PICK x : g[rpos[n]] = RepairOutside(x) /\ Kept(x, text, tpos[n])
  BY <1>10 DEF OutsideAt
<1>12. x = text
  BY <1>5, <1>11, KeptAll
<1>13. RepairInnerQuotes(raw) = text
  BY <1>5, <1>6, <1>11, <1>12 DEF RepairOutside
<1> QED
  BY <1>1, <1>13 DEF raw, text

\* A text as it should be written.
AsMeant(records) == Text(records, TRUE)

\* The records that are complete before e.
CompleteAt(records, n, e) == {k \in 1..n : Len(AsMeant(SubSeq(records, 1, k))) <= e}

\* An answer that stops at e gives back the records that are complete in it.
LEMMA CutAnswer ==
  ASSUME NEW n \in Nat, NEW records, AreRecords(records, n), NEW e \in 0..Len(AsMeant(records))
  PROVE  /\ CoerceRecordList(SubSeq(AsMeant(records), 1, e)) = [k \in CompleteAt(records, n, e) |-> WholeObject(records[k])]
         /\ RepairInnerQuotes(AsMeant(records)) = AsMeant(records)
<1> DEFINE text == AsMeant(records)
           cut == SubSeq(text, 1, e)
<1>1. PICK pos : TextLies(records, TRUE, n, pos)
  BY TextsLie
<1>2. /\ WellWritten(records, n, text, pos)
      /\ \A k \in 0..n : Len(AsMeant(SubSeq(records, 1, k))) = pos[k]
  BY <1>1 DEF TextLies, WellWritten, AsMeant
<1> HIDE DEF text
<1>3. /\ pos \in [0..n -> Nat] /\ text \in Seq(Symbols) /\ Len(text) = pos[n]
  BY <1>2 DEF WellWritten, AnswersAt
<1> DEFINE m == pos[n]
<1>4. m \in Nat /\ e \in 0..m /\ m \in 0..m
  BY <1>3 DEF text
<1>5. Begins(cut, text, e)
  <2>1. cut \in Seq(Symbols) /\ Len(cut) = e /\ \A i \in 1..e : cut[i] = text[i]
    BY <1>3, <1>4, SubSeqProperties
  <2> QED
    BY <2>1 DEF Begins
<1>6. Begins(text, text, m)
  BY <1>3 DEF Begins
<1> HIDE DEF cut
<1>7. PICK f : SalvageRun(text, Len(text), f)
  BY <1>3, SalvageRuns
<1>8. SalvageRun(text, pos[n], f)
  BY <1>3, <1>7
<1>9. Ended(text, m, f)
  BY <1>2, <1>8, AnswerEnded
<1>10. Salvage(cut) = CutAnswerOf(records, n, pos, e)
  <2>1. WellWritten(records, n, text, pos)
    BY <1>2
  <2>2. e \in 0..pos[n]
    BY <1>4
  <2> HIDE DEF m
  <2> QED
    BY <1>5, <2>1, <2>2, SalvagedSoFar
<1> HIDE DEF m
<1>11. RepairInnerQuotes(cut) = cut
  BY <1>4, <1>5, <1>9, RepairKeeps
<1>12. RepairInnerQuotes(text) = text
  BY <1>4, <1>6, <1>9, RepairKeeps
<1>13. CompleteAt(records, n, e) = {j \in 1..n : pos[j] <= e}
  BY <1>2 DEF CompleteAt
<1>14. CoerceRecordList(cut) = Salvage(cut)
  BY <1>11 DEF CoerceRecordList
<1> QED
  BY <1>10, <1>12, <1>13, <1>14 DEF CutAnswerOf, text, cut

-----------------------------------------------------------------------------
(* The theorem.                                                            *)

\* An answer holds records, and stops somewhere in what they were written as.
AnswerInv ==
  \A a \in answer : \E n \in Nat : /\ AreRecords(a.records, n)
                                 /\ a.end \in 0..Len(AsMeant(a.records))

\* Every answer given holds records and stops somewhere in them.
LEMMA AnswersAreInv == AnswerSpec => []AnswerInv
<1>1. AnswerInit => AnswerInv
  BY DEF AnswerInit, AnswerInv
<1>2. AnswerInv /\ [AnswerNext]_answer => AnswerInv'
  <2> SUFFICES ASSUME AnswerInv, [AnswerNext]_answer PROVE AnswerInv'
    OBVIOUS
  <2>1. CASE AnswerNext
    <3>1. PICK n \in 1..MaxRecords : \E records \in [1..n -> Records] :
             \E end \in 0..Len(Text(records, TRUE)) : Answer(records, end)
      BY <2>1 DEF AnswerNext
    <3>2. PICK records \in [1..n -> Records] : \E end \in 0..Len(Text(records, TRUE)) : Answer(records, end)
      BY <3>1
    <3>3. PICK end \in 0..Len(Text(records, TRUE)) : Answer(records, end)
      BY <3>2
    <3>4. n \in Nat
      BY <3>1
    <3>5. AreRecords(records, n)
      <4>1. \A k \in 1..n : records[k].says \in Seq(Symbols) /\ records[k].nested \in BOOLEAN
        BY StringsAssumption DEF Records
      <4>2. records \in Seq(Records) /\ Len(records) = n
        BY <3>4
      <4> QED
        BY <3>4, <4>1, <4>2 DEF AreRecords
    <3> DEFINE a == [records |-> records, end |-> end]
    <3>6. answer' = {a}
      BY <3>3 DEF Answer
    <3>7. a.records = records /\ a.end = end
      OBVIOUS
    <3> HIDE DEF a
    <3>8. AreRecords(a.records, n) /\ a.end \in 0..Len(AsMeant(a.records))
      BY <3>3, <3>5, <3>7 DEF AsMeant
    <3> QED
      BY <3>4, <3>6, <3>8 DEF AnswerInv
  <2>2. CASE UNCHANGED answer
    BY <2>2 DEF AnswerInv
  <2> QED
    BY <2>1, <2>2
<1> QED
  BY <1>1, <1>2, PTL DEF AnswerSpec

\* Of an answer that stops anywhere the complete records come back, and the repair
\* leaves alone what needs none and mends what was written without escapes.
LEMMA InvComesBack == AnswerInv => WholeRecordsComeBack
<1> SUFFICES ASSUME AnswerInv, NEW a \in answer
             PROVE  LET text == Text(a.records, TRUE)
                    IN  /\ CoerceRecordList(SubSeq(text, 1, a.end)) = [n \in Complete(a) |-> Object(a.records[n], TRUE)]
                        /\ RepairInnerQuotes(text) = text
                        /\ (\A n \in DOMAIN a.records : IsPlain(a.records[n].says)) =>
                             RepairInnerQuotes(Text(a.records, FALSE)) = text
  BY DEF WholeRecordsComeBack
<1> DEFINE records == a.records
           e == a.end
<1>1. PICK n \in Nat : AreRecords(records, n) /\ e \in 0..Len(AsMeant(records))
  BY DEF AnswerInv
<1>2. DOMAIN records = 1..n
  BY <1>1, LenProperties DEF AreRecords
<1>3. Complete(a) = CompleteAt(records, n, e)
  BY <1>2 DEF Complete, CompleteAt, AsMeant
<1> HIDE DEF records, e
<1>4. /\ CoerceRecordList(SubSeq(AsMeant(records), 1, e)) = [k \in CompleteAt(records, n, e) |-> WholeObject(records[k])]
      /\ RepairInnerQuotes(AsMeant(records)) = AsMeant(records)
  BY <1>1, CutAnswer
<1>5. (\A k \in DOMAIN records : IsPlain(records[k].says)) =>
         RepairInnerQuotes(Text(records, FALSE)) = Text(records, TRUE)
  BY <1>1, <1>2, RawRepaired
<1> QED
  BY <1>3, <1>4, <1>5 DEF records, e, AsMeant, WholeObject

\* From an answer cut off anywhere exactly the records that were complete come back,
\* for every set of strings the records may hold and every number of records
\* (coerce_record_list).
THEOREM Salvaged == AnswerSpec => []WholeRecordsComeBack
BY AnswersAreInv, InvComesBack, PTL

=============================================================================
