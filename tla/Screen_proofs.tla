--------------------------- MODULE Screen_proofs ---------------------------
(***************************************************************************)
(* Proofs about Screen, for consoles and displays of every size, texts of  *)
(* every length and every movement of the mouse.                           *)
(***************************************************************************)
EXTENDS Screen, TLAPS, FiniteSetTheorems, SequenceTheorems, WellFoundedInduction

(* The buffer, the row and the column follow from the text: what a line of *)
(* the buffer is when it holds the string s, and where the cursor stands.  *)
Chars       == UNION {ToSet(s) : s \in Strings}
Stored(s)   == [n \in 1..Columns + 1 |-> IF n <= Len(s) THEN s[n] ELSE Nul]
Held(t)     == [y \in 0..Rows - 1 |-> Stored(Expected(t, y))]
RowOf(t)    == Lines(t) - 1 - Top(t)
ColumnOf(t) == Len(Expected(t, RowOf(t)))

ConsoleInv ==
  /\ text \in Seq(Chars)
  /\ buffer = Held(text)
  /\ row = RowOf(text)
  /\ column = ColumnOf(text)

(* The frame buffer has its size, and a cursor that is off the screen has  *)
(* strayed.                                                                *)
CursorInv ==
  /\ DOMAIN frame = 0..Pitch * Height - 1
  /\ position \in Int \X Int
  /\ strayed \in BOOLEAN /\ beyond \in BOOLEAN
  /\ strayed \/ OnScreen(position)

ScreenInv == ConsoleInv /\ CursorInv /\ ShowsTheText

-----------------------------------------------------------------------------
(* Texts and their lines *)

LEMMA BreaksFinite ==
  ASSUME NEW S, NEW t \in Seq(S)
  PROVE  /\ IsFiniteSet(Breaks(t)) /\ Cardinality(Breaks(t)) \in Nat
         /\ Breaks(t) \subseteq 1..Len(t)
         /\ Lines(t) \in Nat /\ Lines(t) >= 1
<1>1. Len(t) \in Nat /\ DOMAIN t = 1..Len(t)
  OBVIOUS
<1>2. IsFiniteSet(1..Len(t))
  BY <1>1, FS_Interval
<1>3. Breaks(t) \subseteq 1..Len(t)
  BY <1>1 DEF Breaks
<1>4. IsFiniteSet(Breaks(t)) /\ Cardinality(Breaks(t)) \in Nat
  BY <1>2, <1>3, FS_Subset, FS_CardinalityType
<1> QED
  BY <1>3, <1>4 DEF Lines

LEMMA AppendBreaks ==
  ASSUME NEW S, NEW t \in Seq(S), NEW ch \in S
  PROVE  /\ Breaks(Append(t, ch)) = IF ch = Newline THEN Breaks(t) \cup {Len(t) + 1} ELSE Breaks(t)
         /\ Lines(Append(t, ch)) = IF ch = Newline THEN Lines(t) + 1 ELSE Lines(t)
<1> DEFINE n == Len(t)
           u == Append(t, ch)
<1>1. n \in Nat /\ DOMAIN t = 1..n /\ DOMAIN u = 1..(n + 1)
  OBVIOUS
<1>2. \A i \in 1..n : u[i] = t[i]
  OBVIOUS
<1>3. u[n + 1] = ch
  OBVIOUS
<1>4. Breaks(u) = IF ch = Newline THEN Breaks(t) \cup {n + 1} ELSE Breaks(t)
  <2> HIDE DEF n, u
  <2> QED
    BY <1>1, <1>2, <1>3 DEF Breaks
<1>5. n + 1 \notin Breaks(t)
  BY <1>1 DEF Breaks
<1>6. Cardinality(Breaks(t) \cup {n + 1}) = Cardinality(Breaks(t)) + 1
  BY <1>5, BreaksFinite, FS_AddElement
<1> QED
  BY <1>4, <1>6 DEF Lines

(* The characters of a line: only a character that is no newline joins     *)
(* one, the last.                                                          *)
LEMMA AppendIts ==
  ASSUME NEW S, NEW t \in Seq(S), NEW ch \in S, NEW k \in Int
  PROVE  Its(Append(t, ch), k) =
           IF ch # Newline /\ k = Lines(t) THEN Its(t, k) \cup {Len(t) + 1} ELSE Its(t, k)
<1> DEFINE n == Len(t)
           u == Append(t, ch)
           Before(w, i) == {j \in Breaks(w) : j < i}
<1>1. n \in Nat /\ DOMAIN t = 1..n /\ DOMAIN u = 1..(n + 1)
  OBVIOUS
<1>2. /\ Breaks(u) = IF ch = Newline THEN Breaks(t) \cup {n + 1} ELSE Breaks(t)
      /\ Breaks(t) \subseteq 1..n /\ Cardinality(Breaks(t)) \in Nat
  BY AppendBreaks, BreaksFinite
<1> HIDE DEF n, u
<1>3. ASSUME NEW i \in 1..n
      PROVE  i \in Its(u, k) <=> i \in Its(t, k)
  <2>1. Before(u, i) = Before(t, i)
    BY <1>1, <1>2
  <2>2. i \in Breaks(u) <=> i \in Breaks(t)
    BY <1>1, <1>2
  <2>3. i \in DOMAIN u /\ i \in DOMAIN t
    BY <1>1
  <2> QED
    BY <2>1, <2>2, <2>3 DEF Its
<1>4. n + 1 \in Its(u, k) <=> ch # Newline /\ k = Lines(t)
  <2>1. Before(u, n + 1) = Breaks(t)
    BY <1>1, <1>2
  <2>2. n + 1 \in Breaks(u) <=> ch = Newline
    BY <1>1, <1>2
  <2>3. n + 1 \in DOMAIN u
    BY <1>1
  <2>4. Cardinality(Breaks(t)) = k - 1 <=> k = Lines(t)
    BY <1>2 DEF Lines
  <2> QED
    BY <2>1, <2>2, <2>3, <2>4 DEF Its
<1>5. Its(u, k) \subseteq 1..(n + 1) /\ Its(t, k) \subseteq 1..n
  BY <1>1 DEF Its
<1>6. CASE ch # Newline /\ k = Lines(t)
  <2>1. Its(u, k) = Its(t, k) \cup {n + 1}
    BY <1>1, <1>3, <1>4, <1>5, <1>6
  <2> QED
    BY <1>6, <2>1 DEF n, u
<1>7. CASE ~(ch # Newline /\ k = Lines(t))
  <2>1. n + 1 \notin Its(u, k) /\ Its(u, k) \subseteq 1..n
    BY <1>1, <1>4, <1>5, <1>7
  <2>2. Its(u, k) = Its(t, k)
    BY <1>3, <1>5, <2>1
  <2> QED
    BY <1>7, <2>2 DEF n, u
<1> QED
  BY <1>6, <1>7

LEMMA NoLine ==
  ASSUME NEW S, NEW t \in Seq(S), NEW k \in Int, k > Lines(t)
  PROVE  Its(t, k) = {}
<1> SUFFICES ASSUME NEW i \in Its(t, k) PROVE FALSE
  OBVIOUS
<1> DEFINE B == {j \in Breaks(t) : j < i}
<1>1. Cardinality(B) = k - 1
  BY DEF Its
<1>2. B \subseteq Breaks(t)
  OBVIOUS
<1> HIDE DEF B
<1>3. Cardinality(B) <= Cardinality(Breaks(t)) /\ Cardinality(Breaks(t)) \in Nat
  BY <1>2, BreaksFinite, FS_Subset
<1> QED
  BY <1>1, <1>3 DEF Lines

(* The last line, where it has characters, ends the text.                  *)
LEMMA LastIts ==
  ASSUME NEW S, NEW t \in Seq(S), Its(t, Lines(t)) # {}
  PROVE  Len(t) \in Its(t, Lines(t))
<1>1. PICK i \in Its(t, Lines(t)) : TRUE
  OBVIOUS
<1> DEFINE B == {j \in Breaks(t) : j < i}
           n == Len(t)
<1>2. n \in Nat /\ DOMAIN t = 1..n
  OBVIOUS
<1>3. i \in 1..n /\ i \notin Breaks(t)
  BY <1>2 DEF Its
<1>4. Cardinality(B) = Cardinality(Breaks(t))
  BY BreaksFinite DEF Its, Lines
<1>5. B \subseteq Breaks(t)
  OBVIOUS
<1>6. B = Breaks(t)
  <2> HIDE DEF B
  <2> QED
    BY <1>4, <1>5, BreaksFinite, FS_Subset
<1>7. \A j \in Breaks(t) : j < i
  BY <1>6
<1>8. Breaks(t) \subseteq 1..n
  BY BreaksFinite
<1>9. n \notin Breaks(t)
  BY <1>2, <1>3, <1>7
<1>10. {j \in Breaks(t) : j < n} = Breaks(t)
  BY <1>2, <1>3, <1>7, <1>8
<1>11. n \in DOMAIN t
  BY <1>2, <1>3
<1> HIDE DEF n, B
<1>12. Cardinality(Breaks(t)) = Lines(t) - 1
  BY BreaksFinite DEF Lines
<1> QED
  BY <1>9, <1>10, <1>11, <1>12 DEF Its, n

LEMMA LowestMember ==
  ASSUME NEW S \in SUBSET Nat, S # {}
  PROVE  \E x \in S : \A y \in S : x <= y
<1>0. PICK R : R = OpToRel(<, Nat)
  OBVIOUS
<1>1. IsWellFoundedOn(R, Nat)
  BY <1>0, NatLessThanWellFounded, Zenon
<1>2. PICK x \in S : \A y \in S : ~ (<<y, x>> \in R)
  BY <1>1, WFMin
<1>3. ASSUME NEW y \in S, y < x PROVE FALSE
  <2>1. <<y, x>> \in R
    BY <1>0, <1>3, Zenon DEF OpToRel
  <2> QED
    BY <1>2, <2>1
<1> QED
  BY <1>2, <1>3

(* Induction, for the set of numbers of which something holds.             *)
LEMMA Induction ==
  ASSUME NEW S, 0 \in S, \A n \in Nat : n \in S => n + 1 \in S
  PROVE  \A n \in Nat : n \in S
<1> SUFFICES ASSUME NEW n \in Nat, n \notin S PROVE FALSE
  OBVIOUS
<1>1. PICK x \in Nat \ S : \A y \in Nat \ S : x <= y
  BY LowestMember
<1>2. x - 1 \in Nat /\ x - 1 \in S
  BY <1>1
<1>3. (x - 1) + 1 \in S
  BY <1>2
<1> QED
  BY <1>1, <1>3

(* The least and the greatest of some of the numbers from 1 to n.          *)
LEMMA Ends ==
  ASSUME NEW n \in Nat, NEW T \in SUBSET (1..n), T # {}
  PROVE  /\ Min(T) \in T /\ \A i \in T : Min(T) <= i
         /\ Max(T) \in T /\ \A i \in T : i <= Max(T)
<1>1. \E x \in T : \A i \in T : x <= i
  <2>1. T \in SUBSET Nat
    OBVIOUS
  <2> QED
    BY <2>1, LowestMember
<1>2. \E x \in T : \A i \in T : x >= i
  <2> DEFINE D == {n - i : i \in T}
  <2>1. D \in SUBSET Nat
    OBVIOUS
  <2>2. \A i \in T : n - i \in D
    OBVIOUS
  <2>3. PICK i \in T : TRUE
    OBVIOUS
  <2>4. D # {}
    BY <2>2, <2>3
  <2>5. PICK d \in D : \A e \in D : d <= e
    BY <2>1, <2>4, LowestMember
  <2>6. PICK x \in T : d = n - x
    BY <2>5
  <2> HIDE DEF D
  <2>7. \A e \in T : x >= e
    BY <2>2, <2>5, <2>6
  <2> QED
    BY <2>6, <2>7
<1>3. Min(T) \in T /\ \A i \in T : Min(T) <= i
  BY <1>1 DEF Min
<1>4. Max(T) \in T /\ \A i \in T : Max(T) >= i
  BY <1>2 DEF Max
<1> QED
  BY <1>3, <1>4

(* Only the last line grows with a character that is no newline.           *)
LEMMA LineType ==
  ASSUME NEW S, NEW t \in Seq(S), NEW k \in Int
  PROVE  LineOf(t, k) \in Seq(S)
<1>1. CASE Its(t, k) = {}
  BY <1>1 DEF LineOf
<1>2. CASE Its(t, k) # {}
  <2>1. Len(t) \in Nat /\ Its(t, k) \in SUBSET (1..Len(t))
    BY DEF Its
  <2>2. Min(Its(t, k)) \in 1..Len(t) /\ Max(Its(t, k)) \in 1..Len(t)
    BY <1>2, <2>1, Ends
  <2>3. SubSeq(t, Min(Its(t, k)), Max(Its(t, k))) \in Seq(S)
    BY <2>2, SubSeqProperties
  <2> QED
    BY <1>2, <2>3 DEF LineOf
<1> QED
  BY <1>1, <1>2

LEMMA AppendLine ==
  ASSUME NEW S, NEW t \in Seq(S), NEW ch \in S, NEW k \in Int
  PROVE  LineOf(Append(t, ch), k) =
           IF ch # Newline /\ k = Lines(t) THEN Append(LineOf(t, k), ch) ELSE LineOf(t, k)
<1> DEFINE n == Len(t)
           u == Append(t, ch)
           T == Its(t, k)
           U == Its(u, k)
<1>1. /\ n \in Nat /\ DOMAIN t = 1..n /\ u \in Seq(S) /\ Len(u) = n + 1
      /\ u[n + 1] = ch /\ \A i \in 1..n : u[i] = t[i]
  OBVIOUS
<1>2. T \in SUBSET (1..n)
  BY <1>1 DEF Its
<1>3. U = IF ch # Newline /\ k = Lines(t) THEN T \cup {n + 1} ELSE T
  BY AppendIts
<1>4. ch # Newline /\ k = Lines(t) /\ T # {} => n \in T
  BY LastIts
<1>5. /\ LineOf(t, k) = IF T = {} THEN <<>> ELSE SubSeq(t, Min(T), Max(T))
      /\ LineOf(u, k) = IF U = {} THEN <<>> ELSE SubSeq(u, Min(U), Max(U))
  BY DEF LineOf
<1> HIDE DEF n, u, T, U
<1>6. CASE ~ (ch # Newline /\ k = Lines(t))
  <2>1. CASE T = {}
    BY <1>3, <1>5, <1>6, <2>1 DEF u
  <2>2. CASE T # {}
    <3>1. Min(T) \in 1..n /\ Max(T) \in 1..n
      BY <1>1, <1>2, <2>2, Ends
    <3>2. SubSeq(u, Min(T), Max(T)) = SubSeq(t, Min(T), Max(T))
      BY <1>1, <3>1 DEF n
    <3>3. U = T /\ U # {}
      BY <1>3, <1>6, <2>2
    <3> QED
      BY <1>5, <1>6, <2>2, <3>2, <3>3 DEF u
  <2> QED
    BY <2>1, <2>2
<1>7. CASE ch # Newline /\ k = Lines(t)
  <2>1. U = T \cup {n + 1} /\ U # {} /\ U \in SUBSET (1..n + 1)
    BY <1>1, <1>2, <1>3, <1>7
  <2>2. Min(U) \in U /\ Max(U) \in U /\ \A i \in U : Min(U) <= i /\ i <= Max(U)
    <3>1. n + 1 \in Nat
      BY <1>1
    <3> QED
      BY <2>1, <3>1, Ends
  <2> DEFINE lo == Min(U)
             hi == Max(U)
  <2>0. \A i \in T : i \in Nat /\ 1 <= i /\ i <= n
    BY <1>2
  <2> HIDE DEF lo, hi
  <2>3. lo \in U /\ hi \in U /\ \A i \in U : lo <= i /\ i <= hi
    BY <2>2 DEF lo, hi
  <2>4. hi = n + 1
    <3>1. hi \in Nat /\ hi <= n + 1 /\ n + 1 <= hi
      BY <1>1, <2>0, <2>1, <2>3
    <3> QED
      BY <1>1, <3>1
  <2>5. LineOf(u, k) = SubSeq(u, lo, n + 1)
    BY <1>5, <2>1, <2>4 DEF lo, hi
  <2>6. CASE T = {}
    <3>1. lo = n + 1
      BY <2>1, <2>3, <2>6
    <3>2. SubSeq(u, n + 1, n + 1) = <<ch>>
      <4>1. \A i \in n + 1..n + 1 : u[i] \in S
        BY <1>1
      <4>2. /\ SubSeq(u, n + 1, n + 1) \in Seq(S)
            /\ Len(SubSeq(u, n + 1, n + 1)) = 1
            /\ SubSeq(u, n + 1, n + 1)[1] = u[n + 1]
        <5>1. /\ n + 1 \in Int /\ n + 1 <= n + 1 /\ (n + 1) - (n + 1) + 1 = 1
              /\ n + 1 + 1 - 1 = n + 1 /\ 1 \in 1..1
          BY <1>1
        <5> QED
          BY <4>1, <5>1, SubSeqProperties
      <4> DEFINE w == SubSeq(u, n + 1, n + 1)
      <4> HIDE DEF w
      <4>3. w \in Seq(S) /\ Len(w) = 1 /\ w[1] = ch
        BY <1>1, <4>2 DEF w
      <4>4. w = <<ch>>
        BY <4>3
      <4> QED
        BY <4>4 DEF w
    <3>3. Append(<<>>, ch) = <<ch>>
      OBVIOUS
    <3> QED
      BY <1>5, <1>7, <2>5, <2>6, <3>1, <3>2, <3>3 DEF u
  <2>7. CASE T # {}
    <3> DEFINE mn == Min(T)
               mx == Max(T)
    <3>1. mn \in T /\ mx \in T /\ \A i \in T : mn <= i /\ i <= mx
      BY <1>1, <1>2, <2>7, Ends
    <3>2. LineOf(t, k) = SubSeq(t, mn, mx)
      BY <1>5, <2>7
    <3> HIDE DEF mn, mx
    <3>3. mx = n /\ n \in 1..n
      <4>1. n \in T
        BY <1>4, <1>7, <2>7
      <4>2. n <= mx /\ mx <= n /\ mx \in Nat /\ 1 <= n
        BY <2>0, <3>1, <4>1
      <4> QED
        BY <1>1, <4>2
    <3>4. lo = mn /\ mn \in 1..n
      <4>1. mn \in U
        BY <2>1, <3>1
      <4>2. lo <= mn /\ mn \in Nat /\ 1 <= mn /\ mn <= n
        BY <2>0, <2>3, <3>1, <4>1
      <4>3. lo \in T
        BY <1>1, <2>1, <2>3, <4>2
      <4>4. mn <= lo /\ lo \in Nat
        BY <2>0, <3>1, <4>3
      <4> QED
        BY <4>2, <4>4, <1>1
    <3>5. SubSeq(u, mn, n + 1) = Append(SubSeq(t, mn, n), ch)
      <4> DEFINE v == SubSeq(t, mn, n)
                 w == SubSeq(u, mn, n + 1)
                 x == Append(v, ch)
                 m == n - mn + 1
      <4>1. /\ \A i \in mn..n : t[i] \in S
            /\ \A i \in mn..n + 1 : u[i] \in S
        BY <1>1, <3>3, <3>4
      <4>2. mn \in Int /\ n \in Int /\ n + 1 \in Int /\ mn <= n /\ mn <= n + 1 /\ m \in Nat \ {0}
            /\ (n + 1) - mn + 1 = m + 1
        BY <1>1, <3>3, <3>4
      <4>3. v \in Seq(S) /\ Len(v) = m /\ \A i \in 1..m : v[i] = t[mn + i - 1]
        BY <4>1, <4>2, SubSeqProperties
      <4>4. w \in Seq(S) /\ Len(w) = m + 1 /\ \A i \in 1..m + 1 : w[i] = u[mn + i - 1]
        BY <4>1, <4>2, SubSeqProperties
      <4> HIDE DEF v, w
      <4>5. /\ x \in Seq(S) /\ Len(x) = m + 1 /\ x[m + 1] = ch
            /\ \A i \in 1..m : x[i] = v[i]
        BY <4>2, <4>3
      <4> HIDE DEF x
      <4>6. \A i \in 1..m : mn + i - 1 \in 1..n
        BY <1>1, <3>4
      <4>7. mn + (m + 1) - 1 = n + 1 /\ m + 1 \in 1..m + 1
        BY <4>2
      <4> HIDE DEF m
      <4>8. \A i \in 1..m : w[i] = x[i]
        <5> SUFFICES ASSUME NEW i \in 1..m PROVE w[i] = x[i]
          OBVIOUS
        <5>1. PICK j \in 1..n : j = mn + i - 1
          BY <4>6
        <5>2. w[i] = u[j]
          BY <4>2, <4>4, <5>1
        <5>3. x[i] = t[j]
          BY <4>3, <4>5, <5>1
        <5>4. u[j] = t[j]
          BY <1>1
        <5> QED
          BY <5>2, <5>3, <5>4
      <4>9. w[m + 1] = x[m + 1]
        BY <1>1, <4>4, <4>5, <4>7
      <4>10. w = x
        BY <4>2, <4>4, <4>5, <4>8, <4>9
      <4> QED
        BY <4>10 DEF v, w, x
    <3> QED
      BY <1>7, <2>5, <3>2, <3>3, <3>4, <3>5 DEF u
  <2> QED
    BY <2>6, <2>7
<1> QED
  BY <1>6, <1>7 DEF u

-----------------------------------------------------------------------------
(* What the console should hold *)

LEMMA CutOffFacts ==
  ASSUME NEW S, NEW line \in Seq(S)
  PROVE  /\ CutOff(line) \in Seq(S)
         /\ Len(CutOff(line)) = IF Len(line) < Columns THEN Len(line) ELSE Columns - 1
         /\ \A i \in 1..Len(CutOff(line)) : CutOff(line)[i] = line[i]
<1> DEFINE m == IF Len(line) < Columns THEN Len(line) ELSE Columns - 1
<1>1. m \in Nat /\ m <= Len(line) /\ 1 \in Int /\ m \in Int
  BY ScreenAssumption
<1>2. CutOff(line) = SubSeq(line, 1, m)
  BY DEF CutOff
<1>3. \A i \in 1..m : line[i] \in S
  BY <1>1
<1> HIDE DEF m
<1> DEFINE w == SubSeq(line, 1, m)
<1>4. /\ w \in Seq(S) /\ Len(w) = (IF 1 <= m THEN m - 1 + 1 ELSE 0)
      /\ \A i \in 1..m - 1 + 1 : w[i] = line[1 + i - 1]
  BY <1>1, <1>3, SubSeqProperties
<1> HIDE DEF w
<1>5. Len(w) = m /\ \A i \in 1..m : w[i] = line[i]
  BY <1>1, <1>4
<1> QED
  BY <1>2, <1>4, <1>5 DEF m, w

LEMMA CutOffNothing == CutOff(<<>>) = <<>>
<1>1. CutOff(<<>>) = SubSeq(<<>>, 1, 0)
  BY ScreenAssumption DEF CutOff
<1> QED
  BY <1>1, SubSeqEmpty

LEMMA ExpectedFacts ==
  ASSUME NEW S, NEW t \in Seq(S), NEW y \in 0..Rows - 1
  PROVE  /\ Expected(t, y) \in Seq(S) /\ Len(Expected(t, y)) \in 0..Columns - 1
         /\ Top(t) \in Nat /\ RowOf(t) \in 0..Rows - 1
         /\ Top(t) + RowOf(t) + 1 = Lines(t)
         /\ RowOf(t) < y => Expected(t, y) = <<>>
<1>1. Lines(t) \in Nat /\ Lines(t) >= 1 /\ Rows \in Nat \ {0} /\ Columns \in Nat \ {0, 1}
  BY BreaksFinite, ScreenAssumption
<1>2. /\ Top(t) \in Nat /\ RowOf(t) \in 0..Rows - 1 /\ Top(t) + RowOf(t) + 1 = Lines(t)
      /\ RowOf(t) < y => ~ (Top(t) + y + 1 <= Lines(t))
  BY <1>1 DEF Top, RowOf
<1>3. CASE Top(t) + y + 1 <= Lines(t)
  <2>1. Top(t) + y + 1 \in Int
    BY <1>2
  <2>2. LineOf(t, Top(t) + y + 1) \in Seq(S)
    BY <2>1, LineType
  <2> DEFINE line == LineOf(t, Top(t) + y + 1)
  <2>3. Expected(t, y) = CutOff(line)
    BY <1>3 DEF Expected
  <2> HIDE DEF line
  <2>4. /\ CutOff(line) \in Seq(S)
        /\ Len(CutOff(line)) = IF Len(line) < Columns THEN Len(line) ELSE Columns - 1
        /\ Len(line) \in Nat
    BY <2>2, CutOffFacts DEF line
  <2> QED
    BY <1>1, <1>2, <1>3, <2>3, <2>4
<1>4. CASE ~ (Top(t) + y + 1 <= Lines(t))
  <2>1. Expected(t, y) = <<>>
    BY <1>4 DEF Expected
  <2> QED
    BY <1>1, <1>2, <2>1
<1> QED
  BY <1>3, <1>4

(* A newline above the last row moves the cursor, one at the last row the  *)
(* lines.                                                                  *)
LEMMA ExpectedNewline ==
  ASSUME NEW S, NEW t \in Seq(S), Newline \in S
  PROVE  LET u == Append(t, Newline) IN
         /\ Len(Expected(u, RowOf(u))) = 0
         /\ RowOf(t) < Rows - 1 =>
              /\ RowOf(u) = RowOf(t) + 1
              /\ \A y \in 0..Rows - 1 : Expected(u, y) = Expected(t, y)
         /\ ~ (RowOf(t) < Rows - 1) =>
              /\ RowOf(u) = RowOf(t)
              /\ \A y \in 0..Rows - 1 :
                   Expected(u, y) = IF y < Rows - 1 THEN Expected(t, y + 1) ELSE <<>>
<1> DEFINE u == Append(t, Newline)
<1>1. u \in Seq(S)
  OBVIOUS
<1>2. Lines(u) = Lines(t) + 1
  BY AppendBreaks
<1>3. \A k \in Int : LineOf(u, k) = LineOf(t, k)
  BY AppendLine
<1> HIDE DEF u
<1>4. Lines(t) \in Nat /\ Lines(t) >= 1 /\ Rows \in Nat \ {0} /\ Columns \in Nat \ {0, 1}
  BY BreaksFinite, ScreenAssumption
<1>5. CutOff(LineOf(u, Lines(u))) = <<>>
  <2>1. LineOf(t, Lines(u)) = <<>>
    BY <1>2, <1>4, NoLine DEF LineOf
  <2>2. LineOf(u, Lines(u)) = <<>>
    BY <1>2, <1>3, <1>4, <2>1
  <2> QED
    BY <2>2, CutOffNothing
<1>6. RowOf(u) \in 0..Rows - 1 /\ Top(u) + RowOf(u) + 1 = Lines(u)
  BY <1>1, <1>4, ExpectedFacts
<1>7. Expected(u, RowOf(u)) = <<>>
  BY <1>4, <1>5, <1>6, <1>2 DEF Expected
<1>8. ASSUME RowOf(t) < Rows - 1
      PROVE  /\ RowOf(u) = RowOf(t) + 1
             /\ \A y \in 0..Rows - 1 : Expected(u, y) = Expected(t, y)
  <2>1. Top(u) = 0 /\ Top(t) = 0 /\ RowOf(u) = RowOf(t) + 1
    BY <1>2, <1>4, <1>8 DEF Top, RowOf
  <2>2. ASSUME NEW y \in 0..Rows - 1 PROVE Expected(u, y) = Expected(t, y)
    <3>1. CASE y + 1 <= Lines(t)
      <4>1. LineOf(u, Top(u) + y + 1) = LineOf(t, Top(t) + y + 1)
        BY <1>3, <2>1
      <4> QED
        BY <1>2, <1>4, <2>1, <3>1, <4>1 DEF Expected
    <3>2. CASE y + 1 = Lines(u)
      <4>1. Expected(u, y) = <<>>
        BY <1>5, <2>1, <3>2 DEF Expected
      <4>2. Expected(t, y) = <<>>
        BY <1>2, <1>4, <2>1, <3>2 DEF Expected
      <4> QED
        BY <4>1, <4>2
    <3>3. CASE y + 1 > Lines(u)
      BY <1>2, <1>4, <2>1, <3>3 DEF Expected
    <3> QED
      BY <1>2, <1>4, <3>1, <3>2, <3>3
  <2> QED
    BY <2>1, <2>2
<1>9. ASSUME ~ (RowOf(t) < Rows - 1)
      PROVE  /\ RowOf(u) = RowOf(t)
             /\ \A y \in 0..Rows - 1 :
                  Expected(u, y) = IF y < Rows - 1 THEN Expected(t, y + 1) ELSE <<>>
  <2>1. /\ Top(u) = Top(t) + 1 /\ Top(t) \in Nat /\ RowOf(u) = RowOf(t)
        /\ Lines(t) = Top(t) + Rows
    BY <1>2, <1>4, <1>9 DEF Top, RowOf
  <2>2. ASSUME NEW y \in 0..Rows - 1
        PROVE  Expected(u, y) = IF y < Rows - 1 THEN Expected(t, y + 1) ELSE <<>>
    <3>1. CASE y < Rows - 1
      <4>1. /\ Top(u) + y + 1 = Top(t) + (y + 1) + 1 /\ Top(u) + y + 1 \in Int
            /\ Top(u) + y + 1 <= Lines(u) /\ Top(t) + (y + 1) + 1 <= Lines(t)
        <5>1. PICK a, l, r : a = Top(t) /\ l = Lines(t) /\ r = Rows
          OBVIOUS
        <5>2. a \in Nat /\ r \in Nat /\ l = a + r /\ Top(u) = a + 1 /\ Lines(u) = l + 1
          BY <1>2, <1>4, <2>1, <5>1
        <5>3. y \in Nat /\ y < r - 1
          BY <1>4, <3>1, <5>1
        <5>4. /\ a + 1 + y + 1 = a + (y + 1) + 1 /\ a + 1 + y + 1 \in Int
              /\ a + 1 + y + 1 <= l + 1 /\ a + (y + 1) + 1 <= l
          BY <5>2, <5>3
        <5> QED
          BY <5>1, <5>2, <5>4, Zenon
      <4>2. LineOf(u, Top(u) + y + 1) = LineOf(t, Top(t) + (y + 1) + 1)
        BY <1>3, <4>1
      <4> QED
        BY <3>1, <4>1, <4>2 DEF Expected
    <3>2. CASE y = Rows - 1
      <4>1. Top(u) + y + 1 = Lines(u)
        BY <1>2, <1>4, <2>1, <3>2
      <4> QED
        BY <1>2, <1>4, <1>5, <3>2, <4>1 DEF Expected
    <3> QED
      BY <1>4, <3>1, <3>2
  <2> QED
    BY <2>1, <2>2
<1> QED
  BY <1>7, <1>8, <1>9 DEF u

(* Any other character joins the line of the cursor, while it fits.        *)
LEMMA ExpectedCharacter ==
  ASSUME NEW S, NEW t \in Seq(S), NEW ch \in S, ch # Newline
  PROVE  LET u == Append(t, ch)  l == Expected(t, RowOf(t)) IN
         /\ RowOf(u) = RowOf(t)
         /\ \A y \in 0..Rows - 1 :
              Expected(u, y) =
                IF y = RowOf(t) /\ Len(l) < Columns - 1 THEN Append(l, ch) ELSE Expected(t, y)
<1> DEFINE u == Append(t, ch)
           l == Expected(t, RowOf(t))
           line == LineOf(t, Lines(t))
<1>1. Lines(t) \in Nat /\ Lines(t) >= 1 /\ Rows \in Nat \ {0} /\ Columns \in Nat \ {0, 1}
  BY BreaksFinite, ScreenAssumption
<1>2. Lines(u) = Lines(t)
  BY AppendBreaks
<1>3. \A k \in Int : LineOf(u, k) = IF k = Lines(t) THEN Append(line, ch) ELSE LineOf(t, k)
  BY AppendLine
<1>4. line \in Seq(S)
  BY <1>1, LineType
<1>5. Append(line, ch) \in Seq(S) /\ Len(Append(line, ch)) = Len(line) + 1 /\ Len(line) \in Nat
  BY <1>4
<1> HIDE DEF u
<1>6. Top(u) = Top(t) /\ RowOf(u) = RowOf(t)
  BY <1>2 DEF Top, RowOf
<1>7. /\ Top(t) \in Nat /\ RowOf(t) \in 0..Rows - 1
      /\ Top(t) + RowOf(t) + 1 = Lines(t)
  <2>1. 0 \in 0..Rows - 1
    BY <1>1
  <2> QED
    BY <2>1, ExpectedFacts
<1>8. l = CutOff(line)
  BY <1>1, <1>7 DEF Expected
<1>9. Expected(u, RowOf(t)) = CutOff(Append(line, ch))
  <2>1. LineOf(u, Lines(t)) = Append(line, ch)
    BY <1>1, <1>3
  <2> HIDE DEF line
  <2>2. Top(t) + RowOf(t) + 1 <= Lines(t)
    BY <1>1, <1>7
  <2> QED
    BY <1>2, <1>6, <1>7, <2>1, <2>2 DEF Expected
<1> HIDE DEF l, line
<1> DEFINE m == Append(line, ch)
           lm == CutOff(m)
<1>10. \A i \in 1..Len(m) : m[i] = IF i = Len(line) + 1 THEN ch ELSE line[i]
  BY <1>4
<1>11. /\ l \in Seq(S) /\ Len(l) = (IF Len(line) < Columns THEN Len(line) ELSE Columns - 1)
       /\ \A i \in 1..Len(l) : l[i] = line[i]
  BY <1>4, <1>8, CutOffFacts
<1> HIDE DEF m
<1>12. /\ lm \in Seq(S) /\ Len(lm) = (IF Len(m) < Columns THEN Len(m) ELSE Columns - 1)
       /\ \A i \in 1..Len(lm) : lm[i] = m[i]
  BY <1>5, CutOffFacts DEF m
<1> HIDE DEF lm
<1>13. lm = IF Len(l) < Columns - 1 THEN Append(l, ch) ELSE l
  <2>0. Len(m) = Len(line) + 1 /\ Len(line) \in Nat
    BY <1>5 DEF m
  <2>1. CASE Len(l) < Columns - 1
    <3>1. Len(l) = Len(line) /\ Len(lm) = Len(l) + 1
      BY <1>1, <1>11, <1>12, <2>0, <2>1
    <3>2. \A i \in 1..Len(lm) : lm[i] = IF i = Len(l) + 1 THEN ch ELSE l[i]
      BY <1>10, <1>11, <1>12, <2>0, <3>1
    <3> DEFINE w == Append(l, ch)
    <3>3. /\ w \in Seq(S) /\ Len(w) = Len(l) + 1
          /\ \A i \in 1..Len(w) : w[i] = IF i = Len(l) + 1 THEN ch ELSE l[i]
      BY <1>11
    <3> HIDE DEF w
    <3>4. lm = w
      BY <1>12, <3>1, <3>2, <3>3
    <3> QED
      BY <2>1, <3>4 DEF w
  <2>2. CASE ~ (Len(l) < Columns - 1)
    <3>1. Len(l) = Columns - 1 /\ Len(lm) = Len(l) /\ Columns - 1 <= Len(line)
      BY <1>1, <1>11, <1>12, <2>0, <2>2
    <3>2. \A i \in 1..Len(lm) : lm[i] = l[i]
      BY <1>1, <1>10, <1>11, <1>12, <2>0, <3>1
    <3>3. lm = l
      BY <1>11, <1>12, <3>1, <3>2
    <3> QED
      BY <2>2, <3>3
  <2> QED
    BY <2>1, <2>2
<1>14. ASSUME NEW y \in 0..Rows - 1
       PROVE  Expected(u, y) =
                IF y = RowOf(t) /\ Len(l) < Columns - 1 THEN Append(l, ch) ELSE Expected(t, y)
  <2>1. CASE y = RowOf(t)
    BY <1>9, <1>13, <2>1 DEF l, lm, m
  <2>2. CASE y # RowOf(t)
    <3>1. Top(t) + y + 1 \in Int /\ Top(t) + y + 1 # Lines(t)
      BY <1>1, <1>7, <2>2
    <3>2. LineOf(u, Top(t) + y + 1) = LineOf(t, Top(t) + y + 1)
      BY <1>3, <3>1
    <3>3. Expected(u, y) = Expected(t, y)
      BY <1>2, <1>6, <3>2 DEF Expected
    <3> QED
      BY <2>2, <3>3
  <2> QED
    BY <2>1, <2>2
<1> QED
  BY <1>6, <1>14 DEF u, l

(* A line of the buffer is read back as the string it holds.               *)
LEMMA NulNotPrinted == Nul \notin Chars
  BY StringsAssumption DEF Chars

LEMMA StoredLine ==
  ASSUME NEW s \in Seq(Chars), Len(s) \in 0..Columns - 1, NEW b, NEW y, b[y] = Stored(s)
  PROVE  Line(b, y) = s
<1> DEFINE line == Stored(s)
           T == {n \in 1..Columns + 1 : line[n] = Nul}
           m == Len(s)
<1>1. m \in Nat /\ m < Columns /\ Columns \in Nat
  BY ScreenAssumption
<1>2. \A n \in 1..Columns + 1 : line[n] = IF n <= m THEN s[n] ELSE Nul
  BY DEF Stored
<1>3. \A n \in 1..m : s[n] \in Chars /\ s[n] # Nul
  BY NulNotPrinted
<1>4. Line(b, y) = SubSeq(line, 1, Min(T) - 1)
  BY DEF Line
<1> HIDE DEF line, m
<1>5. T \in SUBSET (1..Columns + 1) /\ Columns + 1 \in T
  BY <1>1, <1>2
<1>6. \A n \in T : n \in Nat /\ m < n
  BY <1>1, <1>2, <1>3
<1>7. m + 1 \in T
  BY <1>1, <1>2
<1> HIDE DEF T
<1> DEFINE lo == Min(T)
<1>8. lo \in T /\ \A n \in T : lo <= n
  <2>1. Columns + 1 \in Nat /\ T # {}
    BY <1>1, <1>5
  <2> QED
    BY <1>5, <2>1, Ends
<1> HIDE DEF lo
<1>9. lo = m + 1
  BY <1>1, <1>6, <1>7, <1>8
<1>10. Line(b, y) = SubSeq(line, 1, m)
  <2>1. lo - 1 = m
    BY <1>1, <1>9
  <2> QED
    BY <1>4, <2>1 DEF lo
<1>11. \A n \in 1..m : line[n] \in Chars /\ line[n] = s[n]
  BY <1>1, <1>2, <1>3
<1> DEFINE w == SubSeq(line, 1, m)
<1>12. /\ w \in Seq(Chars) /\ Len(w) = (IF 1 <= m THEN m - 1 + 1 ELSE 0)
       /\ \A n \in 1..m - 1 + 1 : w[n] = line[1 + n - 1]
  BY <1>1, <1>11, SubSeqProperties
<1> HIDE DEF w
<1>13. Len(w) = m /\ \A n \in 1..m : w[n] = s[n]
  BY <1>1, <1>11, <1>12
<1>14. w = s
  BY <1>12, <1>13 DEF m
<1> QED
  BY <1>10, <1>14 DEF w

LEMMA HeldLines ==
  ASSUME NEW t \in Seq(Chars), NEW y \in 0..Rows - 1
  PROVE  Line(Held(t), y) = Expected(t, y)
<1>1. Expected(t, y) \in Seq(Chars) /\ Len(Expected(t, y)) \in 0..Columns - 1
  BY ExpectedFacts
<1>2. Held(t)[y] = Stored(Expected(t, y))
  BY DEF Held
<1> QED
  BY <1>1, <1>2, StoredLine

-----------------------------------------------------------------------------
(* Positions and pixels *)

LEMMA RectangleMembers ==
  ASSUME NEW w \in Int, NEW h \in Int, NEW p
  PROVE  p \in Rectangle(<<0, 0>>, <<w, h>>) <=> \E x \in 0..w - 1, y \in 0..h - 1 : p = <<x, y>>
<1>1. \A x, y : x \in Int /\ y \in Int => 0 + x = x /\ 0 + y = y
  OBVIOUS
<1> QED
  BY <1>1 DEF Rectangle

(* A line of pixels lies before the next.                                  *)
LEMMA LineBelow ==
  ASSUME NEW x \in Nat, x < Pitch, NEW y \in Nat, NEW z \in Nat, y < z
  PROVE  /\ Pitch * y \in Nat /\ Pitch * z \in Nat
         /\ Pitch * y + x < Pitch * z
<1>1. Pitch \in Nat
  BY ScreenAssumption
<1>2. PICK d \in Nat : z = y + 1 + d
  BY z - (y + 1) \in Nat
<1>3. /\ Pitch * y \in Nat /\ Pitch * d \in Nat
      /\ Pitch * (y + 1 + d) = Pitch * y + Pitch + Pitch * d
  BY <1>1
<1> QED
  BY <1>1, <1>2, <1>3

Screenful == Rectangle(<<0, 0>>, <<Width, Height>>)

LEMMA OnePixel ==
  ASSUME NEW p \in Screenful
  PROVE  /\ p = <<p[1], p[2]>> /\ p[1] \in 0..Width - 1 /\ p[2] \in 0..Height - 1
         /\ PixelAt(p) \in 0..Pitch * Height - 1
         /\ \A q \in Screenful : PixelAt(q) = PixelAt(p) => q = p
<1>1. Width \in Nat /\ Height \in Nat /\ Pitch \in Nat /\ Width <= Pitch
  BY ScreenAssumption
<1>2. PICK x \in 0..Width - 1, y \in 0..Height - 1 : p = <<x, y>>
  BY <1>1, RectangleMembers DEF Screenful
<1>3. PixelAt(p) = Pitch * y + x
  BY <1>2 DEF PixelAt
<1>4. x \in Nat /\ x < Pitch /\ y \in Nat /\ y < Height
  BY <1>1
<1>5. PixelAt(p) \in 0..Pitch * Height - 1
  <2>1. Pitch * y \in Nat /\ Pitch * Height \in Nat /\ Pitch * y + x < Pitch * Height
    BY <1>1, <1>4, LineBelow
  <2> QED
    BY <1>3, <1>4, <2>1
<1>6. ASSUME NEW q \in Screenful, PixelAt(q) = PixelAt(p) PROVE q = p
  <2>1. PICK a \in 0..Width - 1, b \in 0..Height - 1 : q = <<a, b>>
    BY <1>1, RectangleMembers DEF Screenful
  <2>2. PixelAt(q) = Pitch * b + a
    BY <2>1 DEF PixelAt
  <2>3. a \in Nat /\ a < Pitch /\ b \in Nat
    BY <1>1
  <2>4. ~ (b < y)
    <3> SUFFICES ASSUME b < y PROVE FALSE
      OBVIOUS
    <3>1. Pitch * b \in Nat /\ Pitch * y \in Nat /\ Pitch * b + a < Pitch * y
      BY <1>4, <2>3, LineBelow
    <3> QED
      BY <1>3, <1>4, <1>6, <2>2, <2>3, <3>1
  <2>5. ~ (y < b)
    <3> SUFFICES ASSUME y < b PROVE FALSE
      OBVIOUS
    <3>1. Pitch * b \in Nat /\ Pitch * y \in Nat /\ Pitch * y + x < Pitch * b
      BY <1>4, <2>3, LineBelow
    <3> QED
      BY <1>3, <1>4, <1>6, <2>2, <2>3, <3>1
  <2>6. b = y
    BY <1>4, <2>3, <2>4, <2>5
  <2>7. a = x
    <3>1. Pitch * y \in Int
      BY <1>1, <1>4
    <3> QED
      BY <1>3, <1>4, <1>6, <2>2, <2>3, <2>6, <3>1
  <2> QED
    BY <1>2, <2>1, <2>6, <2>7
<1> QED
  BY <1>2, <1>5, <1>6

LEMMA AreaFacts ==
  /\ ConsoleArea \subseteq Screenful
  /\ Pixels(ConsoleArea) \subseteq 0..Pitch * Height - 1
  /\ \A p \in ConsoleArea : /\ p = <<p[1], p[2]>>
                           /\ p[1] \in 0..Columns - 1 /\ p[2] \in 0..Rows - 1
  /\ \A x \in 0..Columns - 1, y \in 0..Rows - 1 : <<x, y>> \in ConsoleArea
<1>1. /\ Rows \in Nat \ {0} /\ Columns \in Nat \ {0, 1}
      /\ Width \in Nat /\ Height \in Nat /\ Columns <= Width /\ Rows <= Height
  BY ScreenAssumption
<1>2. \A p : p \in ConsoleArea <=> \E x \in 0..Columns - 1, y \in 0..Rows - 1 : p = <<x, y>>
  BY <1>1, RectangleMembers DEF ConsoleArea
<1>3. \A p : p \in Screenful <=> \E x \in 0..Width - 1, y \in 0..Height - 1 : p = <<x, y>>
  BY <1>1, RectangleMembers DEF Screenful
<1>4. ConsoleArea \subseteq Screenful
  <2>1. 0..Columns - 1 \subseteq 0..Width - 1 /\ 0..Rows - 1 \subseteq 0..Height - 1
    BY <1>1
  <2> QED
    BY <1>2, <1>3, <2>1
<1>5. Pixels(ConsoleArea) \subseteq 0..Pitch * Height - 1
  BY <1>4, OnePixel DEF Pixels
<1> QED
  BY <1>2, <1>4, <1>5

-----------------------------------------------------------------------------
(* Drawing *)

FrameSize == 0..Pitch * Height - 1

LEMMA PaintFacts ==
  ASSUME NEW f, NEW shape, NEW colour
  PROVE  /\ DOMAIN Paint(f, shape, colour) = DOMAIN f
         /\ \A i \in DOMAIN f :
              Paint(f, shape, colour)[i] = IF i \in Pixels(shape) THEN colour ELSE f[i]
BY DEF Paint

(* What is to be seen at p of the string s written on line y.              *)
Inked(s, y, p) == p[2] = y /\ p[1] < Len(s) /\ s[p[1] + 1] \in Letters

LEMMA WrittenString ==
  ASSUME NEW f, DOMAIN f = FrameSize, NEW y \in 0..Rows - 1,
         NEW s \in Seq(Chars), Len(s) \in 0..Columns - 1
  PROVE  /\ DOMAIN WriteString(f, y, s) = FrameSize
         /\ \A p \in ConsoleArea :
              WriteString(f, y, s)[PixelAt(p)] =
                IF Inked(s, y, p) THEN s[p[1] + 1] ELSE f[PixelAt(p)]
         /\ \A i \in FrameSize \ Pixels(ConsoleArea) : WriteString(f, y, s)[i] = f[i]
<1> DEFINE D == {m \in DOMAIN s : s[m] \in Letters}
           K == {PixelAt(<<n - 1, y>>) : n \in D}
<1>1. /\ DOMAIN s = 1..Len(s) /\ Len(s) \in Nat /\ Len(s) < Columns
      /\ Columns \in Nat /\ Rows \in Nat /\ Pitch \in Nat /\ y \in Nat
  BY ScreenAssumption
<1>2. WriteString(f, y, s) =
        [i \in DOMAIN f |-> IF i \in K THEN s[i - PixelAt(<<0, y>>) + 1] ELSE f[i]]
  BY DEF WriteString
<1>3. ASSUME NEW n \in D PROVE <<n - 1, y>> \in ConsoleArea /\ n \in 1..Len(s)
  <2>1. n \in 1..Len(s) /\ n - 1 \in 0..Columns - 1
    BY <1>1
  <2> QED
    BY <2>1, AreaFacts
<1>4. \A p \in ConsoleArea : PixelAt(p) \in FrameSize
  BY AreaFacts, OnePixel DEF FrameSize
<1>5. \A p, q \in ConsoleArea : PixelAt(p) = PixelAt(q) => p = q
  BY AreaFacts, OnePixel
<1>6. ASSUME NEW p \in ConsoleArea
      PROVE  WriteString(f, y, s)[PixelAt(p)] =
               IF Inked(s, y, p) THEN s[p[1] + 1] ELSE f[PixelAt(p)]
  <2>1. p = <<p[1], p[2]>> /\ p[1] \in 0..Columns - 1 /\ p[2] \in 0..Rows - 1
    BY AreaFacts
  <2>2. CASE Inked(s, y, p)
    <3> DEFINE n == p[1] + 1
    <3>1. n \in D /\ p = <<n - 1, y>> /\ n \in Nat
      BY <1>1, <2>1, <2>2 DEF Inked
    <3>2. PixelAt(p) \in K
      BY <3>1
    <3>3. PixelAt(p) - PixelAt(<<0, y>>) + 1 = n
      <4>1. PixelAt(p) = Pitch * y + p[1] /\ PixelAt(<<0, y>>) = Pitch * y + 0
        BY <2>2 DEF PixelAt, Inked
      <4>2. Pitch * y \in Int
        BY <1>1
      <4> QED
        BY <2>1, <4>1, <4>2
    <3> HIDE DEF K, n
    <3>4. WriteString(f, y, s)[PixelAt(p)] = s[n]
      BY <1>2, <1>4, <3>2, <3>3
    <3> QED
      BY <2>2, <3>4 DEF n
  <2>3. CASE ~ Inked(s, y, p)
    <3>1. PixelAt(p) \notin K
      <4> SUFFICES ASSUME NEW n \in D, PixelAt(p) = PixelAt(<<n - 1, y>>) PROVE FALSE
        OBVIOUS
      <4>1. p = <<n - 1, y>> /\ n \in 1..Len(s) /\ s[n] \in Letters
        BY <1>3, <1>5
      <4>2. p[1] = n - 1 /\ p[2] = y
        BY <4>1
      <4>3. p[1] + 1 = n /\ p[1] < Len(s)
        BY <1>1, <4>1, <4>2
      <4> QED
        BY <2>3, <4>1, <4>2, <4>3 DEF Inked
    <3> HIDE DEF K
    <3>2. WriteString(f, y, s)[PixelAt(p)] = f[PixelAt(p)]
      BY <1>2, <1>4, <3>1
    <3> QED
      BY <2>3, <3>2
  <2> QED
    BY <2>2, <2>3
<1>7. ASSUME NEW i \in FrameSize \ Pixels(ConsoleArea) PROVE WriteString(f, y, s)[i] = f[i]
  <2>1. i \notin K
    BY <1>3 DEF Pixels
  <2> HIDE DEF K
  <2> QED
    BY <1>2, <2>1
<1>8. DOMAIN WriteString(f, y, s) = FrameSize
  BY <1>2
<1> QED
  BY <1>6, <1>7, <1>8

(* The recursion of Redraw has a solution, so that it is one.              *)
WriteLine(g, b, n) == WriteString(g, n - 1, Line(b, n - 1))
Draws(g, f, b, N) ==
  g = [n \in 0..N |-> IF n = 0 THEN Paint(f, ConsoleArea, Ground) ELSE WriteLine(g[n - 1], b, n)]

LEMMA DrawingExists ==
  ASSUME NEW f, NEW b
  PROVE  \A N \in Nat : \E g : Draws(g, f, b, N)
<1> DEFINE S == {N \in Nat : \E g : Draws(g, f, b, N)}
           e == Paint(f, ConsoleArea, Ground)
<1>1. 0 \in S
  <2>1. Draws([n \in 0..0 |-> e], f, b, 0)
    BY DEF Draws
  <2> QED
    BY <2>1
<1>2. ASSUME NEW N \in Nat, N \in S PROVE N + 1 \in S
  <2>1. PICK g : Draws(g, f, b, N)
    BY <1>2
  <2> DEFINE h == [n \in 0..(N + 1) |-> IF n = N + 1 THEN WriteLine(g[N], b, N + 1) ELSE g[n]]
  <2>2. \A n \in 0..(N + 1) : h[n] = IF n = 0 THEN e ELSE WriteLine(h[n - 1], b, n)
    <3> SUFFICES ASSUME NEW n \in 0..(N + 1)
                 PROVE  h[n] = IF n = 0 THEN e ELSE WriteLine(h[n - 1], b, n)
      OBVIOUS
    <3>1. CASE n = N + 1
      <4>1. n # 0 /\ n - 1 = N /\ h[n - 1] = g[N]
        BY <3>1
      <4> QED
        BY <3>1, <4>1
    <3>2. CASE n = 0
      BY <2>1, <3>2 DEF Draws
    <3>3. CASE n \in 1..N
      <4>1. n - 1 \in 0..(N + 1) /\ n - 1 # N + 1 /\ h[n - 1] = g[n - 1]
        BY <3>3
      <4>2. g[n] = WriteLine(g[n - 1], b, n)
        BY <2>1, <3>3 DEF Draws
      <4> QED
        BY <3>3, <4>1, <4>2
    <3> QED
      BY <3>1, <3>2, <3>3
  <2>3. h = [n \in 0..(N + 1) |-> h[n]]
    OBVIOUS
  <2> HIDE DEF h
  <2>4. Draws(h, f, b, N + 1)
    BY <2>2, <2>3, Zenon DEF Draws
  <2> QED
    BY <2>4
<1> HIDE DEF S
<1>3. \A N \in Nat : N \in S
  BY <1>1, <1>2, Induction
<1> QED
  BY <1>3 DEF S

(* With n lines drawn, these show and the rest of the console is cleared;  *)
(* the rest of the frame buffer is as it was.                              *)
DrawnTo(g, f, b, n) ==
  /\ DOMAIN g = FrameSize
  /\ \A p \in ConsoleArea :
       g[PixelAt(p)] = IF p[2] < n /\ Inked(Line(b, p[2]), p[2], p)
                       THEN Line(b, p[2])[p[1] + 1] ELSE Ground
  /\ \A i \in FrameSize \ Pixels(ConsoleArea) : g[i] = f[i]

LEMMA Redrawn ==
  ASSUME NEW f, DOMAIN f = FrameSize, NEW b,
         \A y \in 0..Rows - 1 : Line(b, y) \in Seq(Chars) /\ Len(Line(b, y)) \in 0..Columns - 1
  PROVE  DrawnTo(Redraw(f, b), f, b, Rows - 1)
<1>0. Rows \in Nat \ {0} /\ Rows - 1 \in Nat
  BY ScreenAssumption
<1>1. PICK g : g = CHOOSE h : Draws(h, f, b, Rows - 1)
  OBVIOUS
<1>2. Redraw(f, b) = g[Rows - 1]
  BY <1>1 DEF Redraw, Draws, WriteLine
<1>3. Draws(g, f, b, Rows - 1)
  <2>1. \E h : Draws(h, f, b, Rows - 1)
    BY <1>0, DrawingExists
  <2> QED
    BY <1>1, <2>1, Zenon
<1>4. /\ g[0] = Paint(f, ConsoleArea, Ground)
      /\ \A n \in Nat : n + 1 <= Rows - 1 => g[n + 1] = WriteLine(g[n], b, n + 1)
  BY <1>0, <1>3 DEF Draws
<1> DEFINE S == {n \in Nat : n <= Rows - 1 => DrawnTo(g[n], f, b, n)}
<1>5. 0 \in S
  <2>1. /\ DOMAIN g[0] = FrameSize
        /\ \A i \in FrameSize : g[0][i] = IF i \in Pixels(ConsoleArea) THEN Ground ELSE f[i]
    BY <1>4, PaintFacts
  <2>2. \A p \in ConsoleArea : /\ PixelAt(p) \in Pixels(ConsoleArea) /\ PixelAt(p) \in FrameSize
                              /\ ~ (p[2] < 0)
    BY AreaFacts, <1>0 DEF Pixels, FrameSize
  <2>3. DrawnTo(g[0], f, b, 0)
    BY <2>1, <2>2 DEF DrawnTo
  <2> QED
    BY <2>3
<1>6. ASSUME NEW n \in Nat, n \in S PROVE n + 1 \in S
  <2>0. n + 1 \in Nat
    OBVIOUS
  <2> SUFFICES ASSUME n + 1 <= Rows - 1 PROVE DrawnTo(g[n + 1], f, b, n + 1)
    BY <2>0, Zenon
  <2>1. DrawnTo(g[n], f, b, n) /\ n \in 0..Rows - 1
    BY <1>0, <1>6
  <2>2. g[n + 1] = WriteString(g[n], n, Line(b, n))
    <3>1. n + 1 - 1 = n
      OBVIOUS
    <3> QED
      BY <1>4, <3>1 DEF WriteLine
  <2>3. /\ DOMAIN g[n + 1] = FrameSize
        /\ \A p \in ConsoleArea :
             g[n + 1][PixelAt(p)] =
               IF Inked(Line(b, n), n, p) THEN Line(b, n)[p[1] + 1] ELSE g[n][PixelAt(p)]
        /\ \A i \in FrameSize \ Pixels(ConsoleArea) : g[n + 1][i] = g[n][i]
    <3>1. /\ DOMAIN g[n] = FrameSize
          /\ Line(b, n) \in Seq(Chars) /\ Len(Line(b, n)) \in 0..Columns - 1
      BY <2>1 DEF DrawnTo
    <3>2. PICK h, l : h = g[n] /\ l = Line(b, n)
      OBVIOUS
    <3>3. DOMAIN h = FrameSize /\ l \in Seq(Chars) /\ Len(l) \in 0..Columns - 1
      BY <3>1, <3>2
    <3>4. g[n + 1] = WriteString(h, n, l)
      BY <2>2, <3>2
    <3>5. /\ DOMAIN WriteString(h, n, l) = FrameSize
          /\ \A p \in ConsoleArea :
               WriteString(h, n, l)[PixelAt(p)] =
                 IF Inked(l, n, p) THEN l[p[1] + 1] ELSE h[PixelAt(p)]
          /\ \A i \in FrameSize \ Pixels(ConsoleArea) : WriteString(h, n, l)[i] = h[i]
      BY <2>1, <3>3, WrittenString, Zenon
    <3> QED
      BY <3>2, <3>4, <3>5
  <2>4. ASSUME NEW p \in ConsoleArea
        PROVE  g[n + 1][PixelAt(p)] =
                 IF p[2] < n + 1 /\ Inked(Line(b, p[2]), p[2], p)
                 THEN Line(b, p[2])[p[1] + 1] ELSE Ground
    <3>1. p[2] \in Nat
      BY AreaFacts
    <3>2. CASE p[2] = n
      <4>1. g[n][PixelAt(p)] = Ground
        BY <2>1, <3>2 DEF DrawnTo
      <4>2. p[2] < n + 1
        BY <3>2
      <4> QED
        BY <2>3, <3>2, <4>1, <4>2
    <3>3. CASE p[2] # n
      <4>1. ~ Inked(Line(b, n), n, p)
        BY <3>3 DEF Inked
      <4>2. p[2] < n + 1 <=> p[2] < n
        BY <3>1, <3>3
      <4> QED
        BY <2>1, <2>3, <4>1, <4>2 DEF DrawnTo
    <3> QED
      BY <3>2, <3>3
  <2> QED
    BY <2>1, <2>3, <2>4 DEF DrawnTo
<1> HIDE DEF S
<1>7. \A n \in Nat : n \in S
  BY <1>5, <1>6, Induction
<1>8. Rows - 1 \in S
  BY <1>0, <1>7
<1> QED
  BY <1>0, <1>2, <1>8 DEF S

-----------------------------------------------------------------------------
(* A character printed *)

LEMMA HeldInk ==
  ASSUME NEW t \in Seq(Chars), NEW x \in 0..Columns - 1, NEW y \in 0..Rows - 1
  PROVE  /\ Ink(Held(t), x, y) =
              IF x < Len(Expected(t, y)) /\ Expected(t, y)[x + 1] \in Letters
              THEN Expected(t, y)[x + 1] ELSE Ground
<1> DEFINE l == Expected(t, y)
<1>1. Len(l) \in 0..Columns - 1 /\ Columns \in Nat
  BY ExpectedFacts, ScreenAssumption
<1>2. Held(t)[y] = Stored(l)
  BY DEF Held
<1> HIDE DEF l
<1>3. Stored(l)[x + 1] = IF x + 1 <= Len(l) THEN l[x + 1] ELSE Nul
  BY <1>1 DEF Stored
<1>4. Nul \notin Letters
  BY StringsAssumption
<1>5. x + 1 <= Len(l) <=> x < Len(l)
  BY <1>1
<1>6. Ink(Held(t), x, y) = IF x < Len(l) /\ l[x + 1] \in Letters THEN l[x + 1] ELSE Ground
  BY <1>2, <1>3, <1>4, <1>5 DEF Ink
<1> QED
  BY <1>6 DEF l

(* The frame buffer f shows the buffer b, but for the pixels in d.         *)
Shown(f, b, d) ==
  /\ DOMAIN f = FrameSize
  /\ \A p \in ConsoleArea : ShownAt(f, b, p, d)
  /\ \A i \in FrameSize \ (d \cup Pixels(ConsoleArea)) : f[i] = Desktop[i]

(* The console when it holds the text t.                                   *)
Holding(t, f, d) ==
  [ frame |-> f, buffer |-> Held(t), row |-> RowOf(t), column |-> ColumnOf(t), touched |-> d ]

LEMMA CharacterHeld ==
  ASSUME NEW t \in Seq(Chars), NEW ch \in Chars, ch # Newline, ColumnOf(t) < Columns - 1
  PROVE  LET u == Append(t, ch) IN
         /\ Held(u) = [Held(t) EXCEPT ![RowOf(t)][ColumnOf(t) + 1] = ch]
         /\ RowOf(u) = RowOf(t) /\ ColumnOf(u) = ColumnOf(t) + 1
<1> DEFINE u == Append(t, ch)
           r == RowOf(t)
           l == Expected(t, r)
           w == Append(l, ch)
<1>1. /\ r \in 0..Rows - 1 /\ l \in Seq(Chars) /\ Len(l) \in 0..Columns - 1
      /\ ColumnOf(t) = Len(l) /\ Columns \in Nat
  <2>1. 0 \in 0..Rows - 1
    BY ScreenAssumption
  <2>2. r \in 0..Rows - 1
    BY <2>1, ExpectedFacts
  <2> HIDE DEF r
  <2>3. l \in Seq(Chars) /\ Len(l) \in 0..Columns - 1
    BY <2>2, ExpectedFacts
  <2> QED
    BY <2>2, <2>3, ScreenAssumption DEF r, ColumnOf
<1>2. /\ RowOf(u) = r
      /\ \A y \in 0..Rows - 1 :
           Expected(u, y) = IF y = r /\ Len(l) < Columns - 1 THEN w ELSE Expected(t, y)
  BY ExpectedCharacter
<1> HIDE DEF u, r, l
<1>3. /\ Len(w) = Len(l) + 1
      /\ \A n \in 1..Len(w) : w[n] = IF n = Len(l) + 1 THEN ch ELSE l[n]
  BY <1>1
<1> HIDE DEF w
<1>4. Len(l) < Columns - 1
  BY <1>1
<1>5. Stored(w) = [Stored(l) EXCEPT ![Len(l) + 1] = ch]
  <2>1. \A n \in 1..Columns + 1 :
          (IF n <= Len(w) THEN w[n] ELSE Nul) =
             IF n = Len(l) + 1 THEN ch ELSE IF n <= Len(l) THEN l[n] ELSE Nul
    BY <1>1, <1>3
  <2>2. Len(l) + 1 \in 1..Columns + 1
    BY <1>1
  <2> QED
    BY <2>1, <2>2 DEF Stored
<1>6. Held(u) = [Held(t) EXCEPT ![r][Len(l) + 1] = ch]
  <2>1. Held(t)[r] = Stored(l)
    BY <1>1 DEF Held, l
  <2>2. \A y \in 0..Rows - 1 :
          Held(u)[y] = IF y = r THEN [Stored(l) EXCEPT ![Len(l) + 1] = ch] ELSE Held(t)[y]
    BY <1>2, <1>4, <1>5 DEF Held
  <2>3. /\ DOMAIN Held(u) = 0..Rows - 1 /\ DOMAIN Held(t) = 0..Rows - 1
        /\ Held(u) = [y \in 0..Rows - 1 |-> Held(u)[y]]
    BY DEF Held
  <2> HIDE DEF Held
  <2> QED
    BY <1>1, <2>1, <2>2, <2>3
<1>7. ColumnOf(u) = Len(l) + 1
  BY <1>1, <1>2, <1>3, <1>4 DEF ColumnOf
<1> QED
  BY <1>1, <1>2, <1>6, <1>7 DEF u, r

LEMMA CharacterShown ==
  ASSUME NEW t \in Seq(Chars), NEW ch \in Chars, ch # Newline, ColumnOf(t) < Columns - 1,
         NEW f, NEW d, Shown(f, Held(t), d)
  PROVE  Shown(WriteAscii(f, ColumnOf(t), RowOf(t), ch), Held(Append(t, ch)), d)
<1> DEFINE u == Append(t, ch)
           r == RowOf(t)
           c == ColumnOf(t)
           g == WriteAscii(f, c, r, ch)
<1>1. r \in 0..Rows - 1 /\ c \in 0..Columns - 1 /\ Columns \in Nat /\ c = Len(Expected(t, r))
  <2>1. 0 \in 0..Rows - 1
    BY ScreenAssumption
  <2>2. r \in 0..Rows - 1
    BY <2>1, ExpectedFacts
  <2> HIDE DEF r
  <2>3. Len(Expected(t, r)) \in 0..Columns - 1
    BY <2>2, ExpectedFacts
  <2> QED
    BY <2>2, <2>3, ScreenAssumption DEF r, ColumnOf
<1>2. <<c, r>> \in ConsoleArea
  BY <1>1, AreaFacts
<1>3. Held(u) = [Held(t) EXCEPT ![r][c + 1] = ch]
  BY CharacterHeld
<1>4. /\ DOMAIN g = FrameSize
      /\ \A i \in FrameSize : g[i] = IF i = PixelAt(<<c, r>>) /\ ch \in Letters THEN ch ELSE f[i]
  <2>1. Pixels({<<c, r>>}) = {PixelAt(<<c, r>>)}
    BY DEF Pixels
  <2>2. DOMAIN f = FrameSize
    BY DEF Shown
  <2> HIDE DEF c, r
  <2>3. PICK shape : shape = {<<c, r>>}
    OBVIOUS
  <2>4. /\ DOMAIN Paint(f, shape, ch) = FrameSize
        /\ \A i \in FrameSize :
             Paint(f, shape, ch)[i] = IF i \in Pixels(shape) THEN ch ELSE f[i]
    BY <2>2, PaintFacts
  <2>5. g = IF ch \in Letters THEN Paint(f, shape, ch) ELSE f
    BY <2>3 DEF WriteAscii
  <2>6. Pixels(shape) = {PixelAt(<<c, r>>)}
    BY <2>1, <2>3
  <2> HIDE DEF g
  <2> QED
    BY <2>2, <2>4, <2>5, <2>6
<1>5. /\ DOMAIN Held(t) = 0..Rows - 1
      /\ \A y \in 0..Rows - 1 : DOMAIN Held(t)[y] = 1..Columns + 1
  BY DEF Held, Stored
<1>6. Ink(Held(t), c, r) = Ground
  BY <1>1, HeldInk
<1> HIDE DEF u, r, c, g
<1>7. ASSUME NEW p \in ConsoleArea
      PROVE  /\ PixelAt(p) \in FrameSize
             /\ PixelAt(p) = PixelAt(<<c, r>>) => p = <<c, r>>
  <2>1. p \in Screenful /\ <<c, r>> \in Screenful
    BY <1>2, AreaFacts
  <2> QED
    BY <2>1, OnePixel DEF FrameSize
<1>8. ASSUME NEW p \in ConsoleArea PROVE ShownAt(g, Held(u), p, d)
  <2>0. /\ PixelAt(p) \in FrameSize
        /\ PixelAt(p) = PixelAt(<<c, r>>) => p = <<c, r>>
        /\ p = <<p[1], p[2]>> /\ p[1] \in 0..Columns - 1 /\ p[2] \in 0..Rows - 1
    <3>1. /\ PixelAt(p) \in FrameSize
          /\ PixelAt(p) = PixelAt(<<c, r>>) => p = <<c, r>>
      BY <1>7, Zenon
    <3>2. p = <<p[1], p[2]>> /\ p[1] \in 0..Columns - 1 /\ p[2] \in 0..Rows - 1
      BY AreaFacts
    <3> QED
      BY <3>1, <3>2, Zenon
  <2>1. ShownAt(f, Held(t), p, d)
    BY DEF Shown
  <2>2. CASE p = <<c, r>>
    <3>1. p[1] = c /\ p[2] = r
      BY <2>2
    <3>2. Held(u)[r][c + 1] = ch
      BY <1>1, <1>3, <1>5
    <3>3. CASE ch \in Letters
      <4>1. g[PixelAt(p)] = ch
        BY <1>4, <2>0, <2>2, <3>3
      <4> QED
        BY <3>1, <3>2, <3>3, <4>1 DEF ShownAt, Ink
    <3>4. CASE ch \notin Letters
      <4>1. g[PixelAt(p)] = f[PixelAt(p)]
        BY <1>4, <2>0, <3>4
      <4>2. Ink(Held(u), p[1], p[2]) = Ink(Held(t), p[1], p[2])
        BY <1>6, <3>1, <3>2, <3>4 DEF Ink
      <4> QED
        BY <2>1, <4>1, <4>2 DEF ShownAt
    <3> QED
      BY <3>3, <3>4
  <2>3. CASE p # <<c, r>>
    <3>1. g[PixelAt(p)] = f[PixelAt(p)]
      BY <1>4, <2>0, <2>3
    <3>2. Held(u)[p[2]][p[1] + 1] = Held(t)[p[2]][p[1] + 1]
      <4>1. p[1] # c \/ p[2] # r
        BY <2>0, <2>3
      <4>2. p[1] + 1 \in 1..Columns + 1 /\ (p[1] + 1 = c + 1 => p[1] = c)
        BY <1>1, <2>0
      <4> QED
        BY <1>1, <1>3, <1>5, <2>0, <4>1, <4>2
    <3>3. Ink(Held(u), p[1], p[2]) = Ink(Held(t), p[1], p[2])
      BY <3>2 DEF Ink
    <3> QED
      BY <2>1, <3>1, <3>3 DEF ShownAt
  <2> QED
    BY <2>2, <2>3
<1>9. ASSUME NEW i \in FrameSize \ (d \cup Pixels(ConsoleArea)) PROVE g[i] = Desktop[i]
  <2>1. i # PixelAt(<<c, r>>)
    BY <1>2 DEF Pixels
  <2>2. g[i] = f[i]
    BY <1>4, <2>1
  <2> QED
    BY <2>2 DEF Shown
<1> QED
  BY <1>4, <1>8, <1>9 DEF Shown, u, g, c, r

LEMMA ScrolledHeld ==
  ASSUME NEW t \in Seq(Chars), Newline \in Chars, ~ (RowOf(t) < Rows - 1)
  PROVE  Scrolled(Held(t)) = Held(Append(t, Newline))
<1> DEFINE u == Append(t, Newline)
<1>1. \A y \in 0..Rows - 1 :
        Expected(u, y) = IF y < Rows - 1 THEN Expected(t, y + 1) ELSE <<>>
  BY ExpectedNewline
<1> HIDE DEF u
<1>2. EmptyLine = Stored(<<>>)
  <2>1. \A n \in 1..Columns + 1 : ~ (n <= Len(<<>>))
    OBVIOUS
  <2> QED
    BY <2>1, ScreenAssumption DEF EmptyLine, Stored
<1>3. ASSUME NEW y \in 0..Rows - 1 PROVE Scrolled(Held(t))[y] = Held(u)[y]
  <2>1. CASE y < Rows - 1
    <3>1. y + 1 \in 0..Rows - 1
      BY <2>1, ScreenAssumption
    <3>2. Held(t)[y + 1] = Stored(Expected(t, y + 1)) /\ Held(u)[y] = Stored(Expected(t, y + 1))
      BY <1>1, <2>1, <3>1 DEF Held
    <3> QED
      BY <2>1, <3>2 DEF Scrolled
  <2>2. CASE ~ (y < Rows - 1)
    BY <1>1, <1>2, <2>2 DEF Scrolled, Held
  <2> QED
    BY <2>1, <2>2
<1>4. /\ Scrolled(Held(t)) = [y \in 0..Rows - 1 |-> Scrolled(Held(t))[y]]
      /\ Held(u) = [y \in 0..Rows - 1 |-> Held(u)[y]]
  BY DEF Scrolled, Held
<1>5. Scrolled(Held(t)) = Held(u)
  BY <1>3, <1>4, Zenon
<1> QED
  BY <1>5 DEF u

LEMMA ScrolledShown ==
  ASSUME NEW t \in Seq(Chars), Expected(t, Rows - 1) = <<>>, NEW b, NEW f, NEW d, Shown(f, b, d)
  PROVE  Shown(Redraw(f, Held(t)), Held(t), d \ Pixels(ConsoleArea))
<1> DEFINE g == Redraw(f, Held(t))
           h == Held(t)
<1>1. DOMAIN f = FrameSize
  BY DEF Shown
<1>2. \A y \in 0..Rows - 1 :
        Line(h, y) = Expected(t, y) /\ Line(h, y) \in Seq(Chars) /\ Len(Line(h, y)) \in 0..Columns - 1
  BY HeldLines, ExpectedFacts
<1>3. DrawnTo(g, f, h, Rows - 1)
  <2> HIDE DEF h
  <2> QED
    BY <1>1, <1>2, Redrawn DEF h
<1> HIDE DEF g
<1>4. ASSUME NEW p \in ConsoleArea PROVE g[PixelAt(p)] = Ink(h, p[1], p[2])
  <2>1. p[1] \in 0..Columns - 1 /\ p[2] \in 0..Rows - 1 /\ Rows \in Nat
    BY AreaFacts, ScreenAssumption
  <2>2. Ink(h, p[1], p[2]) =
          IF p[1] < Len(Expected(t, p[2])) /\ Expected(t, p[2])[p[1] + 1] \in Letters
          THEN Expected(t, p[2])[p[1] + 1] ELSE Ground
    BY <2>1, HeldInk
  <2>3. g[PixelAt(p)] =
          IF p[2] < Rows - 1 /\ p[1] < Len(Expected(t, p[2])) /\ Expected(t, p[2])[p[1] + 1] \in Letters
          THEN Expected(t, p[2])[p[1] + 1] ELSE Ground
    <3> HIDE DEF h
    <3>1. Line(h, p[2]) = Expected(t, p[2])
      BY <1>2, <2>1
    <3> QED
      BY <1>3, <3>1 DEF DrawnTo, Inked
  <2>4. ~ (p[2] < Rows - 1) => ~ (p[1] < Len(Expected(t, p[2])))
    <3>1. ASSUME ~ (p[2] < Rows - 1) PROVE Len(Expected(t, p[2])) = 0
      <4>1. p[2] = Rows - 1
        BY <2>1, <3>1
      <4> QED
        BY <4>1
    <3> QED
      BY <2>1, <3>1
  <2> HIDE DEF h
  <2> QED
    BY <2>2, <2>3, <2>4
<1>5. ASSUME NEW i \in FrameSize \ ((d \ Pixels(ConsoleArea)) \cup Pixels(ConsoleArea))
      PROVE  g[i] = Desktop[i]
  BY <1>3 DEF DrawnTo, Shown
<1>6. \A p \in ConsoleArea : ShownAt(g, h, p, d \ Pixels(ConsoleArea))
  <2> HIDE DEF h
  <2> QED
    BY <1>4 DEF ShownAt
<1>7. DOMAIN g = FrameSize
  BY <1>3 DEF DrawnTo
<1> HIDE DEF h
<1> QED
  BY <1>5, <1>6, <1>7 DEF Shown, g, h

(* A character takes a console that holds and shows the text to one that   *)
(* holds and shows the text with the character; no pixel is added to those *)
(* that may differ.                                                        *)
Extends(k, t, d) ==
  \E f, e : /\ k = Holding(t, f, e)
            /\ Shown(f, Held(t), e) /\ e \subseteq d

LEMMA CharacterPut ==
  ASSUME NEW t \in Seq(Chars), NEW ch \in Chars, NEW f, NEW d, Shown(f, Held(t), d)
  PROVE  Extends(PutChar(Holding(t, f, d), ch), Append(t, ch), d)
<1> DEFINE u == Append(t, ch)
           c == Holding(t, f, d)
<1>0. /\ u \in Seq(Chars) /\ RowOf(t) \in 0..Rows - 1 /\ RowOf(u) \in 0..Rows - 1
      /\ Rows - 1 \in 0..Rows - 1
  <2>1. u \in Seq(Chars) /\ 0 \in 0..Rows - 1 /\ Rows - 1 \in 0..Rows - 1
    BY ScreenAssumption
  <2> HIDE DEF u
  <2> QED
    BY <2>1, ExpectedFacts
<1>1. CASE ch = Newline /\ RowOf(t) < Rows - 1
  <2>1. /\ Len(Expected(u, RowOf(u))) = 0 /\ RowOf(u) = RowOf(t) + 1
        /\ \A y \in 0..Rows - 1 : Expected(u, y) = Expected(t, y)
    BY <1>1, ExpectedNewline
  <2>2. Held(u) = Held(t) /\ ColumnOf(u) = 0
    BY <2>1 DEF Held, ColumnOf
  <2> HIDE DEF u
  <2>3. PutChar(c, ch) = Holding(u, f, d)
    BY <1>1, <2>1, <2>2 DEF PutChar, NewLine, Holding
  <2> HIDE DEF c
  <2> QED
    BY <2>2, <2>3 DEF Extends, u, c
<1>2. CASE ch = Newline /\ ~ (RowOf(t) < Rows - 1)
  <2> DEFINE g == Redraw(f, Held(u))
             e == d \ Pixels(ConsoleArea)
  <2>1. /\ Len(Expected(u, RowOf(u))) = 0 /\ RowOf(u) = RowOf(t)
        /\ \A y \in 0..Rows - 1 :
             Expected(u, y) = IF y < Rows - 1 THEN Expected(t, y + 1) ELSE <<>>
    BY <1>2, ExpectedNewline
  <2>2. Scrolled(Held(t)) = Held(u)
    BY <1>2, ScrolledHeld
  <2> HIDE DEF u
  <2>3. Expected(u, Rows - 1) = <<>>
    BY <1>0, <2>1, ScreenAssumption
  <2>4. Shown(g, Held(u), e)
    BY <1>0, <2>3, ScrolledShown
  <2>5. ColumnOf(u) = 0
    BY <2>1 DEF ColumnOf
  <2>6. PutChar(c, ch) = Holding(u, g, e)
    BY <1>2, <2>1, <2>2, <2>5 DEF PutChar, NewLine, Holding
  <2>7. e \subseteq d
    OBVIOUS
  <2> HIDE DEF c, g, e
  <2> QED
    BY <2>4, <2>6, <2>7 DEF Extends, u, c
<1>3. CASE ch # Newline /\ ColumnOf(t) < Columns - 1
  <2> DEFINE g == WriteAscii(f, ColumnOf(t), RowOf(t), ch)
  <2>1. /\ Held(u) = [Held(t) EXCEPT ![RowOf(t)][ColumnOf(t) + 1] = ch]
        /\ RowOf(u) = RowOf(t) /\ ColumnOf(u) = ColumnOf(t) + 1
    BY <1>3, CharacterHeld
  <2>2. Shown(g, Held(u), d)
    BY <1>3, CharacterShown
  <2> HIDE DEF u
  <2>3. PutChar(c, ch) = Holding(u, g, d)
    BY <1>3, <2>1 DEF PutChar, Holding
  <2> HIDE DEF c, g
  <2> QED
    BY <2>2, <2>3 DEF Extends, u, c
<1>4. CASE ch # Newline /\ ~ (ColumnOf(t) < Columns - 1)
  <2>1. /\ RowOf(u) = RowOf(t)
        /\ \A y \in 0..Rows - 1 :
             Expected(u, y) =
               IF y = RowOf(t) /\ Len(Expected(t, RowOf(t))) < Columns - 1
               THEN Append(Expected(t, RowOf(t)), ch) ELSE Expected(t, y)
    BY <1>4, ExpectedCharacter
  <2>2. \A y \in 0..Rows - 1 : Expected(u, y) = Expected(t, y)
    BY <1>4, <2>1 DEF ColumnOf
  <2> HIDE DEF u
  <2>3. Held(u) = Held(t) /\ ColumnOf(u) = ColumnOf(t)
    BY <1>0, <2>1, <2>2 DEF Held, ColumnOf
  <2>4. PutChar(c, ch) = Holding(u, f, d)
    BY <1>4, <2>1, <2>3 DEF PutChar, Holding
  <2> HIDE DEF c
  <2> QED
    BY <2>3, <2>4 DEF Extends, u, c
<1> QED
  BY <1>1, <1>2, <1>3, <1>4

-----------------------------------------------------------------------------
(* A string printed: the recursion of PutAll has a solution, so that it is *)
(* one.                                                                    *)
Puts(g, c, s, N) == g = [n \in 0..N |-> IF n = 0 THEN c ELSE PutChar(g[n - 1], s[n])]

LEMMA PuttingExists ==
  ASSUME NEW c, NEW s
  PROVE  \A N \in Nat : \E g : Puts(g, c, s, N)
<1> DEFINE S == {N \in Nat : \E g : Puts(g, c, s, N)}
<1>1. 0 \in S
  <2>1. Puts([n \in 0..0 |-> c], c, s, 0)
    BY DEF Puts
  <2> QED
    BY <2>1
<1>2. ASSUME NEW N \in Nat, N \in S PROVE N + 1 \in S
  <2>1. PICK g : Puts(g, c, s, N)
    BY <1>2
  <2> DEFINE h == [n \in 0..(N + 1) |-> IF n = N + 1 THEN PutChar(g[N], s[N + 1]) ELSE g[n]]
  <2>2. \A n \in 0..(N + 1) : h[n] = IF n = 0 THEN c ELSE PutChar(h[n - 1], s[n])
    <3> SUFFICES ASSUME NEW n \in 0..(N + 1)
                 PROVE  h[n] = IF n = 0 THEN c ELSE PutChar(h[n - 1], s[n])
      OBVIOUS
    <3>1. CASE n = N + 1
      <4>1. n # 0 /\ n - 1 = N /\ h[n - 1] = g[N]
        BY <3>1
      <4> QED
        BY <3>1, <4>1
    <3>2. CASE n = 0
      BY <2>1, <3>2 DEF Puts
    <3>3. CASE n \in 1..N
      <4>1. n - 1 \in 0..(N + 1) /\ n - 1 # N + 1 /\ h[n - 1] = g[n - 1]
        BY <3>3
      <4>2. g[n] = PutChar(g[n - 1], s[n])
        BY <2>1, <3>3 DEF Puts
      <4> QED
        BY <3>3, <4>1, <4>2
    <3> QED
      BY <3>1, <3>2, <3>3
  <2>3. h = [n \in 0..(N + 1) |-> h[n]]
    OBVIOUS
  <2> HIDE DEF h
  <2>4. Puts(h, c, s, N + 1)
    BY <2>2, <2>3, Zenon DEF Puts
  <2> QED
    BY <2>4
<1> HIDE DEF S
<1>3. \A N \in Nat : N \in S
  BY <1>1, <1>2, Induction
<1> QED
  BY <1>3 DEF S

LEMMA StringPut ==
  ASSUME NEW t \in Seq(Chars), NEW s \in Seq(Chars), NEW f, NEW d, Shown(f, Held(t), d)
  PROVE  Extends(PutAll(Holding(t, f, d), s), t \o s, d)
<1> DEFINE c == Holding(t, f, d)
           N == Len(s)
           m == Len(t)
           Upto(n) == [i \in 1..m + n |-> IF i <= m THEN t[i] ELSE s[i - m]]
<1>0. N \in Nat /\ m \in Nat
  OBVIOUS
<1>1. PICK g : g = CHOOSE h : Puts(h, c, s, N)
  OBVIOUS
<1>2. PutAll(c, s) = g[N]
  BY <1>1 DEF PutAll, Puts
<1>3. Puts(g, c, s, N)
  <2> HIDE DEF c
  <2>1. \E h : Puts(h, c, s, N)
    BY <1>0, PuttingExists
  <2> QED
    BY <1>1, <2>1, Zenon
<1> HIDE DEF c
<1>4. g[0] = c /\ \A n \in Nat : n + 1 <= N => g[n + 1] = PutChar(g[n], s[n + 1])
  BY <1>0, <1>3 DEF Puts
<1>5. /\ Upto(0) = t /\ Upto(N) = t \o s
      /\ \A n \in 0..N : Upto(n) \in Seq(Chars)
      /\ \A n \in Nat : n + 1 <= N => Upto(n + 1) = Append(Upto(n), s[n + 1])
  <2>1. Upto(0) = t
    BY <1>0
  <2>2. Upto(N) = t \o s
    <3> DEFINE w == t \o s
    <3>1. /\ w \in Seq(Chars) /\ Len(w) = m + N
          /\ \A i \in 1..m + N : w[i] = IF i <= m THEN t[i] ELSE s[i - m]
      BY ConcatProperties
    <3> HIDE DEF w
    <3>2. w = [i \in 1..m + N |-> w[i]]
      BY <3>1
    <3>3. w = Upto(N)
      BY <3>1, <3>2
    <3> QED
      BY <3>3 DEF w
  <2>3. ASSUME NEW n \in 0..N PROVE Upto(n) \in Seq(Chars)
    <3>1. \A i \in 1..m + n : (IF i <= m THEN t[i] ELSE s[i - m]) \in Chars
      BY <1>0
    <3>2. m + n \in Nat
      BY <1>0
    <3> QED
      BY <3>1, <3>2, IsASeq
  <2>4. ASSUME NEW n \in Nat, n + 1 <= N PROVE Upto(n + 1) = Append(Upto(n), s[n + 1])
    <3> DEFINE v == Upto(n)
               w == Append(v, s[n + 1])
               x == Upto(n + 1)
    <3>1. v \in Seq(Chars) /\ Len(v) = m + n /\ s[n + 1] \in Chars /\ n + 1 \in 0..N
      BY <1>0, <2>3, <2>4
    <3>2. x \in Seq(Chars) /\ Len(x) = m + n + 1
      BY <1>0, <2>3, <3>1
    <3>3. \A i \in 1..m + n : x[i] = v[i]
      BY <1>0
    <3>4. x[m + n + 1] = s[n + 1]
      BY <1>0
    <3> HIDE DEF v, x
    <3>5. /\ w \in Seq(Chars) /\ Len(w) = m + n + 1
          /\ \A i \in 1..m + n : w[i] = v[i]
          /\ w[m + n + 1] = s[n + 1]
      BY <1>0, <3>1
    <3> HIDE DEF w
    <3>6. \A i \in 1..m + n + 1 : x[i] = w[i]
      BY <1>0, <3>3, <3>4, <3>5
    <3>7. x = w
      BY <3>2, <3>5, <3>6
    <3> QED
      BY <3>7 DEF v, w, x
  <2> QED
    BY <2>1, <2>2, <2>3, <2>4
<1> HIDE DEF Upto
<1> DEFINE S == {n \in Nat : n <= N => Extends(g[n], Upto(n), d)}
<1>6. 0 \in S
  <2>1. Extends(g[0], Upto(0), d)
    BY <1>4, <1>5 DEF Extends, c
  <2> QED
    BY <2>1
<1>7. ASSUME NEW n \in Nat, n \in S PROVE n + 1 \in S
  <2>0. n + 1 \in Nat
    OBVIOUS
  <2> SUFFICES ASSUME n + 1 <= N PROVE Extends(g[n + 1], Upto(n + 1), d)
    BY <2>0, Zenon
  <2>1. Extends(g[n], Upto(n), d) /\ n \in 0..N
    BY <1>0, <1>7
  <2>2. PICK h, e : g[n] = Holding(Upto(n), h, e) /\ Shown(h, Held(Upto(n)), e) /\ e \subseteq d
    BY <2>1 DEF Extends
  <2>3. Upto(n) \in Seq(Chars) /\ s[n + 1] \in Chars
    BY <1>0, <1>5, <2>1
  <2>4. Extends(PutChar(Holding(Upto(n), h, e), s[n + 1]), Append(Upto(n), s[n + 1]), e)
    BY <2>2, <2>3, CharacterPut
  <2>5. Extends(g[n + 1], Upto(n + 1), e)
    BY <1>4, <1>5, <2>2, <2>4
  <2> QED
    BY <2>2, <2>5 DEF Extends
<1> HIDE DEF S
<1>8. \A n \in Nat : n \in S
  BY <1>6, <1>7, Induction
<1>9. Extends(g[N], Upto(N), d)
  BY <1>0, <1>8 DEF S
<1> QED
  BY <1>2, <1>5, <1>9 DEF c

-----------------------------------------------------------------------------
(* The screen at the start *)

LEMMA NothingExpected ==
  /\ RowOf(<<>>) = 0 /\ \A y \in 0..Rows - 1 : Expected(<<>>, y) = <<>>
<1>1. Breaks(<<>>) = {}
  BY DEF Breaks
<1>2. Lines(<<>>) = 1
  BY <1>1, FS_EmptySet DEF Lines
<1>3. Top(<<>>) = 0 /\ RowOf(<<>>) = 0
  BY <1>2, ScreenAssumption DEF Top, RowOf
<1>4. \A k : LineOf(<<>>, k) = <<>>
  <2>1. \A k : Its(<<>>, k) = {}
    BY DEF Its
  <2> QED
    BY <2>1 DEF LineOf
<1>5. ASSUME NEW y \in 0..Rows - 1 PROVE Expected(<<>>, y) = <<>>
  <2>1. CutOff(LineOf(<<>>, Top(<<>>) + y + 1)) = <<>>
    BY <1>4, CutOffNothing
  <2> QED
    BY <2>1 DEF Expected
<1> QED
  BY <1>3, <1>5

(* The task bar lies below the console.                                    *)
LEMMA BelowConsole ==
  ASSUME NEW p \in ConsoleArea, NEW x \in Nat, NEW y \in Nat, Height - Bar <= y
  PROVE  PixelAt(<<x, y>>) # PixelAt(p)
<1>1. p = <<p[1], p[2]>> /\ p[1] \in 0..Columns - 1 /\ p[2] \in 0..Rows - 1
  BY AreaFacts
<1>2. p[1] \in Nat /\ p[1] < Pitch /\ p[2] \in Nat /\ p[2] < y
  BY <1>1, ScreenAssumption
<1>3. Pitch * p[2] \in Nat /\ Pitch * y \in Nat /\ Pitch * p[2] + p[1] < Pitch * y
  BY <1>2, LineBelow
<1>4. PixelAt(<<x, y>>) = Pitch * y + x /\ PixelAt(p) = Pitch * p[2] + p[1]
  BY DEF PixelAt
<1> QED
  BY <1>2, <1>3, <1>4

LEMMA BarRectangle ==
  ASSUME NEW x \in Nat, NEW y \in Nat, Height - Bar <= y, NEW w, NEW h,
         NEW p \in ConsoleArea
  PROVE  PixelAt(p) \notin Pixels(Rectangle(<<x, y>>, <<w, h>>))
<1> SUFFICES ASSUME NEW q \in Rectangle(<<x, y>>, <<w, h>>), PixelAt(p) = PixelAt(q)
             PROVE  FALSE
  BY DEF Pixels
<1>1. PICK dx \in 0..w - 1, dy \in 0..h - 1 : q = <<x + dx, y + dy>>
  BY DEF Rectangle
<1>2. x + dx \in Nat /\ y + dy \in Nat /\ Height - Bar <= y + dy
  BY ScreenAssumption
<1> QED
  BY <1>1, <1>2, BelowConsole

LEMMA DesktopFacts ==
  /\ DOMAIN Desktop = FrameSize
  /\ \A p \in ConsoleArea : Desktop[PixelAt(p)] = Ground
<1> DEFINE h == Height - Bar
           empty  == [i \in FrameSize |-> "firmware"]
           ground == FillRectangle(empty, <<0, 0>>, <<Width, h>>, Ground)
           bar    == FillRectangle(ground, <<0, h>>, <<Width, Bar>>, "bar")
           button == FillRectangle(bar, <<0, h>>, <<Width \div 5, Bar>>, "button")
           desk   == DrawRectangle(button, <<1, h + 1>>, <<3, 3>>, "outline")
<1>1. Desktop = desk
  BY DEF Desktop, FrameSize
<1>2. h \in Nat /\ h + 1 \in Nat /\ Height - Bar <= h /\ Height - Bar <= h + 1
      /\ Columns <= Width /\ Rows <= h /\ Width \in Nat /\ Columns \in Nat /\ Rows \in Nat
  BY ScreenAssumption
<1>3. \A p \in ConsoleArea : /\ PixelAt(p) \in FrameSize
                            /\ PixelAt(p) \in Pixels(Rectangle(<<0, 0>>, <<Width, h>>))
  <2>1. ASSUME NEW p \in ConsoleArea PROVE PixelAt(p) \in FrameSize
    BY <2>1, AreaFacts, OnePixel DEF FrameSize
  <2>2. ASSUME NEW p \in ConsoleArea PROVE p \in Rectangle(<<0, 0>>, <<Width, h>>)
    <3>1. /\ p = <<p[1], p[2]>> /\ p[1] \in 0..Columns - 1 /\ p[2] \in 0..Rows - 1
      BY AreaFacts
    <3> HIDE DEF h
    <3>2. p[1] \in 0..Width - 1 /\ p[2] \in 0..h - 1 /\ h \in Int /\ Width \in Int
      BY <1>2, <3>1
    <3> QED
      BY <3>1, <3>2, RectangleMembers
  <2> QED
    BY <2>1, <2>2 DEF Pixels
<1>4. \A p \in ConsoleArea :
        /\ PixelAt(p) \notin Pixels(Rectangle(<<0, h>>, <<Width, Bar>>))
        /\ PixelAt(p) \notin Pixels(Rectangle(<<0, h>>, <<Width \div 5, Bar>>))
        /\ PixelAt(p) \notin Pixels(Outline(<<1, h + 1>>, <<3, 3>>))
  <2> SUFFICES ASSUME NEW p \in ConsoleArea
               PROVE  /\ PixelAt(p) \notin Pixels(Rectangle(<<0, h>>, <<Width, Bar>>))
                      /\ PixelAt(p) \notin Pixels(Rectangle(<<0, h>>, <<Width \div 5, Bar>>))
                      /\ PixelAt(p) \notin Pixels(Outline(<<1, h + 1>>, <<3, 3>>))
    OBVIOUS
  <2>1. \A w : PixelAt(p) \notin Pixels(Rectangle(<<0, h>>, <<w, Bar>>))
    BY <1>2, BarRectangle
  <2>2. PixelAt(p) \notin Pixels(Rectangle(<<1, h + 1>>, <<3, 3>>))
    BY <1>2, BarRectangle
  <2>3. PixelAt(p) \notin Pixels(Outline(<<1, h + 1>>, <<3, 3>>))
    BY <2>2 DEF Outline, Pixels
  <2> QED
    BY <2>1, <2>3
<1>5. /\ DOMAIN ground = FrameSize
      /\ \A i \in FrameSize : ground[i] =
           IF i \in Pixels(Rectangle(<<0, 0>>, <<Width, h>>)) THEN Ground ELSE "firmware"
  BY PaintFacts DEF FillRectangle
<1>6. /\ DOMAIN bar = FrameSize
      /\ \A i \in FrameSize : bar[i] =
           IF i \in Pixels(Rectangle(<<0, h>>, <<Width, Bar>>)) THEN "bar" ELSE ground[i]
  <2> HIDE DEF ground
  <2> QED
    BY <1>5, PaintFacts DEF FillRectangle
<1>7. /\ DOMAIN button = FrameSize
      /\ \A i \in FrameSize : button[i] =
           IF i \in Pixels(Rectangle(<<0, h>>, <<Width \div 5, Bar>>)) THEN "button" ELSE bar[i]
  <2> HIDE DEF bar
  <2> QED
    BY <1>6, PaintFacts DEF FillRectangle
<1>8. /\ DOMAIN desk = FrameSize
      /\ \A i \in FrameSize : desk[i] =
           IF i \in Pixels(Outline(<<1, h + 1>>, <<3, 3>>)) THEN "outline" ELSE button[i]
  <2> HIDE DEF button
  <2> QED
    BY <1>7, PaintFacts DEF DrawRectangle
<1> HIDE DEF desk, button, bar, ground, h
<1> QED
  BY <1>1, <1>3, <1>4, <1>5, <1>6, <1>7, <1>8

LEMMA StartingInv == Init => ScreenInv
<1> SUFFICES ASSUME Init PROVE ScreenInv
  OBVIOUS
<1>1. ConsoleInv
  <2>1. text = <<>> /\ row = 0 /\ column = 0 /\ buffer = [y \in 0..Rows - 1 |-> EmptyLine]
    BY DEF Init
  <2>2. EmptyLine = Stored(<<>>)
    <3>1. \A n \in 1..Columns + 1 : ~ (n <= Len(<<>>))
      OBVIOUS
    <3> QED
      BY <3>1, ScreenAssumption DEF EmptyLine, Stored
  <2>3. Held(<<>>) = [y \in 0..Rows - 1 |-> EmptyLine]
    BY <2>2, NothingExpected DEF Held
  <2>4. ColumnOf(<<>>) = 0
    BY NothingExpected, ScreenAssumption DEF ColumnOf
  <2>5. text \in Seq(Chars)
    BY <2>1
  <2> QED
    BY <2>1, <2>3, <2>4, <2>5, NothingExpected DEF ConsoleInv
<1>2. /\ DOMAIN frame = FrameSize
      /\ \A i \in FrameSize :
           frame[i] = IF i \in Pixels(Cursor(Initially)) THEN Pointer ELSE Desktop[i]
  BY PaintFacts, DesktopFacts DEF Init
<1>3. Cursor(Initially) \subseteq Screenful
  BY CursorAssumption DEF OnScreen, Screenful
<1>4. CursorInv
  <2>1. Initially \in Int \X Int
    BY DEF Initially
  <2> QED
    BY <1>2, <2>1, CursorAssumption DEF CursorInv, Init, FrameSize
<1>5. ASSUME NEW p \in ConsoleArea PROVE ShownAt(frame, buffer, p, touched)
  <2>1. p \in Screenful /\ PixelAt(p) \in FrameSize /\ Desktop[PixelAt(p)] = Ground
    BY AreaFacts, OnePixel, DesktopFacts DEF FrameSize
  <2>2. CASE PixelAt(p) \in Pixels(Cursor(Initially))
    <3>1. PICK q \in Cursor(Initially) : PixelAt(p) = PixelAt(q)
      BY <2>2 DEF Pixels
    <3>2. p = q
      BY <1>3, <2>1, <3>1, OnePixel
    <3>3. frame[PixelAt(p)] = Pointer
      BY <1>2, <2>1, <2>2
    <3> QED
      BY <3>1, <3>2, <3>3 DEF ShownAt, Init
  <2>3. CASE PixelAt(p) \notin Pixels(Cursor(Initially))
    <3>1. frame[PixelAt(p)] = Ground
      BY <1>2, <2>1, <2>3
    <3>2. p[1] \in 0..Columns - 1 /\ p[2] \in 0..Rows - 1
      BY AreaFacts
    <3>3. buffer[p[2]][p[1] + 1] = Nul
      BY <3>2, ScreenAssumption DEF Init, EmptyLine
    <3>4. Ink(buffer, p[1], p[2]) = Ground
      BY <3>3, StringsAssumption DEF Ink
    <3> QED
      BY <3>1, <3>4 DEF ShownAt
  <2> QED
    BY <2>2, <2>3
<1>6. \A i \in DOMAIN frame \ (touched \cup Pixels(ConsoleArea)) : frame[i] = Desktop[i]
  BY <1>2 DEF Init
<1> QED
  BY <1>1, <1>4, <1>5, <1>6 DEF ScreenInv, ShowsTheText, Init

-----------------------------------------------------------------------------
(* The steps *)

LEMMA printkStep ==
  ASSUME ScreenInv, NEW s \in Strings, printk(s)
  PROVE  ScreenInv'
<1>1. text \in Seq(Chars) /\ Console = Holding(text, frame, touched)
  BY DEF ScreenInv, ConsoleInv, Console, Holding
<1>2. s \in Seq(Chars)
  <2>1. s \in Seq(ToSet(s)) /\ ToSet(s) \subseteq Chars
    BY StringsAssumption DEF Chars
  <2> QED
    BY <2>1
<1>3. Shown(frame, Held(text), touched)
  BY DEF ScreenInv, ConsoleInv, CursorInv, ShowsTheText, Shown, FrameSize
<1>4. Extends(PutAll(Console, s), text \o s, touched)
  BY <1>1, <1>2, <1>3, StringPut
<1>5. PICK f, e : PutAll(Console, s) = Holding(text \o s, f, e) /\ Shown(f, Held(text \o s), e)
  BY <1>4 DEF Extends
<1>6. /\ frame' = f /\ touched' = e /\ text' = text \o s
      /\ buffer' = Held(text') /\ row' = RowOf(text') /\ column' = ColumnOf(text')
      /\ UNCHANGED <<position, strayed, beyond>>
  BY <1>5 DEF printk, PutString, Holding
<1>7. text' \in Seq(Chars)
  <2>1. text \o s \in Seq(Chars)
    BY <1>1, <1>2
  <2> QED
    BY <1>6, <2>1
<1>8. ConsoleInv'
  <2>1. /\ Held(text') = Held(text)' /\ RowOf(text') = RowOf(text)'
        /\ ColumnOf(text') = ColumnOf(text)'
    OBVIOUS
  <2> QED
    BY <1>6, <1>7, <2>1 DEF ConsoleInv
<1>9. CursorInv'
  BY <1>5, <1>6 DEF ScreenInv, CursorInv, OnScreen, Shown, FrameSize
<1>10. ShowsTheText'
  <2>1. \A p \in ConsoleArea : ShownAt(f, buffer', p, e)
    BY <1>5, <1>6 DEF Shown
  <2>2. \A p \in ConsoleArea : ShownAt(frame, buffer, p, touched)'
    BY <1>6, <2>1 DEF ShownAt
  <2>3. \A i \in DOMAIN f \ (e \cup Pixels(ConsoleArea)) : f[i] = Desktop[i]
    BY <1>5 DEF Shown
  <2> QED
    BY <1>6, <2>2, <2>3 DEF ShowsTheText, ScreenInv
<1> QED
  BY <1>8, <1>9, <1>10 DEF ScreenInv

LEMMA MoveRelativeStep ==
  ASSUME ScreenInv, NEW d \in Displacements, MoveRelative(d)
  PROVE  ScreenInv'
<1> DEFINE to == <<position[1] + d[1], position[2] + d[2]>>
           K  == Pixels(Cursor(position))
           L  == Pixels(Cursor(to))
<1>1. /\ position' = to
      /\ frame' = Paint(Paint(frame, Cursor(position), Ground), Cursor(to), Pointer)
      /\ touched' = touched \cup K \cup L
      /\ beyond' = (beyond \/ ~(L \subseteq DOMAIN frame))
      /\ strayed' = (strayed \/ ~OnScreen(to))
      /\ UNCHANGED <<buffer, row, column, text>>
  BY DEF MoveRelative
<1>2. /\ DOMAIN frame = FrameSize /\ position \in Int \X Int
      /\ strayed \in BOOLEAN /\ beyond \in BOOLEAN /\ (beyond => strayed)
  BY DEF ScreenInv, CursorInv, FrameSize, ShowsTheText
<1>3. to \in Int \X Int
  BY <1>2, ScreenAssumption
<1>4. OnScreen(to) => Cursor(to) \subseteq Screenful
  BY DEF OnScreen, Screenful
<1>5. /\ DOMAIN frame' = FrameSize
      /\ \A i \in FrameSize :
           frame'[i] = IF i \in L THEN Pointer ELSE IF i \in K THEN Ground ELSE frame[i]
  <2>1. PICK f : f = Paint(frame, Cursor(position), Ground)
    OBVIOUS
  <2>2. DOMAIN f = FrameSize /\ \A i \in FrameSize : f[i] = IF i \in K THEN Ground ELSE frame[i]
    BY <1>2, <2>1, PaintFacts
  <2>3. frame' = Paint(f, Cursor(to), Pointer)
    BY <1>1, <2>1
  <2> HIDE DEF to
  <2> QED
    BY <2>2, <2>3, PaintFacts
<1>6. position' = to /\ OnScreen(to) = OnScreen(position)' /\ Pixels(Cursor(position))' = L
  BY <1>1 DEF OnScreen, Pixels, Cursor
<1> HIDE DEF to
<1>7. ConsoleInv'
  BY <1>1 DEF ScreenInv, ConsoleInv
<1>8. strayed' \in BOOLEAN /\ beyond' \in BOOLEAN /\ (strayed' \/ OnScreen(to))
  BY <1>1, <1>2, Zenon
<1>9. CursorInv'
  BY <1>3, <1>5, <1>6, <1>8 DEF CursorInv, FrameSize
<1>10. (beyond => strayed)'
  <2>1. OnScreen(to) => L \subseteq DOMAIN frame
    BY <1>2, <1>4, OnePixel DEF Pixels, FrameSize
  <2> QED
    BY <1>1, <1>2, <2>1, Zenon
<1>11. ASSUME NEW p \in ConsoleArea PROVE ShownAt(frame, buffer, p, touched)'
  <2>1. p \in Screenful /\ PixelAt(p) \in FrameSize
    BY AreaFacts, OnePixel DEF FrameSize
  <2>2. CASE PixelAt(p) \in L
    <3>1. frame'[PixelAt(p)] = Pointer
      BY <1>5, <2>1, <2>2
    <3>2. CASE strayed'
      BY <1>6, <2>2, <3>1, <3>2 DEF ShownAt
    <3>3. CASE OnScreen(to)
      <4>1. PICK q \in Cursor(to) : PixelAt(p) = PixelAt(q)
        BY <2>2 DEF Pixels
      <4>2. p = q
        BY <1>4, <2>1, <3>3, <4>1, OnePixel
      <4>3. p \in Cursor(position')
        BY <1>6, <4>1, <4>2
      <4> QED
        BY <3>1, <4>3 DEF ShownAt, Cursor
    <3> QED
      BY <1>8, <3>2, <3>3
  <2>3. CASE PixelAt(p) \notin L /\ PixelAt(p) \in K
    <3>1. frame'[PixelAt(p)] = Ground /\ PixelAt(p) \in touched'
      BY <1>1, <1>5, <2>1, <2>3
    <3> QED
      BY <3>1 DEF ShownAt
  <2>4. CASE PixelAt(p) \notin L /\ PixelAt(p) \notin K
    <3>1. frame'[PixelAt(p)] = frame[PixelAt(p)]
      BY <1>5, <2>1, <2>4
    <3>2. ShownAt(frame, buffer, p, touched)
      BY DEF ScreenInv, ShowsTheText
    <3>3. p \notin Cursor(position)
      BY <2>4 DEF Pixels
    <3>4. \/ frame[PixelAt(p)] = Ink(buffer, p[1], p[2])
          \/ PixelAt(p) \in touched /\ frame[PixelAt(p)] = Ground
      BY <2>4, <3>2, <3>3 DEF ShownAt
    <3>5. \/ frame'[PixelAt(p)] = Ink(buffer', p[1], p[2])
          \/ PixelAt(p) \in touched' /\ frame'[PixelAt(p)] = Ground
      BY <1>1, <3>1, <3>4
    <3> QED
      BY <3>5 DEF ShownAt, Ink
  <2> QED
    BY <2>2, <2>3, <2>4
<1>12. ASSUME NEW i \in DOMAIN frame' \ (touched' \cup Pixels(ConsoleArea))
       PROVE  frame'[i] = Desktop[i]
  <2>1. i \in FrameSize /\ i \notin K /\ i \notin L /\ i \notin touched /\ i \notin Pixels(ConsoleArea)
    BY <1>1, <1>5
  <2>2. frame'[i] = frame[i]
    BY <1>5, <2>1
  <2> QED
    BY <1>2, <2>1, <2>2 DEF ScreenInv, ShowsTheText
<1>13. ShowsTheText'
  BY <1>10, <1>11, <1>12 DEF ShowsTheText
<1> QED
  BY <1>7, <1>9, <1>13 DEF ScreenInv

LEMMA StepInv == ScreenInv /\ [Next]_vars => ScreenInv'
<1> SUFFICES ASSUME ScreenInv, [Next]_vars PROVE ScreenInv'
  OBVIOUS
<1>1. ASSUME NEW s \in Strings, printk(s) PROVE ScreenInv'
  BY <1>1, printkStep
<1>2. ASSUME NEW d \in Displacements, MoveRelative(d) PROVE ScreenInv'
  BY <1>2, MoveRelativeStep
<1>3. ASSUME UNCHANGED vars PROVE ScreenInv'
  <2>1. ConsoleInv'
    BY <1>3 DEF vars, ScreenInv, ConsoleInv
  <2>2. CursorInv'
    BY <1>3 DEF vars, ScreenInv, CursorInv, OnScreen
  <2>3. ShowsTheText'
    BY <1>3 DEF vars, ScreenInv, ShowsTheText, ShownAt, Ink
  <2> QED
    BY <2>1, <2>2, <2>3 DEF ScreenInv
<1> QED
  BY <1>1, <1>2, <1>3 DEF Next

LEMMA Invariance == Spec => []ScreenInv
<1> QED
  BY StartingInv, StepInv, PTL DEF Spec

(* Console::PutString: the console holds the last lines of all that was    *)
(* printed, whatever is printed and however the lines are cut and scrolled.*)
THEOREM TextHeld == Spec => []HoldsTheText
<1>1. ScreenInv => HoldsTheText
  BY HeldLines DEF ScreenInv, ConsoleInv, HoldsTheText
<1> QED
  BY <1>1, Invariance, PTL

(* Console and MouseCursor on one frame buffer: the screen shows what the  *)
(* console holds and the desktop around it, but where the cursor has been. *)
THEOREM TextShown == Spec => []ShowsTheText
<1>1. ScreenInv => ShowsTheText
  BY DEF ScreenInv
<1> QED
  BY <1>1, Invariance, PTL
=============================================================================
