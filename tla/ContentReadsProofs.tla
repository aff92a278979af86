------------------------- MODULE ContentReadsProofs -------------------------
(***************************************************************************)
(* What is read of messages and files of any length, under any caps.  The  *)
(* proofs go along texts: a set of numbers has a least element, which is   *)
(* the first place where something holds, and what is carried from each    *)
(* place to the next holds at all of them.                                 *)
(***************************************************************************)
EXTENDS ContentReads, SequenceTheorems, WellFoundedInduction, TLAPS

-----------------------------------------------------------------------------
(* Places along a text. *)

LEMMA Least ==
    ASSUME NEW S, S \subseteq Nat, S # {}
    PROVE  \E m \in S : \A k \in S : m <= k
<1> DEFINE less == {p \in Nat \X Nat : p[1] < p[2]}
<1>1. IsWellFoundedOn(less, Nat)
  BY NatLessThanWellFounded DEF OpToRel
<1>2. \A j, k \in Nat : j < k => <<j, k>> \in less
  OBVIOUS
<1> HIDE DEF less
<1>3. PICK m \in S : \A k \in S : ~(<<k, m>> \in less)
  BY <1>1, WFMin
<1>4. ASSUME NEW k \in S PROVE m <= k
  <2>1. k \in Nat /\ m \in Nat /\ ~(k < m)
    BY <1>2, <1>3
  <2>. QED BY <2>1
<1>. QED BY <1>4

LEMMA MinOfNats ==
    ASSUME NEW S, S \subseteq Nat, S # {}
    PROVE  Min(S) \in S /\ \A k \in S : Min(S) <= k
  BY Least DEF Min

\* Induction along the places 0 .. n.
LEMMA Climb ==
    ASSUME NEW n \in Nat, NEW S, 0 \in S, \A k \in 1 .. n : k - 1 \in S => k \in S
    PROVE  0 .. n \subseteq S
<1> DEFINE T == {k \in 0 .. n : k \notin S}
<1>1. SUFFICES ASSUME T # {} PROVE FALSE
  OBVIOUS
<1>2. PICK m \in T : \A k \in T : m <= k
  <2>1. T \subseteq Nat
    OBVIOUS
  <2>. QED BY <1>1, <2>1, Least
<1>3. m \in 1 .. n /\ m - 1 \in 0 .. n /\ m \notin S
  BY <1>2
<1>4. m - 1 \in S
  <2>1. m - 1 \notin T
    BY <1>2, <1>3
  <2>. QED BY <1>3, <2>1
<1>. QED BY <1>3, <1>4

LEMMA MaxOfNats ==
    ASSUME NEW n \in Nat, NEW S, S \subseteq 0 .. n, S # {}
    PROVE  Max(S) \in S /\ \A k \in S : k <= Max(S)
<1> DEFINE T == {b \in 0 .. n : \A k \in S : k <= b}
<1>1. T \subseteq Nat /\ n \in T
  OBVIOUS
<1>2. PICK m \in T : \A k \in T : m <= k
  BY <1>1, Least
<1>3. m \in S
  <2>1. SUFFICES ASSUME m \notin S PROVE FALSE
    OBVIOUS
  <2>2. \A k \in S : k \in Nat /\ k <= m - 1
    BY <1>2, <2>1
  <2>3. m - 1 \in 0 .. n
    <3>1. PICK k \in S : TRUE
      OBVIOUS
    <3>2. k \in Nat /\ k <= m - 1 /\ m \in 0 .. n
      BY <2>2
    <3>. QED BY <3>2
  <2>4. m - 1 \in T
    BY <2>2, <2>3
  <2>. QED BY <1>2, <2>4
<1>4. \A k \in S : m >= k
  BY <1>2
<1>5. Max(S) \in S /\ \A k \in S : Max(S) >= k
  BY <1>3, <1>4 DEF Max
<1>. QED BY <1>5

\* The functions that start with b and go on from place to place.
Tables(V, b, n, next) ==
    {f \in [0 .. n -> V] : f[0] = b /\ \A k \in 1 .. n : f[k] = next[<<k, f[k-1]>>]}

LEMMA Table ==
    ASSUME NEW V, NEW b \in V, NEW n \in Nat, NEW next \in [(1 .. n) \X V -> V]
    PROVE  Tables(V, b, n, next) # {}
<1> DEFINE Good(f, m) == f[0] = b /\ \A k \in 1 .. m : f[k] = next[<<k, f[k-1]>>]
           S == {m \in 0 .. n : \E f \in [0 .. m -> V] : Good(f, m)}
<1>1. 0 \in S
  <2> DEFINE f == [k \in 0 .. 0 |-> b]
  <2>1. f \in [0 .. 0 -> V] /\ Good(f, 0)
    OBVIOUS
  <2>2. 0 \in 0 .. n
    OBVIOUS
  <2> HIDE DEF f, Good
  <2>. QED BY <2>1, <2>2
<1>2. ASSUME NEW m \in 1 .. n, m - 1 \in S PROVE m \in S
  <2>1. PICK f \in [0 .. m - 1 -> V] : Good(f, m - 1)
    BY <1>2
  <2> DEFINE g == [k \in 0 .. m |-> IF k = m THEN next[<<m, f[m-1]>>] ELSE f[k]]
  <2>2. next[<<m, f[m-1]>>] \in V
    OBVIOUS
  <2>3. g \in [0 .. m -> V]
    BY <2>2
  <2>4. g[0] = b
    BY <2>1
  <2>5. ASSUME NEW k \in 1 .. m PROVE g[k] = next[<<k, g[k-1]>>]
    <3>1. k - 1 \in 0 .. m /\ k - 1 # m /\ g[k-1] = f[k-1]
      OBVIOUS
    <3>2. CASE k = m
      BY <3>1, <3>2
    <3>3. CASE k # m
      <4>1. k \in 1 .. m - 1 /\ g[k] = f[k]
        BY <3>3
      <4>2. f[k] = next[<<k, f[k-1]>>]
        BY <2>1, <4>1
      <4>. QED BY <3>1, <4>1, <4>2
    <3>. QED BY <3>2, <3>3
  <2>6. Good(g, m)
    BY <2>4, <2>5
  <2> HIDE DEF g, Good
  <2>. QED BY <2>3, <2>6
<1>3. 0 .. n \subseteq S
  <2> HIDE DEF S
  <2>. QED BY <1>1, <1>2, Climb
<1>4. PICK f \in [0 .. n -> V] : Good(f, n)
  <2> HIDE DEF Good
  <2>1. n \in S
    BY <1>3
  <2>. QED BY <2>1
<1>5. f \in Tables(V, b, n, next)
  BY <1>4 DEF Tables
<1>. QED BY <1>5

-----------------------------------------------------------------------------
(* Sums. *)

LEMMA SumsSteps ==
    ASSUME NEW w \in Seq(Nat)
    PROVE  /\ Sums(w)[0] = 0
           /\ \A k \in 0 .. Len(w) : Sums(w)[k] \in Nat
           /\ \A k \in 1 .. Len(w) : Sums(w)[k] = Sums(w)[k-1] + w[k]
<1> DEFINE n == Len(w)
           next == [p \in (1 .. n) \X Nat |-> p[2] + w[p[1]]]
           Solves(f) == f = [k \in 0 .. n |-> IF k = 0 THEN 0 ELSE f[k-1] + w[k]]
<1>1. n \in Nat /\ \A k \in 1 .. n : w[k] \in Nat
  OBVIOUS
<1>2. next \in [(1 .. n) \X Nat -> Nat]
  <2>1. \A p \in (1 .. n) \X Nat : p[2] + w[p[1]] \in Nat
    BY <1>1
  <2>. QED BY <2>1
<1>3. PICK f \in [0 .. n -> Nat] : f[0] = 0 /\ \A k \in 1 .. n : f[k] = next[<<k, f[k-1]>>]
  <2> HIDE DEF n, next
  <2>1. Tables(Nat, 0, n, next) # {}
    BY <1>1, <1>2, Table
  <2>. QED BY <2>1 DEF Tables
<1>4. Solves(f)
  <2>1. ASSUME NEW k \in 1 .. n PROVE f[k] = f[k-1] + w[k]
    <3>1. <<k, f[k-1]>> \in (1 .. n) \X Nat
      <4> HIDE DEF n
      <4>. QED BY <1>1
    <3>2. next[<<k, f[k-1]>>] = f[k-1] + w[k]
      <4> HIDE DEF n
      <4>. QED BY <3>1
    <3>. QED BY <1>3, <3>2
  <2> HIDE DEF n, next
  <2>2. \A k \in 0 .. n : f[k] = IF k = 0 THEN 0 ELSE f[k-1] + w[k]
    BY <1>1, <1>3, <2>1
  <2>. QED BY <1>3, <2>2
<1>5. Solves(Sums(w))
  <2>1. Sums(w) = CHOOSE g : Solves(g)
    BY DEF Sums
  <2> HIDE DEF Solves
  <2>. QED BY <1>4, <2>1
<1> DEFINE o == Sums(w)
<1>6. o[0] = 0 /\ \A k \in 1 .. n : o[k] = o[k-1] + w[k]
  <2> HIDE DEF o, n
  <2>1. o = [k \in 0 .. n |-> IF k = 0 THEN 0 ELSE o[k-1] + w[k]]
    BY <1>5 DEF o, n
  <2>2. \A k \in 0 .. n : o[k] = IF k = 0 THEN 0 ELSE o[k-1] + w[k]
    BY <2>1
  <2>. QED BY <1>1, <2>2
<1>7. \A k \in 0 .. n : o[k] \in Nat
  <2> DEFINE S == {k \in 0 .. n : o[k] \in Nat}
  <2> HIDE DEF o, n
  <2>1. 0 \in S
    BY <1>1, <1>6
  <2>2. ASSUME NEW k \in 1 .. n, k - 1 \in S PROVE k \in S
    <3>1. o[k-1] \in Nat /\ w[k] \in Nat /\ o[k] = o[k-1] + w[k] /\ k \in 0 .. n
      BY <1>1, <1>6, <2>2
    <3>. QED BY <3>1
  <2> HIDE DEF S
  <2>3. 0 .. n \subseteq S
    BY <1>1, <2>1, <2>2, Climb
  <2>. QED BY <2>3 DEF S
<1>. QED BY <1>6, <1>7

LEMMA SumsGrow ==
    ASSUME NEW w \in Seq(Nat), NEW j \in 0 .. Len(w), NEW k \in j .. Len(w)
    PROVE  Sums(w)[j] <= Sums(w)[k]
<1> DEFINE n == Len(w)
           o == Sums(w)
           S == {d \in 0 .. n - j : o[j] <= o[j+d]}
<1>1. n \in Nat /\ j \in 0 .. n /\ \A d \in 1 .. n : w[d] \in Nat
  OBVIOUS
<1>2. (\A d \in 0 .. n : o[d] \in Nat) /\ \A d \in 1 .. n : o[d] = o[d-1] + w[d]
  BY SumsSteps
<1> HIDE DEF n, o
<1>3. 0 \in S
  BY <1>1, <1>2
<1>4. ASSUME NEW d \in 1 .. n - j, d - 1 \in S PROVE d \in S
  <2>1. j + d \in 1 .. n /\ j + d - 1 \in 0 .. n /\ j + (d - 1) = j + d - 1
    BY <1>1
  <2> DEFINE a == o[j+d]
             b == o[j+d-1]
             c == w[j+d]
  <2>2. a = b + c /\ c \in Nat /\ b \in Nat /\ o[j] \in Nat
    BY <1>1, <1>2, <2>1
  <2>3. o[j] <= b
    BY <1>4, <2>1
  <2> HIDE DEF a, b, c
  <2>4. o[j] <= a
    BY <2>2, <2>3
  <2>5. d \in 0 .. n - j /\ o[j] <= o[j+d]
    BY <1>1, <2>4 DEF a
  <2>. QED BY <2>5
<1>5. 0 .. n - j \subseteq S
  <2>1. n - j \in Nat
    BY <1>1
  <2> HIDE DEF S
  <2>. QED BY <2>1, <1>3, <1>4, Climb
<1>6. k - j \in 0 .. n - j /\ j + (k - j) = k
  BY <1>1 DEF n
<1>7. k - j \in S
  BY <1>5, <1>6
<1>. QED BY <1>6, <1>7 DEF o

LEMMA LexemeBytes ==
    ASSUME NEW x \in Lexeme
    PROVE  Bytes(x) \in Nat \ {0} /\ x.lowered \in Nat /\ (x \in Rune => Bytes(x) \in 1 .. 4)
<1>1. CASE x \in Rune
  <2>1. x.width \in 0 .. 4 /\ x.lowered \in 1 .. 4
    BY <1>1 DEF Rune
  <2>. QED BY <2>1 DEF Bytes
<1>2. CASE x \notin Rune
  <2>1. x.width \in Nat \ {0} /\ x.lowered \in Nat
    BY <1>2 DEF Lexeme
  <2>. QED BY <1>2, <2>1 DEF Bytes
<1>. QED BY <1>1, <1>2

\* Where the lexemes of the text end, in itself and in its lower case copy.
LEMMA EndsOfText ==
    ASSUME NEW t \in Seq(Lexeme)
    PROVE  LET E == EndsOf(t)
               L == LoweredEndsOf(t)
           IN  /\ \A k \in 0 .. Len(t) : E[k] \in Nat /\ L[k] \in Nat
               /\ E[0] = 0
               /\ \A k \in 1 .. Len(t) : E[k] = E[k-1] + Bytes(t[k])
               /\ \A j, k \in 0 .. Len(t) : j <= k => E[j] <= E[k] /\ L[j] <= L[k]
<1> DEFINE n == Len(t)
           w == [k \in 1 .. n |-> Bytes(t[k])]
           v == [k \in 1 .. n |-> t[k].lowered]
<1>1. n \in Nat /\ \A k \in 1 .. n : t[k] \in Lexeme
  OBVIOUS
<1>2. \A k \in 1 .. n : Bytes(t[k]) \in Nat /\ t[k].lowered \in Nat
  BY <1>1, LexemeBytes
<1>3. w \in Seq(Nat) /\ v \in Seq(Nat) /\ Len(w) = n /\ Len(v) = n
  BY <1>1, <1>2
<1>4. EndsOf(t) = Sums(w) /\ LoweredEndsOf(t) = Sums(v)
  BY DEF EndsOf, LoweredEndsOf
<1>5. \A k \in 1 .. n : w[k] = Bytes(t[k])
  OBVIOUS
<1> HIDE DEF n, w, v
<1>6. ASSUME NEW j \in 0 .. n, NEW k \in 0 .. n, j <= k
      PROVE  Sums(w)[j] <= Sums(w)[k] /\ Sums(v)[j] <= Sums(v)[k]
  <2>1. k \in j .. n
    BY <1>1, <1>6
  <2>. QED BY <1>3, <2>1, SumsGrow
<1>7. \A k \in 0 .. n : Sums(w)[k] \in Nat /\ Sums(v)[k] \in Nat
  BY <1>3, SumsSteps
<1>8. Sums(w)[0] = 0 /\ \A k \in 1 .. n : Sums(w)[k] = Sums(w)[k-1] + Bytes(t[k])
  BY <1>3, <1>5, SumsSteps
<1>. QED BY <1>4, <1>6, <1>7, <1>8 DEF n

-----------------------------------------------------------------------------
(* The cap. *)

\* s says what is left of the text t.
Reads(t, s) ==
    /\ t \in Seq(Lexeme) /\ s \in Seq(Int)
    /\ \A k \in DOMAIN s : /\ Place(s[k]) \in 0 .. Len(t)
                           /\ s[k] > 0 => t[s[k]] \in Rune

LEMMA ReadsTyping ==
    ASSUME NEW t, NEW s, Reads(t, s)
    PROVE  Len(s) \in Nat /\ DOMAIN s = 1 .. Len(s)
  BY DEF Reads

LEMMA WidthRange ==
    ASSUME NEW t, NEW s, Reads(t, s), NEW k \in 1 .. Len(s)
    PROVE  /\ Width(t, s[k]) \in 1 .. 4
           /\ ~Whole(t, s[k]) => Width(t, s[k]) = 1
<1>1. s[k] \in Int
  BY DEF Reads
<1>2. CASE s[k] <= 0
  BY <1>1, <1>2 DEF Width
<1>3. CASE s[k] > 0
  <2> DEFINE x == t[s[k]]
  <2>1. x \in Rune /\ ~(s[k] < 0) /\ ~(s[k] = 0) /\ ~(s[k] <= 0)
    BY <1>1, <1>3 DEF Reads
  <2>2. Width(t, s[k]) = Bytes(x)
    BY <2>1 DEF Width
  <2>3. ~Whole(t, s[k]) => x.width = 0
    BY <2>1 DEF Whole
  <2>4. x \in Lexeme
    BY <2>1 DEF Lexeme
  <2> HIDE DEF x
  <2>. QED BY <2>1, <2>2, <2>3, <2>4, LexemeBytes DEF Bytes
<1>. QED BY <1>1, <1>2, <1>3

LEMMA OffsetSteps ==
    ASSUME NEW t, NEW s, Reads(t, s)
    PROVE  /\ Offset(t, s)[0] = 0
           /\ \A k \in 0 .. Len(s) : Offset(t, s)[k] \in Nat
           /\ \A k \in 1 .. Len(s) : Offset(t, s)[k] = Offset(t, s)[k-1] + Width(t, s[k])
<1> DEFINE n == Len(s)
           w == [k \in 1 .. n |-> Width(t, s[k])]
<1>1. n \in Nat
  BY ReadsTyping
<1>2. \A k \in 1 .. n : Width(t, s[k]) \in Nat
  BY WidthRange
<1>3. w \in Seq(Nat) /\ Len(w) = n /\ \A k \in 1 .. n : w[k] = Width(t, s[k])
  BY <1>1, <1>2
<1>4. Offset(t, s) = Sums(w)
  BY DEF Offset
<1> HIDE DEF n, w
<1>5. /\ Sums(w)[0] = 0
      /\ \A k \in 0 .. n : Sums(w)[k] \in Nat
      /\ \A k \in 1 .. n : Sums(w)[k] = Sums(w)[k-1] + Width(t, s[k])
  BY <1>3, SumsSteps
<1>. QED BY <1>4, <1>5 DEF n

\* Offsets grow, by four bytes at most.
LEMMA OffsetGrows ==
    ASSUME NEW t, NEW s, Reads(t, s), NEW k \in 1 .. Len(s)
    PROVE  Offset(t, s)[k] - Offset(t, s)[k-1] \in 1 .. 4
<1> DEFINE n == Len(s)
           o == Offset(t, s)
<1>1. n \in Nat
  BY ReadsTyping
<1>2. Width(t, s[k]) \in 1 .. 4 /\ o[k] = o[k-1] + Width(t, s[k])
  BY WidthRange, OffsetSteps
<1>3. k \in 1 .. n /\ \A j \in 0 .. n : o[j] \in Nat
  BY OffsetSteps
<1> HIDE DEF n, o
<1>4. o[k-1] \in Nat
  BY <1>1, <1>3
<1>5. o[k] - o[k-1] \in 1 .. 4
  BY <1>2, <1>4
<1>. QED BY <1>5 DEF o

LEMMA OffsetBelowSize ==
    ASSUME NEW t, NEW s, Reads(t, s), NEW k \in 0 .. Len(s)
    PROVE  Offset(t, s)[k] <= Size(t, s)
<1> DEFINE n == Len(s)
           w == [j \in 1 .. n |-> Width(t, s[j])]
<1>1. n \in Nat
  BY ReadsTyping
<1>2. \A j \in 1 .. n : Width(t, s[j]) \in Nat
  BY WidthRange
<1>3. w \in Seq(Nat) /\ Len(w) = n /\ n \in k .. n
  <2>1. w \in [1 .. n -> Nat]
    BY <1>2
  <2> HIDE DEF w, n
  <2>2. w \in Seq(Nat) /\ Len(w) = n
    BY <1>1, <2>1
  <2>3. k \in 0 .. n
    BY DEF n
  <2>. QED BY <1>1, <2>2, <2>3
<1>4. Offset(t, s) = Sums(w)
  BY DEF Offset
<1> HIDE DEF w
<1>5. Sums(w)[k] <= Sums(w)[n]
  BY <1>3, SumsGrow
<1>. QED BY <1>4, <1>5 DEF Size

\* The ends of the runes of s, and of its bytes that belong to none.
Ends(t, s) == {Offset(t, s)[k] : k \in 0 .. Len(s)}

LEMMA EndsTyping ==
    ASSUME NEW t, NEW s, Reads(t, s)
    PROVE  /\ Ends(t, s) \subseteq Nat /\ 0 \in Ends(t, s)
           /\ Size(t, s) \in Ends(t, s) /\ Size(t, s) \in Nat
           /\ \A n \in Ends(t, s) : n <= Size(t, s)
  BY ReadsTyping, OffsetSteps, OffsetBelowSize DEF Ends, Size

LEMMA EndsOfRunes ==
    ASSUME NEW t, NEW s, Reads(t, s)
    PROVE  /\ \A n \in Nat : EndsRune(t, s, n) => n \in Ends(t, s)
           /\ \A n \in Ends(t, s) : n # 0 /\ ~EndsRune(t, s, n) => n - 1 \in Ends(t, s)
           /\ (\A k \in DOMAIN s : Whole(t, s[k])) =>
                \A n \in Ends(t, s) : n # 0 => EndsRune(t, s, n)
<1> DEFINE o == Offset(t, s)
           n == Len(s)
           Full(k) == Whole(t, s[k])
<1>1. n \in Nat /\ DOMAIN s = 1 .. n /\ o[0] = 0
  BY ReadsTyping, OffsetSteps
<1>2. \A m : EndsRune(t, s, m) <=> \E k \in 1 .. n : o[k] = m /\ Full(k)
  BY <1>1 DEF EndsRune
<1>3. \A m : m \in Ends(t, s) <=> \E k \in 0 .. n : o[k] = m
  BY DEF Ends
<1>4. ASSUME NEW k \in 1 .. n, ~Full(k) PROVE o[k] - 1 = o[k-1]
  <2>1. Width(t, s[k]) = 1 /\ o[k] = o[k-1] + Width(t, s[k])
    BY <1>4, WidthRange, OffsetSteps
  <2>2. \A j \in 0 .. n : o[j] \in Nat
    BY OffsetSteps
  <2> HIDE DEF o, n
  <2>3. o[k-1] \in Nat
    BY <1>1, <2>2
  <2>. QED BY <2>1, <2>3
<1> HIDE DEF o, n, Full
<1>5. \A m \in Nat : EndsRune(t, s, m) => m \in Ends(t, s)
  <2>1. 1 .. n \subseteq 0 .. n
    BY <1>1
  <2>. QED BY <1>2, <1>3, <2>1
<1>6. ASSUME NEW m \in Ends(t, s), m # 0
      PROVE  \E k \in 1 .. n : o[k] = m
  <2>1. PICK k \in 0 .. n : o[k] = m
    BY <1>3
  <2>. QED BY <1>1, <1>6, <2>1
<1>7. ASSUME NEW m \in Ends(t, s), m # 0, ~EndsRune(t, s, m) PROVE m - 1 \in Ends(t, s)
  <2>1. PICK k \in 1 .. n : o[k] = m
    BY <1>6, <1>7
  <2>2. ~Full(k)
    BY <1>2, <1>7, <2>1
  <2>3. k - 1 \in 0 .. n /\ o[k-1] = m - 1
    BY <1>1, <1>4, <2>1, <2>2
  <2>. QED BY <1>3, <2>3
<1>8. ASSUME \A k \in 1 .. n : Full(k), NEW m \in Ends(t, s), m # 0
      PROVE  EndsRune(t, s, m)
  BY <1>2, <1>6, <1>8
<1>9. (\A k \in DOMAIN s : Whole(t, s[k])) => \A k \in 1 .. n : Full(k)
  BY <1>1 DEF Full
<1>. QED BY <1>5, <1>7, <1>8, <1>9

\* A text that is too long has an end in the last four places the cap may fall on.
LEMMA EndNearCap ==
    ASSUME NEW t, NEW s, Reads(t, s), Size(t, s) > MaxBytes
    PROVE  \E n \in Ends(t, s) : n \in MaxBytes - 3 .. MaxBytes
<1> DEFINE o == Offset(t, s)
           n == Len(s)
           S == {k \in 0 .. n : o[k] > MaxBytes}
<1>1. n \in Nat /\ MaxBytes \in Nat /\ o[0] = 0 /\ n \in S
  BY ReadsTyping, OffsetSteps, CapAssumption DEF Size
<1>2. PICK k \in S : \A j \in S : k <= j
  <2>1. S \subseteq Nat /\ S # {}
    BY <1>1
  <2>. HIDE DEF S
  <2>. QED BY <2>1, Least
<1>3. k \in 1 .. n /\ k - 1 \in 0 .. n /\ k - 1 \notin S
  BY <1>1, <1>2
<1>4. o[k] - o[k-1] \in 1 .. 4
  BY <1>3, OffsetGrows
<1>5. o[k] \in Nat /\ o[k-1] \in Nat
  BY <1>3, OffsetSteps
<1>6. o[k-1] \in MaxBytes - 3 .. MaxBytes
  <2>1. o[k] > MaxBytes /\ ~(o[k-1] > MaxBytes)
    BY <1>2, <1>3
  <2> HIDE DEF o, n, S
  <2>. QED BY <1>1, <1>4, <1>5, <2>1
<1>7. o[k-1] \in Ends(t, s)
  BY <1>3 DEF Ends
<1>. QED BY <1>6, <1>7

\* What the loop drops: it stops at once at the end of a rune, and not before.
LEMMA DroppedStops ==
    ASSUME NEW t, NEW s
    PROVE  LET d == Dropped(t, s) IN
           /\ d \in 0 .. 3 /\ d <= MaxBytes
           /\ d = 3 \/ d = MaxBytes \/ EndsRune(t, s, MaxBytes - d)
           /\ \A e \in 0 .. d - 1 : ~EndsRune(t, s, MaxBytes - e)
<1> DEFINE m == IF MaxBytes < 3 THEN MaxBytes ELSE 3
           S == {d \in 0 .. m : d = m \/ EndsRune(t, s, MaxBytes - d)}
           Stops(d) == /\ d = m \/ EndsRune(t, s, MaxBytes - d)
                       /\ \A e \in 0 .. d - 1 : ~EndsRune(t, s, MaxBytes - e)
<1>1. MaxBytes \in Nat /\ m \in 0 .. 3 /\ m <= MaxBytes
  BY CapAssumption
<1>2. Min({3, MaxBytes}) = m
  <2>1. Min({3, MaxBytes}) \in {3, MaxBytes} /\ \A k \in {3, MaxBytes} : Min({3, MaxBytes}) <= k
    BY <1>1, MinOfNats
  <2>. QED BY <1>1, <2>1
<1>3. PICK d \in S : \A e \in S : d <= e
  <2>1. m \in S /\ S \subseteq Nat
    BY <1>1
  <2>2. S # {}
    BY <2>1
  <2>. HIDE DEF S
  <2>. QED BY <2>1, <2>2, Least
<1>4. d \in 0 .. m /\ Stops(d)
  <2>1. ASSUME NEW e \in 0 .. d - 1 PROVE ~EndsRune(t, s, MaxBytes - e)
    <3>1. e \in 0 .. m /\ e \notin S
      BY <1>1, <1>3
    <3>. QED BY <3>1
  <2>. QED BY <1>3, <2>1
<1>5. Dropped(t, s) = CHOOSE x \in 0 .. m : Stops(x)
  BY <1>2 DEF Dropped
<1>6. Dropped(t, s) \in 0 .. m /\ Stops(Dropped(t, s))
  <2> HIDE DEF Stops, m
  <2>. QED BY <1>4, <1>5
<1>. QED BY <1>1, <1>6

\* What CutsAtRune says of the text s of t and of the bytes of it that are kept.
FairCut(t, s, kept) ==
    /\ kept \in Ends(t, s)
    /\ kept <= MaxBytes
    /\ kept >= Min({Size(t, s), MaxBytes - 3})
    /\ (\A k \in DOMAIN s : Whole(t, s[k])) =>
         kept = Max({n \in Ends(t, s) : n <= MaxBytes})
    /\ Size(t, s) > MaxBytes <=> kept < Size(t, s)

LEMMA MinOfPair ==
    ASSUME NEW a \in Int, NEW b \in Int
    PROVE  Min({a, b}) = IF a <= b THEN a ELSE b
<1> DEFINE m == IF a <= b THEN a ELSE b
<1>1. m \in {a, b} /\ \A x \in {a, b} : m <= x
  OBVIOUS
<1>2. Min({a, b}) \in {a, b} /\ \A x \in {a, b} : Min({a, b}) <= x
  <2> HIDE DEF m
  <2>. QED BY <1>1 DEF Min
<1>. QED BY <1>1, <1>2

LEMMA LargestEnd ==
    ASSUME NEW t, NEW s, Reads(t, s), NEW kept \in Ends(t, s), kept <= MaxBytes,
           \A n \in Ends(t, s) : n <= MaxBytes => n <= kept
    PROVE  kept = Max({n \in Ends(t, s) : n <= MaxBytes})
<1> DEFINE S == {n \in Ends(t, s) : n <= MaxBytes}
<1>1. S \subseteq Nat /\ kept \in S /\ \A n \in S : n <= kept
  BY EndsTyping
<1>2. Max(S) \in S /\ \A n \in S : Max(S) >= n
  <2>1. \E m \in S : \A n \in S : m >= n
    BY <1>1
  <2> HIDE DEF S
  <2>. QED BY <2>1 DEF Max
<1>. QED BY <1>1, <1>2

LEMMA CutIsFair ==
    ASSUME NEW t, NEW s, Reads(t, s)
    PROVE  FairCut(t, s, Kept(t, s))
<1> DEFINE kept == Kept(t, s)
           d == Dropped(t, s)
           size == Size(t, s)
           UTF8 == \A k \in DOMAIN s : Whole(t, s[k])
<1>1. MaxBytes \in Nat /\ size \in Nat /\ size \in Ends(t, s) /\ 0 \in Ends(t, s)
      /\ Ends(t, s) \subseteq Nat /\ \A n \in Ends(t, s) : n <= size
  BY CapAssumption, EndsTyping
<1>2. CASE size <= MaxBytes
  <2>1. kept = size
    BY <1>2 DEF Kept
  <2>2. kept = Max({n \in Ends(t, s) : n <= MaxBytes})
    <3> HIDE DEF kept, size
    <3>. QED BY <1>1, <1>2, <2>1, LargestEnd
  <2>3. kept >= Min({size, MaxBytes - 3})
    <3> HIDE DEF kept, size
    <3>1. MaxBytes - 3 \in Int
      BY <1>1
    <3>. QED BY <1>1, <2>1, <3>1, MinOfPair
  <2>. QED BY <1>1, <1>2, <2>1, <2>2, <2>3 DEF FairCut
<1>3. CASE size > MaxBytes
  <2>1. kept = MaxBytes - d
    BY <1>1, <1>3 DEF Kept
  <2>2. /\ d \in 0 .. 3 /\ d <= MaxBytes
        /\ d = 3 \/ d = MaxBytes \/ EndsRune(t, s, MaxBytes - d)
        /\ \A e \in 0 .. d - 1 : ~EndsRune(t, s, MaxBytes - e)
    BY DroppedStops
  <2> HIDE DEF kept, d, size, UTF8
  <2>3. kept \in Nat /\ kept <= MaxBytes /\ kept >= MaxBytes - 3
    BY <1>1, <2>1, <2>2
  \* Between two places without the end of a rune, each end is that of a stray byte,
  \* which is one byte long.
  <2>4. kept \in Ends(t, s)
    <3>1. CASE d = MaxBytes
      BY <1>1, <2>1, <3>1
    <3>2. CASE d # MaxBytes /\ d # 3
      BY <2>1, <2>2, <2>3, <3>2, EndsOfRunes
    <3>3. CASE d = 3 /\ MaxBytes > 3
      <4>1. PICK n \in Ends(t, s) : n \in MaxBytes - 3 .. MaxBytes
        BY <1>3, EndNearCap DEF size
      <4>2. \A m \in Ends(t, s) : m > MaxBytes - 3 /\ m <= MaxBytes => m - 1 \in Ends(t, s)
        <5> SUFFICES ASSUME NEW m \in Ends(t, s), m > MaxBytes - 3, m <= MaxBytes
                     PROVE  m - 1 \in Ends(t, s)
          OBVIOUS
        <5>1. m \in Nat /\ m # 0
          BY <1>1, <3>3
        <5>2. MaxBytes - m \in 0 .. d - 1 /\ MaxBytes - (MaxBytes - m) = m
          BY <1>1, <3>3, <5>1
        <5>3. ~EndsRune(t, s, m)
          BY <2>2, <5>2
        <5>. QED BY <5>1, <5>3, EndsOfRunes
      <4>3. n = MaxBytes \/ n = MaxBytes - 1 \/ n = MaxBytes - 2 \/ n = MaxBytes - 3
        BY <1>1, <4>1
      <4>4. MaxBytes \in Ends(t, s) => MaxBytes - 1 \in Ends(t, s)
        BY <1>1, <4>2
      <4>5. MaxBytes - 1 \in Ends(t, s) => MaxBytes - 2 \in Ends(t, s)
        BY <1>1, <4>2
      <4>6. MaxBytes - 2 \in Ends(t, s) => MaxBytes - 3 \in Ends(t, s)
        BY <1>1, <4>2
      <4>. QED BY <2>1, <3>3, <4>3, <4>4, <4>5, <4>6
    <3>. QED BY <1>1, <2>2, <3>1, <3>2, <3>3
  <2>5. ASSUME UTF8 PROVE kept = Max({n \in Ends(t, s) : n <= MaxBytes})
    <3>1. ASSUME NEW n \in Ends(t, s), n <= MaxBytes, n > kept PROVE FALSE
      <4>1. n \in Nat /\ n # 0
        BY <1>1, <2>3, <3>1
      <4>2. EndsRune(t, s, n)
        BY <2>5, <4>1, EndsOfRunes DEF UTF8
      <4>3. MaxBytes - n \in 0 .. d - 1 /\ MaxBytes - (MaxBytes - n) = n
        BY <1>1, <2>1, <2>2, <3>1, <4>1
      <4>. QED BY <2>2, <4>2, <4>3
    <3>2. \A n \in Ends(t, s) : n <= MaxBytes => n <= kept
      BY <1>1, <2>3, <3>1
    <3>. QED BY <2>3, <2>4, <3>2, LargestEnd
  <2>6. kept >= Min({size, MaxBytes - 3})
    <3>1. MaxBytes - 3 \in Int
      BY <1>1
    <3>. QED BY <1>1, <1>3, <2>3, <3>1, MinOfPair
  <2>7. kept < size
    BY <1>1, <1>3, <2>3
  <2>. QED BY <1>3, <2>3, <2>4, <2>5, <2>6, <2>7 DEF FairCut, kept, size, UTF8
<1>. QED BY <1>1, <1>2, <1>3

-----------------------------------------------------------------------------
(* Blank lines. *)

Marks(s) == {s[k] : k \in DOMAIN s} \ {0}

Ordered(s) == \A k, l \in DOMAIN s : k < l /\ s[l] # 0 => Precedes(s[k], s[l])

LEMMA AppendMarks ==
    ASSUME NEW s \in Seq(Int), NEW x \in Int
    PROVE  Marks(Append(s, x)) = Marks(s) \union ({x} \ {0})
<1> DEFINE a == Append(s, x)
           n == Len(s)
<1>1. /\ n \in Nat /\ DOMAIN s = 1 .. n /\ DOMAIN a = 1 .. n + 1
      /\ \A k \in 1 .. n : a[k] = s[k]
      /\ a[n+1] = x
  BY AppendProperties
<1> HIDE DEF a, n
<1>2. \A k \in 1 .. n + 1 : k \in 1 .. n \/ k = n + 1
  BY <1>1
<1>3. 1 .. n \subseteq 1 .. n + 1 /\ n + 1 \in 1 .. n + 1
  BY <1>1
<1>4. \A y : (\E k \in DOMAIN a : y = a[k]) <=> y = x \/ \E k \in DOMAIN s : y = s[k]
  BY <1>1, <1>2, <1>3
<1>. QED BY <1>4 DEF Marks, a

LEMMA PutKeeps ==
    ASSUME NEW t \in Seq(Int), NEW x \in Int
    PROVE  /\ Put(t, x) \in Seq(Int)
           /\ Marks(Put(t, x)) = Marks(t) \union ({x} \ {0})
           /\ Ordered(t) /\ (x # 0 => \A y \in Marks(t) : Precedes(y, x)) => Ordered(Put(t, x))
<1>1. (Put(t, x) = t /\ x = 0) \/ Put(t, x) = Append(t, x)
  BY DEF Put
<1>2. CASE Put(t, x) = t /\ x = 0
  BY <1>2
<1>3. CASE Put(t, x) = Append(t, x)
  <2> DEFINE a == Append(t, x)
             n == Len(t)
  <2>1. /\ n \in Nat /\ DOMAIN t = 1 .. n
        /\ a \in Seq(Int) /\ DOMAIN a = 1 .. n + 1
        /\ \A k \in 1 .. n : a[k] = t[k]
        /\ a[n+1] = x
    BY AppendProperties
  <2> HIDE DEF a, n
  <2>2. Marks(a) = Marks(t) \union ({x} \ {0})
    BY AppendMarks DEF a
  <2>3. ASSUME Ordered(t), x # 0 => \A y \in Marks(t) : Precedes(y, x),
               NEW k \in DOMAIN a, NEW l \in DOMAIN a, k < l, a[l] # 0
        PROVE  Precedes(a[k], a[l])
    <3>1. k \in 1 .. n
      BY <2>1, <2>3
    <3>2. CASE l \in 1 .. n
      BY <2>1, <2>3, <3>1, <3>2 DEF Ordered
    <3>3. CASE l = n + 1
      <4>1. t[k] # 0 => t[k] \in Marks(t)
        BY <2>1, <3>1 DEF Marks
      <4>2. x # 0 /\ a[k] = t[k] /\ a[l] = x
        BY <2>1, <2>3, <3>1, <3>3
      <4>3. Precedes(0, x)
        BY <4>2 DEF Precedes, Place
      <4>. QED BY <2>3, <4>1, <4>2, <4>3
    <3>. QED BY <2>1, <3>2, <3>3
  <2>. QED BY <1>3, <2>1, <2>2, <2>3 DEF a, Ordered
<1>. QED BY <1>1, <1>2, <1>3

LEMMA CollapsedSteps ==
    ASSUME NEW s \in Seq(Int)
    PROVE  /\ Collapsed(s)[0] = <<>>
           /\ \A k \in 1 .. Len(s) : Collapsed(s)[k] = Put(Collapsed(s)[k-1], s[k])
<1> DEFINE n == Len(s)
           V == Seq(Int)
           next == [p \in (1 .. n) \X V |-> Put(p[2], s[p[1]])]
           Solves(f) == f = [k \in 0 .. n |-> IF k = 0 THEN <<>> ELSE Put(f[k-1], s[k])]
<1>1. n \in Nat /\ <<>> \in V
  OBVIOUS
<1>2. next \in [(1 .. n) \X V -> V]
  <2>1. ASSUME NEW p \in (1 .. n) \X V PROVE Put(p[2], s[p[1]]) \in V
    <3>1. p[2] \in Seq(Int) /\ s[p[1]] \in Int
      OBVIOUS
    <3>. QED BY <3>1, PutKeeps
  <2>. HIDE DEF V, n
  <2>. QED BY <2>1
<1>3. PICK f \in [0 .. n -> V] : f[0] = <<>> /\ \A k \in 1 .. n : f[k] = next[<<k, f[k-1]>>]
  <2> HIDE DEF n, next, V
  <2>1. Tables(V, <<>>, n, next) # {}
    BY <1>1, <1>2, Table
  <2>. QED BY <2>1 DEF Tables
<1>4. Solves(f)
  <2> HIDE DEF n, V
  <2>1. ASSUME NEW k \in 1 .. n PROVE f[k] = Put(f[k-1], s[k])
    <3>1. k - 1 \in 0 .. n
      BY <1>1
    <3>2. <<k, f[k-1]>> \in (1 .. n) \X V
      BY <3>1
    <3>3. next[<<k, f[k-1]>>] = Put(f[k-1], s[k])
      BY <3>2
    <3>. QED BY <1>3, <3>3
  <2>2. \A k \in 0 .. n : f[k] = IF k = 0 THEN <<>> ELSE Put(f[k-1], s[k])
    BY <1>1, <1>3, <2>1
  <2>. QED BY <1>3, <2>2
<1>5. Solves(Collapsed(s))
  <2>1. Collapsed(s) = CHOOSE g : Solves(g)
    BY DEF Collapsed
  <2> HIDE DEF Solves
  <2>. QED BY <1>4, <2>1
<1> DEFINE c == Collapsed(s)
<1> HIDE DEF c, n
<1>6. c = [k \in 0 .. n |-> IF k = 0 THEN <<>> ELSE Put(c[k-1], s[k])]
  BY <1>5 DEF c, n
<1>7. c[0] = <<>> /\ \A k \in 1 .. n : c[k] = Put(c[k-1], s[k])
  <2>1. \A k \in 0 .. n : c[k] = IF k = 0 THEN <<>> ELSE Put(c[k-1], s[k])
    BY <1>6
  <2>. QED BY <1>1, <2>1
<1>. QED BY <1>7 DEF c, n

\* Collapsing the blank lines and trimming loses only newlines, and keeps the order.
LEMMA LegibleKeeps ==
    ASSUME NEW s \in Seq(Int)
    PROVE  /\ Legible(s) \in Seq(Int)
           /\ Marks(Legible(s)) = Marks(s)
           /\ Ordered(s) => Ordered(Legible(s))
<1> DEFINE n == Len(s)
           c == Collapsed(s)
           First(k) == {s[j] : j \in 1 .. k} \ {0}
           Good(k) == /\ c[k] \in Seq(Int) /\ Marks(c[k]) = First(k)
                      /\ Ordered(s) => Ordered(c[k])
           S == {k \in 0 .. n : Good(k)}
<1>1. n \in Nat /\ DOMAIN s = 1 .. n /\ \A k \in 1 .. n : s[k] \in Int
  OBVIOUS
<1>2. 0 \in S
  <2>1. c[0] = <<>>
    BY CollapsedSteps
  <2> HIDE DEF c, n
  <2>2. Good(0)
    BY <2>1 DEF Marks, Ordered
  <2>. QED BY <1>1, <2>2
<1>3. ASSUME NEW k \in 1 .. n, k - 1 \in S PROVE k \in S
  <2>1. c[k] = Put(c[k-1], s[k])
    BY CollapsedSteps
  <2> HIDE DEF c, n
  <2>2. Good(k - 1) /\ s[k] \in Int
    BY <1>1, <1>3
  <2>3. First(k) = First(k - 1) \union ({s[k]} \ {0})
    <3>1. \A j : j \in 1 .. k <=> j \in 1 .. k - 1 \/ j = k
      BY <1>1
    <3>. QED BY <3>1
  <2>4. ASSUME Ordered(s), s[k] # 0, NEW y \in First(k - 1)
        PROVE  Precedes(y, s[k])
    <3>1. PICK j \in 1 .. k - 1 : y = s[j]
      BY <2>4
    <3>2. j \in 1 .. n /\ j < k
      BY <1>1
    <3>. QED BY <1>1, <2>4, <3>1, <3>2 DEF Ordered
  <2>5. Good(k)
    <3> DEFINE b == c[k-1]
               x == s[k]
    <3>1. b \in Seq(Int) /\ Marks(b) = First(k - 1) /\ (Ordered(s) => Ordered(b)) /\ x \in Int
      BY <2>2
    <3>2. c[k] = Put(b, x) /\ First(k) = First(k - 1) \union ({x} \ {0})
      BY <2>1, <2>3
    <3>3. Ordered(s) /\ x # 0 => \A y \in First(k - 1) : Precedes(y, x)
      BY <2>4
    <3> HIDE DEF First, b, x
    <3>4. /\ Put(b, x) \in Seq(Int)
          /\ Marks(Put(b, x)) = Marks(b) \union ({x} \ {0})
          /\ Ordered(b) /\ (x # 0 => \A y \in Marks(b) : Precedes(y, x)) => Ordered(Put(b, x))
      BY <3>1, PutKeeps
    <3>. QED BY <3>1, <3>2, <3>3, <3>4
  <2>. QED BY <1>1, <2>5
<1>4. Good(n)
  <2>1. 0 .. n \subseteq S
    <3> HIDE DEF S, n
    <3>. QED BY <1>1, <1>2, <1>3, Climb
  <2>. HIDE DEF n, Good
  <2>. QED BY <1>1, <2>1
<1> DEFINE t == c[n]
           K == {0} \union {k \in DOMAIN t : t[k] # 0}
           m == Max(K)
<1>5. t \in Seq(Int) /\ Marks(t) = Marks(s) /\ (Ordered(s) => Ordered(t))
  <2>1. First(n) = Marks(s)
    BY <1>1 DEF Marks
  <2>. QED BY <1>4, <2>1
<1> HIDE DEF t
<1>6. Len(t) \in Nat /\ DOMAIN t = 1 .. Len(t)
  BY <1>5
<1>7. m \in K /\ \A k \in K : k <= m
  <2>1. K \subseteq 0 .. Len(t) /\ K # {}
    BY <1>6
  <2> HIDE DEF K
  <2>. QED BY <1>6, <2>1, MaxOfNats
<1> DEFINE u == SubSeq(t, 1, m)
<1>8. Legible(s) = u
  BY DEF Legible, t
<1>9. m \in 0 .. Len(t)
  BY <1>6, <1>7
<1> HIDE DEF m
<1>10. u \in Seq(Int) /\ DOMAIN u = 1 .. m /\ \A k \in 1 .. m : k \in DOMAIN t /\ u[k] = t[k]
  BY <1>5, <1>6, <1>9, SubSeqProperties
<1> HIDE DEF u
<1>11. Marks(u) = Marks(t)
  <2>1. ASSUME NEW k \in DOMAIN t, t[k] # 0 PROVE k \in DOMAIN u /\ u[k] = t[k]
    <3>1. k <= m /\ k \in Nat /\ k # 0
      BY <1>6, <1>7, <2>1
    <3>2. k \in 1 .. m
      BY <1>9, <3>1
    <3>. QED BY <1>10, <3>2
  <2>. QED BY <1>10, <2>1 DEF Marks
<1>12. Ordered(t) => Ordered(u)
  BY <1>10 DEF Ordered
<1>. QED BY <1>5, <1>8, <1>10, <1>11, <1>12

-----------------------------------------------------------------------------
(* The inductive invariant: types, order, files and the cut. *)

\* What is shown of a text whose scan is within byte n of lexeme k: only what lies
\* before, or bytes of that lexeme.
Behind(s, k, n) ==
    \A l \in DOMAIN s : Place(s[l]) < k \/ (s[l] = -k /\ n > 0)

\* Before a text is read there is nothing of it; during the scan, only what is behind it
\* is shown.
ScanInv ==
    /\ pc \in {"body", "meta", "content"} =>
         i = 1 /\ into = 0 /\ body = <<>> /\ shown = <<>>
    /\ pc = "html" => IsHtml /\ Behind(shown, i, into)

\* What the metadata said is still true of a file that was not replaced.
FileInv ==
    /\ pc \in {"meta", "content"} => file # NoFile /\ message = <<>>
    /\ pc \in {"body", "html"} => file = NoFile
    /\ pc = "meta" => ~replaced
    /\ pc = "content" /\ ~replaced => ReadableKind(file.kind) /\ meta = file.kind
    /\ file # NoFile /\ ~replaced /\ (pc = "cut" \/ result.status = "ok") =>
         ReadableKind(file.kind) /\ meta = file.kind /\ body = file.text

\* What is returned is what was shown, cut.
CutInv ==
    result.status = "ok" =>
        /\ result.text = shown /\ result.kept = Kept(body, shown)
        /\ result.truncated <=> Size(body, shown) > MaxBytes

\* The two halves of TypeOK: the text and what is shown of it, and the rest.
At(t, k, n) ==
    /\ k \in 1 .. Len(t) + 1
    /\ n \in Nat /\ n < (IF k <= Len(t) THEN Bytes(t[k]) ELSE 1)

TextTypes == Reads(body, shown) /\ Ordered(shown) /\ At(body, i, into)

ControlTypes ==
    /\ message \in Seq(Part) /\ file \in Files \union {NoFile}
    /\ pc \in {"body", "html", "cut", "meta", "content", "done"}
    /\ meta \in {"", "document", "form", "textual", "binary"} /\ replaced \in BOOLEAN
    /\ result.status \in {"none", "ok", "error"} /\ (pc = "done" <=> result # NoResult)

LEMMA TypeParts == TypeOK <=> ControlTypes /\ TextTypes
  BY DEF TypeOK, ControlTypes, TextTypes, Reads, Ordered, At

Inv == ControlTypes /\ TextTypes /\ ScanInv /\ FileInv /\ CutInv

LEMMA ChosenPart ==
    ASSUME NEW m \in Seq(Part)
    PROVE  Chosen(m) = 0 \/ Chosen(m) \in DOMAIN m
<1>1. \A type : /\ PartsOfType(m, type) \subseteq Nat
                /\ PartsOfType(m, type) \subseteq DOMAIN m
  BY DEF PartsOfType
<1>2. \A type : PartsOfType(m, type) # {} => Min(PartsOfType(m, type)) \in DOMAIN m
  BY <1>1, MinOfNats
<1>. QED BY <1>2 DEF Chosen

LEMMA RunesAreLexemes ==
    ASSUME NEW t \in Seq(Rune)
    PROVE  t \in Seq(Lexeme)
<1>1. Len(t) \in Nat /\ t \in [1 .. Len(t) -> Rune]
  OBVIOUS
<1>2. t \in [1 .. Len(t) -> Lexeme]
  BY <1>1 DEF Lexeme
<1>. QED BY <1>1, <1>2

LEMMA ChosenText ==
    ASSUME NEW m \in Seq(Part), Readable(m)
    PROVE  LET part == m[Chosen(m)]
           IN  part.text \in Seq(Lexeme) /\ (part.type # "text/html" => part.text \in Seq(Rune))
<1> DEFINE part == m[Chosen(m)]
<1>1. part \in Part
  BY ChosenPart DEF Readable
<1> HIDE DEF part
<1>2. part.text \in Seq(Lexeme) \/ (part.text \in Seq(Rune) /\ part.type # "text/html")
  BY <1>1 DEF Part
<1>3. part.type # "text/html" => part.text \in Seq(Rune)
  BY <1>1 DEF Part
<1>. QED BY <1>2, <1>3, RunesAreLexemes DEF part

LEMMA PositionsRead ==
    ASSUME NEW t \in Seq(Rune)
    PROVE  Reads(t, Positions(t)) /\ Ordered(Positions(t))
<1> DEFINE s == Positions(t)
<1>1. Len(t) \in Nat /\ t \in Seq(Lexeme) /\ \A k \in 1 .. Len(t) : t[k] \in Rune
  BY RunesAreLexemes
<1>2. s \in [1 .. Len(t) -> Int] /\ \A k \in 1 .. Len(t) : s[k] = k
  BY <1>1 DEF Positions
<1> HIDE DEF s
<1>3. s \in Seq(Int) /\ DOMAIN s = 1 .. Len(t)
  BY <1>1, <1>2
<1>4. \A k \in 1 .. Len(t) : Place(s[k]) = k /\ k \in 0 .. Len(t)
  BY <1>2 DEF Place
<1>5. Reads(t, s)
  BY <1>1, <1>2, <1>3, <1>4 DEF Reads
<1>6. Ordered(s)
  BY <1>1, <1>3, <1>4 DEF Ordered, Precedes
<1>. QED BY <1>5, <1>6 DEF s

LEMMA FileTyping ==
    ASSUME NEW f \in Files
    PROVE  /\ f.kind \in {"document", "form", "textual", "binary"}
           /\ f.text \in Seq(Rune) /\ f # NoFile
<1>1. f \in File
  BY FilesAssumption
<1>. QED BY <1>1 DEF File, NoFile

LEMMA EmptyReads ==
    ASSUME NEW t \in Seq(Lexeme)
    PROVE  Reads(t, <<>>) /\ Ordered(<<>>) /\ <<>> \in Seq(Lexeme)
<1>1. <<>> \in Seq(Int) /\ DOMAIN <<>> = {} /\ Len(t) \in Nat
  OBVIOUS
<1>. QED BY <1>1 DEF Reads, Ordered

LEMMA AtFirst ==
    ASSUME NEW t \in Seq(Lexeme), NEW k \in 1 .. Len(t) + 1
    PROVE  At(t, k, 0)
<1>1. Len(t) \in Nat /\ \A l \in 1 .. Len(t) : t[l] \in Lexeme
  OBVIOUS
<1>2. k <= Len(t) => Bytes(t[k]) > 0 /\ Bytes(t[k]) \in Nat
  BY <1>1, LexemeBytes
<1>. QED BY <1>1, <1>2 DEF At

LEMMA AtStart ==
    ASSUME NEW t \in Seq(Lexeme)
    PROVE  At(t, 1, 0)
<1>1. 1 \in 1 .. Len(t) + 1
  OBVIOUS
<1>. QED BY <1>1, AtFirst

LEMMA InitInv == Init => Inv
<1> SUFFICES ASSUME Init PROVE Inv
  OBVIOUS
<1>1. message \in Seq(Part)
  <2>1. message \in Messages \/ message = <<>>
    BY DEF Init
  <2>2. <<>> \in Seq(Part)
    OBVIOUS
  <2>. QED BY <2>1, <2>2, MessagesAssumption
<1>2. body = <<>> /\ shown = <<>> /\ i = 1 /\ into = 0 /\ meta = "" /\ replaced = FALSE
      /\ result = NoResult /\ pc \in {"body", "meta"}
      /\ (pc = "body" => file = NoFile) /\ (pc = "meta" => file \in Files /\ message = <<>>)
  BY DEF Init
<1>3. ControlTypes
  <2>1. file \in Files \union {NoFile} /\ result.status = "none" /\ pc # "done"
    BY <1>2 DEF NoResult
  <2>. QED BY <1>1, <1>2, <2>1 DEF ControlTypes
<1>4. TextTypes
  <2>1. <<>> \in Seq(Lexeme)
    OBVIOUS
  <2>. QED BY <1>2, <2>1, EmptyReads, AtStart DEF TextTypes
<1>5. ScanInv /\ FileInv /\ CutInv
  BY <1>2, FileTyping DEF ScanInv, FileInv, CutInv, NoResult
<1>. QED BY <1>3, <1>4, <1>5 DEF Inv

LEMMA ReadBodyInv == Inv /\ ReadBody => Inv'
<1> SUFFICES ASSUME Inv, ReadBody PROVE Inv'
  OBVIOUS
<1>1. /\ pc = "body" /\ file = NoFile /\ i = 1 /\ into = 0 /\ body = <<>> /\ shown = <<>>
      /\ message \in Seq(Part) /\ result = NoResult
      /\ UNCHANGED <<message, file, meta, replaced, i, into, result>>
  BY DEF Inv, ControlTypes, ScanInv, FileInv, ReadBody, Goto
<1>2. pc' \in {"cut", "html"} => ControlTypes' /\ FileInv' /\ CutInv'
  BY <1>1 DEF Inv, ControlTypes, FileInv, CutInv, NoResult
<1>3. CASE ~Readable(message)
  <2>1. pc' = "cut" /\ UNCHANGED <<body, shown>>
    BY <1>3 DEF ReadBody, Goto
  <2>2. TextTypes' /\ ScanInv'
    BY <1>1, <2>1 DEF Inv, TextTypes, ScanInv
  <2>. QED BY <1>2, <2>1, <2>2 DEF Inv
<1>4. CASE Readable(message)
  <2> DEFINE t == message[Chosen(message)].text
  <2>1. t \in Seq(Lexeme) /\ body' = t
    BY <1>1, <1>4, ChosenText DEF ReadBody
  <2>2. CASE message[Chosen(message)].type = "text/html"
    <3>1. message # <<>>
      BY <1>1, <1>4, ChosenPart DEF Readable
    <3>2. pc' = "html" /\ shown' = <<>>
      BY <1>1, <1>4, <2>2 DEF ReadBody, Goto
    <3>3. IsHtml'
      BY <1>1, <1>4, <2>2, <3>1 DEF IsHtml
    <3> HIDE DEF t
    <3>4. TextTypes'
      BY <1>1, <2>1, <3>2, EmptyReads, AtStart DEF TextTypes
    <3>5. ScanInv'
      BY <3>2, <3>3 DEF ScanInv, Behind
    <3>. QED BY <1>2, <3>2, <3>4, <3>5 DEF Inv
  <2>3. CASE message[Chosen(message)].type # "text/html"
    <3>1. pc' = "cut" /\ shown' = Positions(t)
      BY <1>1, <1>4, <2>3 DEF ReadBody, Goto
    <3>2. t \in Seq(Rune)
      BY <1>1, <1>4, <2>3, ChosenText
    <3> HIDE DEF t
    <3>3. TextTypes'
      BY <1>1, <2>1, <3>1, <3>2, PositionsRead, AtStart DEF TextTypes
    <3>. QED BY <1>2, <3>1, <3>3 DEF Inv, ScanInv
  <2>. QED BY <2>2, <2>3
<1>. QED BY <1>3, <1>4

\* Where the scan goes on: behind the next ">", or to the end of an element.
LEMMA PastAngleRange ==
    ASSUME body \in Seq(Lexeme), NEW k \in 1 .. Len(body)
    PROVE  /\ PastAngle(k) \in k .. Len(body) + 1
           /\ body[k].kind \notin {"tag", "arrow"} => PastAngle(k) # k
           /\ \/ /\ PastAngle(k) = Len(body) + 1
                 /\ \A l \in k .. Len(body) : body[l].kind \notin {"tag", "arrow"}
              \/ \E m \in k .. Len(body) :
                   /\ PastAngle(k) = m + 1 /\ body[m].kind \in {"tag", "arrow"}
                   /\ \A l \in k .. Len(body) :
                        l < m => body[l].kind \notin {"tag", "arrow"}
<1> DEFINE S == {l \in k .. Len(body) : body[l].kind \in {"tag", "arrow"}}
           n == Len(body)
           p == PastAngle(k)
<1>1. n \in Nat /\ k \in 1 .. n
  OBVIOUS
<1>2. CASE S = {}
  <2>1. p = n + 1
    BY <1>2 DEF PastAngle, FirstOf
  <2>2. \A l \in k .. n : body[l].kind \notin {"tag", "arrow"}
    BY <1>2
  <2>. QED BY <1>1, <2>1, <2>2
<1>3. CASE S # {}
  <2> DEFINE m == Min(S)
  <2>1. m \in S /\ \A l \in S : m <= l
    <3>1. S \subseteq Nat
      BY <1>1
    <3> HIDE DEF S
    <3>. QED BY <1>3, <3>1, MinOfNats
  <2>2. m \in k .. n /\ body[m].kind \in {"tag", "arrow"}
    BY <2>1
  <2>3. \A l \in k .. n : l < m => body[l].kind \notin {"tag", "arrow"}
    BY <1>1, <2>1
  <2> HIDE DEF m
  <2>4. p = m + 1
    BY <1>1, <1>3, <2>2 DEF PastAngle, FirstOf, m
  <2> HIDE DEF p, n
  <2>5. p \in k .. n + 1 /\ p # k /\ p - 1 = m
    BY <1>1, <2>2, <2>4
  <2>. QED BY <2>2, <2>3, <2>5 DEF p, n
<1>. QED BY <1>2, <1>3

LEMMA PlaceAtRange ==
    ASSUME body \in Seq(Lexeme), NEW k \in 0 .. Len(body), NEW n \in Nat,
           EndsOf(body)[k] <= n
    PROVE  /\ PlaceAt(n)[1] \in k + 1 .. Len(body) + 1
           /\ At(body, PlaceAt(n)[1], PlaceAt(n)[2])
           /\ n = EndsOf(body)[k] => PlaceAt(n)[1] = k + 1 /\ PlaceAt(n)[2] = 0
<1> DEFINE E == EndsOf(body)
           m == Len(body)
           S == {l \in 1 .. m : n < E[l]}
           p == FirstOf(S)
<1>1. /\ m \in Nat /\ k \in 0 .. m /\ \A l \in 1 .. m : body[l] \in Lexeme
      /\ \A l \in 0 .. m : E[l] \in Nat
      /\ E[0] = 0
      /\ \A l \in 1 .. m : E[l] = E[l-1] + Bytes(body[l])
      /\ \A j, l \in 0 .. m : j <= l => E[j] <= E[l]
  BY EndsOfText
<1>2. PlaceAt(n)[1] = p /\ PlaceAt(n)[2] = (IF p > m THEN 0 ELSE n - E[p-1])
  BY DEF PlaceAt
<1>3. \A l \in S : l \in k + 1 .. m
  <2> SUFFICES ASSUME NEW l \in S, ~(l > k) PROVE FALSE
    BY <1>1
  <2>1. l \in 0 .. m /\ l <= k
    BY <1>1
  <2>2. E[l] <= E[k] /\ E[l] \in Nat /\ E[k] \in Nat /\ n < E[l] /\ E[k] <= n
    BY <1>1, <2>1
  <2> HIDE DEF E
  <2>. QED BY <2>2
<1>4. CASE S = {}
  <2>1. p = m + 1
    BY <1>4 DEF FirstOf
  <2>2. n = E[k] => k = m
    <3> SUFFICES ASSUME n = E[k], k # m PROVE FALSE
      OBVIOUS
    <3>1. k + 1 \in 1 .. m /\ k + 1 - 1 = k
      BY <1>1
    <3>2. E[k+1] = E[k] + Bytes(body[k+1]) /\ Bytes(body[k+1]) \in Nat \ {0} /\ E[k] \in Nat
      BY <1>1, <3>1, LexemeBytes
    <3>3. n < E[k+1]
      <4> HIDE DEF E
      <4>. QED BY <3>2
    <3>. QED BY <1>4, <3>1, <3>3
  <2>3. m + 1 \in k + 1 .. m + 1 /\ m + 1 > m /\ m + 1 \in 1 .. m + 1
    BY <1>1
  <2>4. At(body, m + 1, 0)
    BY <2>3, AtFirst
  <2> HIDE DEF E, m, S, p
  <2>5. PlaceAt(n)[1] = m + 1 /\ PlaceAt(n)[2] = 0
    BY <1>2, <2>1, <2>3
  <2>. QED BY <2>2, <2>3, <2>4, <2>5 DEF E, m
<1>5. CASE S # {}
  <2>1. p \in S /\ \A l \in S : p <= l
    <3>1. S \subseteq Nat
      BY <1>1
    <3>2. p = Min(S)
      BY <1>5 DEF FirstOf
    <3> HIDE DEF S
    <3>. QED BY <1>5, <3>1, <3>2, MinOfNats
  <2>2. p \in k + 1 .. m /\ p \in 1 .. m /\ p - 1 \in 0 .. m /\ ~(p > m) /\ n < E[p]
    BY <1>1, <1>3, <2>1
  <2>3. E[p-1] <= n
    <3>1. CASE p - 1 = 0
      BY <1>1, <3>1
    <3>2. CASE p - 1 # 0
      <4>1. p - 1 \in 1 .. m /\ p - 1 \notin S
        BY <1>1, <2>1, <2>2, <3>2
      <4>2. ~(n < E[p-1]) /\ E[p-1] \in Nat
        BY <1>1, <2>2, <4>1
      <4> HIDE DEF E, p
      <4>. QED BY <4>2
    <3>. QED BY <3>1, <3>2
  <2>4. E[p] = E[p-1] + Bytes(body[p]) /\ Bytes(body[p]) \in Nat /\ E[p-1] \in Nat
    BY <1>1, <2>2, LexemeBytes
  <2>5. PlaceAt(n)[1] = p /\ PlaceAt(n)[2] = n - E[p-1]
    <3> HIDE DEF p, m, E
    <3>. QED BY <1>2, <2>2
  <2>6. n - E[p-1] \in Nat /\ n - E[p-1] < Bytes(body[p])
    <3> HIDE DEF p, E
    <3>. QED BY <2>2, <2>3, <2>4
  <2>7. ASSUME n = E[k] PROVE p = k + 1 /\ n - E[p-1] = 0
    <3>1. k + 1 \in 1 .. m /\ k + 1 - 1 = k
      BY <1>1, <2>2
    <3>2. E[k+1] = E[k] + Bytes(body[k+1]) /\ Bytes(body[k+1]) \in Nat \ {0} /\ E[k] \in Nat
      BY <1>1, <3>1, LexemeBytes
    <3>3. n < E[k+1]
      <4> HIDE DEF E
      <4>. QED BY <2>7, <3>2
    <3>4. k + 1 \in S
      BY <3>1, <3>3
    <3>5. p <= k + 1
      BY <2>1, <3>4
    <3>6. p = k + 1
      <4> HIDE DEF p
      <4>. QED BY <1>1, <2>2, <3>5
    <3>7. E[p-1] = E[k]
      BY <3>1, <3>6
    <3> HIDE DEF E, p
    <3>. QED BY <2>7, <3>2, <3>6, <3>7
  <2> HIDE DEF p, m, E
  <2>8. p \in k + 1 .. m + 1 /\ p \in 1 .. m + 1 /\ p <= m
    BY <1>1, <2>2
  <2>9. At(body, p, n - E[p-1])
    BY <2>6, <2>8 DEF At, m
  <2>. QED BY <2>5, <2>7, <2>8, <2>9 DEF m, E
<1>. QED BY <1>4, <1>5

\* The jump leads forward; where lower case keeps the distances, to the first of the
\* closing tags.
LEMMA AfterTagRange ==
    ASSUME body \in Seq(Lexeme), NEW k \in 1 .. Len(body), body[k].kind = "tag"
    PROVE  LET p == AfterTag(k) IN
           /\ p[1] \in k + 1 .. Len(body) + 1 /\ At(body, p[1], p[2])
           /\ IF body[k].name \in CodeElements /\ Closers(k) # {}
                THEN Steady(body) => /\ p[2] = 0 /\ p[1] \in Closers(k)
                                     /\ \A l \in Closers(k) : p[1] <= l
                ELSE p[1] = k + 1 /\ p[2] = 0
<1> DEFINE n == Len(body)
           p == AfterTag(k)
           E == EndsOf(body)
           L == LoweredEndsOf(body)
<1>1. /\ n \in Nat /\ k \in 0 .. n
      /\ \A l \in 0 .. n : E[l] \in Nat /\ L[l] \in Nat
      /\ \A j, l \in 0 .. n : j <= l => E[j] <= E[l] /\ L[j] <= L[l]
  <2>1. n \in Nat /\ k \in 0 .. n
    OBVIOUS
  <2>2. /\ \A l \in 0 .. n : E[l] \in Nat /\ L[l] \in Nat
        /\ \A j, l \in 0 .. n : j <= l => E[j] <= E[l] /\ L[j] <= L[l]
    <3> HIDE DEF n, E, L
    <3>. QED BY EndsOfText DEF n, E, L
  <2>. QED BY <2>1, <2>2
<1>2. Closers(k) \subseteq k + 1 .. n /\ k + 1 .. n \subseteq Nat
  BY <1>1 DEF Closers
<1>3. CASE body[k].name \in CodeElements /\ Closers(k) # {}
  <2> DEFINE c == Min(Closers(k))
             d == L[c-1] - L[k]
             b == E[k] + d
  <2>1. c \in Closers(k) /\ \A l \in Closers(k) : c <= l
    BY <1>2, <1>3, MinOfNats
  <2>2. c \in k + 1 .. n /\ c - 1 \in 0 .. n /\ k <= c - 1 /\ c - 1 + 1 = c
    BY <1>1, <1>2, <2>1
  <2>3. p = PlaceAt(b)
    BY <1>3 DEF AfterTag
  <2>4. L[k] <= L[c-1] /\ L[k] \in Nat /\ L[c-1] \in Nat /\ E[k] \in Nat /\ E[c-1] \in Nat
    BY <1>1, <2>2
  <2>5. b \in Nat /\ E[k] <= b
    <3> HIDE DEF L, E, c
    <3>. QED BY <2>4
  <2>6. p[1] \in k + 1 .. n + 1 /\ At(body, p[1], p[2])
    <3> HIDE DEF b
    <3>. QED BY <1>1, <2>3, <2>5, PlaceAtRange
  <2>7. ASSUME Steady(body) PROVE p[1] = c /\ p[2] = 0
    <3>1. k < c /\ k \in DOMAIN body /\ c \in DOMAIN body /\ Closes(body[c], body[k].name)
      <4>1. c \in 1 .. n /\ k < c
        BY <1>1, <2>2
      <4>. QED BY <2>1, <4>1 DEF Closers
    <3>2. L[c-1] - L[k] = E[c-1] - E[k]
      BY <1>3, <2>7, <3>1 DEF Steady
    <3>3. b = E[c-1]
      <4> HIDE DEF L, E, c
      <4>. QED BY <2>4, <3>2
    <3>4. E[c-1] <= b /\ b \in Nat
      BY <2>4, <2>5, <3>3
    <3> HIDE DEF b, c
    <3>. QED BY <2>2, <2>3, <3>3, <3>4, PlaceAtRange
  <2> HIDE DEF p
  <2>. QED BY <1>3, <2>1, <2>6, <2>7 DEF p
<1>4. CASE ~(body[k].name \in CodeElements /\ Closers(k) # {})
  <2>1. p[1] = k + 1 /\ p[2] = 0
    BY <1>4 DEF AfterTag
  <2>2. k + 1 \in k + 1 .. n + 1 /\ k + 1 \in 1 .. n + 1
    BY <1>1
  <2>3. At(body, k + 1, 0)
    BY <2>2, AtFirst
  <2>. QED BY <1>4, <2>1, <2>2, <2>3
<1>. QED BY <1>3, <1>4

\* The scan stands at byte n of lexeme k, and later at byte m of lexeme l.
Further(k, n, l, m) == l > k \/ (l = k /\ m > n)

\* A turn of the scan shows nothing, a newline, or the lexeme it stands at, whole or a
\* byte of it.
LEMMA TurnInv ==
    ASSUME Inv, pc = "html", pc' = "html", At(body, i', into'), Further(i, into, i', into'),
           \/ shown' = shown
           \/ shown' = Append(shown, 0)
           \/ shown' = Append(shown, i) /\ into = 0 /\ i' > i /\ body[i] \in Rune
           \/ shown' = Append(shown, -i) /\ into > 0,
           i \in 1 .. Len(body),
           UNCHANGED <<message, file, meta, replaced, body, result>>
    PROVE  Inv'
<1>1. /\ Reads(body, shown) /\ Ordered(shown) /\ At(body, i, into)
      /\ IsHtml /\ Behind(shown, i, into)
      /\ result = NoResult /\ Len(body) \in Nat
  <2>1. body \in Seq(Lexeme)
    BY DEF Inv, TextTypes, Reads
  <2>2. Len(body) \in Nat
    BY <2>1
  <2>. QED BY <2>2 DEF Inv, ControlTypes, TextTypes, ScanInv
<1>2. ControlTypes' /\ FileInv' /\ CutInv' /\ IsHtml' /\ body' = body
  BY <1>1 DEF Inv, ControlTypes, FileInv, CutInv, NoResult, IsHtml
<1> DEFINE n == Len(shown)
<1>3. n \in Nat /\ DOMAIN shown = 1 .. n /\ shown \in Seq(Int)
  BY <1>1, ReadsTyping DEF Reads
<1>4. i \in Nat \ {0} /\ i' \in Nat /\ into \in Nat /\ into' \in Nat
  BY <1>1 DEF At
\* What was behind the scan stays behind it.
<1>5. \A k \in 1 .. n : Place(shown[k]) < i' \/ (shown[k] = -i' /\ into' > 0)
  <2> SUFFICES ASSUME NEW k \in 1 .. n
               PROVE  Place(shown[k]) < i' \/ (shown[k] = -i' /\ into' > 0)
    OBVIOUS
  <2> DEFINE x == shown[k]
  <2>1. x \in Int /\ (Place(x) < i \/ (x = -i /\ into > 0))
    <3>1. shown[k] \in Int
      BY <1>3
    <3>2. k \in DOMAIN shown
      BY <1>3
    <3>. QED BY <1>1, <3>1, <3>2 DEF Behind
  <2>2. Place(x) \in Nat /\ (x = -i => Place(x) = i)
    BY <1>4, <2>1 DEF Place
  <2> DEFINE q == Place(x)
  <2>5. q \in Nat /\ (q < i \/ (x = -i /\ q = i /\ into > 0))
    BY <2>1, <2>2
  <2> HIDE DEF x, n, q
  <2>3. CASE i' > i
    <3>1. q < i'
      BY <1>4, <2>3, <2>5
    <3>. QED BY <3>1 DEF q, x
  <2>4. CASE i' = i /\ into' > into
    <3>1. q < i' \/ (x = -i' /\ into' > 0)
      BY <1>4, <2>4, <2>5
    <3>. QED BY <3>1 DEF q, x
  <2>. QED BY <2>3, <2>4 DEF Further, x
<1>6. ASSUME NEW x \in Int, shown' = Append(shown, x), Place(x) \in 0 .. Len(body),
             x > 0 => body[x] \in Rune,
             Place(x) < i' \/ (x = -i' /\ into' > 0),
             x # 0 => \A k \in 1 .. n : Precedes(shown[k], x)
      PROVE  Reads(body, shown)' /\ Ordered(shown)' /\ Behind(shown, i, into)'
  <2>1. /\ shown' \in Seq(Int) /\ DOMAIN shown' = 1 .. n + 1
        /\ \A k \in 1 .. n : shown'[k] = shown[k]
        /\ shown'[n+1] = x
    <3>1. shown \in Seq(Int)
      BY <1>3
    <3>2. /\ Append(shown, x) \in Seq(Int) /\ Len(Append(shown, x)) = n + 1
          /\ \A k \in 1 .. n : Append(shown, x)[k] = shown[k]
          /\ Append(shown, x)[n+1] = x
      BY <3>1, AppendProperties
    <3>. QED BY <1>6, <3>2
  <2>2. \A k \in 1 .. n : /\ Place(shown[k]) \in 0 .. Len(body)
                          /\ shown[k] > 0 => body[shown[k]] \in Rune
    BY <1>1, <1>3 DEF Reads
  <2>3. \A k, l \in 1 .. n : k < l /\ shown[l] # 0 => Precedes(shown[k], shown[l])
    BY <1>1, <1>3 DEF Ordered
  <2>4. body \in Seq(Lexeme)
    BY <1>1 DEF Reads
  <2> HIDE DEF n
  <2>5. \A k \in 1 .. n + 1 : k \in 1 .. n \/ k = n + 1
    BY <1>3
  <2>6. Reads(body, shown')
    BY <1>6, <2>1, <2>2, <2>4, <2>5 DEF Reads
  <2>7. Behind(shown', i', into')
    BY <1>5, <1>6, <2>1, <2>5 DEF Behind
  <2>8. ASSUME NEW k \in 1 .. n + 1, NEW l \in 1 .. n + 1, k < l, shown'[l] # 0
        PROVE  Precedes(shown'[k], shown'[l])
    <3>1. k \in 1 .. n
      BY <1>3, <2>8
    <3>2. CASE l \in 1 .. n
      BY <2>1, <2>3, <2>8, <3>1, <3>2
    <3>3. CASE l = n + 1
      BY <1>6, <2>1, <2>8, <3>1, <3>3
    <3>. QED BY <2>5, <3>2, <3>3
  <2>9. Ordered(shown')
    BY <2>1, <2>8 DEF Ordered
  <2>10. Reads(body', shown') <=> Reads(body, shown')
    BY <1>2
  <2>. QED BY <2>6, <2>7, <2>9, <2>10
<1>7. Reads(body, shown)' /\ Ordered(shown)' /\ Behind(shown, i, into)'
  <2>1. CASE shown' = shown
    <3>1. Behind(shown, i, into)'
      BY <1>3, <1>5, <2>1 DEF Behind
    <3>2. Reads(body, shown)' /\ Ordered(shown)'
      BY <1>1, <1>2, <2>1
    <3>. QED BY <3>1, <3>2
  <2>2. CASE shown' = Append(shown, 0)
    <3>1. Place(0) = 0 /\ 0 < i' /\ 0 \in 0 .. Len(body) /\ 0 \in Int /\ ~(0 > 0)
      BY <1>1, <1>4 DEF Place, At
    <3>. QED BY <1>6, <2>2, <3>1
  <2>3. CASE shown' = Append(shown, i) /\ into = 0 /\ i' > i /\ body[i] \in Rune
    <3>1. i \in Int /\ Place(i) = i /\ i \in 0 .. Len(body) /\ i < i'
      BY <1>1, <1>4, <2>3 DEF Place
    <3>4. ~(into > 0)
      BY <2>3
    <3>2. \A k \in 1 .. n : Place(shown[k]) < i
      BY <1>1, <1>3, <3>4 DEF Behind
    <3>3. \A k \in 1 .. n : Precedes(shown[k], i)
      BY <3>1, <3>2 DEF Precedes
    <3>. QED BY <1>6, <2>3, <3>1, <3>3
  <2>4. CASE shown' = Append(shown, -i) /\ into > 0
    <3>1. -i \in Int /\ Place(-i) = i /\ i \in 0 .. Len(body) /\ -i < 0 /\ ~(-i > 0)
      BY <1>1, <1>4 DEF Place
    <3>2. i < i' \/ (-i = -i' /\ into' > 0)
      <4>1. i' > i \/ (i' = i /\ into' > into)
        BY DEF Further
      <4>2. i' = i => -i = -i'
        OBVIOUS
      <4>3. i' > i => i < i'
        BY <1>4
      <4>4. into' > into => into' > 0
        BY <1>4
      <4>. QED BY <4>1, <4>2, <4>3, <4>4
    <3>3. \A k \in 1 .. n : Precedes(shown[k], -i)
      BY <1>1, <1>3, <3>1 DEF Precedes, Behind
    <3> DEFINE x == -i
    <3>4. x \in Int /\ Place(x) = i /\ ~(x > 0) /\ shown' = Append(shown, x)
          /\ (i < i' \/ (x = -i' /\ into' > 0)) /\ \A k \in 1 .. n : Precedes(shown[k], x)
      BY <2>4, <3>1, <3>2, <3>3
    <3> HIDE DEF x
    <3>. QED BY <1>6, <3>1, <3>4
  <2>. QED BY <2>1, <2>2, <2>3, <2>4
<1>. QED BY <1>2, <1>7 DEF Inv, TextTypes, ScanInv

LEMMA InTheScan ==
    ASSUME Inv, NEW kinds, AtLexeme(kinds)
    PROVE  /\ pc = "html" /\ i \in 1 .. Len(body) /\ into = 0
           /\ body \in Seq(Lexeme) /\ Len(body) \in Nat /\ body[i] \in Lexeme
<1>1. i \in 1 .. Len(body) + 1 /\ body \in Seq(Lexeme)
  BY DEF Inv, TextTypes, Reads, At
<1>. QED BY <1>1 DEF AtLexeme

LEMMA WithinLexeme ==
    ASSUME Inv, pc = "html", into > 0
    PROVE  /\ i \in 1 .. Len(body) /\ into \in Nat /\ into < Bytes(body[i])
           /\ body \in Seq(Lexeme) /\ Len(body) \in Nat
<1>1. At(body, i, into) /\ body \in Seq(Lexeme)
  BY DEF Inv, TextTypes, Reads
<1>. QED BY <1>1 DEF At

Turn == WriteText \/ WriteByte \/ SkipToAngle \/ Tag

\* Every turn of the scan gets further.
LEMMA TurnAdvances ==
    ASSUME Inv, Turn
    PROVE  /\ Further(i, into, i', into') /\ At(body, i', into')
           /\ ~WriteByte => i' > i
<1>1. CASE WriteText
  <2>1. i \in 1 .. Len(body) /\ into = 0 /\ body \in Seq(Lexeme) /\ Len(body) \in Nat
        /\ i' = i + 1 /\ into' = 0
    BY <1>1, InTheScan DEF WriteText
  <2>2. i + 1 \in 1 .. Len(body) + 1 /\ i + 1 > i
    BY <2>1
  <2>3. At(body, i + 1, 0)
    BY <2>1, <2>2, AtFirst
  <2>. QED BY <2>1, <2>2, <2>3 DEF Further
<1>2. CASE WriteByte
  <2>1. /\ i \in 1 .. Len(body) /\ into \in Nat /\ into < Bytes(body[i])
        /\ body \in Seq(Lexeme) /\ Len(body) \in Nat /\ Bytes(body[i]) \in Nat
    BY <1>2, WithinLexeme, LexemeBytes DEF WriteByte
  <2>2. CASE into + 1 < Bytes(body[i]) /\ into' = into + 1 /\ i' = i
    <3>1. i \in 1 .. Len(body) + 1 /\ i <= Len(body) /\ into + 1 \in Nat /\ into + 1 > into
      BY <2>1
    <3>. QED BY <1>2, <2>2, <3>1 DEF Further, At
  <2>3. CASE into' = 0 /\ i' = i + 1
    <3>1. i + 1 \in 1 .. Len(body) + 1 /\ i + 1 > i
      BY <2>1
    <3>2. At(body, i + 1, 0)
      BY <2>1, <3>1, AtFirst
    <3>. QED BY <1>2, <2>3, <3>1, <3>2 DEF Further
  <2>. QED BY <1>2, <2>2, <2>3 DEF WriteByte
<1>3. CASE SkipToAngle
  <2>1. i \in 1 .. Len(body) /\ body \in Seq(Lexeme) /\ Len(body) \in Nat
        /\ body[i].kind \notin {"tag", "arrow"} /\ i' = PastAngle(i) /\ into' = 0
    BY <1>3, InTheScan DEF SkipToAngle, AtLexeme
  <2>2. PastAngle(i) \in i .. Len(body) + 1 /\ PastAngle(i) # i
    BY <2>1, PastAngleRange
  <2>3. i' > i /\ i' \in 1 .. Len(body) + 1
    BY <2>1, <2>2
  <2>4. At(body, i', 0)
    BY <2>1, <2>3, AtFirst
  <2>. QED BY <2>1, <2>3, <2>4 DEF Further
<1>4. CASE Tag
  <2>1. /\ i \in 1 .. Len(body) /\ body \in Seq(Lexeme) /\ Len(body) \in Nat
        /\ body[i].kind = "tag" /\ i' = AfterTag(i)[1] /\ into' = AfterTag(i)[2]
    BY <1>4, InTheScan DEF Tag, AtLexeme
  <2>2. i' \in i + 1 .. Len(body) + 1 /\ At(body, i', into')
    BY <2>1, AfterTagRange
  <2>3. i' > i
    BY <2>1, <2>2
  <2>. QED BY <2>2, <2>3 DEF Further
<1>. QED BY <1>1, <1>2, <1>3, <1>4 DEF Turn

LEMMA ScanTurnsInv == Inv /\ Turn => Inv'
<1> SUFFICES ASSUME Inv, Turn PROVE Inv'
  OBVIOUS
<1>1. /\ Further(i, into, i', into') /\ At(body, i', into')
      /\ ~WriteByte => i' > i
  BY TurnAdvances
<1>2. pc = "html" /\ pc' = "html" /\ i \in 1 .. Len(body)
      /\ UNCHANGED <<message, file, meta, replaced, body, result>>
  BY InTheScan, WithinLexeme DEF Turn, WriteText, WriteByte, SkipToAngle, Tag
<1>3. \/ shown' = shown
      \/ shown' = Append(shown, 0)
      \/ shown' = Append(shown, i) /\ into = 0 /\ i' > i /\ body[i] \in Rune
      \/ shown' = Append(shown, -i) /\ into > 0
  <2>1. CASE WriteText
    <3>1. /\ body[i] \in Lexeme /\ body[i].kind \in {"text", "arrow"} /\ into = 0
          /\ shown' = Append(shown, i)
      BY <2>1, InTheScan DEF WriteText, AtLexeme
    <3>2. body[i] \in Rune
      BY <3>1 DEF Lexeme
    <3>3. i' > i
      BY <1>2, <2>1 DEF WriteText
    <3>. QED BY <3>1, <3>2, <3>3
  <2>2. CASE WriteByte
    BY <2>2 DEF WriteByte
  <2>3. CASE SkipToAngle \/ Tag
    BY <2>3 DEF SkipToAngle, Tag
  <2>. QED BY <2>1, <2>2, <2>3 DEF Turn
<1>. QED BY <1>1, <1>2, <1>3, TurnInv

LEMMA EndOfHtmlInv == Inv /\ EndOfHtml => Inv'
<1> SUFFICES ASSUME Inv, EndOfHtml PROVE Inv'
  OBVIOUS
<1>1. /\ pc = "html" /\ pc' = "cut" /\ shown' = Legible(shown)
      /\ UNCHANGED <<message, file, meta, replaced, body, i, into, result>>
      /\ result = NoResult /\ file = NoFile
  BY DEF Inv, ControlTypes, FileInv, EndOfHtml, Goto
<1>2. ControlTypes' /\ FileInv' /\ CutInv' /\ ScanInv'
  BY <1>1 DEF Inv, ControlTypes, FileInv, CutInv, ScanInv, NoResult
<1>3. TextTypes'
  <2>1. Reads(body, shown) /\ Ordered(shown) /\ At(body, i, into)
    BY DEF Inv, TextTypes
  <2>2. Legible(shown) \in Seq(Int) /\ Marks(Legible(shown)) = Marks(shown)
        /\ Ordered(Legible(shown))
    BY <2>1, LegibleKeeps DEF Reads
  <2>3. \A k \in DOMAIN Legible(shown) :
          LET x == Legible(shown)[k]
          IN  Place(x) \in 0 .. Len(body) /\ (x > 0 => body[x] \in Rune)
    <3>1. \A x \in Marks(shown) : Place(x) \in 0 .. Len(body) /\ (x > 0 => body[x] \in Rune)
      BY <2>1 DEF Marks, Reads
    <3>2. Place(0) \in 0 .. Len(body) /\ ~(0 > 0)
      BY <2>1 DEF Reads, Place
    <3>. QED BY <2>2, <3>1, <3>2 DEF Marks
  <2>4. Reads(body, Legible(shown))
    BY <2>1, <2>2, <2>3 DEF Reads
  <2>. QED BY <1>1, <2>1, <2>2, <2>4 DEF TextTypes
<1>. QED BY <1>2, <1>3 DEF Inv

LEMMA ReadMetaInv == Inv /\ ReadMeta => Inv'
<1> SUFFICES ASSUME Inv, ReadMeta PROVE Inv'
  OBVIOUS
<1>1. /\ pc = "meta" /\ ~replaced /\ file # NoFile /\ file \in Files
      /\ UNCHANGED <<message, file, replaced, i, into, body, shown>>
      /\ result = NoResult /\ i = 1 /\ into = 0 /\ body = <<>> /\ shown = <<>>
  BY DEF Inv, ControlTypes, ScanInv, FileInv, ReadMeta, Fail, Goto
<1>2. TextTypes' /\ ScanInv'
  BY <1>1 DEF Inv, TextTypes, ScanInv, ReadMeta, Fail, Goto
<1>3. file.kind \in {"document", "form", "textual", "binary"}
  BY <1>1, FileTyping
<1>4. CASE ReadableKind(file.kind) /\ Goto("meta", "content") /\ meta' = file.kind
           /\ UNCHANGED result
  BY <1>1, <1>2, <1>3, <1>4
  DEF Inv, ControlTypes, FileInv, CutInv, Goto, NoResult
<1>5. CASE Fail("meta") /\ UNCHANGED meta
  BY <1>1, <1>2, <1>5 DEF Inv, ControlTypes, FileInv, CutInv, Fail, Goto, NoResult
<1>. QED BY <1>4, <1>5 DEF ReadMeta

LEMMA ReadContentInv == Inv /\ ReadContent => Inv'
<1> SUFFICES ASSUME Inv, ReadContent PROVE Inv'
  OBVIOUS
<1>1. /\ pc = "content" /\ file # NoFile /\ file \in Files
      /\ UNCHANGED <<message, file, replaced, meta, i, into>>
      /\ result = NoResult /\ i = 1 /\ into = 0 /\ body = <<>> /\ shown = <<>>
  BY DEF Inv, ControlTypes, ScanInv, FileInv, ReadContent, Fail, Goto
<1>2. CASE Goto("content", "cut") /\ body' = file.text /\ shown' = Positions(file.text)
           /\ UNCHANGED result
  <2>1. file.text \in Seq(Rune) /\ file.text \in Seq(Lexeme)
    BY <1>1, FileTyping, RunesAreLexemes
  <2>2. TextTypes'
    BY <1>1, <1>2, <2>1, PositionsRead, AtStart DEF TextTypes
  <2>. QED BY <1>1, <1>2, <2>2
       DEF Inv, ControlTypes, ScanInv, FileInv, CutInv, Goto, NoResult
<1>3. CASE Fail("content")
  <2>1. TextTypes' /\ ScanInv'
    BY <1>1, <1>3 DEF Inv, TextTypes, ScanInv, Fail, Goto
  <2>. QED BY <1>1, <1>3, <2>1 DEF Inv, ControlTypes, FileInv, CutInv, Fail, Goto, NoResult
<1>. QED BY <1>2, <1>3 DEF ReadContent

LEMMA ReplaceInv == Inv /\ Replace => Inv'
<1> SUFFICES ASSUME Inv, Replace PROVE Inv'
  OBVIOUS
<1>1. /\ pc \in {"meta", "content"} /\ file' \in Files /\ replaced' = (pc = "content")
      /\ UNCHANGED <<message, pc, meta, body, i, into, shown, result>>
  BY DEF Replace
<1>2. TextTypes' /\ ScanInv' /\ CutInv'
  BY <1>1 DEF Inv, TextTypes, ScanInv, CutInv
<1>3. file' # NoFile
  BY <1>1, FileTyping
<1>4. result.status = "none"
  <2>1. result = NoResult
    BY <1>1 DEF Inv, ControlTypes
  <2>. QED BY <2>1 DEF NoResult
<1>. QED BY <1>1, <1>2, <1>3, <1>4 DEF Inv, ControlTypes, FileInv

LEMMA CutInvStep == Inv /\ Cut => Inv'
<1> SUFFICES ASSUME Inv, Cut PROVE Inv'
  OBVIOUS
<1>1. /\ pc = "cut" /\ pc' = "done"
      /\ UNCHANGED <<message, file, meta, replaced, body, i, into, shown>>
      /\ result'.status = "ok" /\ result'.text = shown /\ result'.kept = Kept(body, shown)
      /\ result'.truncated = (Size(body, shown) > MaxBytes)
  BY DEF Cut, Goto
<1>2. result' # NoResult
  BY <1>1 DEF NoResult
<1>. QED BY <1>1, <1>2 DEF Inv, ControlTypes, TextTypes, ScanInv, FileInv, CutInv

LEMMA NextInv == Inv /\ [Next]_vars => Inv'
<1>1. Inv /\ UNCHANGED vars => Inv'
  <2> SUFFICES ASSUME Inv, UNCHANGED vars PROVE Inv'
    OBVIOUS
  <2>1. ControlTypes' /\ FileInv'
    BY DEF Inv, ControlTypes, FileInv, vars
  <2>2. TextTypes' /\ CutInv'
    BY DEF Inv, TextTypes, CutInv, vars
  <2>3. ScanInv'
    BY DEF Inv, ScanInv, IsHtml, vars
  <2>. QED BY <2>1, <2>2, <2>3 DEF Inv
<1>. QED BY <1>1, ReadBodyInv, ScanTurnsInv, EndOfHtmlInv, ReadMetaInv, ReadContentInv,
            ReplaceInv, CutInvStep DEF Next, Step, Turn

\* The inductive invariant of a read.
THEOREM Invariance == Spec => []Inv
  BY InitInv, NextInv, PTL DEF Spec

\* Every variable keeps its type, and what is shown keeps the order of the document.
THEOREM TypeCorrect == Spec => []TypeOK
<1>1. Inv => TypeOK  BY TypeParts DEF Inv
<1>. QED BY <1>1, Invariance, PTL

\* A file that nobody replaces between the two requests is handed out as declared,
\* and never one that has no text form.
THEOREM DeclaredFiles == Spec => []FileAsDeclared
<1>1. Inv => FileAsDeclared
  BY DEF Inv, FileInv, FileAsDeclared, ReadableKind
<1>. QED BY <1>1, Invariance, PTL

\* The cap splits no rune, keeps every rune that fits and is reported, whatever the
\* text and the cap.
THEOREM FairCuts == Spec => []CutsAtRune
<1>1. Inv => CutsAtRune
  <2> SUFFICES ASSUME Inv, result.status = "ok" PROVE CutsAtRune
    BY DEF CutsAtRune
  <2>1. FairCut(body, shown, Kept(body, shown))
    BY CutIsFair DEF Inv, TextTypes
  <2>2. /\ result.text = shown /\ result.kept = Kept(body, shown)
        /\ result.truncated <=> Size(body, shown) > MaxBytes
    BY DEF Inv, CutInv
  <2>. QED BY <2>1, <2>2 DEF FairCut, CutsAtRune, Ends
<1>. QED BY <1>1, Invariance, PTL

\* The scan of a text never turns in place: every turn gets further, in the text or
\* within a lexeme, also where the lower case copy leads it astray.
THEOREM ScanAdvances ==
    Spec => [][pc = "html" /\ pc' = "html" => i' > i \/ (i' = i /\ into' > into)]_vars
<1>1. Inv /\ [Next]_vars =>
        [pc = "html" /\ pc' = "html" => i' > i \/ (i' = i /\ into' > into)]_vars
  <2> SUFFICES ASSUME Inv, Next, pc = "html", pc' = "html"
               PROVE  i' > i \/ (i' = i /\ into' > into)
    OBVIOUS
  <2>1. Turn
    BY DEF Turn, Next, Step, ReadBody, EndOfHtml, ReadMeta, ReadContent, Cut, Replace, Fail,
           Goto
  <2>. QED BY <2>1, TurnAdvances DEF Further
<1>. QED BY <1>1, Invariance, PTL DEF Spec

-----------------------------------------------------------------------------
(* Prose and code. *)

Contexts == {"prose", "comment"} \union CodeElements

LEMMA PastTyping ==
    ASSUME NEW c \in Contexts, NEW x \in Lexeme
    PROVE  Past(c, x) \in Contexts
  BY DEF Past, Contexts

LEMMA ContextSteps ==
    ASSUME NEW t \in Seq(Lexeme)
    PROVE  /\ Context(t)[0] = "prose"
           /\ \A k \in 0 .. Len(t) : Context(t)[k] \in Contexts
           /\ \A k \in 1 .. Len(t) : Context(t)[k] = Past(Context(t)[k-1], t[k])
<1> DEFINE n == Len(t)
           next == [p \in (1 .. n) \X Contexts |-> Past(p[2], t[p[1]])]
           Solves(f) == f = [k \in 0 .. n |-> IF k = 0 THEN "prose" ELSE Past(f[k-1], t[k])]
<1>1. n \in Nat /\ "prose" \in Contexts
  BY DEF Contexts
<1>2. next \in [(1 .. n) \X Contexts -> Contexts]
  <2>1. ASSUME NEW p \in (1 .. n) \X Contexts PROVE Past(p[2], t[p[1]]) \in Contexts
    <3>1. p[2] \in Contexts /\ t[p[1]] \in Lexeme
      OBVIOUS
    <3>. QED BY <3>1, PastTyping
  <2>. HIDE DEF n
  <2>. QED BY <2>1
<1>3. PICK f \in [0 .. n -> Contexts] :
        f[0] = "prose" /\ \A k \in 1 .. n : f[k] = next[<<k, f[k-1]>>]
  <2> HIDE DEF n, next
  <2>1. Tables(Contexts, "prose", n, next) # {}
    BY <1>1, <1>2, Table
  <2>. QED BY <2>1 DEF Tables
<1>4. Solves(f)
  <2> HIDE DEF n
  <2>1. ASSUME NEW k \in 1 .. n PROVE f[k] = Past(f[k-1], t[k])
    <3>1. <<k, f[k-1]>> \in (1 .. n) \X Contexts
      BY <1>1
    <3>2. next[<<k, f[k-1]>>] = Past(f[k-1], t[k])
      BY <3>1
    <3>. QED BY <1>3, <3>2
  <2>2. \A k \in 0 .. n : f[k] = IF k = 0 THEN "prose" ELSE Past(f[k-1], t[k])
    BY <1>1, <1>3, <2>1
  <2>. QED BY <1>3, <2>2
<1>5. Solves(Context(t))
  <2>1. Context(t) = CHOOSE g : Solves(g)
    BY DEF Context
  <2> HIDE DEF Solves
  <2>. QED BY <1>4, <2>1
<1> DEFINE c == Context(t)
<1> HIDE DEF c, n
<1>6. c = [k \in 0 .. n |-> IF k = 0 THEN "prose" ELSE Past(c[k-1], t[k])]
  BY <1>5 DEF c, n
<1>7. c[0] = "prose" /\ \A k \in 1 .. n : c[k] = Past(c[k-1], t[k])
  <2>1. \A k \in 0 .. n : c[k] = IF k = 0 THEN "prose" ELSE Past(c[k-1], t[k])
    BY <1>6
  <2>. QED BY <1>1, <2>1
<1>8. 0 .. n \subseteq {k \in 0 .. n : c[k] \in Contexts}
  <2> DEFINE S == {k \in 0 .. n : c[k] \in Contexts}
  <2>1. 0 \in S
    BY <1>1, <1>7
  <2>2. ASSUME NEW k \in 1 .. n, k - 1 \in S PROVE k \in S
    <3>1. t[k] \in Lexeme
      BY DEF n
    <3>2. c[k] \in Contexts
      BY <1>7, <2>2, <3>1, PastTyping
    <3>. QED BY <1>1, <3>2
  <2> HIDE DEF S
  <2>3. 0 .. n \subseteq S
    BY <1>1, <2>1, <2>2, Climb
  <2>. QED BY <2>3 DEF S
<1>. QED BY <1>7, <1>8 DEF c, n

\* A context lasts until something leads out of it.
LEMMA Lasts ==
    ASSUME NEW t \in Seq(Lexeme), NEW a \in 0 .. Len(t), NEW b \in a .. Len(t), NEW c,
           Context(t)[a] = c, \A l \in a + 1 .. b : Past(c, t[l]) = c
    PROVE  \A l \in a .. b : Context(t)[l] = c
<1> DEFINE in == Context(t)
           n == Len(t)
           S == {l \in a .. b : in[l] # c}
<1>1. n \in Nat /\ \A k \in 1 .. n : in[k] = Past(in[k-1], t[k])
  BY ContextSteps
<1> HIDE DEF in
<1>2. SUFFICES ASSUME S # {} PROVE FALSE
  BY DEF in
<1>3. PICK m \in S : \A l \in S : m <= l
  <2>1. S \subseteq Nat
    BY <1>1
  <2> HIDE DEF S
  <2>. QED BY <1>2, <2>1, Least
<1> HIDE DEF n
<1>4. m # a /\ m \in a + 1 .. b /\ m \in 1 .. n /\ m - 1 \in a .. b
  BY <1>1, <1>3 DEF in, n
<1>5. m - 1 \notin S
  BY <1>1, <1>3, <1>4 DEF n
<1>6. in[m-1] = c /\ in[m] = Past(in[m-1], t[m])
  BY <1>1, <1>4, <1>5
<1>. QED BY <1>3, <1>4, <1>6

\* Where the scan may stand in a text: outside the code elements, or at the end of one.
Stands(k) ==
    LET in == Context(body)
    IN  \/ k = Len(body) + 1
        \/ in[k-1] \in {"prose", "comment"}
        \/ body[k].kind = "tag" /\ body[k].closing /\ body[k].name = in[k-1]

\* The same for a scan that enters no comment.
StandsPlain(k) == Stands(k) /\ (k <= Len(body) => Context(body)[k-1] # "comment")

NoProse(a, b) == \A l \in a .. b : l \notin TextIn(body, {"prose"})

LEMMA CommentTurn ==
    ASSUME body \in Seq(Lexeme), WellFormed(body), NEW k \in 1 .. Len(body),
           body[k].kind \in {"comment", "angle"}, Stands(k)
    PROVE  /\ Stands(PastAngle(k))
           /\ PlainComments(body) /\ StandsPlain(k) =>
                StandsPlain(PastAngle(k)) /\ NoProse(k, PastAngle(k) - 1)
<1> DEFINE in == Context(body)
           n == Len(body)
<1>1. n \in Nat /\ DOMAIN body = 1 .. n /\ in[n] = "prose"
      /\ \A l \in 1 .. n : in[l] = Past(in[l-1], body[l])
  BY ContextSteps DEF WellFormed
<1>2. in[k-1] \in {"prose", "comment"}
  <2>1. k # n + 1 /\ body[k].kind # "tag"
    BY <1>1
  <2>. QED BY <2>1 DEF Stands
<1>3. in[k] = "comment"
  <2>1. body[k].kind = "angle" => in[k-1] # "prose"
    BY <1>1 DEF WellFormed
  <2>2. in[k] = Past(in[k-1], body[k])
    BY <1>1
  <2> HIDE DEF in
  <2>. QED BY <1>2, <2>1, <2>2 DEF Past
<1>4. ASSUME NEW b \in k .. n, \A l \in k + 1 .. b : body[l].kind # "arrow"
      PROVE  \A l \in k .. b : in[l] = "comment"
  <2>1. \A l \in k + 1 .. b : Past("comment", body[l]) = "comment"
    BY <1>4 DEF Past
  <2>2. k \in 0 .. n /\ b \in k .. Len(body)
    BY <1>1
  <2>. QED BY <1>3, <2>1, <2>2, Lasts
<1>5. PICK m \in k .. n : /\ PastAngle(k) = m + 1 /\ body[m].kind \in {"tag", "arrow"}
                          /\ \A l \in k .. n : l < m => body[l].kind \notin {"tag", "arrow"}
  <2>1. ASSUME \A l \in k .. n : body[l].kind \notin {"tag", "arrow"} PROVE FALSE
    <3>1. \A l \in k + 1 .. n : body[l].kind # "arrow"
      BY <1>1, <2>1
    <3>2. n \in k .. n
      BY <1>1
    <3>3. in[n] = "comment"
      BY <1>4, <3>1, <3>2
    <3>. QED BY <1>1, <3>3
  <2>2. \/ \A l \in k .. n : body[l].kind \notin {"tag", "arrow"}
        \/ \E m \in k .. n : /\ PastAngle(k) = m + 1 /\ body[m].kind \in {"tag", "arrow"}
                             /\ \A l \in k .. n : l < m => body[l].kind \notin {"tag", "arrow"}
    BY PastAngleRange
  <2>. QED BY <2>1, <2>2
<1>6. m # k /\ m - 1 \in k .. n /\ m \in 1 .. n /\ m + 1 - 1 = m
  BY <1>1, <1>5
<1>7. \A l \in k .. m - 1 : in[l] = "comment"
  <2>1. \A l \in k + 1 .. m - 1 : body[l].kind # "arrow"
    BY <1>1, <1>5, <1>6
  <2>. QED BY <1>4, <1>6, <2>1
<1>8. in[m] = IF body[m].kind = "arrow" THEN "prose" ELSE "comment"
  <2>1. m - 1 \in k .. m - 1
    BY <1>1, <1>6
  <2>2. in[m] = Past("comment", body[m])
    BY <1>1, <1>6, <1>7, <2>1
  <2>. QED BY <2>2 DEF Past
<1>9. Stands(PastAngle(k))
  BY <1>5, <1>6, <1>8 DEF Stands
<1>10. ASSUME PlainComments(body) PROVE StandsPlain(PastAngle(k)) /\ NoProse(k, PastAngle(k) - 1)
  <2>1. m - 1 \in k .. m - 1
    BY <1>1, <1>6
  <2>2. body[m].kind # "tag"
    BY <1>1, <1>6, <1>7, <1>10, <2>1 DEF PlainComments
  <2>3. StandsPlain(PastAngle(k))
    BY <1>5, <1>6, <1>8, <1>9, <2>2 DEF StandsPlain
  <2>4. ASSUME NEW l \in k .. m, l \in TextIn(body, {"prose"}) PROVE FALSE
    <3>1. body[l].kind \in {"text", "arrow"} /\ in[l-1] = "prose"
      BY <2>4 DEF TextIn
    <3>2. l # k
      BY <3>1
    <3>3. l - 1 \in k .. m - 1
      BY <1>1, <1>6, <3>2
    <3>. QED BY <1>7, <3>1, <3>3
  <2>. QED BY <1>5, <1>6, <2>3, <2>4 DEF NoProse
<1>. QED BY <1>9, <1>10

LEMMA TextTurn ==
    ASSUME body \in Seq(Lexeme), NEW k \in 1 .. Len(body),
           body[k].kind \in {"text", "arrow"}, Stands(k)
    PROVE  /\ Stands(k + 1) /\ k \notin TextIn(body, CodeElements)
           /\ StandsPlain(k) => StandsPlain(k + 1) /\ k \in TextIn(body, {"prose"})
<1> DEFINE in == Context(body)
<1>1. /\ Len(body) \in Nat /\ DOMAIN body = 1 .. Len(body) /\ k # Len(body) + 1
      /\ k <= Len(body) /\ k + 1 - 1 = k
      /\ in[k] = Past(in[k-1], body[k])
  BY ContextSteps
<1>2. in[k-1] \in {"prose", "comment"}
  BY <1>1 DEF Stands
<1>3. in[k] \in {"prose", "comment"} /\ (in[k-1] = "prose" => in[k] = "prose")
  <2> HIDE DEF in
  <2>. QED BY <1>1, <1>2 DEF Past
<1>4. Stands(k + 1) /\ k \notin TextIn(body, CodeElements)
  BY <1>1, <1>2, <1>3 DEF Stands, TextIn, CodeElements
<1>5. ASSUME StandsPlain(k) PROVE StandsPlain(k + 1) /\ k \in TextIn(body, {"prose"})
  BY <1>1, <1>2, <1>3, <1>4, <1>5 DEF StandsPlain, TextIn
<1>. QED BY <1>4, <1>5

LEMMA TagTurn ==
    ASSUME body \in Seq(Lexeme), WellFormed(body), Steady(body), NEW k \in 1 .. Len(body),
           body[k].kind = "tag", Stands(k)
    PROVE  /\ Untangled(body) => Stands(AfterTag(k)[1])
           /\ PlainComments(body) /\ ClosedOnce(body) /\ StandsPlain(k) =>
                StandsPlain(AfterTag(k)[1]) /\ NoProse(k, AfterTag(k)[1] - 1)
<1> DEFINE in == Context(body)
           n == Len(body)
           c == body[k].name
           p == AfterTag(k)[1]
<1>1. /\ n \in Nat /\ DOMAIN body = 1 .. n /\ in[n] = "prose" /\ k \in 1 .. n
      /\ \A l \in 1 .. n : in[l] = Past(in[l-1], body[l])
      /\ in[k-1] \in Contexts
  <2>1. k - 1 \in 0 .. n
    OBVIOUS
  <2>. QED BY <2>1, ContextSteps DEF WellFormed
<1>2. in[k] = Past(in[k-1], body[k])
  BY <1>1
<1>3. in[k-1] \notin {"prose", "comment"} =>
        body[k].closing /\ in[k-1] = c /\ c \in CodeElements
  <2>1. k # n + 1
    BY <1>1
  <2>2. in[k-1] \notin {"prose", "comment"} => body[k].closing /\ body[k].name = in[k-1]
    BY <2>1 DEF Stands
  <2> HIDE DEF in
  <2>. QED BY <1>1, <2>2 DEF Contexts
<1>4. k \notin TextIn(body, {"prose"})
  BY DEF TextIn
\* The next lexeme, when nothing is jumped over.
<1>5. ASSUME p = k + 1, in[k] \in {"prose", "comment"}, in[k-1] # "comment" => in[k] = "prose"
      PROVE  Stands(p) /\ (StandsPlain(k) => StandsPlain(p) /\ NoProse(k, p - 1))
  <2>1. p - 1 = k /\ \A l \in k .. k : l = k
    BY <1>1, <1>5
  <2>2. Stands(p)
    BY <1>5, <2>1 DEF Stands
  <2>3. StandsPlain(k) => in[k-1] # "comment"
    BY <1>1 DEF StandsPlain
  <2>. QED BY <1>4, <1>5, <2>1, <2>2, <2>3 DEF StandsPlain, NoProse
<1>6. CASE c \notin CodeElements
  <2>1. p = k + 1
    BY <1>6, AfterTagRange
  <2>2. in[k-1] \in {"prose", "comment"} /\ in[k] = in[k-1]
    <3> HIDE DEF in
    <3>. QED BY <1>2, <1>3, <1>6 DEF Past
  <2>. QED BY <1>5, <2>1, <2>2
<1>7. CASE c \in CodeElements
  \* Only prose opens an element; what ends it there leads back to the prose.
  <2>1. in[k-1] = "prose" => ~body[k].closing /\ in[k] = c
    <3>1. in[k-1] = "prose" => ~body[k].closing
      BY <1>1, <1>7 DEF WellFormed
    <3> HIDE DEF in
    <3>. QED BY <1>2, <1>7, <3>1 DEF Past
  <2>2. in[k-1] = "comment" => in[k] = "comment"
    <3> HIDE DEF in
    <3>. QED BY <1>2 DEF Past
  <2>3. in[k-1] \notin {"prose", "comment"} => in[k-1] = c /\ body[k].closing /\ in[k] = "prose"
    <3> HIDE DEF in
    <3>. QED BY <1>2, <1>3 DEF Past
  <2>4. c # "prose" /\ c # "comment"
    BY <1>7 DEF CodeElements
  \* Within an element, the first closing tag of its name ends it.
  <2>5. ASSUME in[k-1] = "prose", NEW b \in k .. n, \A l \in Closers(k) : b < l
        PROVE  \A l \in k .. b : in[l] = c
    <3>1. ASSUME NEW l \in k + 1 .. b PROVE Past(c, body[l]) = c
      <4>1. l \in k + 1 .. n /\ l \notin Closers(k)
        BY <1>1, <2>5
      <4>2. ~Closes(body[l], c)
        BY <4>1 DEF Closers
      <4> HIDE DEF c
      <4>. QED BY <2>4, <4>2 DEF Past, Closes
    <3>2. k \in 0 .. n /\ b \in k .. Len(body)
      BY <1>1
    <3>. QED BY <2>1, <2>5, <3>1, <3>2, Lasts
  <2>6. CASE Closers(k) = {}
    <3>1. p = k + 1
      BY <2>6, AfterTagRange
    <3>2. in[k-1] # "prose"
      <4>1. SUFFICES ASSUME in[k-1] = "prose" PROVE FALSE
        OBVIOUS
      <4>2. n \in k .. n /\ \A l \in Closers(k) : n < l
        BY <1>1, <2>6
      <4>3. in[n] = c
        BY <2>5, <4>1, <4>2
      <4>. QED BY <1>1, <2>4, <4>3
    <3>. QED BY <1>5, <2>2, <2>3, <3>1, <3>2
  <2>7. CASE Closers(k) # {}
    <3>1. p \in Closers(k) /\ \A l \in Closers(k) : p <= l
      BY <1>7, <2>7, AfterTagRange
    <3>2. p \in k + 1 .. n /\ p \in 1 .. n /\ Closes(body[p], c) /\ p - 1 \in k .. n
      BY <1>1, <3>1 DEF Closers
    \* A header does not stand in the head.
    <3>3. in[p-1] = c => Stands(p)
      <4>1. body[p].kind = "tag" /\ body[p].closing
            /\ (body[p].name = c \/ (c = "head" /\ body[p].name = "header"))
        <5> HIDE DEF p, c
        <5>. QED BY <3>2 DEF Closes
      <4>2. body[p].name = "header" => in[p-1] # "head"
        BY <1>1, <3>2 DEF WellFormed
      <4>. QED BY <4>1, <4>2 DEF Stands
    <3>4. CASE in[k-1] = "prose"
      <4>1. \A l \in Closers(k) : p - 1 < l
        <5>1. \A l \in Closers(k) : l \in Nat
          BY <1>1 DEF Closers
        <5>. QED BY <1>1, <3>1, <3>2, <5>1
      <4>2. \A l \in k .. p - 1 : in[l] = c
        BY <2>5, <3>2, <3>4, <4>1
      <4>3. in[p-1] = c
        <5>1. p - 1 \in k .. p - 1
          BY <1>1, <3>2
        <5>. QED BY <4>2, <5>1
      <4>4. Stands(p) /\ StandsPlain(p)
        BY <2>4, <3>3, <4>3 DEF StandsPlain
      <4>5. ASSUME NEW l \in k .. p - 1, l \in TextIn(body, {"prose"}) PROVE FALSE
        <5>1. l # k /\ in[l-1] = "prose"
          BY <1>4, <4>5 DEF TextIn
        <5>2. l - 1 \in k .. p - 1
          BY <1>1, <3>2, <5>1
        <5>. QED BY <2>4, <4>2, <5>1, <5>2
      <4>. QED BY <4>4, <4>5 DEF NoProse
    <3>5. CASE in[k-1] # "prose"
      <4>1. in[k] \in {"prose", "comment"}
        BY <2>2, <2>3, <3>5
      <4>2. ASSUME Untangled(body) PROVE Stands(p)
        <5>1. ~({in[k-1], in[k]} \subseteq CodeElements)
          <6>1. in[k] \notin CodeElements
            BY <4>1 DEF CodeElements
          <6>. QED BY <6>1
        <5>2. k < p /\ k \in DOMAIN body /\ p \in DOMAIN body
          BY <1>1, <3>2
        <5>3. in[p-1] \in {c, "prose", "comment"}
          BY <1>7, <3>2, <4>2, <5>1, <5>2 DEF Untangled
        <5>. QED BY <3>3, <5>3 DEF Stands
      <4>3. ASSUME ClosedOnce(body), StandsPlain(k) PROVE FALSE
        <5>1. in[k-1] # "comment"
          BY <1>1, <4>3 DEF StandsPlain
        <5>2. body[k].closing
          BY <2>3, <3>5, <5>1
        <5>3. k < p /\ k \in DOMAIN body /\ p \in DOMAIN body
          BY <1>1, <3>2
        <5>. QED BY <1>7, <3>2, <4>3, <5>2, <5>3 DEF ClosedOnce
      <4>. QED BY <4>2, <4>3
    <3>. QED BY <3>4, <3>5
  <2>. QED BY <2>6, <2>7
<1>. QED BY <1>6, <1>7

\* Where lower case keeps the distances, the scan is never within a lexeme, and what is
\* shown is no code; and all the prose before the next lexeme, if the scan enters no
\* comment and no element twice.
ProseInv ==
    /\ pc = "html" /\ Steady(body) => into = 0 /\ Marks(shown) \subseteq Nat
    /\ pc = "html" /\ Steady(body) /\ WellFormed(body) /\ Untangled(body) =>
         Stands(i) /\ Marks(shown) \intersect TextIn(body, CodeElements) = {}
    /\ pc = "html" /\ Steady(body) /\ WellFormed(body) /\ PlainComments(body)
         /\ ClosedOnce(body) =>
         StandsPlain(i) /\ Marks(shown) = {k \in TextIn(body, {"prose"}) : k < i}
    /\ ShowsProse

LEMMA InitProse == Init => ProseInv
  BY DEF Init, ProseInv, ShowsProse

LEMMA ReadBodyProse == Inv /\ ReadBody => ProseInv'
<1> SUFFICES ASSUME Inv, ReadBody PROVE ProseInv'
  OBVIOUS
<1>1. pc = "body" /\ i = 1 /\ i' = 1 /\ into' = 0 /\ shown = <<>> /\ message' = message
  BY DEF Inv, ScanInv, ReadBody, Goto
<1>2. CASE ~Readable(message)
  BY <1>1, <1>2 DEF ReadBody, Goto, ProseInv, ShowsProse, IsHtml
<1>3. CASE Readable(message) /\ message[Chosen(message)].type # "text/html"
  BY <1>1, <1>3 DEF ReadBody, Goto, ProseInv, ShowsProse, IsHtml
<1>4. CASE Readable(message) /\ message[Chosen(message)].type = "text/html"
  <2>1. pc' = "html" /\ shown' = <<>>
    BY <1>1, <1>4 DEF ReadBody, Goto
  <2>2. body' \in Seq(Lexeme)
    BY ReadBodyInv DEF Inv, TextTypes, Reads
  <2>3. Context(body')[0] = "prose" /\ DOMAIN body' = 1 .. Len(body') /\ Len(body') \in Nat
    BY <2>2, ContextSteps
  <2>4. Stands(i)' /\ StandsPlain(i)'
    <3>1. Context(body')[i' - 1] = "prose"
      BY <1>1, <2>3
    <3>. QED BY <3>1 DEF Stands, StandsPlain
  <2>5. Marks(shown') = {}
    BY <2>1 DEF Marks
  <2>6. {k \in TextIn(body', {"prose"}) : k < i'} = {}
    BY <1>1, <2>3 DEF TextIn
  <2>. QED BY <1>1, <2>1, <2>4, <2>5, <2>6 DEF ProseInv, ShowsProse
<1>. QED BY <1>2, <1>3, <1>4

\* One turn of the scan: S is what it writes, if anything.
LEMMA TurnProse ==
    ASSUME Inv, ProseInv, pc = "html", pc' = "html", body' = body,
           i \in 1 .. Len(body), i' > i, i' \in Nat,
           Steady(body) => into' = 0,
           NEW S \in SUBSET Nat, Marks(shown)' = Marks(shown) \union S,
           Stands(i) /\ Steady(body) /\ WellFormed(body) /\ Untangled(body) =>
             Stands(i') /\ S \intersect TextIn(body, CodeElements) = {},
           StandsPlain(i) /\ Steady(body) /\ WellFormed(body) /\ PlainComments(body)
             /\ ClosedOnce(body) =>
             StandsPlain(i') /\ S = {k \in TextIn(body, {"prose"}) : i <= k /\ k < i'}
    PROVE  ProseInv'
<1>1. Stands(i)' <=> Stands(i')
  BY DEF Stands
<1>2. StandsPlain(i)' <=> StandsPlain(i')
  BY <1>1 DEF StandsPlain
<1>3. TextIn(body, {"prose"}) \subseteq Nat
  <2>1. body \in Seq(Lexeme)
    BY DEF Inv, TextTypes, Reads
  <2>2. DOMAIN body \subseteq Nat
    BY <2>1
  <2>. QED BY <2>2 DEF TextIn
<1>4. \A k \in Nat : k < i' <=> k < i \/ (i <= k /\ k < i')
  OBVIOUS
<1>5. ASSUME Steady(body), WellFormed(body), PlainComments(body), ClosedOnce(body)
      PROVE  StandsPlain(i)' /\ Marks(shown)' = {k \in TextIn(body, {"prose"}) : k < i'}
  <2>1. StandsPlain(i) /\ Marks(shown) = {k \in TextIn(body, {"prose"}) : k < i}
    BY <1>5 DEF ProseInv
  <2>2. StandsPlain(i') /\ S = {k \in TextIn(body, {"prose"}) : i <= k /\ k < i'}
    BY <1>5, <2>1
  <2>3. Marks(shown)' = {k \in TextIn(body, {"prose"}) : k < i'}
    BY <1>3, <1>4, <2>1, <2>2
  <2>. QED BY <1>2, <2>2, <2>3
<1>6. ASSUME Steady(body), WellFormed(body), Untangled(body)
      PROVE  Stands(i)' /\ Marks(shown)' \intersect TextIn(body, CodeElements) = {}
  BY <1>1, <1>6 DEF ProseInv
<1>7. Steady(body) => into' = 0 /\ Marks(shown)' \subseteq Nat
  BY DEF ProseInv
<1>8. ShowsProse'
  BY DEF ShowsProse
<1>. QED BY <1>5, <1>6, <1>7, <1>8 DEF ProseInv

LEMMA WriteTextProse == Inv /\ ProseInv /\ WriteText => ProseInv'
<1> SUFFICES ASSUME Inv, ProseInv, WriteText PROVE ProseInv'
  OBVIOUS
<1>1. /\ pc = "html" /\ pc' = "html" /\ body' = body /\ i' = i + 1
      /\ i \in 1 .. Len(body) /\ body \in Seq(Lexeme) /\ Len(body) \in Nat
      /\ body[i].kind \in {"text", "arrow"} /\ shown' = Append(shown, i) /\ into' = 0
  BY InTheScan DEF WriteText, AtLexeme
<1>2. i' > i /\ i' \in Nat /\ {i} \in SUBSET Nat /\ i # 0
  BY <1>1
<1>3. Marks(shown)' = Marks(shown) \union {i}
  <2>1. shown \in Seq(Int)
    BY DEF Inv, TextTypes, Reads
  <2>2. i \in Int
    BY <1>1
  <2>3. Marks(Append(shown, i)) = Marks(shown) \union ({i} \ {0})
    BY <2>1, <2>2, AppendMarks
  <2>. QED BY <1>1, <1>2, <2>3
<1>4. ASSUME Stands(i)
      PROVE  /\ Stands(i') /\ i \notin TextIn(body, CodeElements)
             /\ StandsPlain(i) => StandsPlain(i') /\ i \in TextIn(body, {"prose"})
  BY <1>1, <1>4, TextTurn
<1>5. \A k \in Nat : i <= k /\ k < i' <=> k = i
  BY <1>1
<1>6. TextIn(body, {"prose"}) \subseteq Nat
  <2>1. DOMAIN body \subseteq Nat
    BY <1>1
  <2>. QED BY <2>1 DEF TextIn
<1>7. StandsPlain(i) =>
        StandsPlain(i') /\ {i} = {k \in TextIn(body, {"prose"}) : i <= k /\ k < i'}
  BY <1>4, <1>5, <1>6 DEF StandsPlain
<1>8. Stands(i) => Stands(i') /\ {i} \intersect TextIn(body, CodeElements) = {}
  BY <1>4
<1>. QED BY <1>1, <1>2, <1>3, <1>7, <1>8, TurnProse

\* Where lower case keeps the distances there is nothing to write byte by byte.
LEMMA WriteByteProse == Inv /\ ProseInv /\ WriteByte => ProseInv'
<1> SUFFICES ASSUME Inv, ProseInv, WriteByte PROVE ProseInv'
  OBVIOUS
<1>1. pc = "html" /\ pc' = "html" /\ body' = body /\ into > 0
  BY DEF WriteByte
<1>2. ~Steady(body)
  <2>1. into # 0
    BY <1>1
  <2>. QED BY <1>1, <2>1 DEF ProseInv
<1>. QED BY <1>1, <1>2 DEF ProseInv, ShowsProse

LEMMA Between ==
    ASSUME NEW a \in Int, NEW b \in Int
    PROVE  \A k \in Nat : a <= k /\ k < b => k \in a .. b - 1
  OBVIOUS

\* A turn that writes no text.
LEMMA JumpProse ==
    ASSUME Inv, ProseInv, pc = "html", pc' = "html", body' = body,
           i \in 1 .. Len(body), i' > i, i' \in Nat,
           Steady(body) => into' = 0,
           shown' = shown \/ shown' = Append(shown, 0),
           Stands(i) /\ Steady(body) /\ WellFormed(body) /\ Untangled(body) => Stands(i'),
           StandsPlain(i) /\ Steady(body) /\ WellFormed(body) /\ PlainComments(body)
             /\ ClosedOnce(body) =>
             StandsPlain(i') /\ NoProse(i, i' - 1)
    PROVE  ProseInv'
<1>1. Marks(shown)' = Marks(shown) \union {}
  <2>1. shown \in Seq(Int) /\ 0 \in Int
    BY DEF Inv, TextTypes, Reads
  <2>2. Marks(Append(shown, 0)) = Marks(shown) \union ({0} \ {0})
    BY <2>1, AppendMarks
  <2>. QED BY <2>2
<1>2. NoProse(i, i' - 1) => {} = {k \in TextIn(body, {"prose"}) : i <= k /\ k < i'}
  <2>1. TextIn(body, {"prose"}) \subseteq Nat
    <3>1. body \in Seq(Lexeme)
      BY DEF Inv, TextTypes, Reads
    <3>2. DOMAIN body \subseteq Nat
      BY <3>1
    <3>. QED BY <3>2 DEF TextIn
  <2>2. \A k \in Nat : i <= k /\ k < i' => k \in i .. i' - 1
    <3>1. i \in Int /\ i' \in Int
      OBVIOUS
    <3>. QED BY <3>1, Between
  <2>. QED BY <2>1, <2>2 DEF NoProse
<1>3. {} \in SUBSET Nat
  OBVIOUS
<1>. QED BY <1>1, <1>2, <1>3, TurnProse

LEMMA JumpsProse == Inv /\ ProseInv /\ (SkipToAngle \/ Tag) => ProseInv'
<1> SUFFICES ASSUME Inv, ProseInv, SkipToAngle \/ Tag PROVE ProseInv'
  OBVIOUS
<1>1. /\ pc = "html" /\ pc' = "html" /\ body' = body
      /\ i \in 1 .. Len(body) /\ body \in Seq(Lexeme)
      /\ shown' = shown \/ shown' = Append(shown, 0)
  BY InTheScan DEF SkipToAngle, Tag
<1>2. i' > i /\ i' \in Nat
  BY TurnAdvances DEF Turn, WriteByte, SkipToAngle, Tag, AtLexeme, At
<1>3. StandsPlain(i) => Stands(i)
  BY DEF StandsPlain
<1>4. CASE SkipToAngle
  <2>1. i' = PastAngle(i) /\ into' = 0 /\ body[i].kind \in {"comment", "angle"}
    BY <1>4 DEF SkipToAngle, AtLexeme
  <2>2. ASSUME WellFormed(body), Stands(i)
        PROVE  /\ Stands(i')
               /\ PlainComments(body) /\ StandsPlain(i) =>
                    StandsPlain(i') /\ NoProse(i, i' - 1)
    BY <1>1, <2>1, <2>2, CommentTurn
  <2>. QED BY <1>1, <1>2, <1>3, <2>1, <2>2, JumpProse
<1>5. CASE Tag
  <2>1. i' = AfterTag(i)[1] /\ into' = AfterTag(i)[2] /\ body[i].kind = "tag"
    BY <1>5 DEF Tag, AtLexeme
  <2>2. ASSUME WellFormed(body), Steady(body), Stands(i)
        PROVE  /\ Untangled(body) => Stands(i')
               /\ PlainComments(body) /\ ClosedOnce(body) /\ StandsPlain(i) =>
                    StandsPlain(i') /\ NoProse(i, i' - 1)
    BY <1>1, <2>1, <2>2, TagTurn
  <2>3. Steady(body) => into' = 0
    BY <1>1, <2>1, AfterTagRange
  <2>. QED BY <1>1, <1>2, <1>3, <2>2, <2>3, JumpProse
<1>. QED BY <1>4, <1>5

LEMMA EndOfHtmlProse == Inv /\ ProseInv /\ EndOfHtml => ProseInv'
<1> SUFFICES ASSUME Inv, ProseInv, EndOfHtml PROVE ProseInv'
  OBVIOUS
<1>1. /\ pc = "html" /\ pc' = "cut" /\ body' = body /\ shown' = Legible(shown)
      /\ i > Len(body) /\ shown \in Seq(Int) /\ body \in Seq(Lexeme)
      /\ i \in 1 .. Len(body) + 1
  BY DEF Inv, TextTypes, Reads, At, EndOfHtml, Goto
<1>2. ASSUME Steady(body) PROVE Shown' = Marks(shown)
  <2> DEFINE lines == Legible(shown)
  <2>1. Marks(lines) = Marks(shown) /\ Marks(shown) \subseteq Nat
    BY <1>1, <1>2, LegibleKeeps DEF ProseInv
  <2>2. Shown' = {Place(lines[k]) : k \in DOMAIN lines} \ {0}
    BY <1>1 DEF Shown
  <2> HIDE DEF lines
  <2>3. \A k \in DOMAIN lines : lines[k] \in Nat
    BY <2>1 DEF Marks
  <2>4. \A k \in DOMAIN lines : Place(lines[k]) = lines[k]
    BY <2>3 DEF Place
  <2>5. Shown' = Marks(lines)
    BY <2>2, <2>4 DEF Marks
  <2>. QED BY <2>1, <2>5
<1>3. \A k \in TextIn(body, {"prose"}) : k < i
  <2>1. DOMAIN body = 1 .. Len(body) /\ Len(body) \in Nat
    BY <1>1
  <2>. QED BY <1>1, <2>1 DEF TextIn
<1>4. Steady(body) /\ WellFormed(body) /\ Untangled(body) =>
        Shown' \intersect TextIn(body, CodeElements) = {}
  BY <1>1, <1>2 DEF ProseInv
<1>5. Steady(body) /\ WellFormed(body) /\ PlainComments(body) /\ ClosedOnce(body) =>
        Shown' = TextIn(body, {"prose"})
  BY <1>1, <1>2, <1>3 DEF ProseInv
<1>6. ShowsProse'
  BY <1>1, <1>4, <1>5 DEF ShowsProse
<1>. QED BY <1>1, <1>6 DEF ProseInv

LEMMA OthersProse ==
    Inv /\ ProseInv /\ (ReadMeta \/ ReadContent \/ Cut \/ Replace \/ UNCHANGED vars)
      => ProseInv'
<1> SUFFICES ASSUME Inv, ProseInv,
                    ReadMeta \/ ReadContent \/ Cut \/ Replace \/ UNCHANGED vars
             PROVE  ProseInv'
  OBVIOUS
<1>1. CASE ReadMeta \/ Replace
  <2>1. pc' \in {"meta", "content", "done"}
    BY <1>1 DEF ReadMeta, Replace, Fail, Goto
  <2>. QED BY <2>1 DEF ProseInv, ShowsProse
<1>2. CASE ReadContent
  <2>1. pc' \in {"cut", "done"} /\ message' = <<>>
    BY <1>2 DEF Inv, FileInv, ReadContent, Fail, Goto
  <2>. QED BY <2>1 DEF ProseInv, ShowsProse, IsHtml
<1>3. CASE Cut
  <2>1. pc' = "done"
    BY <1>3 DEF Cut, Goto
  <2>. QED BY <2>1 DEF ProseInv, ShowsProse
<1>4. CASE UNCHANGED vars
  BY <1>4 DEF vars, ProseInv, ShowsProse, Shown, IsHtml, Stands, StandsPlain
<1>. QED BY <1>1, <1>2, <1>3, <1>4

\* Where lower case keeps the distances, the contents of a code element are not shown,
\* and all the prose is, for every text and however many comments and elements it has.
THEOREM ProseShown == Spec => []ShowsProse
<1>1. Inv /\ ProseInv /\ [Next]_vars => ProseInv'
  BY ReadBodyProse, WriteTextProse, WriteByteProse, JumpsProse, EndOfHtmlProse, OthersProse
  DEF Next, Step
<1>2. ProseInv => ShowsProse
  BY DEF ProseInv
<1>. QED BY <1>1, <1>2, InitProse, Invariance, PTL DEF Spec

=============================================================================
