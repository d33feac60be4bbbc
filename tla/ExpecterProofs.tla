--------------------------- MODULE ExpecterProofs ---------------------------
(***************************************************************************)
(* Expecter, proved for any streams, chunks, searchers and windows.          *)
(*                                                                         *)
(* EInv = Typed /\ BufferIsTheEnd /\ EndMarked is inductive: EndMarked says  *)
(* that the mark of the end is the last thing on the queue and that nothing *)
(* is left anywhere once it is taken, from which EofIsLast follows.  InOrder *)
(* names one stream and the places where it is cut into what is used up or   *)
(* received, the buffer, the pieces on the queue and what is unread; it is   *)
(* what ExpecterTextProofs needs of a piece.  NothingLost needs only EInv    *)
(* and what TextOn does when a queue grows and shrinks.                      *)
(***************************************************************************)
EXTENDS Expecter, SequenceTheorems, WellFoundedInduction, TLAPS

-----------------------------------------------------------------------------
(* Numbers *)

\* A set of numbers that is not empty has a least element.
LEMMA LeastNat ==
    ASSUME NEW T \in SUBSET Nat, T # {}
    PROVE  \E m \in T : \A k \in T : m <= k
  <1> DEFINE R == {p \in Nat \X Nat : p[1] < p[2]}
  <1>a. IsWellFoundedOn(R, Nat)
    BY NatLessThanWellFounded DEF OpToRel
  <1> HIDE DEF R
  <1>1. \E x \in T : \A y \in T : ~ (<<y, x>> \in R)
    BY <1>a, WFMin
  <1>2. \A x, y \in Nat : <<y, x>> \in R <=> y < x
    BY DEF R
  <1>3. PICK x \in T : \A y \in T : ~ (<<y, x>> \in R)
    BY <1>1
  <1>4. \A y \in T : x <= y
    <2> TAKE y \in T
    <2>1. ~ (y < x) /\ x \in Nat /\ y \in Nat
      BY <1>2, <1>3
    <2>2. QED
      BY <2>1
  <1>5. QED
    BY <1>4

\* Of the places where patterns stand there is a first, and Best is it.
LEMMA BestIs ==
    ASSUME NEW H \in SUBSET (Nat \X Nat), H # {}
    PROVE  /\ Best(H) \in H
           /\ \A g \in H : \/ Best(H)[1] < g[1]
                           \/ Best(H)[1] = g[1] /\ Best(H)[2] <= g[2]
  <1>1. \E h \in H : TRUE
    OBVIOUS
  <1>2. PICK m \in {h[1] : h \in H} : \A k \in {h[1] : h \in H} : m <= k
    <2>1. {h[1] : h \in H} \in SUBSET Nat /\ {h[1] : h \in H} # {}
      BY <1>1
    <2>2. QED
      BY <2>1, LeastNat
  <1> DEFINE First == {h \in H : h[1] = m}
  <1>3. PICK n \in {h[2] : h \in First} : \A k \in {h[2] : h \in First} : n <= k
    <2>1. {h[2] : h \in First} \in SUBSET Nat /\ {h[2] : h \in First} # {}
      BY <1>2
    <2>2. QED
      BY <2>1, LeastNat
  <1>4. PICK h \in H : h[1] = m /\ h[2] = n
    BY <1>3
  <1>5. \A g \in H : h[1] < g[1] \/ (h[1] = g[1] /\ h[2] <= g[2])
    <2> SUFFICES ASSUME NEW g \in H PROVE h[1] < g[1] \/ (h[1] = g[1] /\ h[2] <= g[2])
      OBVIOUS
    <2>1. m <= g[1] /\ m \in Nat /\ g[1] \in Nat
      BY <1>2
    <2>2. CASE m = g[1]
      <3>1. g \in First
        BY <2>2
      <3>2. n <= g[2]
        BY <1>3, <3>1
      <3>3. QED
        BY <1>4, <2>2, <3>2
    <2>3. CASE m # g[1]
      BY <1>4, <2>1, <2>3
    <2>4. QED
      BY <2>2, <2>3
  <1>6. \E x \in H : \A g \in H : x[1] < g[1] \/ (x[1] = g[1] /\ x[2] <= g[2])
    BY <1>4, <1>5
  <1>7. QED
    BY <1>6 DEF Best

-----------------------------------------------------------------------------
(* Parts of sequences *)

LEMMA FromIs ==
    ASSUME NEW S, NEW s \in Seq(S), NEW n \in 0 .. Len(s)
    PROVE  /\ From(s, n) \in Seq(S)
           /\ Len(From(s, n)) = Len(s) - n
           /\ \A i \in 1 .. Len(s) - n : From(s, n)[i] = s[n + i]
  <1>1. Len(s) \in Nat /\ n + 1 \in Int /\ \A i \in n + 1 .. Len(s) : s[i] \in S
    OBVIOUS
  <1>2. /\ SubSeq(s, n + 1, Len(s)) \in Seq(S)
        /\ Len(SubSeq(s, n + 1, Len(s))) = IF n + 1 <= Len(s) THEN Len(s) - (n + 1) + 1 ELSE 0
        /\ \A i \in 1 .. Len(s) - (n + 1) + 1 : SubSeq(s, n + 1, Len(s))[i] = s[(n + 1) + i - 1]
    BY <1>1, SubSeqProperties
  <1>3. QED
    BY <1>1, <1>2 DEF From

LEMMA FirstNIs ==
    ASSUME NEW S, NEW s \in Seq(S), NEW n \in Nat
    PROVE  /\ FirstN(s, n) \in Seq(S)
           /\ Len(FirstN(s, n)) = IF n < Len(s) THEN n ELSE Len(s)
           /\ \A i \in 1 .. Len(FirstN(s, n)) : FirstN(s, n)[i] = s[i]
  <1> DEFINE k == IF n < Len(s) THEN n ELSE Len(s)
  <1>1. Len(s) \in Nat /\ k \in Nat /\ k <= Len(s) /\ \A i \in 1 .. k : s[i] \in S
    OBVIOUS
  <1> HIDE DEF k
  <1>2. /\ SubSeq(s, 1, k) \in Seq(S)
        /\ Len(SubSeq(s, 1, k)) = IF 1 <= k THEN k - 1 + 1 ELSE 0
        /\ \A i \in 1 .. k - 1 + 1 : SubSeq(s, 1, k)[i] = s[1 + i - 1]
    BY <1>1, SubSeqProperties
  <1>3. /\ Len(SubSeq(s, 1, k)) = k
        /\ \A i \in 1 .. k : SubSeq(s, 1, k)[i] = s[i]
    BY <1>1, <1>2
  <1>4. FirstN(s, n) = SubSeq(s, 1, k)
    BY DEF FirstN, k
  <1>5. QED
    BY <1>2, <1>3, <1>4 DEF k

LEMMA BackIs ==
    ASSUME NEW S, NEW s \in Seq(S), NEW n \in Nat
    PROVE  /\ Back(s, n) \in 0 .. Len(s)
           /\ Len(s) - Back(s, n) = IF n < Len(s) THEN n ELSE Len(s)
  <1>1. Len(s) \in Nat
    OBVIOUS
  <1>2. CASE n < Len(s)
    BY <1>1, <1>2 DEF Back
  <1>3. CASE ~(n < Len(s))
    BY <1>1, <1>3 DEF Back
  <1>4. QED
    BY <1>2, <1>3

\* A sequence cut in two.
LEMMA CutIs ==
    ASSUME NEW S, NEW s \in Seq(S), NEW n \in 0 .. Len(s)
    PROVE  FirstN(s, n) \o From(s, n) = s
  <1>1. /\ FirstN(s, n) \in Seq(S) /\ Len(FirstN(s, n)) = n
        /\ \A i \in 1 .. n : FirstN(s, n)[i] = s[i]
    BY FirstNIs
  <1>2. /\ From(s, n) \in Seq(S) /\ Len(From(s, n)) = Len(s) - n
        /\ \A i \in 1 .. Len(s) - n : From(s, n)[i] = s[n + i]
    BY FromIs
  <1> DEFINE j == FirstN(s, n) \o From(s, n)
  <1>3. /\ j \in Seq(S) /\ Len(j) = n + (Len(s) - n)
        /\ \A i \in 1 .. n + (Len(s) - n) : j[i] = IF i <= n THEN FirstN(s, n)[i] ELSE From(s, n)[i - n]
    BY <1>1, <1>2, ConcatProperties
  <1> HIDE DEF j
  <1>4. Len(j) = Len(s) /\ \A i \in 1 .. Len(s) : j[i] = s[i]
    BY <1>1, <1>2, <1>3
  <1>5. j = s
    BY <1>3, <1>4, SeqEqual
  <1>6. QED
    BY <1>5 DEF j

\* Cutting what was cut.
LEMMA FromFrom ==
    ASSUME NEW S, NEW s \in Seq(S), NEW n \in 0 .. Len(s), NEW m \in 0 .. Len(s) - n
    PROVE  From(From(s, n), m) = From(s, n + m)
  <1> DEFINE t == From(s, n)
  <1>1. /\ t \in Seq(S) /\ Len(t) = Len(s) - n
        /\ \A i \in 1 .. Len(s) - n : t[i] = s[n + i]
    BY FromIs
  <1> HIDE DEF t
  <1>2. /\ From(t, m) \in Seq(S) /\ Len(From(t, m)) = Len(t) - m
        /\ \A i \in 1 .. Len(t) - m : From(t, m)[i] = t[m + i]
    <2>1. m \in 0 .. Len(t)
      BY <1>1
    <2>2. QED
      BY <1>1, <2>1, FromIs
  <1>3. n + m \in 0 .. Len(s)
    OBVIOUS
  <1>4. /\ From(s, n + m) \in Seq(S) /\ Len(From(s, n + m)) = Len(s) - (n + m)
        /\ \A i \in 1 .. Len(s) - (n + m) : From(s, n + m)[i] = s[(n + m) + i]
    BY <1>3, FromIs
  <1>5. Len(From(t, m)) = Len(From(s, n + m))
    <2>1. Len(s) \in Nat /\ (Len(s) - n) - m = Len(s) - (n + m)
      OBVIOUS
    <2>2. QED
      BY <1>1, <1>2, <1>4, <2>1
  <1>6. \A i \in 1 .. Len(From(t, m)) : From(t, m)[i] = From(s, n + m)[i]
    BY <1>1, <1>2, <1>4
  <1>7. From(t, m) = From(s, n + m)
    BY <1>2, <1>4, <1>5, <1>6, SeqEqual
  <1>8. QED
    BY <1>7 DEF t

\* Cutting a concatenation in its first part.
LEMMA FromConcat ==
    ASSUME NEW S, NEW s \in Seq(S), NEW d \in Seq(S), NEW n \in 0 .. Len(s)
    PROVE  From(s \o d, n) = From(s, n) \o d
  <1>1. /\ s \o d \in Seq(S) /\ Len(s \o d) = Len(s) + Len(d) /\ Len(s) \in Nat /\ Len(d) \in Nat
        /\ \A i \in 1 .. Len(s) + Len(d) : (s \o d)[i] = IF i <= Len(s) THEN s[i] ELSE d[i - Len(s)]
    BY ConcatProperties
  <1> DEFINE t == s \o d
             f == From(s, n)
             g == From(t, n)
             h == f \o d
  <1>2. /\ f \in Seq(S) /\ Len(f) = Len(s) - n
        /\ \A i \in 1 .. Len(s) - n : f[i] = s[n + i]
    BY FromIs
  <1> HIDE DEF t, f
  <1>3. n \in 0 .. Len(t)
    BY <1>1 DEF t
  <1>4. /\ g \in Seq(S) /\ Len(g) = Len(t) - n
        /\ \A i \in 1 .. Len(t) - n : g[i] = t[n + i]
    BY <1>1, <1>3, FromIs DEF t
  <1>5. /\ h \in Seq(S) /\ Len(h) = Len(f) + Len(d)
        /\ \A i \in 1 .. Len(f) + Len(d) : h[i] = IF i <= Len(f) THEN f[i] ELSE d[i - Len(f)]
    BY <1>2, ConcatProperties
  <1> HIDE DEF g, h
  <1>6. Len(g) = Len(h)
    BY <1>1, <1>2, <1>4, <1>5 DEF t
  <1>7. \A i \in 1 .. Len(g) : g[i] = h[i]
    <2> TAKE i \in 1 .. Len(g)
    <2>1. g[i] = IF n + i <= Len(s) THEN s[n + i] ELSE d[n + i - Len(s)]
      BY <1>1, <1>4 DEF t
    <2>2. h[i] = IF i <= Len(s) - n THEN s[n + i] ELSE d[i - (Len(s) - n)]
      BY <1>1, <1>2, <1>5, <1>6
    <2>3. i - (Len(s) - n) = n + i - Len(s) /\ (i <= Len(s) - n <=> n + i <= Len(s))
      BY <1>1, <1>4 DEF t
    <2>4. QED
      BY <2>1, <2>2, <2>3
  <1>8. g = h
    BY <1>4, <1>5, <1>6, <1>7, SeqEqual
  <1>9. QED
    BY <1>8 DEF g, h, t, f

\* What comes after the first part of a concatenation.
LEMMA FromWhole ==
    ASSUME NEW S, NEW s \in Seq(S), NEW d \in Seq(S)
    PROVE  From(s \o d, Len(s)) = d
  <1>1. /\ s \o d \in Seq(S) /\ Len(s \o d) = Len(s) + Len(d) /\ Len(s) \in Nat /\ Len(d) \in Nat
        /\ \A i \in 1 .. Len(s) + Len(d) : (s \o d)[i] = IF i <= Len(s) THEN s[i] ELSE d[i - Len(s)]
    BY ConcatProperties
  <1> DEFINE t == s \o d
  <1> HIDE DEF t
  <1>2. Len(s) \in 0 .. Len(t) /\ t \in Seq(S)
    BY <1>1 DEF t
  <1>3. /\ From(t, Len(s)) \in Seq(S) /\ Len(From(t, Len(s))) = Len(t) - Len(s)
        /\ \A i \in 1 .. Len(t) - Len(s) : From(t, Len(s))[i] = t[Len(s) + i]
    BY <1>2, FromIs
  <1>4. Len(From(t, Len(s))) = Len(d) /\ \A i \in 1 .. Len(d) : From(t, Len(s))[i] = d[i]
    BY <1>1, <1>3 DEF t
  <1>5. From(t, Len(s)) = d
    BY <1>3, <1>4, SeqEqual
  <1>6. QED
    BY <1>5 DEF t

-----------------------------------------------------------------------------
(* Ends of a sequence *)

\* IsSuffix, said with From.
LEMMA SuffixIs ==
    ASSUME NEW S, NEW s \in Seq(S), NEW t \in Seq(S)
    PROVE  IsSuffix(s, t) <=> Len(s) <= Len(t) /\ s = From(t, Len(t) - Len(s))
  <1> DEFINE rs == Reverse(s)
             rt == Reverse(t)
             k == Len(s)
             m == Len(t)
  <1>a. k \in Nat /\ m \in Nat /\ s \in [1 .. k -> S] /\ t \in [1 .. m -> S]
    OBVIOUS
  <1>1. /\ rs \in Seq(S) /\ Len(rs) = k
        /\ \A i \in 1 .. k : rs[i] = s[(k - i) + 1]
    BY <1>a DEF Reverse
  <1>2. /\ rt \in Seq(S) /\ Len(rt) = m
        /\ \A i \in 1 .. m : rt[i] = t[(m - i) + 1]
    BY <1>a DEF Reverse
  <1>3. IsSuffix(s, t) <=> k <= m /\ SubSeq(rs, 1, k) = SubSeq(rt, 1, k)
    BY <1>1, <1>2 DEF IsSuffix, IsPrefix
  <1> HIDE DEF rs, rt, k, m
  <1>4. ASSUME k <= m
        PROVE  SubSeq(rs, 1, k) = SubSeq(rt, 1, k) <=> s = From(t, m - k)
    <2>1. /\ SubSeq(rs, 1, k) \in Seq(S) /\ Len(SubSeq(rs, 1, k)) = k
          /\ \A i \in 1 .. k : SubSeq(rs, 1, k)[i] = rs[i]
      <3>1. \A i \in 1 .. k : rs[i] \in S
        BY <1>1
      <3>2. /\ SubSeq(rs, 1, k) \in Seq(S)
            /\ Len(SubSeq(rs, 1, k)) = IF 1 <= k THEN k - 1 + 1 ELSE 0
            /\ \A i \in 1 .. k - 1 + 1 : SubSeq(rs, 1, k)[i] = rs[1 + i - 1]
        BY <1>a, <3>1, SubSeqProperties
      <3>3. QED
        BY <1>a, <3>2
    <2>2. /\ SubSeq(rt, 1, k) \in Seq(S) /\ Len(SubSeq(rt, 1, k)) = k
          /\ \A i \in 1 .. k : SubSeq(rt, 1, k)[i] = rt[i]
      <3>1. \A i \in 1 .. k : rt[i] \in S
        BY <1>2, <1>4, <1>a
      <3>2. /\ SubSeq(rt, 1, k) \in Seq(S)
            /\ Len(SubSeq(rt, 1, k)) = IF 1 <= k THEN k - 1 + 1 ELSE 0
            /\ \A i \in 1 .. k - 1 + 1 : SubSeq(rt, 1, k)[i] = rt[1 + i - 1]
        BY <1>a, <3>1, SubSeqProperties
      <3>3. QED
        BY <1>a, <3>2
    <2>3. /\ From(t, m - k) \in Seq(S) /\ Len(From(t, m - k)) = k
          /\ \A i \in 1 .. k : From(t, m - k)[i] = t[(m - k) + i]
      <3>1. m - k \in 0 .. Len(t)
        BY <1>4, <1>a DEF m
      <3>2. /\ From(t, m - k) \in Seq(S)
            /\ Len(From(t, m - k)) = Len(t) - (m - k)
            /\ \A i \in 1 .. Len(t) - (m - k) : From(t, m - k)[i] = t[(m - k) + i]
        BY <3>1, FromIs
      <3>3. Len(t) - (m - k) = k
        BY <1>a DEF m
      <3>4. QED
        BY <3>2, <3>3
    <2>4. ASSUME SubSeq(rs, 1, k) = SubSeq(rt, 1, k) PROVE s = From(t, m - k)
      <3>1. ASSUME NEW i \in 1 .. k PROVE s[i] = From(t, m - k)[i]
        <4>1. (k - i) + 1 \in 1 .. k /\ (k - ((k - i) + 1)) + 1 = i /\ (m - ((k - i) + 1)) + 1 = (m - k) + i
          BY <1>a
        <4>2. rs[(k - i) + 1] = s[i]
          BY <1>1, <4>1
        <4>3. rt[(k - i) + 1] = t[(m - k) + i]
          BY <1>2, <1>4, <1>a, <4>1
        <4>4. rs[(k - i) + 1] = rt[(k - i) + 1]
          BY <2>1, <2>2, <2>4, <4>1
        <4>5. QED
          BY <2>3, <4>2, <4>3, <4>4
      <3>2. Len(s) = Len(From(t, m - k))
        BY <2>3 DEF k
      <3>3. QED
        BY <2>3, <3>1, <3>2, SeqEqual DEF k
    <2>5. ASSUME s = From(t, m - k) PROVE SubSeq(rs, 1, k) = SubSeq(rt, 1, k)
      <3>1. ASSUME NEW i \in 1 .. k PROVE rs[i] = rt[i]
        <4>1. (k - i) + 1 \in 1 .. k /\ (m - k) + ((k - i) + 1) = (m - i) + 1 /\ i \in 1 .. m
          BY <1>a, <1>4
        <4>2. s[(k - i) + 1] = t[(m - k) + ((k - i) + 1)]
          BY <2>3, <2>5, <4>1
        <4>3. QED
          BY <1>1, <1>2, <4>1, <4>2
      <3>2. QED
        BY <2>1, <2>2, <3>1, SeqEqual
    <2>6. QED
      BY <2>4, <2>5
  <1>5. QED
    BY <1>3, <1>4 DEF k, m

LEMMA FromIsSuffix ==
    ASSUME NEW S, NEW s \in Seq(S), NEW n \in 0 .. Len(s)
    PROVE  IsSuffix(From(s, n), s)
  <1>1. From(s, n) \in Seq(S) /\ Len(From(s, n)) = Len(s) - n /\ Len(s) \in Nat
    BY FromIs
  <1>2. Len(s) - n <= Len(s) /\ Len(s) - (Len(s) - n) = n
    BY <1>1
  <1>3. QED
    BY <1>1, <1>2, SuffixIs

LEMMA SuffixSelf ==
    ASSUME NEW S, NEW s \in Seq(S)
    PROVE  IsSuffix(s, s) /\ IsSuffix(<<>>, s)
  <1>1. Len(s) \in Nat /\ 0 \in 0 .. Len(s) /\ Len(s) \in 0 .. Len(s)
    OBVIOUS
  <1>2. From(s, 0) = s
    BY SubSeqFull DEF From
  <1>3. From(s, Len(s)) = <<>>
    BY <1>1, SubSeqEmpty DEF From
  <1>4. QED
    BY <1>1, <1>2, <1>3, FromIsSuffix

LEMMA SuffixTrans ==
    ASSUME NEW S, NEW r \in Seq(S), NEW s \in Seq(S), NEW t \in Seq(S),
           IsSuffix(r, s), IsSuffix(s, t)
    PROVE  IsSuffix(r, t)
  <1>1. Len(r) \in Nat /\ Len(s) \in Nat /\ Len(t) \in Nat
    OBVIOUS
  <1>2. Len(r) <= Len(s) /\ r = From(s, Len(s) - Len(r))
    BY SuffixIs
  <1>3. Len(s) <= Len(t) /\ s = From(t, Len(t) - Len(s))
    BY SuffixIs
  <1>4. /\ Len(t) - Len(s) \in 0 .. Len(t)
        /\ Len(s) - Len(r) \in 0 .. Len(t) - (Len(t) - Len(s))
        /\ (Len(t) - Len(s)) + (Len(s) - Len(r)) = Len(t) - Len(r)
    BY <1>1, <1>2, <1>3
  <1>5. r = From(t, Len(t) - Len(r))
    BY <1>2, <1>3, <1>4, FromFrom
  <1>6. Len(r) <= Len(t)
    BY <1>1, <1>2, <1>3
  <1>7. QED
    BY <1>5, <1>6, SuffixIs

LEMMA SuffixConcat ==
    ASSUME NEW S, NEW s \in Seq(S), NEW t \in Seq(S), NEW d \in Seq(S), IsSuffix(s, t)
    PROVE  /\ IsSuffix(s \o d, t \o d)
           /\ IsSuffix(d, t \o d)
  <1>1. /\ Len(s) \in Nat /\ Len(t) \in Nat /\ Len(d) \in Nat
        /\ s \o d \in Seq(S) /\ Len(s \o d) = Len(s) + Len(d)
        /\ t \o d \in Seq(S) /\ Len(t \o d) = Len(t) + Len(d)
    BY ConcatProperties
  <1>2. Len(s) <= Len(t) /\ s = From(t, Len(t) - Len(s))
    BY SuffixIs
  <1>3. Len(t) - Len(s) \in 0 .. Len(t) /\ Len(t) - Len(s) \in 0 .. Len(t \o d) /\ Len(t) \in 0 .. Len(t \o d)
    BY <1>1, <1>2
  <1>4. From(t \o d, Len(t) - Len(s)) = s \o d
    BY <1>2, <1>3, FromConcat
  <1>5. From(t \o d, Len(t)) = d
    BY FromWhole
  <1>6. QED
    BY <1>1, <1>3, <1>4, <1>5, FromIsSuffix

LEMMA LastNIs ==
    ASSUME NEW S, NEW s \in Seq(S), NEW n \in Nat
    PROVE  /\ LastN(s, n) \in Seq(S)
           /\ Len(LastN(s, n)) = IF n < Len(s) THEN n ELSE Len(s)
           /\ IsSuffix(LastN(s, n), s)
  BY BackIs, FromIs, FromIsSuffix DEF LastN

-----------------------------------------------------------------------------
(* The search *)

Calls == [search : Searches, w : Windows, timed : BOOLEAN]

LEMMA CallIs ==
    ASSUME NEW c \in Calls
    PROVE  /\ c.w \in Nat
           /\ c.search.exact \in BOOLEAN
           /\ c.search.strings \in Seq(Seq(Chars))
           /\ \A i \in DOMAIN c.search.strings : /\ i \in Nat
                                                 /\ c.search.strings[i] \in Seq(Chars)
  <1>1. c.search \in [strings : Seq(Seq(Chars)), exact : BOOLEAN] /\ c.w \in Nat
    BY ExpecterAssumption DEF Calls
  <1>2. c.search.strings \in Seq(Seq(Chars)) /\ c.search.exact \in BOOLEAN
    BY <1>1
  <1>3. QED
    BY <1>1, <1>2

\* The lengths of the first k strings of p.
Lengths(p, k) == {Len(p[i]) : i \in 1 .. k} \cup {0}

Greatest(T, n) == n \in T /\ \A m \in T : m <= n

LEMMA LongestExists ==
    ASSUME NEW p \in Seq(Seq(Chars))
    PROVE  \E n \in Nat : Greatest(Lengths(p, Len(p)), n)
  <1> DEFINE T == {k \in 0 .. Len(p) : ~ \E n \in Nat : Greatest(Lengths(p, k), n)}
  <1>1. SUFFICES ASSUME T # {} PROVE FALSE
    <2>1. Len(p) \in 0 .. Len(p)
      OBVIOUS
    <2>2. QED
      BY <1>1, <2>1
  <1>2. T \in SUBSET Nat
    OBVIOUS
  <1>3. PICK k \in T : \A j \in T : k <= j
    BY <1>1, <1>2, LeastNat
  <1>4. k # 0
    <2>1. Lengths(p, 0) = {0}
      BY DEF Lengths
    <2>2. Greatest(Lengths(p, 0), 0)
      BY <2>1 DEF Greatest
    <2>3. QED
      BY <1>3, <2>2
  <1>5. k - 1 \in 0 .. Len(p) /\ k - 1 < k /\ k \in 1 .. Len(p)
    BY <1>3, <1>4
  <1>6. k - 1 \notin T
    BY <1>3, <1>5
  <1>7. PICK n \in Nat : Greatest(Lengths(p, k - 1), n)
    BY <1>5, <1>6
  <1>8. Lengths(p, k) = Lengths(p, k - 1) \cup {Len(p[k])}
    <2>1. 1 .. k = (1 .. k - 1) \cup {k}
      BY <1>5
    <2>2. QED
      BY <2>1 DEF Lengths
  <1>9. Len(p[k]) \in Nat /\ \A m \in Lengths(p, k - 1) : m \in Nat
    <2>1. \A i \in 1 .. Len(p) : Len(p[i]) \in Nat
      OBVIOUS
    <2>2. QED
      BY <1>5, <2>1 DEF Lengths
  <1>10. CASE Len(p[k]) <= n
    <2>1. Greatest(Lengths(p, k), n)
      BY <1>7, <1>8, <1>9, <1>10 DEF Greatest
    <2>2. QED
      BY <1>3, <2>1
  <1>11. CASE n < Len(p[k])
    <2>1. \A m \in Lengths(p, k) : m <= Len(p[k])
      BY <1>7, <1>8, <1>9, <1>11 DEF Greatest
    <2>2. Greatest(Lengths(p, k), Len(p[k]))
      BY <1>8, <2>1 DEF Greatest
    <2>3. QED
      BY <1>3, <1>9, <2>2
  <1>12. QED
    BY <1>9, <1>10, <1>11

\* searcher_string looks back as far as its longest string.
LEMMA LookbackIs ==
    ASSUME NEW c \in Calls
    PROVE  /\ Lookback(c) \in Nat
           /\ ~c.search.exact => Lookback(c) = 0
           /\ c.search.exact =>
                 \A i \in DOMAIN c.search.strings : Len(c.search.strings[i]) <= Lookback(c)
           /\ Maintain(c) \in Nat
  <1> DEFINE p == c.search.strings
  <1>1. p \in Seq(Seq(Chars)) /\ DOMAIN p = 1 .. Len(p) /\ c.search.exact \in BOOLEAN /\ c.w \in Nat
    BY CallIs
  <1> HIDE DEF p
  <1>2. CASE c.search.exact
    <2>1. Lookback(c) = CHOOSE n \in Lengths(p, Len(p)) : \A m \in Lengths(p, Len(p)) : m <= n
      BY <1>1, <1>2 DEF Lookback, Lengths, p
    <2>2. \E n \in Lengths(p, Len(p)) : \A m \in Lengths(p, Len(p)) : m <= n
      BY <1>1, LongestExists DEF Greatest
    <2>3. Lookback(c) \in Lengths(p, Len(p)) /\ \A m \in Lengths(p, Len(p)) : m <= Lookback(c)
      BY <2>1, <2>2
    <2>4. \A i \in 1 .. Len(p) : Len(p[i]) \in Nat
      BY <1>1
    <2>5. Lookback(c) \in Nat /\ \A i \in DOMAIN p : Len(p[i]) <= Lookback(c)
      BY <1>1, <2>3, <2>4 DEF Lengths
    <2>6. QED
      BY <1>1, <1>2, <2>5 DEF Maintain, p
  <1>3. CASE ~c.search.exact
    BY <1>1, <1>3 DEF Lookback, Maintain
  <1>4. QED
    BY <1>1, <1>2, <1>3

\* Where a search may begin is a place of the window.
LEMMA StartIs ==
    ASSUME NEW c \in Calls, NEW win \in Seq(Chars), NEW fresh \in Nat, NEW s \in Seq(Chars)
    PROVE  /\ SearchStart(win, fresh, c, s) \in 0 .. Len(win)
           /\ c.w # 0 => SearchStart(win, fresh, c, s) = Back(win, c.w)
           /\ c.w = 0 /\ ~c.search.exact => SearchStart(win, fresh, c, s) = 0
           /\ c.w = 0 /\ c.search.exact =>
                 SearchStart(win, fresh, c, s) = Back(win, fresh + Len(s))
  <1>1. c.w \in Nat /\ fresh + Len(s) \in Nat /\ Len(win) \in Nat
    BY CallIs
  <1>2. Back(win, c.w) \in 0 .. Len(win) /\ Back(win, fresh + Len(s)) \in 0 .. Len(win)
    BY <1>1, BackIs
  <1>3. QED
    BY <1>1, <1>2 DEF SearchStart

\* The match that do_search takes.
LEMMA HitIs ==
    ASSUME NEW c \in Calls, NEW win \in Seq(Chars), NEW fresh \in Nat,
           Hits(win, fresh, c) # {}
    PROVE  LET H == Hits(win, fresh, c)
               h == Best(H)
               s == c.search.strings[h[2]]
           IN  /\ h \in H
               /\ h[1] \in 0 .. Len(win)
               /\ h[2] \in DOMAIN c.search.strings
               /\ h[1] \in Nat /\ h[2] \in Nat
               /\ s \in Seq(Chars)
               /\ h[1] >= SearchStart(win, fresh, c, s)
               /\ StandsAt(win, s, h[1])
               /\ \A g \in H : h[1] < g[1] \/ (h[1] = g[1] /\ h[2] <= g[2])
  <1> DEFINE H == Hits(win, fresh, c)
             h == Best(H)
             s == c.search.strings[h[2]]
  <1>1. \A i \in DOMAIN c.search.strings : i \in Nat /\ c.search.strings[i] \in Seq(Chars)
    BY CallIs
  <1>2. H \in SUBSET (Nat \X Nat)
    BY <1>1 DEF Hits
  <1>3. h \in H /\ \A g \in H : h[1] < g[1] \/ (h[1] = g[1] /\ h[2] <= g[2])
    BY <1>2, BestIs
  <1>4. /\ h[1] \in 0 .. Len(win)
        /\ h[2] \in DOMAIN c.search.strings
        /\ h[1] >= SearchStart(win, fresh, c, s)
        /\ StandsAt(win, s, h[1])
    BY <1>3 DEF Hits
  <1>5. QED
    BY <1>1, <1>3, <1>4

LEMMA ThreeParts ==
    \A p, q, r \in Seq(Chars) : p \o (q \o r) = (p \o q) \o r
  BY ConcatAssociative

LEMMA FourParts ==
    \A p, q, r, t \in Seq(Chars) : ((p \o q) \o r) \o t = p \o (q \o (r \o t))
  <1> TAKE p, q, r, t \in Seq(Chars)
  <1> DEFINE pq == p \o q
             rt == r \o t
  <1>1. pq \in Seq(Chars) /\ rt \in Seq(Chars)
    BY ConcatProperties
  <1>2. p \o (q \o rt) = pq \o rt
    <2> HIDE DEF rt
    <2>1. \A c \in Seq(Chars) : p \o (q \o c) = (p \o q) \o c
      BY ThreeParts, Zenon
    <2>2. QED
      BY <1>1, <2>1, Zenon
  <1>3. pq \o (r \o t) = (pq \o r) \o t
    <2> HIDE DEF pq
    <2>1. \A b, c \in Seq(Chars) : pq \o (b \o c) = (pq \o b) \o c
      BY <1>1, ThreeParts, Zenon
    <2>2. QED
      BY <2>1, Zenon
  <1>4. QED
    BY <1>2, <1>3

\* A match and what follows it in the text.
LEMMA MatchRest ==
    ASSUME NEW S, NEW s \in Seq(S), NEW m \in Seq(S), NEW n \in 0 .. Len(s), StandsAt(s, m, n)
    PROVE  /\ n + Len(m) \in 0 .. Len(s)
           /\ m \o From(s, n + Len(m)) = From(s, n)
  <1> DEFINE f == From(s, n)
             k == Len(m)
  <1>1. k \in Nat /\ Len(s) \in Nat /\ n + k <= Len(s) /\ SubSeq(s, n + 1, n + k) = m
    BY DEF StandsAt
  <1>2. /\ f \in Seq(S) /\ Len(f) = Len(s) - n
        /\ \A i \in 1 .. Len(s) - n : f[i] = s[n + i]
    BY FromIs
  <1> HIDE DEF f, k
  <1>3. \A i \in 1 .. k : m[i] = s[n + i]
    <2>1. n + 1 \in Int /\ n + k \in Int /\ \A i \in n + 1 .. n + k : s[i] \in S
      BY <1>1
    <2>2. \A i \in 1 .. (n + k) - (n + 1) + 1 : SubSeq(s, n + 1, n + k)[i] = s[(n + 1) + i - 1]
      BY <2>1, SubSeqProperties
    <2>3. (n + k) - (n + 1) + 1 = k /\ \A i \in 1 .. k : (n + 1) + i - 1 = n + i
      BY <1>1
    <2>4. QED
      BY <1>1, <2>2, <2>3
  <1>4. FirstN(f, k) = m
    <2>1. /\ FirstN(f, k) \in Seq(S)
          /\ Len(FirstN(f, k)) = IF k < Len(f) THEN k ELSE Len(f)
          /\ \A i \in 1 .. Len(FirstN(f, k)) : FirstN(f, k)[i] = f[i]
      BY <1>1, <1>2, FirstNIs
    <2>a. k <= Len(s) - n /\ \A i \in 1 .. k : i \in 1 .. Len(s) - n
      BY <1>1
    <2>2. Len(FirstN(f, k)) = k
      BY <1>1, <1>2, <2>1, <2>a
    <2>3. \A i \in 1 .. k : m[i] = FirstN(f, k)[i]
      BY <1>2, <1>3, <2>1, <2>2, <2>a
    <2>4. QED
      BY <2>1, <2>2, <2>3, SeqEqual DEF k
  <1>5. k \in 0 .. Len(f) /\ k \in 0 .. Len(s) - n
    BY <1>1, <1>2
  <1>6. FirstN(f, k) \o From(f, k) = f
    BY <1>2, <1>5, CutIs
  <1>7. From(f, k) = From(s, n + k)
    BY <1>5, FromFrom DEF f
  <1>8. n + k \in 0 .. Len(s)
    BY <1>1
  <1>9. QED
    BY <1>4, <1>6, <1>7, <1>8 DEF f, k

\* do_search uses up the text before the match and the match, or nothing; what is left in
\* _buffer is the end of what is left in _before.
LEMMA SearchIs ==
    ASSUME NEW c \in Calls, NEW before \in Seq(Chars), NEW buffer \in Seq(Chars),
           NEW win \in Seq(Chars), NEW fresh \in Nat,
           IsSuffix(win, buffer), IsSuffix(buffer, before), taken \in Seq(Chars),
           DoSearch(c, before, buffer, win, fresh)
    PROVE  /\ received' \in Seq(Chars) /\ window' \in Seq(Chars) /\ taken' \in Seq(Chars)
           /\ IsSuffix(window', received')
           /\ taken' \o received' = taken \o before
           /\ \/ pc' = "idle" /\ call' = NoCall /\ answer'.kind = "match"
              \/ pc' = "loop" /\ call' = c /\ answer' = answer
  <1>1. CASE Hits(win, fresh, c) # {}
    <2> DEFINE h == Best(Hits(win, fresh, c))
               m == c.search.strings[h[2]]
               cut == Len(before) - (Len(win) - h[1])
               rest == From(win, h[1] + Len(m))
               skipped == FirstN(before, cut)
    <2>1. /\ answer' = [kind |-> "match", index |-> h[2], before |-> skipped, after |-> m]
          /\ taken' = taken \o skipped \o m
          /\ received' = rest
          /\ window' = rest
          /\ pc' = "idle"
          /\ call' = NoCall
      BY <1>1 DEF DoSearch
    <2>2. h[1] \in 0 .. Len(win) /\ m \in Seq(Chars) /\ StandsAt(win, m, h[1])
      BY <1>1, HitIs
    <2> HIDE DEF h, m
    <2>3. h[1] + Len(m) \in 0 .. Len(win) /\ m \o rest = From(win, h[1])
      BY <2>2, MatchRest
    <2>4. rest \in Seq(Chars)
      BY <2>3, FromIs
    <2>5. IsSuffix(win, before)
      BY SuffixTrans
    <2>6. Len(win) <= Len(before) /\ win = From(before, Len(before) - Len(win))
      BY <2>5, SuffixIs
    <2>7. /\ Len(before) - Len(win) \in 0 .. Len(before) /\ cut \in 0 .. Len(before)
          /\ h[1] \in 0 .. Len(before) - (Len(before) - Len(win))
          /\ (Len(before) - Len(win)) + h[1] = cut
      <3>1. Len(before) \in Nat /\ Len(win) \in Nat
        OBVIOUS
      <3>2. QED
        BY <2>2, <2>6, <3>1
    <2>8. From(win, h[1]) = From(before, cut)
      BY <2>6, <2>7, FromFrom
    <2> HIDE DEF cut, rest
    <2>9. skipped \in Seq(Chars) /\ skipped \o From(before, cut) = before
      <3>1. cut \in Nat
        BY <2>7
      <3>2. skipped \in Seq(Chars)
        BY <3>1, FirstNIs
      <3>3. FirstN(before, cut) \o From(before, cut) = before
        BY <2>7, CutIs
      <3>4. QED
        BY <3>2, <3>3
    <2> HIDE DEF skipped
    <2>10. (taken \o skipped) \o m \in Seq(Chars)
      BY <2>2, <2>9, ConcatProperties
    <2>11. ((taken \o skipped) \o m) \o rest = taken \o before
      <3>2. ((taken \o skipped) \o m) \o rest = taken \o (skipped \o (m \o rest))
        <4>1. /\ taken \in Seq(Chars) /\ skipped \in Seq(Chars) /\ m \in Seq(Chars)
              /\ rest \in Seq(Chars)
          BY <2>2, <2>4, <2>9
        <4>2. \A q, r, t \in Seq(Chars) : ((taken \o q) \o r) \o t = taken \o (q \o (r \o t))
          BY <4>1, FourParts, Zenon
        <4>3. \A r, t \in Seq(Chars) : ((taken \o skipped) \o r) \o t = taken \o (skipped \o (r \o t))
          BY <4>1, <4>2, Zenon
        <4>4. \A t \in Seq(Chars) : ((taken \o skipped) \o m) \o t = taken \o (skipped \o (m \o t))
          BY <4>1, <4>3, Zenon
        <4>5. QED
          BY <4>1, <4>4, Zenon
      <3>3. QED
        BY <2>3, <2>8, <2>9, <3>2
    <2>12. IsSuffix(rest, rest)
      BY <2>4, SuffixSelf
    <2>13. answer'.kind = "match"
      BY <2>1
    <2>14. QED
      BY <2>1, <2>4, <2>10, <2>11, <2>12, <2>13
  <1>2. CASE Hits(win, fresh, c) = {}
    <2>1. /\ received' = before /\ window' = Trimmed(c, buffer, win)
          /\ pc' = "loop" /\ call' = c /\ answer' = answer /\ taken' = taken
      BY <1>2 DEF DoSearch
    <2>2. Maintain(c) \in Nat
      BY LookbackIs
    <2>3. LastN(win, Maintain(c)) \in Seq(Chars) /\ IsSuffix(LastN(win, Maintain(c)), win)
      BY <2>2, LastNIs
    <2>4. IsSuffix(LastN(win, Maintain(c)), buffer)
      BY <2>3, SuffixTrans
    <2>5. IsSuffix(LastN(win, Maintain(c)), before)
      BY <2>3, <2>4, SuffixTrans
    <2>6. window' \in Seq(Chars) /\ IsSuffix(window', before)
      BY <2>1, <2>3, <2>5 DEF Trimmed
    <2>7. QED
      BY <2>1, <2>6
  <1>3. QED
    BY <1>1, <1>2

\* The window that existing_data searches.
LEMMA ExistingIs ==
    ASSUME NEW c \in Calls, received \in Seq(Chars), window \in Seq(Chars),
           IsSuffix(window, received)
    PROVE  LET refill == IF c.w = 0 THEN received
                         ELSE IF Len(window) < c.w THEN LastN(received, c.w) ELSE window
               buffer == IF Len(received) > Len(window) THEN refill ELSE window
               win == IF c.w = 0 THEN buffer ELSE LastN(buffer, c.w)
           IN  /\ buffer \in Seq(Chars) /\ win \in Seq(Chars)
               /\ IsSuffix(win, buffer) /\ IsSuffix(buffer, received)
  <1> DEFINE refill == IF c.w = 0 THEN received
                       ELSE IF Len(window) < c.w THEN LastN(received, c.w) ELSE window
             buffer == IF Len(received) > Len(window) THEN refill ELSE window
             win == IF c.w = 0 THEN buffer ELSE LastN(buffer, c.w)
  <1>1. c.w \in Nat
    BY CallIs
  <1>2. LastN(received, c.w) \in Seq(Chars) /\ IsSuffix(LastN(received, c.w), received)
    BY <1>1, LastNIs
  <1>3. refill \in Seq(Chars) /\ IsSuffix(refill, received)
    BY <1>2, SuffixSelf
  <1> HIDE DEF refill
  <1>4. buffer \in Seq(Chars) /\ IsSuffix(buffer, received)
    BY <1>3
  <1> HIDE DEF buffer
  <1>5. LastN(buffer, c.w) \in Seq(Chars) /\ IsSuffix(LastN(buffer, c.w), buffer)
    BY <1>1, <1>4, LastNIs
  <1>6. win \in Seq(Chars) /\ IsSuffix(win, buffer)
    BY <1>4, <1>5, SuffixSelf
  <1>7. QED
    BY <1>4, <1>6 DEF buffer, refill

\* The window that new_data searches.
LEMMA NewIs ==
    ASSUME NEW c \in Calls, NEW data \in Seq(Chars), received \in Seq(Chars),
           window \in Seq(Chars), IsSuffix(window, received)
    PROVE  LET joined == window \o data
               buffer == IF c.w # 0 /\ (Len(data) >= c.w \/ window = <<>>)
                         THEN LastN(data, c.w) ELSE joined
               win == IF c.w # 0 THEN LastN(buffer, c.w)
                      ELSE IF Lookback(c) # 0 THEN From(joined, Back(window, Lookback(c)))
                      ELSE joined
           IN  /\ received \o data \in Seq(Chars) /\ joined \in Seq(Chars)
               /\ buffer \in Seq(Chars) /\ win \in Seq(Chars)
               /\ IsSuffix(win, buffer) /\ IsSuffix(buffer, received \o data)
  <1> DEFINE joined == window \o data
             buffer == IF c.w # 0 /\ (Len(data) >= c.w \/ window = <<>>)
                       THEN LastN(data, c.w) ELSE joined
             win == IF c.w # 0 THEN LastN(buffer, c.w)
                    ELSE IF Lookback(c) # 0 THEN From(joined, Back(window, Lookback(c)))
                    ELSE joined
  <1>1. c.w \in Nat /\ Lookback(c) \in Nat
    BY CallIs, LookbackIs
  <1>2. /\ received \o data \in Seq(Chars) /\ joined \in Seq(Chars)
        /\ Len(joined) = Len(window) + Len(data)
    BY ConcatProperties
  <1>3. IsSuffix(joined, received \o data) /\ IsSuffix(data, received \o data)
    BY SuffixConcat
  <1>4. LastN(data, c.w) \in Seq(Chars) /\ IsSuffix(LastN(data, c.w), data)
    BY <1>1, LastNIs
  <1>5. IsSuffix(LastN(data, c.w), received \o data)
    BY <1>2, <1>3, <1>4, SuffixTrans
  <1> HIDE DEF joined
  <1>6. buffer \in Seq(Chars) /\ IsSuffix(buffer, received \o data)
    BY <1>2, <1>3, <1>4, <1>5
  <1>7. LastN(buffer, c.w) \in Seq(Chars) /\ IsSuffix(LastN(buffer, c.w), buffer)
    BY <1>1, <1>6, LastNIs
  <1>8. Back(window, Lookback(c)) \in 0 .. Len(joined)
    <2>1. Back(window, Lookback(c)) \in 0 .. Len(window)
      BY <1>1, BackIs
    <2>2. Len(window) \in Nat /\ Len(data) \in Nat
      OBVIOUS
    <2>3. QED
      BY <1>2, <2>1, <2>2
  <1>9. /\ From(joined, Back(window, Lookback(c))) \in Seq(Chars)
        /\ IsSuffix(From(joined, Back(window, Lookback(c))), joined)
    BY <1>2, <1>8, FromIs, FromIsSuffix
  <1>10. IsSuffix(joined, joined)
    BY <1>2, SuffixSelf
  <1>11. c.w = 0 => buffer = joined
    OBVIOUS
  <1> HIDE DEF buffer
  <1>12. win \in Seq(Chars) /\ IsSuffix(win, buffer)
    BY <1>2, <1>7, <1>9, <1>10, <1>11
  <1>13. QED
    BY <1>2, <1>6, <1>12 DEF joined, buffer

-----------------------------------------------------------------------------
(* The invariant *)

Typed ==
    /\ TypeOK
    /\ unread \in Seq(Chars)
    /\ queue \in Seq(Seq(Chars) \cup {Closed})
    /\ buf \in Seq(Chars)
    /\ received \in Seq(Chars)
    /\ window \in Seq(Chars)
    /\ taken \in Seq(Chars)
    /\ torn \in Seq(Chars)
    /\ pc # "idle" => call \in Calls

\* The mark of the end comes last, and once it is taken nothing is left anywhere.
EndMarked ==
    /\ ended => unread = <<>>
    /\ \A i \in 1 .. Len(queue) : queue[i] = Closed => ended /\ i = Len(queue)
    /\ reachedEof => ended /\ queue = <<>> /\ buf = <<>>
    /\ answer.kind = "EOF" => reachedEof

EInv == Typed /\ BufferIsTheEnd /\ EndMarked

LEMMA EInitInv == Init => EInv
  <1> SUFFICES ASSUME Init PROVE EInv
    OBVIOUS
  <1> USE ExpecterAssumption DEF Init
  <1>1. unread \in Seq(Chars)
    OBVIOUS
  <1>2. <<>> \in Seq(Chars) /\ queue \in Seq(Seq(Chars) \cup {Closed}) /\ Len(queue) = 0
    OBVIOUS
  <1>3. TypeOK
    <2>1. answer.kind = "none" /\ pc = "idle" /\ call = NoCall /\ calls \in 0 .. MaxCalls
      OBVIOUS
    <2>2. ended \in BOOLEAN /\ reachedEof \in BOOLEAN
      OBVIOUS
    <2>3. QED
      BY <2>1, <2>2 DEF TypeOK
  <1>4. BufferIsTheEnd
    BY <1>2, SuffixSelf DEF BufferIsTheEnd
  <1>5. EndMarked
    BY <1>2 DEF EndMarked
  <1>6. QED
    BY <1>1, <1>2, <1>3, <1>4, <1>5 DEF EInv, Typed

\* What a search leaves is of its type, and the call is over or goes on.
LEMMA SearchedInv ==
    ASSUME EInv, NEW c \in Calls, NEW before \in Seq(Chars),
           received' \in Seq(Chars), window' \in Seq(Chars), taken' \in Seq(Chars),
           IsSuffix(window', received'),
           \/ pc' = "idle" /\ call' = NoCall /\ answer'.kind = "match"
           \/ pc' = "loop" /\ call' = c /\ answer' = answer
    PROVE  /\ BufferIsTheEnd'
           /\ pc' \in {"idle", "loop"}
           /\ (call' = NoCall <=> pc' = "idle")
           /\ pc' # "idle" => call' \in Calls
           /\ answer'.kind \in {"none", "match", "TIMEOUT", "EOF", "error"}
           /\ answer'.kind = "EOF" => answer.kind = "EOF"
  <1>1. NoCall \notin Calls
    BY ExpecterAssumption DEF Calls
  <1>2. answer.kind \in {"none", "match", "TIMEOUT", "EOF", "error"}
    BY DEF EInv, Typed, TypeOK
  <1>3. QED
    BY <1>1, <1>2 DEF BufferIsTheEnd

LEMMA ExpectInv ==
    ASSUME EInv, NEW s \in Searches, NEW w \in Windows, NEW timed \in BOOLEAN,
           Expect(s, w, timed)
    PROVE  EInv'
  <1> DEFINE c == [search |-> s, w |-> w, timed |-> timed]
  <1>a. received \in Seq(Chars) /\ window \in Seq(Chars) /\ taken \in Seq(Chars)
        /\ IsSuffix(window, received)
    BY DEF EInv, Typed, BufferIsTheEnd
  <1>b. /\ calls < MaxCalls /\ calls' = calls + 1
        /\ UNCHANGED <<unread, queue, ended, reachedEof, buf, torn>>
        /\ ExistingData(c)
    BY DEF Expect, thread
  <1>c. c \in Calls
    BY DEF Calls
  <1> HIDE DEF c
  <1> DEFINE refill == IF c.w = 0 THEN received
                       ELSE IF Len(window) < c.w THEN LastN(received, c.w) ELSE window
             buffer == IF Len(received) > Len(window) THEN refill ELSE window
             win == IF c.w = 0 THEN buffer ELSE LastN(buffer, c.w)
  <1>1. /\ buffer \in Seq(Chars) /\ win \in Seq(Chars)
        /\ IsSuffix(win, buffer) /\ IsSuffix(buffer, received)
    BY <1>a, <1>c, ExistingIs
  <1>2. DoSearch(c, received, buffer, win, Len(received))
    BY <1>b DEF ExistingData
  <1> HIDE DEF buffer, win
  <1>3. Len(received) \in Nat
    BY <1>a
  <1>4. /\ received' \in Seq(Chars) /\ window' \in Seq(Chars) /\ taken' \in Seq(Chars)
        /\ IsSuffix(window', received')
        /\ \/ pc' = "idle" /\ call' = NoCall /\ answer'.kind = "match"
           \/ pc' = "loop" /\ call' = c /\ answer' = answer
    BY <1>a, <1>c, <1>1, <1>2, <1>3, SearchIs
  <1>5. /\ BufferIsTheEnd'
        /\ pc' \in {"idle", "loop"}
        /\ (call' = NoCall <=> pc' = "idle")
        /\ pc' # "idle" => call' \in Calls
        /\ answer'.kind \in {"none", "match", "TIMEOUT", "EOF", "error"}
        /\ answer'.kind = "EOF" => answer.kind = "EOF"
    BY <1>a, <1>c, <1>4, SearchedInv
  <1>6. calls' \in 0 .. MaxCalls
    BY <1>b, ExpecterAssumption DEF EInv, Typed, TypeOK
  <1>7. Typed'
    BY <1>b, <1>4, <1>5, <1>6 DEF EInv, Typed, TypeOK
  <1>8. EndMarked'
    BY <1>b, <1>5 DEF EInv, EndMarked
  <1>9. QED
    BY <1>5, <1>7, <1>8 DEF EInv

LEMMA EofTakesAll == ASSUME NEW s \in Seq(Chars) PROVE s \o <<>> = s /\ <<>> \o s = s
  BY ConcatEmptySeq

\* A call that gives up, and the start of a read.
LEMMA GivesUpInv == EInv /\ (TimeOut \/ Eof \/ StartRead) => EInv'
  <1>1. ASSUME EInv, TimeOut PROVE EInv'
    <2>1. /\ answer'.kind = "TIMEOUT" /\ pc' = "idle" /\ call' = NoCall
          /\ UNCHANGED <<unread, queue, ended, calls, reachedEof, buf, received, window, taken, torn>>
      BY <1>1 DEF TimeOut, Give, thread
    <2>2. QED
      BY <1>1, <2>1 DEF EInv, Typed, TypeOK, BufferIsTheEnd, EndMarked
  <1>2. ASSUME EInv, Eof PROVE EInv'
    <2>1. /\ answer'.kind = "EOF" /\ pc' = "idle" /\ call' = NoCall /\ reachedEof
          /\ taken' = taken \o received /\ received' = <<>> /\ window' = <<>>
          /\ UNCHANGED <<unread, queue, ended, calls, reachedEof, buf, torn>>
      BY <1>2 DEF Eof, Give, thread
    <2>2. taken' \in Seq(Chars) /\ <<>> \in Seq(Chars)
      BY <1>2, <2>1, ConcatProperties DEF EInv, Typed
    <2>3. BufferIsTheEnd'
      BY <2>1, <2>2, SuffixSelf DEF BufferIsTheEnd
    <2>4. QED
      BY <1>2, <2>1, <2>2, <2>3 DEF EInv, Typed, TypeOK, EndMarked
  <1>3. ASSUME EInv, StartRead PROVE EInv'
    <2>1. /\ pc = "loop" /\ pc' = "reading"
          /\ UNCHANGED <<unread, queue, ended, call, calls, reachedEof, buf, received, window,
                         answer, taken, torn>>
      BY <1>3 DEF StartRead, thread
    <2>2. QED
      BY <1>3, <2>1 DEF EInv, Typed, TypeOK, BufferIsTheEnd, EndMarked
  <1>4. QED
    BY <1>1, <1>2, <1>3

\* The end of a read: the piece is searched, or the log fails on it.
LEMMA HandOverIs ==
    ASSUME EInv, pc = "reading", HandOver(buf)
    PROVE  LET piece == FirstN(buf, MaxRead) IN
           /\ piece \in Seq(Chars) /\ Len(piece) <= Len(buf)
           /\ Len(buf) <= MaxRead => Len(piece) = Len(buf)
           /\ buf' = From(buf, Len(piece)) /\ buf' \in Seq(Chars)
           /\ received' \in Seq(Chars) /\ window' \in Seq(Chars) /\ taken' \in Seq(Chars)
           /\ torn' \in Seq(Chars)
           /\ BufferIsTheEnd'
           /\ pc' \in {"idle", "loop"}
           /\ (call' = NoCall <=> pc' = "idle")
           /\ pc' # "idle" => call' \in Calls
           /\ answer'.kind \in {"none", "match", "TIMEOUT", "EOF", "error"}
           /\ answer'.kind = "EOF" => answer.kind = "EOF"
           /\ \/ torn' = torn /\ taken' \o received' = taken \o (received \o piece)
              \/ torn' # <<>> /\ torn' = torn \o piece /\ UNCHANGED <<received, taken>>
  <1> DEFINE piece == FirstN(buf, MaxRead)
  <1>a. /\ received \in Seq(Chars) /\ window \in Seq(Chars) /\ taken \in Seq(Chars)
        /\ buf \in Seq(Chars) /\ torn \in Seq(Chars) /\ call \in Calls
        /\ IsSuffix(window, received)
    BY DEF EInv, Typed, BufferIsTheEnd
  <1>b. MaxRead \in Nat
    BY ExpecterAssumption
  <1>1. piece \in Seq(Chars) /\ Len(piece) = IF MaxRead < Len(buf) THEN MaxRead ELSE Len(buf)
    BY <1>a, <1>b, FirstNIs
  <1>c. /\ buf' = From(buf, Len(piece))
        /\ IF Decodes(piece)
           THEN NewData(call, piece) /\ torn' = torn
           ELSE /\ answer'.kind = "error" /\ pc' = "idle" /\ call' = NoCall
                /\ torn' = torn \o piece
                /\ UNCHANGED <<received, window, taken>>
    BY DEF HandOver, Give
  <1> HIDE DEF piece
  <1>2. /\ Len(piece) \in 0 .. Len(buf) /\ Len(piece) <= Len(buf)
        /\ Len(buf) <= MaxRead => Len(piece) = Len(buf)
    <2>1. Len(buf) \in Nat
      BY <1>a
    <2>2. QED
      BY <1>b, <1>1, <2>1
  <1>3. buf' \in Seq(Chars)
    BY <1>a, <1>c, <1>2, FromIs
  <1>4. CASE Decodes(piece)
    <2> DEFINE joined == window \o piece
               buffer == IF call.w # 0 /\ (Len(piece) >= call.w \/ window = <<>>)
                         THEN LastN(piece, call.w) ELSE joined
               win == IF call.w # 0 THEN LastN(buffer, call.w)
                      ELSE IF Lookback(call) # 0 THEN From(joined, Back(window, Lookback(call)))
                      ELSE joined
    <2>1. /\ received \o piece \in Seq(Chars)
          /\ buffer \in Seq(Chars) /\ win \in Seq(Chars)
          /\ IsSuffix(win, buffer) /\ IsSuffix(buffer, received \o piece)
      BY <1>a, <1>1, NewIs
    <2>2. DoSearch(call, received \o piece, buffer, win, Len(piece))
      BY <1>4, <1>c DEF NewData
    <2> HIDE DEF buffer, win
    <2>3. Len(piece) \in Nat
      BY <1>1
    <2>4. /\ received' \in Seq(Chars) /\ window' \in Seq(Chars) /\ taken' \in Seq(Chars)
          /\ IsSuffix(window', received')
          /\ taken' \o received' = taken \o (received \o piece)
          /\ \/ pc' = "idle" /\ call' = NoCall /\ answer'.kind = "match"
             \/ pc' = "loop" /\ call' = call /\ answer' = answer
      BY <1>a, <2>1, <2>2, <2>3, SearchIs
    <2>5. /\ BufferIsTheEnd'
          /\ pc' \in {"idle", "loop"}
          /\ (call' = NoCall <=> pc' = "idle")
          /\ pc' # "idle" => call' \in Calls
          /\ answer'.kind \in {"none", "match", "TIMEOUT", "EOF", "error"}
          /\ answer'.kind = "EOF" => answer.kind = "EOF"
      BY <1>a, <2>4, SearchedInv
    <2>6. QED
      BY <1>a, <1>c, <1>1, <1>2, <1>3, <1>4, <2>4, <2>5 DEF piece
  <1>5. CASE ~Decodes(piece)
    <2>1. /\ answer'.kind = "error" /\ pc' = "idle" /\ call' = NoCall
          /\ torn' = torn \o piece
          /\ UNCHANGED <<received, window, taken>>
      BY <1>5, <1>c
    <2>2. torn' \in Seq(Chars) /\ torn' # <<>>
      <3>1. piece # <<>>
        BY <1>5 DEF Decodes
      <3>2. QED
        BY <1>a, <1>1, <2>1, <3>1, ConcatProperties, ConcatEqualIffEmpty
    <2>3. BufferIsTheEnd'
      BY <1>a, <2>1 DEF BufferIsTheEnd
    <2>4. QED
      BY <1>a, <1>c, <1>1, <1>2, <1>3, <2>1, <2>2, <2>3 DEF piece
  <1>6. QED
    BY <1>4, <1>5

LEMMA QueueTail ==
    ASSUME EInv, queue # <<>>
    PROVE  /\ Len(queue) \in Nat /\ Len(queue) > 0
           /\ Head(queue) = queue[1]
           /\ Head(queue) # Closed => Head(queue) \in Seq(Chars)
           /\ Tail(queue) \in Seq(Seq(Chars) \cup {Closed})
           /\ Len(Tail(queue)) = Len(queue) - 1
           /\ \A i \in 1 .. Len(queue) - 1 : Tail(queue)[i] = queue[i + 1]
           /\ \A i \in 1 .. Len(queue) - 1 : i + 1 \in 1 .. Len(queue)
  <1>1. queue \in Seq(Seq(Chars) \cup {Closed})
    BY DEF EInv, Typed
  <1>2. Len(queue) \in Nat /\ Len(queue) > 0 /\ Head(queue) = queue[1]
    BY <1>1
  <1>3. /\ Head(queue) \in Seq(Chars) \cup {Closed}
        /\ Tail(queue) \in Seq(Seq(Chars) \cup {Closed})
        /\ Len(Tail(queue)) = Len(queue) - 1
        /\ \A i \in 1 .. Len(Tail(queue)) : Tail(queue)[i] = queue[i + 1]
    BY <1>1, HeadTailProperties
  <1>4. QED
    BY <1>2, <1>3

LEMMA GetInv == EInv /\ Get => EInv'
  <1> SUFFICES ASSUME EInv, Get PROVE EInv'
    OBVIOUS
  <1>1. /\ pc = "reading" /\ queue # <<>> /\ Head(queue) # Closed
        /\ buf' = buf \o Head(queue) /\ queue' = Tail(queue)
        /\ UNCHANGED <<unread, ended, pc, call, calls, reachedEof, received, window, answer,
                       taken, torn>>
    BY DEF Get
  <1>2. buf' \in Seq(Chars) /\ queue' \in Seq(Seq(Chars) \cup {Closed})
    BY <1>1, QueueTail, ConcatProperties DEF EInv, Typed
  <1>3. Typed' /\ BufferIsTheEnd'
    BY <1>1, <1>2 DEF EInv, Typed, TypeOK, BufferIsTheEnd
  <1>4. EndMarked'
    <2>1. ASSUME NEW i \in 1 .. Len(queue'), queue'[i] = Closed PROVE ended /\ i = Len(queue')
      <3>1. i \in 1 .. Len(queue) - 1 /\ queue[i + 1] = Closed /\ i + 1 \in 1 .. Len(queue)
        BY <1>1, <2>1, QueueTail
      <3>2. ended /\ i + 1 = Len(queue)
        BY <3>1 DEF EInv, EndMarked
      <3>3. QED
        BY <1>1, <3>1, <3>2, QueueTail
    <2>2. ~reachedEof
      BY <1>1 DEF EInv, EndMarked
    <2>3. QED
      BY <1>1, <2>1, <2>2 DEF EInv, EndMarked
  <1>5. QED
    BY <1>3, <1>4 DEF EInv

LEMMA GetClosedInv == EInv /\ GetClosed => EInv'
  <1> SUFFICES ASSUME EInv, GetClosed PROVE EInv'
    OBVIOUS
  <1> DEFINE piece == FirstN(buf, MaxRead)
  <1>1. /\ pc = "reading" /\ queue # <<>> /\ Head(queue) = Closed /\ Len(buf) < MaxRead
        /\ queue' = Tail(queue) /\ reachedEof' = TRUE /\ HandOver(buf)
        /\ UNCHANGED <<unread, ended, calls>>
    BY DEF GetClosed
  <1>2. /\ piece \in Seq(Chars) /\ Len(piece) <= Len(buf)
        /\ Len(buf) <= MaxRead => Len(piece) = Len(buf)
        /\ buf' = From(buf, Len(piece)) /\ buf' \in Seq(Chars)
        /\ received' \in Seq(Chars) /\ window' \in Seq(Chars) /\ taken' \in Seq(Chars)
        /\ torn' \in Seq(Chars)
        /\ BufferIsTheEnd'
        /\ pc' \in {"idle", "loop"}
        /\ (call' = NoCall <=> pc' = "idle")
        /\ pc' # "idle" => call' \in Calls
        /\ answer'.kind \in {"none", "match", "TIMEOUT", "EOF", "error"}
    BY <1>1, HandOverIs
  <1> HIDE DEF piece
  <1>3. ended /\ Len(queue) = 1 /\ unread = <<>>
    <2>1. 1 \in 1 .. Len(queue) /\ queue[1] = Closed
      BY <1>1, QueueTail
    <2>2. QED
      BY <2>1 DEF EInv, EndMarked
  <1>4. queue' = <<>>
    <2>1. queue' \in Seq(Seq(Chars) \cup {Closed}) /\ Len(queue') = 0
      BY <1>1, <1>3, QueueTail
    <2>2. QED
      BY <2>1
  <1>5. buf' = <<>>
    <2>1. buf \in Seq(Chars) /\ Len(buf) \in Nat /\ MaxRead \in Nat
      BY ExpecterAssumption DEF EInv, Typed
    <2>2. Len(piece) = Len(buf)
      BY <1>1, <1>2, <2>1
    <2>3. From(buf, Len(buf)) = <<>>
      BY <2>1, SubSeqEmpty DEF From
    <2>4. QED
      BY <1>2, <2>2, <2>3
  <1>6. queue' \in Seq(Seq(Chars) \cup {Closed})
    BY <1>1, QueueTail
  <1>7. Typed'
    BY <1>1, <1>2, <1>6 DEF EInv, Typed, TypeOK
  <1>8. EndMarked'
    BY <1>1, <1>3, <1>4, <1>5 DEF EndMarked
  <1>9. QED
    BY <1>2, <1>7, <1>8 DEF EInv

LEMMA EndReadInv == EInv /\ EndRead => EInv'
  <1> SUFFICES ASSUME EInv, EndRead PROVE EInv'
    OBVIOUS
  <1> DEFINE piece == FirstN(buf, MaxRead)
  <1>1. pc = "reading" /\ HandOver(buf) /\ UNCHANGED <<unread, queue, ended, calls, reachedEof>>
    BY DEF EndRead, thread
  <1>2. /\ piece \in Seq(Chars) /\ Len(piece) <= Len(buf)
        /\ buf' = From(buf, Len(piece)) /\ buf' \in Seq(Chars)
        /\ received' \in Seq(Chars) /\ window' \in Seq(Chars) /\ taken' \in Seq(Chars)
        /\ torn' \in Seq(Chars)
        /\ BufferIsTheEnd'
        /\ pc' \in {"idle", "loop"}
        /\ (call' = NoCall <=> pc' = "idle")
        /\ pc' # "idle" => call' \in Calls
        /\ answer'.kind \in {"none", "match", "TIMEOUT", "EOF", "error"}
        /\ answer'.kind = "EOF" => answer.kind = "EOF"
    BY <1>1, HandOverIs
  <1> HIDE DEF piece
  <1>3. reachedEof => buf' = <<>>
    <2> SUFFICES ASSUME reachedEof PROVE buf' = <<>>
      OBVIOUS
    <2>1. buf = <<>> /\ Len(buf) = 0
      BY DEF EInv, EndMarked
    <2>2. Len(buf') = 0 /\ buf' \in Seq(Chars)
      <3>1. Len(piece) = 0
        BY <1>2, <2>1
      <3>2. buf' = SubSeq(<<>>, 1, 0)
        BY <1>2, <2>1, <3>1 DEF From
      <3>3. QED
        BY <1>2, <3>2, SubSeqEmpty
    <2>3. QED
      BY <2>2
  <1>4. Typed'
    BY <1>1, <1>2 DEF EInv, Typed, TypeOK
  <1>5. EndMarked'
    BY <1>1, <1>2, <1>3 DEF EInv, EndMarked
  <1>6. QED
    BY <1>2, <1>4, <1>5 DEF EInv

LEMMA QueueGrows ==
    ASSUME EInv, NEW e \in Seq(Chars) \cup {Closed}, queue' = Append(queue, e)
    PROVE  /\ queue' \in Seq(Seq(Chars) \cup {Closed})
           /\ Len(queue) \in Nat /\ Len(queue') = Len(queue) + 1
           /\ \A i \in 1 .. Len(queue) : queue'[i] = queue[i]
           /\ queue'[Len(queue) + 1] = e
  BY AppendProperties DEF EInv, Typed

LEMMA ThreadInv ==
    ASSUME EInv, ThreadEnds \/ \E n \in 1 .. MaxChunk : ThreadReads(n)
    PROVE  EInv'
  <1>1. ASSUME NEW n \in 1 .. MaxChunk, ThreadReads(n) PROVE EInv'
    <2>1. /\ n <= Len(unread) /\ unread' = From(unread, n) /\ queue' = Append(queue, FirstN(unread, n))
          /\ UNCHANGED <<ended, pc, call, calls, reachedEof, buf, received, window, answer, taken, torn>>
      BY <1>1 DEF ThreadReads
    <2>2. unread \in Seq(Chars) /\ Len(unread) \in Nat /\ n \in Nat /\ n > 0 /\ n \in 0 .. Len(unread)
      BY <2>1, ExpecterAssumption DEF EInv, Typed
    <2>3. unread' \in Seq(Chars) /\ FirstN(unread, n) \in Seq(Chars)
      BY <2>1, <2>2, FromIs, FirstNIs
    <2>4. FirstN(unread, n) # Closed
      BY <2>3, ExpecterAssumption
    <2>5. unread # <<>>
      BY <2>1, <2>2
    <2>6. ~ended /\ ~reachedEof
      BY <2>5 DEF EInv, EndMarked
    <2>7. /\ queue' \in Seq(Seq(Chars) \cup {Closed})
          /\ Len(queue) \in Nat /\ Len(queue') = Len(queue) + 1
          /\ \A i \in 1 .. Len(queue) : queue'[i] = queue[i]
          /\ queue'[Len(queue) + 1] = FirstN(unread, n)
      BY <2>1, <2>3, QueueGrows
    <2>8. \A i \in 1 .. Len(queue') : queue'[i] # Closed
      <3>1. \A i \in 1 .. Len(queue) : queue[i] # Closed
        BY <2>6 DEF EInv, EndMarked
      <3>2. QED
        BY <2>4, <2>7, <3>1
    <2>9. Typed' /\ BufferIsTheEnd'
      BY <2>1, <2>3, <2>7 DEF EInv, Typed, TypeOK, BufferIsTheEnd
    <2>10. EndMarked'
      BY <2>1, <2>6, <2>8 DEF EInv, EndMarked
    <2>11. QED
      BY <2>9, <2>10 DEF EInv
  <1>2. ASSUME ThreadEnds PROVE EInv'
    <2>1. /\ ~ended /\ unread = <<>> /\ ended' = TRUE /\ queue' = Append(queue, Closed)
          /\ UNCHANGED <<unread, pc, call, calls, reachedEof, buf, received, window, answer, taken, torn>>
      BY <1>2 DEF ThreadEnds
    <2>2. /\ queue' \in Seq(Seq(Chars) \cup {Closed})
          /\ Len(queue) \in Nat /\ Len(queue') = Len(queue) + 1
          /\ \A i \in 1 .. Len(queue) : queue'[i] = queue[i]
      BY <2>1, QueueGrows
    <2>3. \A i \in 1 .. Len(queue) : queue[i] # Closed
      BY <2>1 DEF EInv, EndMarked
    <2>4. \A i \in 1 .. Len(queue') : queue'[i] = Closed => i = Len(queue')
      BY <2>2, <2>3
    <2>5. Typed' /\ BufferIsTheEnd'
      BY <2>1, <2>2 DEF EInv, Typed, TypeOK, BufferIsTheEnd
    <2>6. EndMarked'
      BY <2>1, <2>4 DEF EInv, EndMarked
    <2>7. QED
      BY <2>5, <2>6 DEF EInv
  <1>3. QED
    BY <1>1, <1>2

LEMMA ENextInv == EInv /\ [Next]_vars => EInv'
  <1> SUFFICES ASSUME EInv, [Next]_vars PROVE EInv'
    OBVIOUS
  <1>1. ASSUME UNCHANGED vars PROVE EInv'
    BY <1>1 DEF EInv, vars, thread, Typed, TypeOK, BufferIsTheEnd, EndMarked
  <1>2. ASSUME NEW s \in Searches, NEW w \in Windows, NEW timed \in BOOLEAN, Expect(s, w, timed)
        PROVE  EInv'
    BY <1>2, ExpectInv
  <1>3. QED
    BY <1>1, <1>2, GivesUpInv, GetInv, GetClosedInv, EndReadInv, ThreadInv DEF Next, Loop

LEMMA EInvariant == Spec => []EInv
  BY EInitInv, ENextInv, PTL DEF Spec

-----------------------------------------------------------------------------
\* The phases of a call, and a call exactly when one is running.
THEOREM ExpectTyping == Spec => []TypeOK
  BY EInvariant, PTL DEF EInv, Typed

\* _buffer is always the end of _before, so do_search cuts the right text off (expect.py:317),
\* whatever searchers and windows follow each other.
THEOREM BufferEnds == Spec => []BufferIsTheEnd
  BY EInvariant, PTL DEF EInv

\* EOF is reported only after all that the child wrote was searched (pop.py:97-125).
THEOREM EofComesLast == Spec => []EofIsLast
  <1>1. EInv => EofIsLast
    BY DEF EInv, EndMarked, EofIsLast
  <1>2. QED
    BY <1>1, EInvariant, PTL

-----------------------------------------------------------------------------
(* What the child writes stays in order *)

\* The characters of s after the first a, up to place b.
Part(s, a, b) == SubSeq(s, a + 1, b)

\* One stream is cut by n and by cut[0] <= cut[1] <= ... into what is used up or received,
\* the buffer, the pieces on the queue and what the thread has not read.
CutBy(s, n, cut) ==
    /\ torn = <<>> => taken \o received = Part(s, 0, n)
    /\ n <= cut[0]
    /\ buf = Part(s, n, cut[0])
    /\ \A i \in 1 .. Len(queue) :
          /\ cut[i - 1] <= cut[i]
          /\ IF queue[i] = Closed THEN cut[i] = cut[i - 1] ELSE queue[i] = Part(s, cut[i - 1], cut[i])
    /\ unread = Part(s, cut[Len(queue)], Len(s))

\* Nothing is lost, doubled or moved between the child and the matches, but for a piece
\* that the log raised on.
InOrder ==
    \E s \in Streams :
        \E n \in 0 .. Len(s), cut \in [0 .. Len(queue) -> 0 .. Len(s)] : CutBy(s, n, cut)

LEMMA PartIs ==
    ASSUME NEW s \in Seq(Chars), NEW b \in 0 .. Len(s), NEW a \in 0 .. b
    PROVE  /\ Part(s, a, b) \in Seq(Chars)
           /\ Len(Part(s, a, b)) = b - a
           /\ \A i \in 1 .. b - a : Part(s, a, b)[i] = s[a + i]
  <1>1. Len(s) \in Nat /\ a + 1 \in Int /\ b \in Int /\ \A i \in a + 1 .. b : s[i] \in Chars
    OBVIOUS
  <1>2. /\ SubSeq(s, a + 1, b) \in Seq(Chars)
        /\ Len(SubSeq(s, a + 1, b)) = IF a + 1 <= b THEN b - (a + 1) + 1 ELSE 0
        /\ \A i \in 1 .. b - (a + 1) + 1 : SubSeq(s, a + 1, b)[i] = s[(a + 1) + i - 1]
    BY <1>1, SubSeqProperties
  <1>3. b - (a + 1) + 1 = b - a /\ \A i \in 1 .. b - a : (a + 1) + i - 1 = a + i
    OBVIOUS
  <1>4. (IF a + 1 <= b THEN b - (a + 1) + 1 ELSE 0) = b - a
    OBVIOUS
  <1>5. QED
    BY <1>2, <1>3, <1>4 DEF Part

LEMMA PartJoin ==
    ASSUME NEW s \in Seq(Chars), NEW c \in 0 .. Len(s), NEW b \in 0 .. c, NEW a \in 0 .. b
    PROVE  Part(s, a, b) \o Part(s, b, c) = Part(s, a, c)
  <1>1. /\ Len(s) \in Nat /\ a + 1 \in 1 .. Len(s) + 1 /\ b \in (a + 1) - 1 .. Len(s) /\ c \in b .. Len(s)
    OBVIOUS
  <1>2. SubSeq(s, a + 1, b) \o SubSeq(s, b + 1, c) = SubSeq(s, a + 1, c)
    BY <1>1, ConcatAdjacentSubSeq
  <1>3. QED
    BY <1>2 DEF Part

\* The first k of a part, and the rest of it.
LEMMA PartSplit ==
    ASSUME NEW s \in Seq(Chars), NEW b \in 0 .. Len(s), NEW a \in 0 .. b, NEW k \in 0 .. b - a
    PROVE  /\ FirstN(Part(s, a, b), k) = Part(s, a, a + k)
           /\ From(Part(s, a, b), k) = Part(s, a + k, b)
           /\ a + k \in 0 .. Len(s) /\ a + k \in a .. b
  <1> DEFINE t == Part(s, a, b)
  <1>a. /\ Len(s) \in Nat /\ a \in Nat /\ b \in Nat /\ k \in Nat
        /\ a + k \in 0 .. Len(s) /\ a + k \in 0 .. b /\ a \in 0 .. a + k /\ a + k \in a .. b
        /\ (a + k) - a = k /\ b - (a + k) = (b - a) - k
    OBVIOUS
  <1>1. /\ t \in Seq(Chars) /\ Len(t) = b - a
        /\ \A i \in 1 .. b - a : t[i] = s[a + i]
    BY PartIs
  <1> HIDE DEF t
  <1>2. /\ FirstN(t, k) \in Seq(Chars)
        /\ Len(FirstN(t, k)) = IF k < Len(t) THEN k ELSE Len(t)
        /\ \A i \in 1 .. Len(FirstN(t, k)) : FirstN(t, k)[i] = t[i]
    BY <1>a, <1>1, FirstNIs
  <1>3. /\ Part(s, a, a + k) \in Seq(Chars) /\ Len(Part(s, a, a + k)) = k
        /\ \A i \in 1 .. k : Part(s, a, a + k)[i] = s[a + i]
    BY <1>a, PartIs
  <1>4. FirstN(t, k) = Part(s, a, a + k)
    <2>1. Len(FirstN(t, k)) = k
      BY <1>a, <1>1, <1>2
    <2>2. \A i \in 1 .. k : i \in 1 .. b - a
      BY <1>a
    <2>3. \A i \in 1 .. Len(FirstN(t, k)) : FirstN(t, k)[i] = Part(s, a, a + k)[i]
      BY <1>1, <1>2, <1>3, <2>1, <2>2
    <2>4. QED
      BY <1>2, <1>3, <2>1, <2>3, SeqEqual
  <1>5. k \in 0 .. Len(t)
    BY <1>1
  <1>6. /\ From(t, k) \in Seq(Chars) /\ Len(From(t, k)) = Len(t) - k
        /\ \A i \in 1 .. Len(t) - k : From(t, k)[i] = t[k + i]
    BY <1>1, <1>5, FromIs
  <1>7. /\ Part(s, a + k, b) \in Seq(Chars) /\ Len(Part(s, a + k, b)) = b - (a + k)
        /\ \A i \in 1 .. b - (a + k) : Part(s, a + k, b)[i] = s[(a + k) + i]
    BY <1>a, PartIs
  <1>8. From(t, k) = Part(s, a + k, b)
    <2>1. Len(From(t, k)) = b - (a + k) /\ Len(t) - k = b - (a + k)
      BY <1>a, <1>1, <1>6
    <2>2. \A i \in 1 .. b - (a + k) : k + i \in 1 .. b - a /\ a + (k + i) = (a + k) + i
      BY <1>a
    <2>3. \A i \in 1 .. Len(From(t, k)) : From(t, k)[i] = Part(s, a + k, b)[i]
      BY <1>1, <1>6, <1>7, <2>1, <2>2
    <2>4. QED
      BY <1>6, <1>7, <2>1, <2>3, SeqEqual
  <1>9. QED
    BY <1>a, <1>4, <1>8 DEF t

LEMMA InOrderInit == Init => InOrder
  <1> SUFFICES ASSUME Init PROVE InOrder
    OBVIOUS
  <1> USE ExpecterAssumption DEF Init
  <1> DEFINE cut == [i \in 0 .. 0 |-> 0]
  <1>1. unread \in Streams /\ unread \in Seq(Chars) /\ Len(unread) \in Nat
    OBVIOUS
  <1>2. Len(queue) = 0 /\ cut \in [0 .. Len(queue) -> 0 .. Len(unread)] /\ 0 \in 0 .. Len(unread)
    BY <1>1
  <1>3. Part(unread, 0, 0) = <<>>
    BY SubSeqEmpty DEF Part
  <1>4. Part(unread, 0, Len(unread)) = unread
    BY <1>1, SubSeqFull DEF Part
  <1>5. taken \o received = <<>>
    OBVIOUS
  <1>6. cut[0] = 0
    OBVIOUS
  <1>7. CutBy(unread, 0, cut)
    BY <1>2, <1>3, <1>4, <1>5, <1>6 DEF CutBy
  <1>8. QED
    BY <1>1, <1>2, <1>7 DEF InOrder

\* A step that moves no text keeps the cuts.
LEMMA InOrderKeeps ==
    ASSUME InOrder, UNCHANGED <<unread, queue, buf>>,
           \/ torn' = torn /\ taken' \o received' = taken \o received
           \/ torn' # <<>>
    PROVE  InOrder'
  <1>1. PICK s \in Streams :
            \E n \in 0 .. Len(s), cut \in [0 .. Len(queue) -> 0 .. Len(s)] : CutBy(s, n, cut)
    BY DEF InOrder
  <1>2. PICK n \in 0 .. Len(s), cut \in [0 .. Len(queue) -> 0 .. Len(s)] : CutBy(s, n, cut)
    BY <1>1
  <1>3. CutBy(s, n, cut)'
    BY <1>2 DEF CutBy
  <1>4. \E m \in 0 .. Len(s), d \in [0 .. Len(queue') -> 0 .. Len(s)] : CutBy(s, m, d)'
    BY <1>2, <1>3
  <1>5. QED
    BY <1>4 DEF InOrder

\* A piece goes from the buffer to the text received; the queue stays, or loses its mark
\* of the end.
LEMMA InOrderHandOver ==
    ASSUME EInv, InOrder, pc = "reading", HandOver(buf), unread' = unread,
           queue' = queue \/ (queue # <<>> /\ Head(queue) = Closed /\ queue' = Tail(queue))
    PROVE  InOrder'
  <1> DEFINE piece == FirstN(buf, MaxRead)
             L == Len(piece)
  <1>1. PICK s \in Streams :
            \E n \in 0 .. Len(s), cut \in [0 .. Len(queue) -> 0 .. Len(s)] : CutBy(s, n, cut)
    BY DEF InOrder
  <1>2. PICK n \in 0 .. Len(s), cut \in [0 .. Len(queue) -> 0 .. Len(s)] : CutBy(s, n, cut)
    BY <1>1
  <1>a. s \in Seq(Chars) /\ Len(s) \in Nat /\ buf \in Seq(Chars) /\ MaxRead \in Nat
        /\ Len(buf) \in Nat /\ queue \in Seq(Seq(Chars) \cup {Closed}) /\ Len(queue) \in Nat
        /\ taken \in Seq(Chars) /\ received \in Seq(Chars)
    BY ExpecterAssumption DEF EInv, Typed
  <1>b. cut[0] \in 0 .. Len(s) /\ n <= cut[0] /\ n \in 0 .. cut[0]
    <2>1. 0 \in 0 .. Len(queue) /\ n \in Nat
      BY <1>a
    <2>2. cut[0] \in 0 .. Len(s) /\ n <= cut[0]
      BY <1>2, <2>1 DEF CutBy
    <2>3. QED
      BY <1>a, <2>1, <2>2
  <1>3. /\ piece \in Seq(Chars) /\ Len(piece) <= Len(buf)
        /\ buf' = From(buf, L)
        /\ \/ torn' = torn /\ taken' \o received' = taken \o (received \o piece)
           \/ torn' # <<>>
    BY HandOverIs
  <1>4. L \in 0 .. Len(buf) /\ FirstN(buf, L) = piece
    <2>1. L = IF MaxRead < Len(buf) THEN MaxRead ELSE Len(buf)
      BY <1>a, FirstNIs
    <2>2. L \in 0 .. Len(buf)
      BY <1>a, <2>1
    <2>3. FirstN(buf, L) = piece
      BY <1>a, <2>1 DEF FirstN
    <2>4. QED
      BY <2>2, <2>3
  <1> HIDE DEF L, piece
  <1>5. buf = Part(s, n, cut[0]) /\ Len(buf) = cut[0] - n
    BY <1>2, <1>a, <1>b, PartIs DEF CutBy
  <1>6. L \in 0 .. cut[0] - n
    BY <1>4, <1>5
  <1>7. /\ piece = Part(s, n, n + L)
        /\ buf' = Part(s, n + L, cut[0])
        /\ n + L \in 0 .. Len(s) /\ n + L \in n .. cut[0]
    BY <1>3, <1>4, <1>5, <1>6, <1>a, <1>b, PartSplit
  <1>8. torn' = <<>> => taken' \o received' = Part(s, 0, n + L)
    <2> SUFFICES ASSUME torn' = <<>> PROVE taken' \o received' = Part(s, 0, n + L)
      OBVIOUS
    <2>1. torn = <<>> /\ taken' \o received' = taken \o (received \o piece)
      BY <1>3
    <2>2. taken \o received = Part(s, 0, n)
      BY <1>2, <2>1 DEF CutBy
    <2>3. taken \o (received \o piece) = (taken \o received) \o piece
      BY <1>a, <1>3, ThreeParts, Zenon
    <2>4. n \in 0 .. n + L /\ 0 \in 0 .. n
      BY <1>7, <1>a
    <2>5. Part(s, 0, n) \o Part(s, n, n + L) = Part(s, 0, n + L)
      BY <1>7, <1>a, <2>4, PartJoin
    <2>6. QED
      BY <1>7, <2>1, <2>2, <2>3, <2>5
  <1>c. PICK m \in 0 .. Len(s) : m = n + L
    BY <1>7
  <1>d. m <= cut[0] /\ buf' = Part(s, m, cut[0]) /\ (torn' = <<>> => taken' \o received' = Part(s, 0, m))
    BY <1>7, <1>8, <1>a, <1>b, <1>c
  <1>9. CASE queue' = queue
    <2>1. CutBy(s, m, cut)'
      BY <1>2, <1>d, <1>9 DEF CutBy
    <2>2. cut \in [0 .. Len(queue') -> 0 .. Len(s)]
      BY <1>9
    <2>3. QED
      BY <2>1, <2>2 DEF InOrder
  <1>10. CASE queue # <<>> /\ Head(queue) = Closed /\ queue' = Tail(queue)
    <2> DEFINE d == [i \in 0 .. Len(queue) - 1 |-> cut[i + 1]]
    <2>1. /\ Len(queue) > 0 /\ queue[1] = Closed /\ Len(queue') = Len(queue) - 1
          /\ \A i \in 1 .. Len(queue) - 1 : queue'[i] = queue[i + 1] /\ i + 1 \in 1 .. Len(queue)
      BY <1>10, QueueTail
    <2>2. cut[1] = cut[0]
      <3>1. 1 \in 1 .. Len(queue) /\ 1 - 1 = 0
        BY <1>a, <2>1
      <3>2. cut[1] = cut[1 - 1]
        BY <1>2, <2>1, <3>1 DEF CutBy
      <3>3. QED
        BY <3>1, <3>2
    <2>3. d \in [0 .. Len(queue') -> 0 .. Len(s)]
      <3>1. \A i \in 0 .. Len(queue) - 1 : i + 1 \in 0 .. Len(queue)
        BY <1>a
      <3>2. QED
        BY <1>2, <2>1, <3>1
    <2>4. d[0] = cut[0] /\ d[Len(queue')] = cut[Len(queue)]
      BY <1>a, <2>1, <2>2
    <2>5. ASSUME NEW i \in 1 .. Len(queue')
          PROVE  /\ d[i - 1] <= d[i]
                 /\ IF queue'[i] = Closed THEN d[i] = d[i - 1] ELSE queue'[i] = Part(s, d[i - 1], d[i])
      <3>a. i \in 0 .. Len(queue) - 1 /\ i - 1 \in 0 .. Len(queue) - 1 /\ (i - 1) + 1 = i
        BY <1>a, <2>1
      <3>b. d[i] = cut[i + 1] /\ d[i - 1] = cut[(i - 1) + 1]
        BY <3>a, Zenon
      <3>c. i + 1 \in 1 .. Len(queue) /\ queue'[i] = queue[i + 1] /\ (i + 1) - 1 = i
        BY <1>a, <2>1
      <3>1. /\ i + 1 \in 1 .. Len(queue) /\ queue'[i] = queue[i + 1] /\ (i + 1) - 1 = i
            /\ d[i] = cut[i + 1] /\ d[i - 1] = cut[i]
        BY <3>a, <3>b, <3>c, Zenon
      <3>2. /\ cut[(i + 1) - 1] <= cut[i + 1]
            /\ IF queue[i + 1] = Closed THEN cut[i + 1] = cut[(i + 1) - 1]
               ELSE queue[i + 1] = Part(s, cut[(i + 1) - 1], cut[i + 1])
        BY <1>2, <3>1 DEF CutBy
      <3>3. QED
        BY <3>1, <3>2
    <2> HIDE DEF d
    <2>6. PICK r \in [0 .. Len(queue') -> 0 .. Len(s)] : r = d
      BY <2>3
    <2>7. CutBy(s, m, r)'
      BY <1>2, <1>d, <2>4, <2>5, <2>6 DEF CutBy
    <2>8. QED
      BY <2>6, <2>7 DEF InOrder
  <1>11. QED
    BY <1>9, <1>10

\* A piece goes from the queue to the buffer.
LEMMA InOrderGet == EInv /\ InOrder /\ Get => InOrder'
  <1> SUFFICES ASSUME EInv, InOrder, Get PROVE InOrder'
    OBVIOUS
  <1>1. PICK s \in Streams :
            \E n \in 0 .. Len(s), cut \in [0 .. Len(queue) -> 0 .. Len(s)] : CutBy(s, n, cut)
    BY DEF InOrder
  <1>2. PICK n \in 0 .. Len(s), cut \in [0 .. Len(queue) -> 0 .. Len(s)] : CutBy(s, n, cut)
    BY <1>1
  <1>a. s \in Seq(Chars) /\ Len(s) \in Nat /\ buf \in Seq(Chars)
        /\ queue \in Seq(Seq(Chars) \cup {Closed}) /\ Len(queue) \in Nat
    BY ExpecterAssumption DEF EInv, Typed
  <1>b. /\ queue # <<>> /\ Head(queue) # Closed /\ buf' = buf \o Head(queue) /\ queue' = Tail(queue)
        /\ UNCHANGED <<unread, received, taken, torn>>
    BY DEF Get
  <1> DEFINE d == [i \in 0 .. Len(queue) - 1 |-> cut[i + 1]]
  <1>3. /\ Len(queue) > 0 /\ queue[1] = Head(queue) /\ Len(queue') = Len(queue) - 1
        /\ \A i \in 1 .. Len(queue) - 1 : queue'[i] = queue[i + 1] /\ i + 1 \in 1 .. Len(queue)
    BY <1>b, QueueTail
  <1>4. Head(queue) = Part(s, cut[0], cut[1]) /\ cut[0] <= cut[1]
    <2>1. 1 \in 1 .. Len(queue) /\ 1 - 1 = 0
      BY <1>a, <1>3
    <2>2. /\ cut[1 - 1] <= cut[1]
          /\ IF queue[1] = Closed THEN cut[1] = cut[1 - 1] ELSE queue[1] = Part(s, cut[1 - 1], cut[1])
      BY <1>2, <2>1 DEF CutBy
    <2>3. QED
      BY <1>3, <1>b, <2>1, <2>2
  <1>5. cut[0] \in 0 .. Len(s) /\ cut[1] \in 0 .. Len(s) /\ n <= cut[0] /\ buf = Part(s, n, cut[0])
    <2>1. 0 \in 0 .. Len(queue) /\ 1 \in 0 .. Len(queue)
      BY <1>a, <1>3
    <2>2. QED
      BY <1>2, <2>1 DEF CutBy
  <1>6. buf' = Part(s, n, cut[1]) /\ n <= cut[1]
    <2>1. cut[0] \in 0 .. cut[1] /\ n \in 0 .. cut[0] /\ n <= cut[1]
      BY <1>4, <1>5, <1>a
    <2>2. QED
      BY <1>4, <1>5, <1>a, <1>b, <2>1, PartJoin
  <1>7. d \in [0 .. Len(queue') -> 0 .. Len(s)]
    <2>1. \A i \in 0 .. Len(queue) - 1 : i + 1 \in 0 .. Len(queue)
      BY <1>a
    <2>2. QED
      BY <1>2, <1>3, <2>1
  <1>8. d[0] = cut[1] /\ d[Len(queue')] = cut[Len(queue)]
    BY <1>a, <1>3
  <1>9. ASSUME NEW i \in 1 .. Len(queue')
        PROVE  /\ d[i - 1] <= d[i]
               /\ IF queue'[i] = Closed THEN d[i] = d[i - 1] ELSE queue'[i] = Part(s, d[i - 1], d[i])
    <2>a. i \in 0 .. Len(queue) - 1 /\ i - 1 \in 0 .. Len(queue) - 1 /\ (i - 1) + 1 = i
      BY <1>a, <1>3
    <2>b. d[i] = cut[i + 1] /\ d[i - 1] = cut[(i - 1) + 1]
      BY <2>a, Zenon
    <2>c. i + 1 \in 1 .. Len(queue) /\ queue'[i] = queue[i + 1] /\ (i + 1) - 1 = i
      BY <1>a, <1>3
    <2>1. /\ i + 1 \in 1 .. Len(queue) /\ queue'[i] = queue[i + 1] /\ (i + 1) - 1 = i
          /\ d[i] = cut[i + 1] /\ d[i - 1] = cut[i]
      BY <2>a, <2>b, <2>c, Zenon
    <2>2. /\ cut[(i + 1) - 1] <= cut[i + 1]
          /\ IF queue[i + 1] = Closed THEN cut[i + 1] = cut[(i + 1) - 1]
             ELSE queue[i + 1] = Part(s, cut[(i + 1) - 1], cut[i + 1])
      BY <1>2, <2>1 DEF CutBy
    <2>3. QED
      BY <2>1, <2>2
  <1> HIDE DEF d
  <1>10. PICK r \in [0 .. Len(queue') -> 0 .. Len(s)] : r = d
    BY <1>7
  <1>11. CutBy(s, n, r)'
    BY <1>2, <1>b, <1>6, <1>8, <1>9, <1>10 DEF CutBy
  <1>12. QED
    BY <1>2, <1>10, <1>11 DEF InOrder

\* The thread puts the next piece, or the mark of the end, on the queue.
LEMMA InOrderThread ==
    ASSUME EInv, InOrder, ThreadEnds \/ \E k \in 1 .. MaxChunk : ThreadReads(k)
    PROVE  InOrder'
  <1>1. PICK s \in Streams :
            \E n \in 0 .. Len(s), cut \in [0 .. Len(queue) -> 0 .. Len(s)] : CutBy(s, n, cut)
    BY DEF InOrder
  <1>2. PICK n \in 0 .. Len(s), cut \in [0 .. Len(queue) -> 0 .. Len(s)] : CutBy(s, n, cut)
    BY <1>1
  <1>a. s \in Seq(Chars) /\ Len(s) \in Nat
        /\ queue \in Seq(Seq(Chars) \cup {Closed}) /\ Len(queue) \in Nat
    BY ExpecterAssumption DEF EInv, Typed
  <1> DEFINE top == cut[Len(queue)]
  <1>b. top \in 0 .. Len(s) /\ top \in Nat /\ unread = Part(s, top, Len(s)) /\ Len(s) \in 0 .. Len(s)
    <2>1. Len(queue) \in 0 .. Len(queue)
      BY <1>a
    <2>2. QED
      BY <1>2, <1>a, <2>1 DEF CutBy
  <1>3. SUFFICES ASSUME NEW k \in 0 .. Len(s) - top, NEW e \in Seq(Chars) \cup {Closed},
                        queue' = Append(queue, e),
                        IF e = Closed THEN k = 0 ELSE e = Part(s, top, top + k),
                        unread' = Part(s, top + k, Len(s)),
                        UNCHANGED <<buf, received, taken, torn>>
                 PROVE  InOrder'
    <2>1. ASSUME NEW k \in 1 .. MaxChunk, ThreadReads(k) PROVE InOrder'
      <3>1. /\ k <= Len(unread) /\ unread' = From(unread, k) /\ queue' = Append(queue, FirstN(unread, k))
            /\ UNCHANGED <<buf, received, taken, torn>>
        BY <2>1 DEF ThreadReads
      <3>2. Len(unread) = Len(s) - top
        BY <1>a, <1>b, PartIs
      <3>3. k \in Nat /\ k \in 0 .. Len(s) - top
        BY <3>1, <3>2, <1>a, <1>b, ExpecterAssumption
      <3>4. FirstN(unread, k) = Part(s, top, top + k) /\ unread' = Part(s, top + k, Len(s))
        BY <1>a, <1>b, <3>1, <3>3, PartSplit
      <3>5. FirstN(unread, k) \in Seq(Chars)
        BY <3>3, FirstNIs DEF EInv, Typed
      <3>6. FirstN(unread, k) # Closed
        BY <3>5, ExpecterAssumption
      <3>7. QED
        BY <1>3, <3>1, <3>3, <3>4, <3>5, <3>6
    <2>2. ASSUME ThreadEnds PROVE InOrder'
      <3>1. unread' = unread /\ queue' = Append(queue, Closed) /\ UNCHANGED <<buf, received, taken, torn>>
        BY <2>2 DEF ThreadEnds
      <3>2. 0 \in 0 .. Len(s) - top /\ top + 0 = top
        BY <1>a, <1>b
      <3>3. unread' = Part(s, top + 0, Len(s))
        BY <1>b, <3>1, <3>2
      <3>4. QED
        BY <1>3, <3>1, <3>2, <3>3
    <2>3. QED
      BY <2>1, <2>2
  <1> DEFINE d == [i \in 0 .. Len(queue) + 1 |-> IF i = Len(queue) + 1 THEN top + k ELSE cut[i]]
  <1>4. /\ Len(queue') = Len(queue) + 1
        /\ \A i \in 1 .. Len(queue) : queue'[i] = queue[i]
        /\ queue'[Len(queue) + 1] = e
    BY <1>3, QueueGrows
  <1>5. top + k \in 0 .. Len(s)
    BY <1>3, <1>a, <1>b
  <1>6. d \in [0 .. Len(queue') -> 0 .. Len(s)]
    <2>1. \A i \in 0 .. Len(queue) + 1 : i # Len(queue) + 1 => i \in 0 .. Len(queue)
      BY <1>a
    <2>2. QED
      BY <1>2, <1>4, <1>5, <2>1
  <1>7. /\ d[0] = cut[0]
        /\ d[Len(queue')] = top + k
        /\ \A i \in 0 .. Len(queue) : d[i] = cut[i]
    BY <1>a, <1>4
  <1> HIDE DEF d, top
  <1>8. ASSUME NEW i \in 1 .. Len(queue')
        PROVE  /\ d[i - 1] <= d[i]
               /\ IF queue'[i] = Closed THEN d[i] = d[i - 1] ELSE queue'[i] = Part(s, d[i - 1], d[i])
    <2>1. CASE i \in 1 .. Len(queue)
      <3>1. d[i] = cut[i] /\ d[i - 1] = cut[i - 1] /\ queue'[i] = queue[i]
        BY <1>4, <1>7, <1>a, <2>1
      <3>2. /\ cut[i - 1] <= cut[i]
            /\ IF queue[i] = Closed THEN cut[i] = cut[i - 1] ELSE queue[i] = Part(s, cut[i - 1], cut[i])
        BY <1>2, <2>1 DEF CutBy
      <3>3. QED
        BY <3>1, <3>2
    <2>2. CASE i = Len(queue) + 1
      <3>1. i - 1 = Len(queue) /\ Len(queue) \in 0 .. Len(queue)
        BY <1>a, <2>2
      <3>2. d[i - 1] = top /\ d[i] = top + k /\ queue'[i] = e
        BY <1>4, <1>7, <2>2, <3>1 DEF top
      <3>3. top <= top + k /\ (k = 0 => top + k = top)
        BY <1>3, <1>b
      <3>4. QED
        BY <1>3, <3>2, <3>3
    <2>3. QED
      BY <1>4, <1>a, <2>1, <2>2
  <1>9. PICK r \in [0 .. Len(queue') -> 0 .. Len(s)] : r = d
    BY <1>6
  <1>10. n <= r[0] /\ (torn' = <<>> => taken' \o received' = Part(s, 0, n)) /\ buf' = Part(s, n, r[0])
    BY <1>2, <1>3, <1>7, <1>9 DEF CutBy
  <1>11. CutBy(s, n, r)'
    BY <1>3, <1>7, <1>8, <1>9, <1>10 DEF CutBy
  <1>12. QED
    BY <1>2, <1>9, <1>11 DEF InOrder

\* Expect: a match moves text from received to taken.
LEMMA ExpectMoves ==
    ASSUME EInv, NEW s \in Searches, NEW w \in Windows, NEW timed \in BOOLEAN,
           Expect(s, w, timed)
    PROVE  UNCHANGED <<unread, queue, buf, torn>> /\ taken' \o received' = taken \o received
  <1> DEFINE c == [search |-> s, w |-> w, timed |-> timed]
             refill == IF c.w = 0 THEN received
                       ELSE IF Len(window) < c.w THEN LastN(received, c.w) ELSE window
             buffer == IF Len(received) > Len(window) THEN refill ELSE window
             win == IF c.w = 0 THEN buffer ELSE LastN(buffer, c.w)
  <1>a. received \in Seq(Chars) /\ window \in Seq(Chars) /\ taken \in Seq(Chars)
        /\ IsSuffix(window, received) /\ Len(received) \in Nat
    BY DEF EInv, Typed, BufferIsTheEnd
  <1>b. UNCHANGED <<unread, queue, buf, torn>> /\ ExistingData(c)
    BY DEF Expect, thread
  <1>c. c \in Calls
    BY DEF Calls
  <1> HIDE DEF c
  <1>1. /\ buffer \in Seq(Chars) /\ win \in Seq(Chars)
        /\ IsSuffix(win, buffer) /\ IsSuffix(buffer, received)
    BY <1>a, <1>c, ExistingIs
  <1>2. DoSearch(c, received, buffer, win, Len(received))
    BY <1>b DEF ExistingData
  <1> HIDE DEF buffer, win
  <1>3. taken' \o received' = taken \o received
    BY <1>a, <1>c, <1>1, <1>2, SearchIs
  <1>4. QED
    BY <1>b, <1>3

LEMMA InOrderNext == EInv /\ InOrder /\ [Next]_vars => InOrder'
  <1> SUFFICES ASSUME EInv, InOrder, [Next]_vars PROVE InOrder'
    OBVIOUS
  <1>1. ASSUME UNCHANGED vars PROVE InOrder'
    <2>1. UNCHANGED <<unread, queue, buf, torn, taken, received>>
      BY <1>1 DEF vars, thread
    <2>2. QED
      BY <2>1, InOrderKeeps
  <1>2. ASSUME NEW s \in Searches, NEW w \in Windows, NEW timed \in BOOLEAN, Expect(s, w, timed)
        PROVE  InOrder'
    BY <1>2, ExpectMoves, InOrderKeeps
  <1>3. ASSUME TimeOut \/ StartRead PROVE InOrder'
    <2>1. UNCHANGED <<unread, queue, buf, torn, taken, received>>
      BY <1>3 DEF TimeOut, StartRead, thread
    <2>2. QED
      BY <2>1, InOrderKeeps
  <1>4. ASSUME Eof PROVE InOrder'
    <2>1. UNCHANGED <<unread, queue, buf, torn>> /\ taken' = taken \o received /\ received' = <<>>
      BY <1>4 DEF Eof, thread
    <2>2. taken \o received \in Seq(Chars)
      BY ConcatProperties DEF EInv, Typed
    <2>3. taken' \o received' = taken \o received
      BY <2>1, <2>2, EofTakesAll
    <2>4. QED
      BY <2>1, <2>3, InOrderKeeps
  <1>5. ASSUME GetClosed \/ EndRead PROVE InOrder'
    <2>1. /\ pc = "reading" /\ HandOver(buf) /\ unread' = unread
          /\ queue' = queue \/ (queue # <<>> /\ Head(queue) = Closed /\ queue' = Tail(queue))
      BY <1>5 DEF GetClosed, EndRead, thread
    <2>2. QED
      BY <2>1, InOrderHandOver
  <1>6. QED
    BY <1>1, <1>2, <1>3, <1>4, <1>5, InOrderGet, InOrderThread DEF Next, Loop

LEMMA InOrderHolds == Spec => [](EInv /\ InOrder)
  <1>1. Init => EInv /\ InOrder
    BY EInitInv, InOrderInit
  <1>2. (EInv /\ InOrder) /\ [Next]_vars => (EInv /\ InOrder)'
    BY ENextInv, InOrderNext
  <1>3. QED
    BY <1>1, <1>2, PTL DEF Spec

\* Text used up by matches and by EOF, text received, the buffer, the queue and what the
\* thread has not read are one stream of the child, cut in this order, as long as no piece
\* was raised on: for streams, chunks and queues of any length.
THEOREM TextStaysInOrder == Spec => []InOrder
  BY InOrderHolds, PTL

-----------------------------------------------------------------------------
(* The text of a queue.  TLAPS has no induction over sequences; LeastNat gives it for sets of *)
(* numbers, and the sets here are those of the lengths for which a claim holds. *)

LEMMA Induct ==
    ASSUME NEW m \in Nat, NEW T \in SUBSET (0 .. m), 0 \in T,
           \A n \in 0 .. m - 1 : n \in T => n + 1 \in T
    PROVE  T = 0 .. m
  <1> DEFINE Out == (0 .. m) \ T
  <1>1. SUFFICES ASSUME Out # {} PROVE FALSE
    OBVIOUS
  <1>2. Out \in SUBSET Nat
    OBVIOUS
  <1>3. PICK k \in Out : \A j \in Out : k <= j
    BY <1>1, <1>2, LeastNat
  <1>4. k - 1 \in 0 .. m - 1 /\ k - 1 \notin Out /\ (k - 1) + 1 = k
    BY <1>3
  <1>5. QED
    BY <1>3, <1>4

Queues == Seq(Seq(Chars) \cup {Closed})

\* g holds the text of each of the first n pieces of q and those before it.
IsText(g, q, n) ==
    /\ g \in [0 .. n -> Seq(Chars)]
    /\ g[0] = <<>>
    /\ \A i \in 1 .. n : g[i] = IF q[i] = Closed THEN g[i - 1] ELSE g[i - 1] \o q[i]

LEMMA TextExists ==
    ASSUME NEW q \in Queues
    PROVE  \E g : IsText(g, q, Len(q))
  <1> DEFINE T == {n \in 0 .. Len(q) : \E g : IsText(g, q, n)}
  <1>a. Len(q) \in Nat /\ \A i \in 1 .. Len(q) : q[i] = Closed \/ q[i] \in Seq(Chars)
    BY DEF Queues
  <1>1. 0 \in T
    <2> DEFINE g == [i \in 0 .. 0 |-> <<>>]
    <2>1. g \in [0 .. 0 -> Seq(Chars)] /\ g[0] = <<>>
      OBVIOUS
    <2>2. IsText(g, q, 0)
      BY <2>1 DEF IsText
    <2>3. QED
      BY <1>a, <2>2
  <1>2. ASSUME NEW n \in 0 .. Len(q) - 1, n \in T PROVE n + 1 \in T
    <2>1. PICK g : IsText(g, q, n)
      BY <1>2
    <2>a. n \in Nat /\ n + 1 \in 1 .. Len(q) /\ n + 1 \in 0 .. Len(q) /\ n \in 0 .. n
      BY <1>a
    <2> DEFINE top == IF q[n + 1] = Closed THEN g[n] ELSE g[n] \o q[n + 1]
               h == [i \in 0 .. n + 1 |-> IF i = n + 1 THEN top ELSE g[i]]
    <2>2. top \in Seq(Chars)
      <3>1. g[n] \in Seq(Chars)
        BY <2>1, <2>a DEF IsText
      <3>2. q[n + 1] = Closed \/ q[n + 1] \in Seq(Chars)
        BY <1>a, <2>a
      <3>3. QED
        BY <3>1, <3>2, ConcatProperties
    <2>3. h \in [0 .. n + 1 -> Seq(Chars)]
      <3>1. \A i \in 0 .. n + 1 : i # n + 1 => i \in 0 .. n
        BY <2>a
      <3>2. QED
        BY <2>1, <2>2, <3>1 DEF IsText
    <2> HIDE DEF top
    <2>4. h[n + 1] = top /\ \A i \in 0 .. n : h[i] = g[i]
      <3>1. n + 1 \in 0 .. n + 1 /\ \A i \in 0 .. n : i \in 0 .. n + 1 /\ i # n + 1
        BY <2>a
      <3>2. QED
        BY <3>1, Zenon
    <2> HIDE DEF h
    <2>5. ASSUME NEW i \in 1 .. n + 1
          PROVE  h[i] = IF q[i] = Closed THEN h[i - 1] ELSE h[i - 1] \o q[i]
      <3>1. CASE i = n + 1
        <4>1. h[i - 1] = g[n]
          BY <2>4, <2>a, <3>1
        <4>2. QED
          BY <2>4, <3>1, <4>1 DEF top
      <3>2. CASE i # n + 1
        <4>1. i \in 1 .. n /\ i \in 0 .. n /\ i - 1 \in 0 .. n
          BY <2>a, <3>2
        <4>2. g[i] = IF q[i] = Closed THEN g[i - 1] ELSE g[i - 1] \o q[i]
          BY <2>1, <4>1 DEF IsText
        <4>3. QED
          BY <2>4, <4>1, <4>2
      <3>3. QED
        BY <3>1, <3>2
    <2>6. h[0] = <<>>
      BY <2>1, <2>4, <2>a DEF IsText
    <2>7. IsText(h, q, n + 1)
      BY <2>3, <2>5, <2>6 DEF IsText
    <2>8. QED
      BY <2>7, <2>a
  <1>3. T = 0 .. Len(q)
    <2>1. T \in SUBSET (0 .. Len(q))
      OBVIOUS
    <2> HIDE DEF T
    <2>2. QED
      BY <1>a, <1>1, <1>2, <2>1, Induct
  <1>4. Len(q) \in T
    <2>1. Len(q) \in 0 .. Len(q)
      BY <1>a
    <2> HIDE DEF T
    <2>2. QED
      BY <1>3, <2>1
  <1>5. QED
    BY <1>4

LEMMA TextOnIs ==
    ASSUME NEW q \in Queues
    PROVE  \E g : IsText(g, q, Len(q)) /\ TextOn(q) = g[Len(q)]
  <1> DEFINE Step(g) == [i \in 0 .. Len(q) |->
                            IF i = 0 THEN <<>>
                            ELSE IF q[i] = Closed THEN g[i - 1] ELSE g[i - 1] \o q[i]]
             text == CHOOSE g : g = Step(g)
  <1>a. Len(q) \in Nat /\ \A i \in 1 .. Len(q) : q[i] = Closed \/ q[i] \in Seq(Chars)
    BY DEF Queues
  <1>1. TextOn(q) = text[Len(q)]
    BY DEF TextOn
  <1>2. PICK g : IsText(g, q, Len(q))
    BY TextExists
  <1>3. g = Step(g)
    <2>1. \A i \in 0 .. Len(q) : i = 0 \/ i \in 1 .. Len(q)
      BY <1>a
    <2>2. \A i \in 0 .. Len(q) :
              g[i] = IF i = 0 THEN <<>> ELSE IF q[i] = Closed THEN g[i - 1] ELSE g[i - 1] \o q[i]
      BY <1>2, <2>1 DEF IsText
    <2>3. QED
      BY <1>2, <2>2 DEF IsText
  <1>4. text = Step(text)
    BY <1>3, Zenon
  <1> HIDE DEF text
  <1>5. IsText(text, q, Len(q))
    <2>1. text = [i \in 0 .. Len(q) |-> text[i]] /\ \A i \in 0 .. Len(q) : text[i] =
              IF i = 0 THEN <<>> ELSE IF q[i] = Closed THEN text[i - 1] ELSE text[i - 1] \o q[i]
      BY <1>4
    <2> DEFINE T == {n \in 0 .. Len(q) : text[n] \in Seq(Chars)}
    <2>2. 0 \in T
      BY <2>1, <1>a
    <2>3. ASSUME NEW n \in 0 .. Len(q) - 1, n \in T PROVE n + 1 \in T
      <3>1. n + 1 \in 1 .. Len(q) /\ n + 1 \in 0 .. Len(q) /\ n + 1 # 0 /\ (n + 1) - 1 = n
        BY <1>a
      <3>2. text[n + 1] = IF q[n + 1] = Closed THEN text[n] ELSE text[n] \o q[n + 1]
        BY <2>1, <3>1
      <3>3. text[n] \in Seq(Chars) /\ (q[n + 1] = Closed \/ q[n + 1] \in Seq(Chars))
        BY <1>a, <2>3, <3>1
      <3>4. text[n + 1] \in Seq(Chars)
        BY <3>2, <3>3, ConcatProperties
      <3>5. QED
        BY <3>1, <3>4
    <2>4. T = 0 .. Len(q)
      <3>1. T \in SUBSET (0 .. Len(q))
        OBVIOUS
      <3> HIDE DEF T
      <3>2. QED
        BY <1>a, <2>2, <2>3, <3>1, Induct
    <2>5. \A i \in 0 .. Len(q) : text[i] \in Seq(Chars)
      <3>1. ASSUME NEW i \in 0 .. Len(q) PROVE i \in T
        <4> HIDE DEF T
        <4>1. QED
          BY <2>4, <3>1
      <3>2. QED
        BY <3>1
    <2>6. text \in [0 .. Len(q) -> Seq(Chars)]
      BY <2>1, <2>5
    <2>7. 0 \in 0 .. Len(q) /\ \A i \in 1 .. Len(q) : i \in 0 .. Len(q) /\ i # 0
      BY <1>a
    <2>8. QED
      BY <2>1, <2>6, <2>7 DEF IsText
  <1>6. QED
    BY <1>1, <1>5

LEMMA TextOnTyped == ASSUME NEW q \in Queues PROVE TextOn(q) \in Seq(Chars)
  <1>1. PICK g : IsText(g, q, Len(q)) /\ TextOn(q) = g[Len(q)]
    BY TextOnIs
  <1>2. Len(q) \in 0 .. Len(q)
    BY DEF Queues
  <1>3. QED
    BY <1>1, <1>2 DEF IsText

\* One more piece puts its text at the end; the mark of the end has none.
LEMMA TextGrows ==
    ASSUME NEW q \in Queues, NEW r \in Queues, Len(r) = Len(q) + 1,
           \A i \in 1 .. Len(q) : r[i] = q[i]
    PROVE  TextOn(r) = IF r[Len(r)] = Closed THEN TextOn(q) ELSE TextOn(q) \o r[Len(r)]
  <1>a. Len(q) \in Nat /\ Len(r) \in 1 .. Len(r) /\ Len(r) - 1 = Len(q)
    BY DEF Queues
  <1>1. PICK g : IsText(g, q, Len(q)) /\ TextOn(q) = g[Len(q)]
    BY TextOnIs
  <1>2. PICK h : IsText(h, r, Len(r)) /\ TextOn(r) = h[Len(r)]
    BY TextOnIs
  <1> DEFINE T == {n \in 0 .. Len(q) : h[n] = g[n]}
  <1>3. 0 \in T
    BY <1>1, <1>2, <1>a DEF IsText
  <1>4. ASSUME NEW n \in 0 .. Len(q) - 1, n \in T PROVE n + 1 \in T
    <2>1. n + 1 \in 1 .. Len(q) /\ n + 1 \in 1 .. Len(r) /\ n + 1 \in 0 .. Len(q) /\ (n + 1) - 1 = n
      BY <1>a
    <2>2. g[n + 1] = IF q[n + 1] = Closed THEN g[n] ELSE g[n] \o q[n + 1]
      BY <1>1, <2>1 DEF IsText
    <2>3. h[n + 1] = IF r[n + 1] = Closed THEN h[n] ELSE h[n] \o r[n + 1]
      BY <1>2, <2>1 DEF IsText
    <2>4. r[n + 1] = q[n + 1] /\ h[n] = g[n]
      BY <1>4, <2>1
    <2>5. h[n + 1] = g[n + 1]
      BY <2>2, <2>3, <2>4
    <2>6. QED
      BY <2>1, <2>5
  <1>5. T = 0 .. Len(q)
    <2>1. T \in SUBSET (0 .. Len(q))
      OBVIOUS
    <2> HIDE DEF T
    <2>2. QED
      BY <1>a, <1>3, <1>4, <2>1, Induct
  <1>6. h[Len(q)] = g[Len(q)]
    <2>1. Len(q) \in 0 .. Len(q)
      BY <1>a
    <2>2. Len(q) \in T
      <3> HIDE DEF T
      <3>1. QED
        BY <1>5, <2>1
    <2>3. QED
      BY <2>2
  <1>7. h[Len(r)] = IF r[Len(r)] = Closed THEN h[Len(r) - 1] ELSE h[Len(r) - 1] \o r[Len(r)]
    BY <1>2, <1>a DEF IsText
  <1>8. QED
    BY <1>1, <1>2, <1>6, <1>7, <1>a

\* The text of the first piece comes first.
LEMMA TextShrinks ==
    ASSUME NEW q \in Queues, NEW r \in Queues, Len(q) = Len(r) + 1,
           \A i \in 1 .. Len(r) : r[i] = q[i + 1]
    PROVE  TextOn(q) = IF q[1] = Closed THEN TextOn(r) ELSE q[1] \o TextOn(r)
  <1> DEFINE first == IF q[1] = Closed THEN <<>> ELSE q[1]
  <1>a. Len(r) \in Nat /\ 1 \in 1 .. Len(q) /\ q[1] \in Seq(Chars) \cup {Closed}
        /\ \A i \in 1 .. Len(r) : r[i] \in Seq(Chars) \cup {Closed}
    BY DEF Queues
  <1>b. first \in Seq(Chars)
    BY <1>a
  <1>1. PICK g : IsText(g, r, Len(r)) /\ TextOn(r) = g[Len(r)]
    BY TextOnIs
  <1>2. PICK h : IsText(h, q, Len(q)) /\ TextOn(q) = h[Len(q)]
    BY TextOnIs
  <1> DEFINE T == {n \in 0 .. Len(r) : h[n + 1] = first \o g[n]}
  <1>3. 0 \in T
    <2>1. h[1] = IF q[1] = Closed THEN h[1 - 1] ELSE h[1 - 1] \o q[1]
      BY <1>2, <1>a DEF IsText
    <2>2. h[0] = <<>> /\ g[0] = <<>> /\ 1 - 1 = 0 /\ 0 + 1 = 1 /\ 0 \in 0 .. Len(r)
      BY <1>1, <1>2, <1>a DEF IsText
    <2>3. first \o <<>> = first /\ <<>> \o first = first
      BY <1>b, EofTakesAll
    <2>4. h[1] = first
      BY <2>1, <2>2, <2>3, <1>b, EofTakesAll
    <2> HIDE DEF first
    <2>5. h[0 + 1] = first \o g[0]
      BY <2>2, <2>3, <2>4
    <2>6. QED
      BY <2>2, <2>5
  <1>4. ASSUME NEW n \in 0 .. Len(r) - 1, n \in T PROVE n + 1 \in T
    <2>1. /\ n + 1 \in 1 .. Len(r) /\ n + 1 \in 0 .. Len(r) /\ n \in 0 .. Len(r) /\ (n + 1) - 1 = n
          /\ (n + 1) + 1 \in 1 .. Len(q) /\ ((n + 1) + 1) - 1 = n + 1
      BY <1>a
    <2>2. g[n + 1] = IF r[n + 1] = Closed THEN g[n] ELSE g[n] \o r[n + 1]
      BY <1>1, <2>1 DEF IsText
    <2>3. h[(n + 1) + 1] = IF q[(n + 1) + 1] = Closed THEN h[n + 1] ELSE h[n + 1] \o q[(n + 1) + 1]
      BY <1>2, <2>1 DEF IsText
    <2>4. r[n + 1] = q[(n + 1) + 1] /\ h[n + 1] = first \o g[n]
      BY <1>4, <2>1
    <2>5. g[n] \in Seq(Chars) /\ (r[n + 1] = Closed \/ r[n + 1] \in Seq(Chars))
      BY <1>1, <1>a, <2>1 DEF IsText
    <2> HIDE DEF first
    <2>6. r[n + 1] \in Seq(Chars) => first \o (g[n] \o r[n + 1]) = (first \o g[n]) \o r[n + 1]
      BY <1>b, <2>5, ThreeParts, Zenon
    <2>7. h[(n + 1) + 1] = first \o g[n + 1]
      BY <2>2, <2>3, <2>4, <2>5, <2>6
    <2>8. QED
      BY <2>1, <2>7
  <1>5. T = 0 .. Len(r)
    <2>1. T \in SUBSET (0 .. Len(r))
      OBVIOUS
    <2> HIDE DEF T
    <2>2. QED
      BY <1>a, <1>3, <1>4, <2>1, Induct
  <1>6. Len(r) \in T
    <2>1. Len(r) \in 0 .. Len(r)
      BY <1>a
    <2> HIDE DEF T
    <2>2. QED
      BY <1>5, <2>1
  <1>7. h[Len(q)] = first \o g[Len(r)]
    BY <1>6
  <1>8. <<>> \o TextOn(r) = TextOn(r)
    BY TextOnTyped, EofTakesAll
  <1> HIDE DEF first
  <1>9. TextOn(q) = first \o TextOn(r)
    BY <1>1, <1>2, <1>7
  <1>10. CASE q[1] = Closed
    BY <1>8, <1>9, <1>10 DEF first
  <1>11. CASE q[1] # Closed
    BY <1>9, <1>11 DEF first
  <1>12. QED
    BY <1>10, <1>11

-----------------------------------------------------------------------------
(* No text is lost *)

\* NothingLost of one step.
KeepsText ==
    taken' \o received' \o From(torn', Len(torn)) \o buf' \o TextOn(queue') \o unread'
        = taken \o received \o buf \o TextOn(queue) \o unread

\* What an EInv state holds is text.
LEMMA EachText ==
    EInv => /\ taken \in Seq(Chars)
            /\ received \in Seq(Chars)
            /\ buf \in Seq(Chars)
            /\ TextOn(queue) \in Seq(Chars)
  BY TextOnTyped DEF EInv, Typed, Queues

LEMMA AllText ==
    ASSUME EInv
    PROVE  /\ taken \in Seq(Chars) /\ received \in Seq(Chars) /\ buf \in Seq(Chars)
           /\ unread \in Seq(Chars) /\ torn \in Seq(Chars)
           /\ queue \in Queues /\ TextOn(queue) \in Seq(Chars)
           /\ taken \o received \in Seq(Chars)
           /\ taken \o received \o buf \in Seq(Chars)
           /\ taken \o received \o buf \o TextOn(queue) \in Seq(Chars)
  BY TextOnTyped, ConcatProperties DEF EInv, Typed, Queues

\* Most steps leave the queue alone and raise on nothing.
LEMMA KeepsAll ==
    ASSUME EInv, UNCHANGED <<unread, queue, buf, torn>>, taken' \o received' = taken \o received
    PROVE  KeepsText
  <1>1. From(torn', Len(torn)) = <<>>
    <2>1. Len(torn) \in Nat /\ torn' = torn
      BY AllText
    <2>2. SubSeq(torn, Len(torn) + 1, Len(torn)) = <<>>
      BY <2>1, AllText, SubSeqEmpty
    <2>3. QED
      BY <2>1, <2>2 DEF From
  <1>2. (taken \o received) \o <<>> = taken \o received
    BY AllText, EofTakesAll
  <1>3. taken' \o received' \o From(torn', Len(torn)) = taken \o received
    BY <1>1, <1>2
  <1>4. QED
    BY <1>3 DEF KeepsText

\* A step that raises on nothing.
LEMMA NothingTorn == ASSUME EInv, torn' = torn PROVE From(torn', Len(torn)) = <<>>
  <1>1. torn \in Seq(Chars) /\ Len(torn) \in Nat
    BY AllText
  <1>2. SubSeq(torn, Len(torn) + 1, Len(torn)) = <<>>
    BY <1>1, SubSeqEmpty
  <1>3. QED
    BY <1>2 DEF From

\* Where a piece goes at the end of read_nonblocking.
LEMMA HandOverSplits ==
    ASSUME EInv, pc = "reading", HandOver(buf)
    PROVE  LET piece == FirstN(buf, MaxRead) IN
           /\ (taken' \o received') \o From(torn', Len(torn)) = taken \o (received \o piece)
           /\ piece \o buf' = buf
  <1> DEFINE piece == FirstN(buf, MaxRead)
             L == Len(piece)
  <1>a. MaxRead \in Nat /\ Len(buf) \in Nat
    BY AllText, ExpecterAssumption
  <1>1. piece \in Seq(Chars) /\ L = IF MaxRead < Len(buf) THEN MaxRead ELSE Len(buf)
    BY <1>a, AllText, FirstNIs
  <1>2. piece \o buf' = buf
    <2>1. L \in 0 .. Len(buf) /\ FirstN(buf, L) = piece
      <3>1. L \in 0 .. Len(buf)
        BY <1>a, <1>1
      <3>2. FirstN(buf, L) = piece
        BY <1>a, <1>1 DEF FirstN
      <3>3. QED
        BY <3>1, <3>2
    <2>2. buf' = From(buf, L)
      BY DEF HandOver
    <2> HIDE DEF L, piece
    <2>3. QED
      BY <2>1, <2>2, AllText, CutIs
  <1>3. CASE torn' = torn /\ taken' \o received' = taken \o (received \o piece)
    <2>1. From(torn', Len(torn)) = <<>>
      BY <1>3, NothingTorn
    <2>2. taken \o (received \o piece) \in Seq(Chars)
      <3>1. received \o piece \in Seq(Chars)
        BY <1>1, AllText, ConcatProperties
      <3>2. QED
        BY <3>1, AllText, ConcatProperties
    <2>3. (taken \o (received \o piece)) \o <<>> = taken \o (received \o piece)
      BY <2>2, EofTakesAll
    <2>4. QED
      BY <1>2, <1>3, <2>1, <2>3
  <1>4. CASE torn' = torn \o piece /\ UNCHANGED <<received, taken>>
    <2>1. From(torn', Len(torn)) = piece
      BY <1>1, <1>4, AllText, FromWhole
    <2> HIDE DEF piece, L
    <2>2. (taken \o received) \o piece = taken \o (received \o piece)
      BY <1>1, EachText, ThreeParts, Zenon
    <2>3. QED
      BY <1>2, <1>4, <2>1, <2>2 DEF piece
  <1>5. QED
    BY <1>3, <1>4, HandOverIs

\* The end of read_nonblocking: the piece goes to what is received, or is raised on.
LEMMA HandOverKeeps ==
    ASSUME EInv, pc = "reading", HandOver(buf), unread' = unread, TextOn(queue') = TextOn(queue)
    PROVE  KeepsText
  <1> DEFINE piece == FirstN(buf, MaxRead)
             lost == From(torn', Len(torn))
  <1>1. /\ piece \in Seq(Chars) /\ Len(piece) <= Len(buf)
        /\ buf' = From(buf, Len(piece)) /\ buf' \in Seq(Chars)
    BY HandOverIs
  <1>2. (taken' \o received') \o lost = taken \o (received \o piece)
    BY HandOverSplits
  <1>3. piece \o buf' = buf
    BY HandOverSplits
  <1> HIDE DEF piece, lost
  <1>a. piece \in Seq(Chars) /\ buf' \in Seq(Chars) /\ taken \o received \in Seq(Chars)
    BY <1>1, AllText
  <1>b. taken \in Seq(Chars) /\ received \in Seq(Chars)
    BY EachText
  <1>4. taken \o (received \o piece) = (taken \o received) \o piece
    BY <1>a, <1>b, ThreeParts, Zenon
  <1>5. ((taken \o received) \o piece) \o buf' = (taken \o received) \o (piece \o buf')
    BY <1>a, ThreeParts, Zenon
  <1>6. ((taken' \o received') \o lost) \o buf' = (taken \o received) \o buf
    BY <1>2, <1>3, <1>4, <1>5, Zenon
  <1>7. QED
    BY <1>6 DEF KeepsText, lost

LEMMA KeepsNext == EInv /\ [Next]_vars => KeepsText
  <1> SUFFICES ASSUME EInv, [Next]_vars PROVE KeepsText
    OBVIOUS
  <1>1. ASSUME UNCHANGED vars PROVE KeepsText
    <2>1. UNCHANGED <<unread, queue, buf, torn, taken, received>>
      BY <1>1 DEF vars, thread
    <2>2. QED
      BY <2>1, KeepsAll
  <1>2. ASSUME NEW s \in Searches, NEW w \in Windows, NEW timed \in BOOLEAN, Expect(s, w, timed)
        PROVE  KeepsText
    BY <1>2, ExpectMoves, KeepsAll
  <1>3. ASSUME TimeOut \/ StartRead PROVE KeepsText
    <2>1. UNCHANGED <<unread, queue, buf, torn, taken, received>>
      BY <1>3 DEF TimeOut, StartRead, thread
    <2>2. QED
      BY <2>1, KeepsAll
  <1>4. ASSUME Eof PROVE KeepsText
    <2>1. UNCHANGED <<unread, queue, buf, torn>> /\ taken' = taken \o received /\ received' = <<>>
      BY <1>4 DEF Eof, thread
    <2>2. taken' \o received' = taken \o received
      BY <2>1, AllText, EofTakesAll
    <2>3. QED
      BY <2>1, <2>2, KeepsAll
  <1>5. ASSUME Get PROVE KeepsText
    <2>1. /\ queue # <<>> /\ Head(queue) # Closed /\ buf' = buf \o Head(queue) /\ queue' = Tail(queue)
          /\ UNCHANGED <<unread, received, taken, torn>>
      BY <1>5 DEF Get
    <2>2. /\ Head(queue) = queue[1] /\ Head(queue) \in Seq(Chars) /\ queue' \in Queues
          /\ Len(queue) = Len(queue') + 1 /\ \A i \in 1 .. Len(queue') : queue'[i] = queue[i + 1]
      BY <2>1, QueueTail DEF Queues
    <2>3. TextOn(queue) = Head(queue) \o TextOn(queue')
      BY <2>1, <2>2, TextShrinks, AllText
    <2>4. TextOn(queue') \in Seq(Chars)
      BY <2>2, TextOnTyped
    <2>5. (buf \o Head(queue)) \o TextOn(queue') = buf \o TextOn(queue)
      <3>1. Head(queue) \in Seq(Chars) /\ buf \in Seq(Chars)
        BY <2>2, EachText
      <3>2. buf \o (Head(queue) \o TextOn(queue')) = (buf \o Head(queue)) \o TextOn(queue')
        BY <2>4, <3>1, ThreeParts, Zenon
      <3>3. QED
        BY <2>3, <3>2, Zenon
    <2>6. From(torn', Len(torn)) = <<>>
      BY <2>1, NothingTorn
    <2>7. (taken \o received) \o <<>> = taken \o received
      BY AllText, EofTakesAll
    <2> DEFINE known == taken \o received
    <2>8. known \in Seq(Chars) /\ buf' \in Seq(Chars)
      BY <2>1, <2>2, AllText, ConcatProperties
    <2> HIDE DEF known
    <2>9. (known \o buf') \o TextOn(queue') = known \o (buf' \o TextOn(queue'))
      BY <2>4, <2>8, ThreeParts, Zenon
    <2>10. (known \o buf) \o TextOn(queue) = known \o (buf \o TextOn(queue))
      BY <2>8, EachText, ThreeParts, Zenon
    <2>11. (known \o buf') \o TextOn(queue') = (known \o buf) \o TextOn(queue)
      BY <2>1, <2>5, <2>9, <2>10, Zenon
    <2>12. QED
      BY <2>1, <2>6, <2>7, <2>11 DEF KeepsText, known
  <1>6. ASSUME GetClosed PROVE KeepsText
    <2>1. /\ pc = "reading" /\ HandOver(buf) /\ unread' = unread
          /\ queue # <<>> /\ Head(queue) = Closed /\ queue' = Tail(queue)
      BY <1>6 DEF GetClosed
    <2>2. /\ Head(queue) = queue[1] /\ queue' \in Queues
          /\ Len(queue) = Len(queue') + 1 /\ \A i \in 1 .. Len(queue') : queue'[i] = queue[i + 1]
      BY <2>1, QueueTail DEF Queues
    <2>3. TextOn(queue) = TextOn(queue')
      BY <2>1, <2>2, TextShrinks, AllText
    <2>4. QED
      BY <2>1, <2>3, HandOverKeeps
  <1>7. ASSUME EndRead PROVE KeepsText
    <2>1. pc = "reading" /\ HandOver(buf) /\ unread' = unread /\ queue' = queue
      BY <1>7 DEF EndRead, thread
    <2>2. QED
      BY <2>1, HandOverKeeps
  <1>8. ASSUME NEW n \in 1 .. MaxChunk, ThreadReads(n) PROVE KeepsText
    <2>1. /\ n <= Len(unread) /\ unread' = From(unread, n) /\ queue' = Append(queue, FirstN(unread, n))
          /\ UNCHANGED <<buf, received, taken, torn>>
      BY <1>8 DEF ThreadReads
    <2> DEFINE piece == FirstN(unread, n)
    <2>2. n \in 0 .. Len(unread) /\ n \in Nat
      BY <2>1, AllText, ExpecterAssumption
    <2>3. piece \in Seq(Chars) /\ piece \o unread' = unread /\ unread' \in Seq(Chars)
      BY <2>1, <2>2, AllText, CutIs, FirstNIs, FromIs
    <2>4. piece # Closed
      BY <2>3, ExpecterAssumption
    <2>5. queue' = Append(queue, piece)
      BY <2>1
    <2> HIDE DEF piece
    <2>6. TextOn(queue') = TextOn(queue) \o piece
      <3>1. /\ queue' \in Queues /\ Len(queue') = Len(queue) + 1
            /\ \A i \in 1 .. Len(queue) : queue'[i] = queue[i]
            /\ queue'[Len(queue')] = piece
        BY <2>3, <2>5, QueueGrows DEF Queues
      <3>2. QED
        BY <2>4, <3>1, TextGrows, AllText
    <2>7. From(torn', Len(torn)) = <<>>
      BY <2>1, NothingTorn
    <2>8. (taken \o received) \o <<>> = taken \o received
      BY AllText, EofTakesAll
    <2> DEFINE known == taken \o received \o buf
    <2>9. known \in Seq(Chars)
      BY AllText
    <2> HIDE DEF known
    <2>10. ((known \o TextOn(queue)) \o piece) \o unread' = (known \o TextOn(queue)) \o (piece \o unread')
      <3>1. known \o TextOn(queue) \in Seq(Chars)
        BY <2>9, AllText, ConcatProperties
      <3>2. QED
        BY <3>1, <2>3, ThreeParts, Zenon
    <2>11. known \o (TextOn(queue) \o piece) = (known \o TextOn(queue)) \o piece
      BY <2>3, <2>9, EachText, ThreeParts, Zenon
    <2>12. (known \o TextOn(queue')) \o unread' = (known \o TextOn(queue)) \o unread
      BY <2>3, <2>6, <2>10, <2>11, Zenon
    <2>13. QED
      BY <2>1, <2>7, <2>8, <2>12 DEF KeepsText, known
  <1>9. ASSUME ThreadEnds PROVE KeepsText
    <2>1. unread' = unread /\ queue' = Append(queue, Closed) /\ UNCHANGED <<buf, received, taken, torn>>
      BY <1>9 DEF ThreadEnds
    <2>2. TextOn(queue') = TextOn(queue)
      <3>1. /\ queue' \in Queues /\ Len(queue') = Len(queue) + 1
            /\ \A i \in 1 .. Len(queue) : queue'[i] = queue[i]
            /\ queue'[Len(queue')] = Closed
        BY <2>1, QueueGrows DEF Queues
      <3>2. QED
        BY <3>1, TextGrows, AllText
    <2>3. From(torn', Len(torn)) = <<>>
      BY <2>1, NothingTorn
    <2>4. (taken \o received) \o <<>> = taken \o received
      BY AllText, EofTakesAll
    <2>5. QED
      BY <2>1, <2>2, <2>3, <2>4 DEF KeepsText
  <1>10. QED
    BY <1>1, <1>2, <1>3, <1>4, <1>5, <1>6, <1>7, <1>8, <1>9 DEF Next, Loop

\* Every step keeps all the text in its place, from the child through the queue and the
\* buffers to the matches, whatever the chunks; only a piece that the log raises on leaves.
THEOREM NoTextLost == Spec => NothingLost
  <1>1. EInv /\ [Next]_vars => [KeepsText]_vars
    BY KeepsNext
  <1>2. QED
    BY <1>1, EInvariant, PTL DEF Spec, NothingLost, KeepsText

\* What expect.py:34 promises of a call that raises holds while every byte is a character:
\* no piece is raised on, so none is missing from before.
THEOREM WholeWithSingleBytes ==
    ASSUME Chars \cap {"h", "l"} = {}
    PROVE  Spec => []BeforeIsAllReceived
  <1> DEFINE I == torn = <<>>
  <1>1. ASSUME EInv, I, [Next]_vars PROVE I'
    <2>1. ASSUME pc = "reading", HandOver(buf) PROVE I'
      <3>1. FirstN(buf, MaxRead) \in Seq(Chars)
        BY <1>1, AllText, FirstNIs, ExpecterAssumption
      <3>2. \A piece \in Seq(Chars) : Decodes(piece)
        <4> SUFFICES ASSUME NEW piece \in Seq(Chars), piece # <<>>
                     PROVE  Head(piece) # "l" /\ piece[Len(piece)] # "h"
          BY DEF Decodes
        <4>1. 1 \in 1 .. Len(piece) /\ Len(piece) \in 1 .. Len(piece) /\ Head(piece) = piece[1]
          BY EmptySeq
        <4>2. \A i \in 1 .. Len(piece) : piece[i] \in Chars
          OBVIOUS
        <4>3. QED
          BY <4>1, <4>2
      <3>3. QED
        BY <1>1, <2>1, <3>1, <3>2 DEF HandOver
    <2>2. CASE GetClosed \/ EndRead
      BY <2>1, <2>2 DEF GetClosed, EndRead
    <2>3. CASE ~(GetClosed \/ EndRead)
      <3>1. torn' = torn
        BY <1>1, <2>3 DEF Next, Loop, Expect, TimeOut, Eof, StartRead, Get, ThreadReads, ThreadEnds, vars
      <3>2. QED
        BY <1>1, <3>1
    <2>4. QED
      BY <2>2, <2>3
  <1>2. Init => I
    BY DEF Init
  <1>3. I => BeforeIsAllReceived
    BY DEF BeforeIsAllReceived
  <1> HIDE DEF I
  <1>4. QED
    BY <1>1, <1>2, <1>3, EInvariant, PTL DEF Spec

=============================================================================
