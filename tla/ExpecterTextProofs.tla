------------------------- MODULE ExpecterTextProofs -------------------------
(***************************************************************************)
(* Expecter implements ExpectText: searching a bounded end of the text, and  *)
(* in it only where new text can take part in a match, finds what a search  *)
(* of all the text would find, for any streams, chunks, searchers and        *)
(* windows.  The invariant behind it is Searched: while a call runs, no      *)
(* pattern stands in what was received (unless a window is set), and         *)
(* _buffer is long enough for the next search.                              *)
(***************************************************************************)
EXTENDS ExpecterProofs

\* _buffer is all of the text received, or no shorter than what the next search looks at.
LongEnough(buffer, t, c) ==
    buffer = t \/ (Maintain(c) # 0 /\ Len(buffer) >= Maintain(c))

NoneIn(t, c) == \A i \in DOMAIN c.search.strings, n \in 0 .. Len(t) :
                    ~ StandsAt(t, c.search.strings[i], n)

Searched ==
    pc # "idle" => /\ LongEnough(window, received, call)
                   /\ call.w = 0 => NoneIn(received, call)

-----------------------------------------------------------------------------
(* Where a pattern stands *)

\* In an end of the text, places are shifted.
LEMMA StandsInEnd ==
    ASSUME NEW t \in Seq(Chars), NEW d \in 0 .. Len(t), NEW s \in Seq(Chars),
           NEW k \in 0 .. Len(t) - d
    PROVE  StandsAt(From(t, d), s, k) <=> StandsAt(t, s, d + k)
  <1> DEFINE e == From(t, d)
             m == Len(s)
  <1>a. Len(t) \in Nat /\ m \in Nat /\ d \in Nat /\ k \in Nat
    OBVIOUS
  <1>1. /\ e \in Seq(Chars) /\ Len(e) = Len(t) - d
        /\ \A i \in 1 .. Len(t) - d : e[i] = t[d + i]
    BY FromIs
  <1> HIDE DEF e, m
  <1>2. k + m <= Len(e) <=> (d + k) + m <= Len(t)
    BY <1>a, <1>1
  <1>3. ASSUME k + m <= Len(e) PROVE SubSeq(e, k + 1, k + m) = SubSeq(t, (d + k) + 1, (d + k) + m)
    <2>1. \A i \in k + 1 .. k + m : e[i] \in Chars
      BY <1>a, <1>1, <1>3
    <2>2. /\ SubSeq(e, k + 1, k + m) \in Seq(Chars)
          /\ Len(SubSeq(e, k + 1, k + m)) = IF k + 1 <= k + m THEN (k + m) - (k + 1) + 1 ELSE 0
          /\ \A i \in 1 .. (k + m) - (k + 1) + 1 : SubSeq(e, k + 1, k + m)[i] = e[(k + 1) + i - 1]
      BY <1>a, <2>1, SubSeqProperties
    <2>3. \A i \in (d + k) + 1 .. (d + k) + m : t[i] \in Chars
      BY <1>a, <1>2, <1>3
    <2>4. /\ SubSeq(t, (d + k) + 1, (d + k) + m) \in Seq(Chars)
          /\ Len(SubSeq(t, (d + k) + 1, (d + k) + m)) =
                IF (d + k) + 1 <= (d + k) + m THEN ((d + k) + m) - ((d + k) + 1) + 1 ELSE 0
          /\ \A i \in 1 .. ((d + k) + m) - ((d + k) + 1) + 1 :
                SubSeq(t, (d + k) + 1, (d + k) + m)[i] = t[((d + k) + 1) + i - 1]
      BY <1>a, <2>3, SubSeqProperties
    <2>5. /\ (k + m) - (k + 1) + 1 = m /\ ((d + k) + m) - ((d + k) + 1) + 1 = m
          /\ (k + 1 <= k + m <=> 1 <= m) /\ ((d + k) + 1 <= (d + k) + m <=> 1 <= m)
      BY <1>a
    <2>6. /\ Len(SubSeq(e, k + 1, k + m)) = m
          /\ Len(SubSeq(t, (d + k) + 1, (d + k) + m)) = m
      BY <1>a, <2>2, <2>4, <2>5
    <2>7. ASSUME NEW i \in 1 .. m
          PROVE  SubSeq(e, k + 1, k + m)[i] = SubSeq(t, (d + k) + 1, (d + k) + m)[i]
      <3>1. /\ (k + 1) + i - 1 = k + i /\ ((d + k) + 1) + i - 1 = d + (k + i)
            /\ k + i \in 1 .. Len(t) - d
        BY <1>a, <1>1, <1>3
      <3>2. e[k + i] = t[d + (k + i)]
        BY <1>1, <3>1
      <3>3. QED
        BY <2>2, <2>4, <2>5, <3>1, <3>2
    <2>8. QED
      BY <2>2, <2>4, <2>6, <2>7, SeqEqual
  <1>4. QED
    BY <1>2, <1>3 DEF StandsAt, e, m

\* New text does not change where a pattern stands in the old.
LEMMA StandsInOld ==
    ASSUME NEW t \in Seq(Chars), NEW p \in Seq(Chars), NEW s \in Seq(Chars),
           NEW n \in Nat, n + Len(s) <= Len(t)
    PROVE  StandsAt(t \o p, s, n) <=> StandsAt(t, s, n)
  <1> DEFINE u == t \o p
             m == Len(s)
  <1>a. Len(t) \in Nat /\ Len(p) \in Nat /\ m \in Nat
    OBVIOUS
  <1>1. /\ u \in Seq(Chars) /\ Len(u) = Len(t) + Len(p)
        /\ \A i \in 1 .. Len(t) + Len(p) : u[i] = IF i <= Len(t) THEN t[i] ELSE p[i - Len(t)]
    BY ConcatProperties
  <1> HIDE DEF u, m
  <1>b. n + m <= Len(t) /\ n + m <= Len(u)
    BY <1>a, <1>1 DEF m
  <1>2. \A i \in n + 1 .. n + m : u[i] = t[i] /\ t[i] \in Chars
    BY <1>a, <1>b, <1>1
  <1>3. /\ SubSeq(u, n + 1, n + m) \in Seq(Chars)
        /\ Len(SubSeq(u, n + 1, n + m)) = IF n + 1 <= n + m THEN (n + m) - (n + 1) + 1 ELSE 0
        /\ \A i \in 1 .. (n + m) - (n + 1) + 1 : SubSeq(u, n + 1, n + m)[i] = u[(n + 1) + i - 1]
    BY <1>a, <1>2, SubSeqProperties
  <1>4. /\ SubSeq(t, n + 1, n + m) \in Seq(Chars)
        /\ Len(SubSeq(t, n + 1, n + m)) = IF n + 1 <= n + m THEN (n + m) - (n + 1) + 1 ELSE 0
        /\ \A i \in 1 .. (n + m) - (n + 1) + 1 : SubSeq(t, n + 1, n + m)[i] = t[(n + 1) + i - 1]
    BY <1>a, <1>2, SubSeqProperties
  <1>5. (n + m) - (n + 1) + 1 = m /\ (n + 1 <= n + m <=> 1 <= m)
    BY <1>a
  <1>6. Len(SubSeq(u, n + 1, n + m)) = m /\ Len(SubSeq(t, n + 1, n + m)) = m
    BY <1>a, <1>3, <1>4, <1>5
  <1>7. \A i \in 1 .. m : SubSeq(u, n + 1, n + m)[i] = SubSeq(t, n + 1, n + m)[i]
    <2> TAKE i \in 1 .. m
    <2>1. (n + 1) + i - 1 \in n + 1 .. n + m
      BY <1>a
    <2>2. QED
      BY <1>2, <1>3, <1>4, <1>5, <2>1
  <1>8. SubSeq(u, n + 1, n + m) = SubSeq(t, n + 1, n + m)
    BY <1>3, <1>4, <1>6, <1>7, SeqEqual
  <1>9. QED
    BY <1>b, <1>8 DEF StandsAt, u, m

-----------------------------------------------------------------------------
(* One search *)

\* A search of the end of t finds the places that a search of t should find.
Same(t, win, fresh, c) ==
    \A i \in DOMAIN c.search.strings, n \in 0 .. Len(t) :
        LET s == c.search.strings[i]
            d == Len(t) - Len(win)
        IN  (n >= Text!From(t, c.w) /\ StandsAt(t, s, n))
             <=> /\ n - d \in 0 .. Len(win)
                 /\ n - d >= SearchStart(win, fresh, c, s)
                 /\ StandsAt(win, s, n - d)

LEMMA TextFromIs ==
    ASSUME NEW t \in Seq(Chars), NEW w \in Nat
    PROVE  Text!From(t, w) \in 0 .. Len(t)
  <1>1. Len(t) \in Nat
    OBVIOUS
  <1>2. QED
    BY <1>1 DEF Text!From

\* do_search then answers as the abstract search of t does.
LEMMA LooksAt ==
    ASSUME NEW c \in Calls, NEW t \in Seq(Chars), NEW buffer \in Seq(Chars),
           NEW win \in Seq(Chars), NEW fresh \in Nat,
           IsSuffix(win, t), Same(t, win, fresh, c),
           DoSearch(c, t, buffer, win, fresh)
    PROVE  /\ Text!Look(t, c)
           /\ Hits(win, fresh, c) = {} =>
                 \A i \in DOMAIN c.search.strings, n \in 0 .. Len(t) :
                    n >= Text!From(t, c.w) => ~StandsAt(t, c.search.strings[i], n)
  <1> DEFINE d == Len(t) - Len(win)
             p == c.search.strings
             H == Hits(win, fresh, c)
             O == Text!Occurrences(t, c)
  <1>a. Len(t) \in Nat /\ Len(win) \in Nat /\ Len(win) <= Len(t) /\ win = From(t, d)
        /\ d \in 0 .. Len(t) /\ d \in Nat /\ Len(t) - d = Len(win)
    <2>1. Len(t) \in Nat /\ Len(win) \in Nat
      OBVIOUS
    <2>2. Len(win) <= Len(t) /\ win = From(t, d)
      BY SuffixIs
    <2>3. QED
      BY <2>1, <2>2
  <1>b. \A i \in DOMAIN p : i \in Nat /\ p[i] \in Seq(Chars) /\ Len(p[i]) \in Nat
    BY CallIs
  <1>c. c.w \in Nat /\ Text!From(t, c.w) \in 0 .. Len(t)
    BY CallIs, TextFromIs
  <1>1. \A n, i : <<n, i>> \in O <=> /\ n \in 0 .. Len(t) /\ i \in DOMAIN p
                                     /\ n >= Text!From(t, c.w) /\ StandsAt(t, p[i], n)
    <2>1. \A n, i : <<n, i>> \in O <=> /\ n \in Text!From(t, c.w) .. Len(t) /\ i \in DOMAIN p
                                       /\ Text!StandsAt(t, p[i], n)
      BY DEF Text!Occurrences
    <2>2. \A n : n \in Text!From(t, c.w) .. Len(t) <=> n \in 0 .. Len(t) /\ n >= Text!From(t, c.w)
      BY <1>a, <1>c
    <2>3. \A s, n : Text!StandsAt(t, s, n) <=> StandsAt(t, s, n)
      BY DEF Text!StandsAt, StandsAt
    <2>4. QED
      BY <2>1, <2>2, <2>3
  <1>2. \A k, i : <<k, i>> \in H <=> /\ k \in 0 .. Len(win) /\ i \in DOMAIN p
                                     /\ k >= SearchStart(win, fresh, c, p[i]) /\ StandsAt(win, p[i], k)
    BY DEF Hits
  <1>3. \A n, i : <<n, i>> \in O => <<n - d, i>> \in H
    BY <1>1, <1>2 DEF Same
  <1>4. \A k, i : <<k, i>> \in H => <<k + d, i>> \in O
    <2> SUFFICES ASSUME NEW k, NEW i, <<k, i>> \in H PROVE <<k + d, i>> \in O
      OBVIOUS
    <2>1. k \in 0 .. Len(win) /\ i \in DOMAIN p
      BY <1>2
    <2>2. k + d \in 0 .. Len(t) /\ (k + d) - d = k
      BY <1>a, <2>1
    <2>3. QED
      BY <1>1, <1>2, <2>1, <2>2 DEF Same
  <1>5. O \in SUBSET (Nat \X Nat) /\ H \in SUBSET (Nat \X Nat)
    <2>1. O \in SUBSET ((Text!From(t, c.w) .. Len(t)) \X DOMAIN p) /\ H \in SUBSET ((0 .. Len(win)) \X DOMAIN p)
      BY DEF Text!Occurrences, Hits
    <2>2. Text!From(t, c.w) .. Len(t) \subseteq Nat /\ 0 .. Len(win) \subseteq Nat /\ DOMAIN p \subseteq Nat
      BY <1>a, <1>b, <1>c
    <2>3. QED
      BY <2>1, <2>2
  <1>6. H = {} <=> O = {}
    <2>1. ASSUME NEW x \in O PROVE H # {}
      <3>1. x = <<x[1], x[2]>>
        BY <1>5, <2>1
      <3>2. QED
        BY <1>3, <2>1, <3>1
    <2>2. ASSUME NEW x \in H PROVE O # {}
      <3>1. x = <<x[1], x[2]>>
        BY <1>5, <2>2
      <3>2. QED
        BY <1>4, <2>2, <3>1
    <2>3. QED
      BY <2>1, <2>2
  <1> HIDE DEF O
  <1>7. CASE H = {}
    <2>1. received' = t /\ call' = c /\ answer' = answer
      BY <1>7 DEF DoSearch
    <2>2. O = {}
      BY <1>6, <1>7
    <2>3. Text!Look(t, c)
      BY <2>1, <2>2 DEF Text!Look, O
    <2>4. QED
      BY <1>1, <2>2, <2>3
  <1>8. CASE H # {}
    <2> DEFINE h == Best(H)
               s == p[h[2]]
               at == h[1] + d
               cut == Len(t) - (Len(win) - h[1])
    <2>1. /\ answer' = [kind |-> "match", index |-> h[2], before |-> FirstN(t, cut), after |-> s]
          /\ received' = From(win, h[1] + Len(s))
          /\ call' = NoCall
      BY <1>8 DEF DoSearch
    <2>2. /\ h \in H
          /\ h[1] \in 0 .. Len(win) /\ h[2] \in DOMAIN p
          /\ h[1] \in Nat /\ h[2] \in Nat /\ s \in Seq(Chars)
          /\ StandsAt(win, s, h[1])
          /\ \A g \in H : h[1] < g[1] \/ (h[1] = g[1] /\ h[2] <= g[2])
      BY <1>8, HitIs
    <2> HIDE DEF H, h
    <2>3. h = <<h[1], h[2]>>
      BY <1>5, <2>2
    <2>4. <<at, h[2]>> \in O /\ at \in Nat /\ at \in 0 .. Len(t) /\ cut = at
      BY <1>1, <1>4, <1>a, <2>2, <2>3
    <2>5. \A o \in O : at < o[1] \/ (at = o[1] /\ h[2] <= o[2])
      <3> SUFFICES ASSUME NEW o \in O PROVE at < o[1] \/ (at = o[1] /\ h[2] <= o[2])
        OBVIOUS
      <3>1. o = <<o[1], o[2]>> /\ o[1] \in Nat /\ o[2] \in Nat
        BY <1>5
      <3>2. <<o[1] - d, o[2]>> \in H
        BY <1>3, <3>1
      <3>3. h[1] < o[1] - d \/ (h[1] = o[1] - d /\ h[2] <= o[2])
        BY <2>2, <3>2
      <3>4. QED
        BY <1>a, <2>2, <3>1, <3>3
    <2>6. Text!FirstOf(O) = <<at, h[2]>>
      <3>1. \A x \in O : (\A o \in O : Text!Before(x, o)) => x = <<at, h[2]>>
        <4> SUFFICES ASSUME NEW x \in O, \A o \in O : Text!Before(x, o) PROVE x = <<at, h[2]>>
          OBVIOUS
        <4>1. x = <<x[1], x[2]>> /\ x[1] \in Nat /\ x[2] \in Nat
          BY <1>5
        <4>2. x[1] < at \/ (x[1] = at /\ x[2] <= h[2])
          BY <2>4 DEF Text!Before
        <4>3. at < x[1] \/ (at = x[1] /\ h[2] <= x[2])
          BY <2>5
        <4>4. x[1] = at /\ x[2] = h[2]
          BY <2>2, <2>4, <4>1, <4>2, <4>3
        <4>5. QED
          BY <4>1, <4>4
      <3>2. \A o \in O : Text!Before(<<at, h[2]>>, o)
        BY <2>5 DEF Text!Before
      <3>3. QED
        BY <2>4, <3>1, <3>2 DEF Text!FirstOf
    <2>7. StandsAt(t, s, at)
      BY <1>1, <2>4
    <2> HIDE DEF s, at, cut
    <2>8. at + Len(s) <= Len(t) /\ SubSeq(t, at + 1, at + Len(s)) = s /\ Len(s) \in Nat
      BY <2>2, <2>7 DEF StandsAt
    <2>9. FirstN(t, cut) = SubSeq(t, 1, at)
      <3>1. (IF at < Len(t) THEN at ELSE Len(t)) = at
        BY <1>a, <2>4
      <3>2. QED
        BY <2>4, <3>1 DEF FirstN
    <2>10. From(win, h[1] + Len(s)) = SubSeq(t, (at + Len(s)) + 1, Len(t))
      <3>1. h[1] + Len(s) \in 0 .. Len(t) - d /\ d + (h[1] + Len(s)) = at + Len(s)
        <4>1. /\ at = h[1] + d /\ h[1] \in Nat /\ d \in Nat /\ Len(s) \in Nat /\ Len(t) \in Nat
              /\ at + Len(s) <= Len(t)
          BY <1>a, <2>2, <2>8 DEF at
        <4> HIDE DEF d
        <4>2. QED
          BY ONLY <4>1
      <3>2. From(From(t, d), h[1] + Len(s)) = From(t, d + (h[1] + Len(s)))
        BY <1>a, <3>1, FromFrom
      <3>3. QED
        BY <1>a, <3>1, <3>2 DEF From
    <2>11. Text!Match(t, c)
      <3>1. <<at, h[2]>>[1] = at /\ <<at, h[2]>>[2] = h[2]
        OBVIOUS
      <3>2. Text!FirstOf(Text!Occurrences(t, c)) = <<at, h[2]>>
        BY <2>6 DEF O
      <3>3. c.search.strings[h[2]] = s
        BY DEF s
      <3>4. QED
        BY <2>1, <2>8, <2>9, <2>10, <3>1, <3>2, <3>3 DEF Text!Match
    <2>12. O # {}
      BY <2>4
    <2>13. QED
      BY <1>8, <2>11, <2>12 DEF Text!Look, O, H
  <1>9. QED
    BY <1>7, <1>8

-----------------------------------------------------------------------------
(* The windows of existing_data and new_data are long enough *)

\* An end of t that is as long as t is t.
LEMMA WholeEnd ==
    ASSUME NEW e \in Seq(Chars), NEW t \in Seq(Chars), IsSuffix(e, t), Len(e) >= Len(t)
    PROVE  e = t
  <1>1. Len(e) \in Nat /\ Len(t) \in Nat
    OBVIOUS
  <1>2. Len(e) <= Len(t) /\ e = From(t, Len(t) - Len(e))
    BY SuffixIs
  <1>3. Len(t) - Len(e) = 0
    BY <1>1, <1>2
  <1>4. From(t, 0) = t
    BY SubSeqFull DEF From
  <1>5. QED
    BY <1>2, <1>3, <1>4

\* The last w characters of a buffer that is long enough.
LEMMA LastEnough ==
    ASSUME NEW t \in Seq(Chars), NEW e \in Seq(Chars), NEW w \in Nat, IsSuffix(e, t),
           e = t \/ Len(e) >= w
    PROVE  /\ LastN(e, w) = t \/ Len(LastN(e, w)) = w
           /\ Len(LastN(e, w)) = IF w < Len(t) THEN w ELSE Len(t)
           /\ IsSuffix(LastN(e, w), t) /\ LastN(e, w) \in Seq(Chars)
  <1> DEFINE f == LastN(e, w)
  <1>a. Len(e) \in Nat /\ Len(t) \in Nat /\ Len(e) <= Len(t)
    BY SuffixIs
  <1>1. f \in Seq(Chars) /\ Len(f) = (IF w < Len(e) THEN w ELSE Len(e)) /\ IsSuffix(f, e)
    BY LastNIs
  <1>2. IsSuffix(f, t)
    BY <1>1, SuffixTrans
  <1> HIDE DEF f
  <1>3. Len(f) = IF w < Len(t) THEN w ELSE Len(t)
    BY <1>a, <1>1
  <1>4. f = t \/ Len(f) = w
    <2>1. CASE w < Len(t)
      BY <1>3, <2>1
    <2>2. CASE ~(w < Len(t))
      BY <1>1, <1>2, <1>3, <1>a, <2>2, WholeEnd
    <2>3. QED
      BY <2>1, <2>2
  <1>5. QED
    BY <1>1, <1>2, <1>3, <1>4 DEF f

\* What a search that found nothing leaves is long enough for the next.
LEMMA TrimmedEnough ==
    ASSUME NEW c \in Calls, NEW t \in Seq(Chars), NEW buffer \in Seq(Chars), NEW win \in Seq(Chars),
           IsSuffix(win, t), IsSuffix(buffer, t),
           LongEnough(buffer, t, c), LongEnough(win, t, c)
    PROVE  LongEnough(Trimmed(c, buffer, win), t, c)
  <1> DEFINE M == Maintain(c)
  <1>a. M \in Nat /\ Len(t) \in Nat /\ Len(buffer) \in Nat /\ Len(win) \in Nat /\ Len(buffer) <= Len(t)
    BY LookbackIs, SuffixIs
  <1>1. CASE M # 0 /\ Len(buffer) > M
    <2>1. Trimmed(c, buffer, win) = LastN(win, M)
      BY <1>1 DEF Trimmed
    <2>2. win = t \/ Len(win) >= M
      BY DEF LongEnough
    <2>3. LastN(win, M) = t \/ Len(LastN(win, M)) = M
      BY <1>a, <2>2, LastEnough
    <2>4. QED
      BY <1>1, <1>a, <2>1, <2>3 DEF LongEnough
  <1>2. CASE ~(M # 0 /\ Len(buffer) > M)
    <2>1. Trimmed(c, buffer, win) = buffer
      BY <1>2 DEF Trimmed
    <2>2. QED
      BY <2>1
  <1>3. QED
    BY <1>1, <1>2

\* With a window, the search looks at the last w characters.
LEMMA SameInWindow ==
    ASSUME NEW c \in Calls, NEW t \in Seq(Chars), NEW buffer \in Seq(Chars), NEW fresh \in Nat,
           c.w # 0, IsSuffix(buffer, t), LongEnough(buffer, t, c)
    PROVE  /\ Same(t, LastN(buffer, c.w), fresh, c)
           /\ IsSuffix(LastN(buffer, c.w), t)
           /\ LongEnough(LastN(buffer, c.w), t, c)
  <1> DEFINE win == LastN(buffer, c.w)
             d == Len(t) - Len(win)
  <1>a. c.w \in Nat /\ Len(t) \in Nat /\ Maintain(c) = c.w
    BY CallIs DEF Maintain
  <1>b. buffer = t \/ Len(buffer) >= c.w
    BY <1>a DEF LongEnough
  <1>1. /\ win = t \/ Len(win) = c.w
        /\ Len(win) = IF c.w < Len(t) THEN c.w ELSE Len(t)
        /\ IsSuffix(win, t) /\ win \in Seq(Chars)
    BY <1>a, <1>b, LastEnough
  <1> HIDE DEF win
  <1>2. Len(win) \in Nat /\ Len(win) <= Len(t) /\ win = From(t, d)
    BY <1>1, SuffixIs
  <1>3. d \in 0 .. Len(t) /\ d \in Nat /\ Len(t) - d = Len(win) /\ Text!From(t, c.w) = d
    BY <1>1, <1>2, <1>a DEF Text!From
  <1>4. ASSUME NEW i \in DOMAIN c.search.strings, NEW n \in 0 .. Len(t)
        PROVE  (n >= Text!From(t, c.w) /\ StandsAt(t, c.search.strings[i], n))
                <=> /\ n - d \in 0 .. Len(win)
                    /\ n - d >= SearchStart(win, fresh, c, c.search.strings[i])
                    /\ StandsAt(win, c.search.strings[i], n - d)
    <2> DEFINE s == c.search.strings[i]
    <2>1. s \in Seq(Chars)
      BY CallIs
    <2> HIDE DEF s
    <2>2. SearchStart(win, fresh, c, s) = 0
      <3>1. SearchStart(win, fresh, c, s) = Back(win, c.w)
        BY <1>1, <2>1, StartIs
      <3>2. Len(win) <= c.w
        BY <1>1, <1>a
      <3>3. QED
        BY <3>1, <3>2 DEF Back
    <2>3. n >= d <=> n - d \in 0 .. Len(win)
      BY <1>2, <1>3
    <2>4. ASSUME n >= d PROVE StandsAt(win, s, n - d) <=> StandsAt(t, s, n)
      <3>1. n - d \in 0 .. Len(t) - d /\ d + (n - d) = n
        BY <1>3, <2>4
      <3>2. QED
        BY <1>2, <1>3, <2>1, <3>1, StandsInEnd
    <2>5. n - d \in 0 .. Len(win) => n - d >= 0
      BY <1>2
    <2>6. QED
      BY <1>3, <2>2, <2>3, <2>4, <2>5 DEF s
  <1>5. Same(t, win, fresh, c)
    BY <1>4 DEF Same
  <1>6. LongEnough(win, t, c)
    BY <1>1, <1>a DEF LongEnough
  <1>7. QED
    BY <1>1, <1>5, <1>6 DEF win

\* Without a window, a search of all the text.
LEMMA SameInAll ==
    ASSUME NEW c \in Calls, NEW t \in Seq(Chars), NEW fresh \in Nat, c.w = 0,
           \A i \in DOMAIN c.search.strings : SearchStart(t, fresh, c, c.search.strings[i]) = 0
    PROVE  Same(t, t, fresh, c)
  <1>1. Len(t) \in Nat /\ Len(t) - Len(t) = 0 /\ Text!From(t, c.w) = 0
    BY DEF Text!From
  <1>2. \A n \in 0 .. Len(t) : n - 0 = n /\ n >= 0
    BY <1>1
  <1>3. QED
    BY <1>1, <1>2 DEF Same

LEMMA ExistingLooks ==
    ASSUME NEW c \in Calls, received \in Seq(Chars), window \in Seq(Chars), taken \in Seq(Chars),
           IsSuffix(window, received), ExistingData(c)
    PROVE  Text!Look(received, c) /\ (pc' # "idle" => Searched')
  <1> DEFINE refill == IF c.w = 0 THEN received
                       ELSE IF Len(window) < c.w THEN LastN(received, c.w) ELSE window
             buffer == IF Len(received) > Len(window) THEN refill ELSE window
             win == IF c.w = 0 THEN buffer ELSE LastN(buffer, c.w)
  <1>a. c.w \in Nat /\ Len(received) \in Nat /\ Len(window) \in Nat /\ Len(window) <= Len(received)
    BY CallIs, SuffixIs
  <1>1. /\ buffer \in Seq(Chars) /\ win \in Seq(Chars)
        /\ IsSuffix(win, buffer) /\ IsSuffix(buffer, received)
    BY ExistingIs
  <1>2. DoSearch(c, received, buffer, win, Len(received))
    BY DEF ExistingData
  <1>3. c.w = 0 => buffer = received /\ win = received
    <2>1. ~(Len(received) > Len(window)) => window = received
      BY <1>a, WholeEnd
    <2>2. QED
      BY <2>1
  <1>4. c.w # 0 => LongEnough(buffer, received, c)
    <2> SUFFICES ASSUME c.w # 0 PROVE LongEnough(buffer, received, c)
      OBVIOUS
    <2>1. Maintain(c) = c.w
      BY DEF Maintain
    <2>2. ~(Len(received) > Len(window)) => window = received
      BY <1>a, WholeEnd
    <2>3. /\ LastN(received, c.w) = received \/ Len(LastN(received, c.w)) = c.w
      BY <1>a, SuffixSelf, LastEnough
    <2>4. CASE Len(received) > Len(window) /\ Len(window) < c.w
      BY <1>a, <2>1, <2>3, <2>4 DEF LongEnough
    <2>5. CASE Len(received) > Len(window) /\ ~(Len(window) < c.w)
      BY <1>a, <2>1, <2>5 DEF LongEnough
    <2>6. CASE ~(Len(received) > Len(window))
      BY <2>2, <2>6 DEF LongEnough
    <2>7. QED
      BY <2>4, <2>5, <2>6
  <1>b. c.w # 0 => win = LastN(buffer, c.w)
    OBVIOUS
  <1> HIDE DEF buffer, win
  <1>5. /\ Same(received, win, Len(received), c)
        /\ LongEnough(buffer, received, c) /\ LongEnough(win, received, c)
        /\ IsSuffix(win, received)
    <2>1. CASE c.w = 0
      <3>1. ASSUME NEW i \in DOMAIN c.search.strings
            PROVE  SearchStart(received, Len(received), c, c.search.strings[i]) = 0
        <4>1. c.search.strings[i] \in Seq(Chars) /\ Len(c.search.strings[i]) \in Nat /\ c.search.exact \in BOOLEAN
          BY CallIs
        <4>2. Back(received, Len(received) + Len(c.search.strings[i])) = 0
          BY <1>a, <4>1 DEF Back
        <4>3. QED
          BY <1>a, <2>1, <4>1, <4>2, StartIs
      <3>2. Same(received, received, Len(received), c)
        BY <1>a, <2>1, <3>1, SameInAll
      <3>3. QED
        BY <1>3, <2>1, <3>2, SuffixSelf DEF LongEnough
    <2>2. CASE c.w # 0
      BY <1>1, <1>4, <1>a, <1>b, <2>2, SameInWindow
    <2>3. QED
      BY <2>1, <2>2
  <1>6. Text!Look(received, c) /\
        (Hits(win, Len(received), c) = {} =>
            \A i \in DOMAIN c.search.strings, n \in 0 .. Len(received) :
                n >= Text!From(received, c.w) => ~StandsAt(received, c.search.strings[i], n))
    BY <1>1, <1>2, <1>5, <1>a, LooksAt
  <1>7. ASSUME pc' # "idle" PROVE Searched'
    <2>1. /\ Hits(win, Len(received), c) = {}
          /\ received' = received /\ window' = Trimmed(c, buffer, win) /\ call' = c
      BY <1>2, <1>7 DEF DoSearch
    <2>2. LongEnough(window', received, c)
      BY <1>1, <1>5, <2>1, TrimmedEnough
    <2>3. c.w = 0 => NoneIn(received, c)
      <3> SUFFICES ASSUME c.w = 0 PROVE NoneIn(received, c)
        OBVIOUS
      <3>1. Text!From(received, c.w) = 0 /\ \A n \in 0 .. Len(received) : n >= 0
        BY <1>a DEF Text!From
      <3>2. QED
        BY <1>6, <2>1, <3>1 DEF NoneIn
    <2>4. QED
      BY <2>1, <2>2, <2>3 DEF Searched
  <1>8. QED
    BY <1>6, <1>7

\* Without a window, strings are searched for in an end that is long enough, from where new
\* text can take part: before that none stands, and searching it again finds nothing.
LEMMA SameInFresh ==
    ASSUME NEW c \in Calls, NEW t \in Seq(Chars), NEW data \in Seq(Chars), NEW win \in Seq(Chars),
           c.w = 0, c.search.exact, NoneIn(t, c), IsSuffix(win, t \o data),
           win = t \o data \/ Len(win) >= Lookback(c) + Len(data)
    PROVE  Same(t \o data, win, Len(data), c)
  <1> DEFINE u == t \o data
             d == Len(u) - Len(win)
             f == Len(data)
             L == Lookback(c)
  <1>a. u \in Seq(Chars) /\ Len(u) = Len(t) + f /\ Len(t) \in Nat /\ f \in Nat
    BY ConcatProperties
  <1> HIDE DEF u
  <1>b. Len(u) \in Nat /\ Len(win) \in Nat /\ Len(win) <= Len(u) /\ win = From(u, d)
    <2>1. Len(u) \in Nat /\ Len(win) \in Nat
      BY <1>a
    <2>2. Len(win) <= Len(u) /\ win = From(u, Len(u) - Len(win))
      BY <1>a, SuffixIs DEF u
    <2>3. QED
      BY <2>1, <2>2
  <1>c. d \in 0 .. Len(u) /\ d \in Nat /\ Len(u) - d = Len(win) /\ Text!From(u, c.w) = 0
    BY <1>b DEF Text!From
  <1>d. L \in Nat /\ (d = 0 \/ Len(win) >= L + f)
    <2>1. L \in Nat
      BY LookbackIs
    <2>2. win = u => d = 0
      BY <1>b
    <2>3. QED
      BY <2>1, <2>2 DEF u
  <1>1. ASSUME NEW i \in DOMAIN c.search.strings, NEW n \in 0 .. Len(u)
        PROVE  (n >= Text!From(u, c.w) /\ StandsAt(u, c.search.strings[i], n))
                <=> /\ n - d \in 0 .. Len(win)
                    /\ n - d >= SearchStart(win, f, c, c.search.strings[i])
                    /\ StandsAt(win, c.search.strings[i], n - d)
    <2> DEFINE s == c.search.strings[i]
               m == Len(s)
               start == SearchStart(win, f, c, s)
    <2>1. s \in Seq(Chars) /\ m \in Nat /\ m <= L
      <3>1. s \in Seq(Chars)
        BY CallIs
      <3>2. m <= L
        BY LookbackIs
      <3>3. QED
        BY <3>1, <3>2
    <2>n. ~ (n \in 0 .. Len(t) /\ StandsAt(t, s, n))
      BY DEF NoneIn
    <2> HIDE DEF s
    <2>2. start = IF Len(win) <= f + m THEN 0 ELSE Len(win) - (f + m)
      <3>1. start = Back(win, f + m)
        BY <1>a, <2>1, StartIs
      <3>2. QED
        BY <3>1 DEF Back
    <2>3. n \in Nat /\ n >= 0
      BY <1>b
    <2> HIDE DEF d, m, start, f, L
    <2>4. ASSUME n - d \in 0 .. Len(win) PROVE StandsAt(win, s, n - d) <=> StandsAt(u, s, n)
      <3>1. n - d \in 0 .. Len(u) - d /\ d + (n - d) = n
        BY <1>c, <2>3, <2>4
      <3>2. QED
        BY <1>a, <1>b, <1>c, <2>1, <3>1, StandsInEnd
    <2>5. ASSUME StandsAt(u, s, n) PROVE n - d \in 0 .. Len(win) /\ n - d >= start
      <3>1. n + m <= Len(u)
        BY <2>5 DEF StandsAt, m
      <3>2. ASSUME n + m <= Len(t) PROVE FALSE
        <4>1. StandsAt(t, s, n)
          BY <2>1, <2>3, <2>5, <3>2, StandsInOld DEF u, m
        <4>2. n \in 0 .. Len(t)
          BY <1>a, <2>1, <2>3, <3>2
        <4>3. QED
          BY <2>n, <4>1, <4>2
      <3>3. n + m > Len(t)
        BY <1>a, <2>1, <2>3, <3>2
      <3>4. n >= d
        BY <1>a, <1>b, <1>c, <1>d, <2>1, <2>3, <3>3
      <3>5. QED
        BY <1>a, <1>b, <1>c, <1>d, <2>1, <2>2, <2>3, <3>1, <3>3, <3>4
    <2>6. QED
      BY <1>c, <2>3, <2>4, <2>5 DEF s, start
  <1>2. QED
    BY <1>1 DEF Same, u, d, f

\* new_data looks at the text received with the new piece, and what it keeps when nothing
\* is found is long enough for the next piece.
LEMMA NewLooks ==
    ASSUME NEW c \in Calls, NEW data \in Seq(Chars), received \in Seq(Chars),
           window \in Seq(Chars), taken \in Seq(Chars), IsSuffix(window, received),
           LongEnough(window, received, c), c.w = 0 => NoneIn(received, c),
           NewData(c, data)
    PROVE  Text!Look(received \o data, c) /\ (pc' # "idle" => Searched')
  <1> DEFINE joined == window \o data
             buffer == IF c.w # 0 /\ (Len(data) >= c.w \/ window = <<>>)
                       THEN LastN(data, c.w) ELSE joined
             win == IF c.w # 0 THEN LastN(buffer, c.w)
                    ELSE IF Lookback(c) # 0 THEN From(joined, Back(window, Lookback(c)))
                    ELSE joined
             t == received \o data
  <1>a. /\ c.w \in Nat /\ Lookback(c) \in Nat /\ Len(window) \in Nat /\ Len(data) \in Nat
        /\ Len(joined) = Len(window) + Len(data) /\ c.search.exact \in BOOLEAN
    BY CallIs, LookbackIs, ConcatProperties
  <1>1. /\ t \in Seq(Chars) /\ joined \in Seq(Chars)
        /\ buffer \in Seq(Chars) /\ win \in Seq(Chars)
        /\ IsSuffix(win, buffer) /\ IsSuffix(buffer, t)
    BY NewIs
  <1>2. DoSearch(c, t, buffer, win, Len(data))
    BY DEF NewData
  <1>3. IsSuffix(win, t)
    BY <1>1, SuffixTrans
  <1>4. window = received \/ (Maintain(c) # 0 /\ Len(window) >= Maintain(c))
    BY DEF LongEnough
  <1>5. window = received => joined = t
    OBVIOUS
  <1>6. Maintain(c) = IF c.w # 0 THEN c.w ELSE Lookback(c)
    BY DEF Maintain
  <1>7. LongEnough(joined, t, c)
    BY <1>4, <1>5, <1>6, <1>a DEF LongEnough
  <1>b. /\ c.w # 0 => win = LastN(buffer, c.w)
        /\ c.w # 0 /\ (Len(data) >= c.w \/ window = <<>>) => buffer = LastN(data, c.w)
        /\ ~(c.w # 0 /\ (Len(data) >= c.w \/ window = <<>>)) => buffer = joined
        /\ c.w = 0 /\ Lookback(c) # 0 => win = From(joined, Back(window, Lookback(c)))
        /\ c.w = 0 /\ Lookback(c) = 0 => win = joined
    OBVIOUS
  <1>c. window = <<>> => Len(window) = 0
    OBVIOUS
  <1>d. received = <<>> => t = data
    OBVIOUS
  <1> HIDE DEF joined, buffer, win, t
  <1>8. c.w # 0 => LongEnough(buffer, t, c)
    <2> SUFFICES ASSUME c.w # 0 PROVE LongEnough(buffer, t, c)
      OBVIOUS
    <2>1. CASE Len(data) >= c.w
      <3>1. Len(LastN(data, c.w)) = IF c.w < Len(data) THEN c.w ELSE Len(data)
        BY <1>a, LastNIs
      <3>2. QED
        BY <1>6, <1>a, <1>b, <2>1, <3>1 DEF LongEnough
    <2>2. CASE window = <<>>
      <3>1. t = data
        BY <1>4, <1>6, <1>a, <1>c, <1>d, <2>2
      <3>2. LastN(data, c.w) = data \/ Len(LastN(data, c.w)) = c.w
        BY <1>a, SuffixSelf, LastEnough
      <3>3. QED
        BY <1>6, <1>a, <1>b, <2>2, <3>1, <3>2 DEF LongEnough
    <2>3. CASE ~(Len(data) >= c.w \/ window = <<>>)
      BY <1>7, <1>b, <2>3
    <2>4. QED
      BY <2>1, <2>2, <2>3
  <1>9. c.w = 0 => win = t \/ (Lookback(c) # 0 /\ Len(win) >= Lookback(c) + Len(data))
    <2> SUFFICES ASSUME c.w = 0 PROVE win = t \/ (Lookback(c) # 0 /\ Len(win) >= Lookback(c) + Len(data))
      OBVIOUS
    <2>1. CASE Lookback(c) = 0
      BY <1>4, <1>5, <1>6, <1>b, <2>1
    <2>2. CASE Lookback(c) # 0
      <3> DEFINE k == Back(window, Lookback(c))
      <3>1. k \in 0 .. Len(window) /\ Len(window) - k = IF Lookback(c) < Len(window) THEN Lookback(c) ELSE Len(window)
        BY <1>a, BackIs
      <3> HIDE DEF k
      <3>2. k \in 0 .. Len(joined) /\ win = From(joined, k)
        BY <1>a, <1>b, <2>2, <3>1 DEF joined, k
      <3>3. Len(win) = Len(joined) - k
        BY <1>1, <3>2, FromIs
      <3>4. CASE Len(window) >= Lookback(c)
        BY <1>a, <2>2, <3>1, <3>3, <3>4 DEF joined
      <3>5. CASE ~(Len(window) >= Lookback(c))
        <4>1. window = received
          BY <1>4, <1>6, <3>5
        <4>2. k = 0
          BY <1>a, <3>1, <3>5
        <4>3. From(joined, 0) = joined
          BY <1>1, SubSeqFull DEF From
        <4>4. QED
          BY <1>5, <3>2, <4>1, <4>2, <4>3
      <3>6. QED
        BY <3>4, <3>5
    <2>3. QED
      BY <2>1, <2>2
  <1>10. LongEnough(buffer, t, c)
    BY <1>7, <1>8, <1>b
  <1>11. Same(t, win, Len(data), c) /\ LongEnough(win, t, c)
    <2>1. CASE c.w # 0
      BY <1>1, <1>8, <1>a, <1>b, <2>1, SameInWindow
    <2>2. CASE c.w = 0
      <3>1. LongEnough(win, t, c)
        <4>1. Maintain(c) = Lookback(c)
          BY <1>6, <2>2
        <4>2. Lookback(c) # 0 /\ Len(win) >= Lookback(c) + Len(data) => Len(win) >= Lookback(c)
          BY <1>1, <1>a
        <4>3. QED
          BY <1>9, <2>2, <4>1, <4>2 DEF LongEnough
      <3>2. CASE c.search.exact
        <4>1. /\ win \in Seq(Chars) /\ IsSuffix(win, received \o data) /\ NoneIn(received, c)
              /\ win = received \o data \/ Len(win) >= Lookback(c) + Len(data)
          BY <1>1, <1>3, <1>9, <2>2 DEF t
        <4>2. Same(received \o data, win, Len(data), c)
          BY <1>1, <2>2, <3>2, <4>1, SameInFresh, Zenon
        <4>3. QED
          BY <3>1, <4>2 DEF t
      <3>3. CASE ~c.search.exact
        <4>1. win = t
          BY <1>9, <2>2, <3>3, LookbackIs
        <4>2. ASSUME NEW i \in DOMAIN c.search.strings
              PROVE  SearchStart(t, Len(data), c, c.search.strings[i]) = 0
          <5>1. c.search.strings[i] \in Seq(Chars) /\ t \in Seq(Chars) /\ Len(data) \in Nat
            BY <1>1, <1>a, CallIs
          <5>2. QED
            BY <2>2, <3>3, <5>1, StartIs, Zenon
        <4>3. QED
          BY <1>1, <1>a, <2>2, <3>1, <4>1, <4>2, SameInAll
      <3>4. QED
        BY <1>a, <3>1, <3>2, <3>3
    <2>3. QED
      BY <2>1, <2>2
  <1>12. Text!Look(t, c) /\
         (Hits(win, Len(data), c) = {} =>
            \A i \in DOMAIN c.search.strings, n \in 0 .. Len(t) :
                n >= Text!From(t, c.w) => ~StandsAt(t, c.search.strings[i], n))
    BY <1>1, <1>2, <1>3, <1>11, <1>a, LooksAt
  <1>13. ASSUME pc' # "idle" PROVE Searched'
    <2>1. /\ Hits(win, Len(data), c) = {}
          /\ received' = t /\ window' = Trimmed(c, buffer, win) /\ call' = c
      BY <1>2, <1>13 DEF DoSearch
    <2>2. LongEnough(window', t, c)
      BY <1>1, <1>3, <1>10, <1>11, <2>1, TrimmedEnough
    <2>3. c.w = 0 => NoneIn(t, c)
      <3> SUFFICES ASSUME c.w = 0 PROVE NoneIn(t, c)
        OBVIOUS
      <3>1. Text!From(t, c.w) = 0 /\ \A n \in 0 .. Len(t) : n >= 0
        BY <1>1 DEF Text!From
      <3>2. QED
        BY <1>12, <2>1, <3>1 DEF NoneIn
    <2>4. QED
      BY <2>1, <2>2, <2>3 DEF Searched
  <1>14. QED
    BY <1>12, <1>13 DEF t

-----------------------------------------------------------------------------
(* The refinement *)

\* What a read hands over is a piece of a stream.
LEMMA PieceIs ==
    ASSUME EInv, InOrder
    PROVE  FirstN(buf, MaxRead) \in Pieces
  <1> DEFINE piece == FirstN(buf, MaxRead)
             L == Len(piece)
  <1>1. PICK s \in Streams :
            \E n \in 0 .. Len(s), cut \in [0 .. Len(queue) -> 0 .. Len(s)] : CutBy(s, n, cut)
    BY DEF InOrder
  <1>2. PICK n \in 0 .. Len(s), cut \in [0 .. Len(queue) -> 0 .. Len(s)] : CutBy(s, n, cut)
    BY <1>1
  <1>a. /\ s \in Seq(Chars) /\ Len(s) \in Nat /\ buf \in Seq(Chars) /\ MaxRead \in Nat
        /\ Len(buf) \in Nat /\ Len(queue) \in Nat
    BY ExpecterAssumption DEF EInv, Typed
  <1>b. cut[0] \in 0 .. Len(s) /\ n <= cut[0] /\ n \in 0 .. cut[0]
    <2>1. 0 \in 0 .. Len(queue) /\ n \in Nat
      BY <1>a
    <2>2. cut[0] \in 0 .. Len(s) /\ n <= cut[0]
      BY <1>2, <2>1 DEF CutBy
    <2>3. QED
      BY <1>a, <2>1, <2>2
  <1>3. buf = Part(s, n, cut[0]) /\ Len(buf) = cut[0] - n
    BY <1>2, <1>a, <1>b, PartIs DEF CutBy
  <1>4. /\ piece \in Seq(Chars) /\ L \in Nat /\ L = IF MaxRead < Len(buf) THEN MaxRead ELSE Len(buf)
        /\ FirstN(buf, L) = piece
    <2>1. piece \in Seq(Chars) /\ L = IF MaxRead < Len(buf) THEN MaxRead ELSE Len(buf)
      BY <1>a, FirstNIs
    <2>2. FirstN(buf, L) = piece
      BY <1>a, <2>1 DEF FirstN
    <2>3. QED
      BY <1>a, <2>1, <2>2
  <1> HIDE DEF piece
  <1>5. L \in 0 .. cut[0] - n
    BY <1>3, <1>4, <1>a
  <1> HIDE DEF L
  <1>6. piece = Part(s, n, n + L) /\ n + L \in 0 .. Len(s) /\ n \in Nat
    BY <1>3, <1>4, <1>5, <1>a, <1>b, PartSplit
  <1>7. CASE L = 0
    BY <1>4, <1>7 DEF Pieces, piece, L
  <1>8. CASE L # 0
    <2>1. n + 1 \in 1 .. Len(s) /\ n + L \in 1 .. Len(s)
      BY <1>4, <1>6, <1>8, <1>a
    <2>2. piece = SubSeq(s, n + 1, n + L)
      BY <1>6 DEF Part
    <2>3. piece \in {SubSeq(s, i, j) : i \in 1 .. Len(s), j \in 1 .. Len(s)}
      BY <2>1, <2>2
    <2>4. QED
      BY <2>3 DEF Pieces, piece
  <1>9. QED
    BY <1>7, <1>8

\* A piece is searched with the text before it, or the log raises on it.
LEMMA HandOverLooks ==
    ASSUME EInv, InOrder, Searched, pc = "reading", HandOver(buf)
    PROVE  Text!Next /\ Searched'
  <1> DEFINE piece == FirstN(buf, MaxRead)
  <1>a. /\ received \in Seq(Chars) /\ window \in Seq(Chars) /\ taken \in Seq(Chars)
        /\ IsSuffix(window, received) /\ call \in Calls /\ call # NoCall
    BY ExpecterAssumption DEF EInv, Typed, BufferIsTheEnd, Calls
  <1>b. LongEnough(window, received, call) /\ (call.w = 0 => NoneIn(received, call))
    BY DEF Searched
  <1>1. piece \in Seq(Chars) /\ piece \in Pieces
    BY HandOverIs, PieceIs
  <1>2. IF Decodes(piece) THEN NewData(call, piece)
        ELSE Give("error") /\ UNCHANGED <<received, window, taken>>
    BY DEF HandOver
  <1> HIDE DEF piece
  <1>3. CASE Decodes(piece)
    <2>1. Text!Look(received \o piece, call) /\ (pc' # "idle" => Searched')
      BY <1>1, <1>2, <1>3, <1>a, <1>b, NewLooks
    <2>2. Text!Receive
      BY <1>1, <1>a, <2>1, Zenon DEF Text!Receive
    <2>3. QED
      BY <2>1, <2>2 DEF Text!Next, Searched
  <1>4. CASE ~Decodes(piece)
    <2>1. Give("error") /\ received' = received
      BY <1>2, <1>4
    <2>2. Text!Give("error")
      BY <1>a, <2>1 DEF Give, Text!Give
    <2>3. pc' = "idle"
      BY <2>1 DEF Give
    <2>4. QED
      BY <2>2, <2>3 DEF Text!Next, Searched
  <1>5. QED
    BY <1>3, <1>4

LEMMA SearchedInit == Init => Searched /\ Text!Init
  BY DEF Init, Searched, Text!Init

\* Every step is a step of ExpectText, or nothing happens there.
LEMMA StepsAreText ==
    ASSUME EInv, InOrder, Searched, [Next]_vars
    PROVE  [Text!Next]_(Text!vars) /\ Searched'
  <1>a. /\ received \in Seq(Chars) /\ window \in Seq(Chars) /\ taken \in Seq(Chars)
        /\ IsSuffix(window, received) /\ (call = NoCall <=> pc = "idle")
    BY DEF EInv, Typed, TypeOK, BufferIsTheEnd
  <1>b. UNCHANGED <<received, call, answer>> => UNCHANGED Text!vars
    BY DEF Text!vars
  <1>1. ASSUME UNCHANGED vars PROVE UNCHANGED <<received, call, answer>> /\ Searched'
    BY <1>1 DEF vars, Searched, LongEnough, NoneIn
  <1>2. ASSUME NEW s \in Searches, NEW w \in Windows, NEW timed \in BOOLEAN, Expect(s, w, timed)
        PROVE  Text!Next /\ Searched'
    <2> DEFINE c == [search |-> s, w |-> w, timed |-> timed]
    <2>1. pc = "idle" /\ ExistingData(c)
      BY <1>2 DEF Expect
    <2>2. c \in Calls
      BY DEF Calls
    <2>3. Text!Look(received, c) /\ (pc' # "idle" => Searched')
      <3> HIDE DEF c
      <3>1. QED
        BY <1>a, <2>1, <2>2, ExistingLooks
    <2>4. Text!Ask
      BY <1>a, <2>1, <2>3, Zenon DEF Text!Ask
    <2>5. QED
      BY <2>3, <2>4 DEF Text!Next, Searched
  <1>3. ASSUME TimeOut PROVE Text!Next /\ Searched'
    <2>1. pc = "loop" /\ call.timed /\ Give("TIMEOUT") /\ received' = received
      BY <1>3 DEF TimeOut
    <2>2. Text!TimeOut
      BY <1>a, <2>1 DEF Give, Text!Give, Text!TimeOut
    <2>3. pc' = "idle"
      BY <2>1 DEF Give
    <2>4. QED
      BY <2>2, <2>3 DEF Text!Next, Searched
  <1>4. ASSUME Eof PROVE Text!Next /\ Searched'
    <2>1. pc = "loop" /\ Give("EOF") /\ received' = <<>>
      BY <1>4 DEF Eof
    <2>2. Text!Give("EOF")
      BY <1>a, <2>1 DEF Give, Text!Give
    <2>3. pc' = "idle"
      BY <2>1 DEF Give
    <2>4. QED
      BY <2>2, <2>3 DEF Text!Next, Searched
  <1>5. ASSUME GetClosed \/ EndRead PROVE Text!Next /\ Searched'
    <2>1. pc = "reading" /\ HandOver(buf)
      BY <1>5 DEF GetClosed, EndRead
    <2>2. QED
      BY <2>1, HandOverLooks
  <1>6. ASSUME StartRead \/ Get \/ (\E n \in 1 .. MaxChunk : ThreadReads(n)) \/ ThreadEnds
        PROVE  UNCHANGED <<received, call, answer>> /\ Searched'
    <2>1. UNCHANGED <<received, call, answer, window>> /\ (pc' # "idle" => pc # "idle")
      BY <1>6 DEF StartRead, Get, ThreadReads, ThreadEnds, thread
    <2>2. QED
      BY <2>1 DEF Searched, LongEnough, NoneIn
  <1>7. QED
    BY <1>b, <1>1, <1>2, <1>3, <1>4, <1>5, <1>6 DEF Next, Loop

\* Each call answers as if it searched all the text received since the last match, or its
\* last searchwindowsize characters: chunks, buffers and lookback do not show, whatever the
\* streams, the pieces they come in, the searchers and the windows of the calls.
THEOREM SearchesAllText == Spec => ImplementsText
  <1> DEFINE I == EInv /\ InOrder /\ Searched
  <1>1. Init => I /\ Text!Init
    BY EInitInv, InOrderInit, SearchedInit
  <1>2. I /\ [Next]_vars => I' /\ [Text!Next]_(Text!vars)
    BY ENextInv, InOrderNext, StepsAreText
  <1>3. QED
    BY <1>1, <1>2, PTL DEF Spec, ImplementsText, Text!Spec

=============================================================================
