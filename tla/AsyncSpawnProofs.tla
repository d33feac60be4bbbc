-------------------------- MODULE AsyncSpawnProofs --------------------------
(***************************************************************************)
(* Theorems of AsyncSpawn, for pipes of any size and any number of lines    *)
(* and cancellations.  SInv adds to the properties what readline knows of   *)
(* the line it holds between its two awaits (HeldLine), what is yielded at  *)
(* that point (HalfPaired), and that reading that is over for good has seen *)
(* the ends of both streams or a blank line (Stopped).                      *)
(***************************************************************************)
EXTENDS AsyncSpawn, TLAPS

\* Between its awaits readline holds the line of stdout it took last, or its end.
HeldLine ==
    pc = "err" =>
        IF held = "eof" THEN taken["out"] = Len(written["out"]) /\ child = "dead"
        ELSE taken["out"] > 0 /\ held = written["out"][taken["out"]]

\* There, all text taken from stdout is yielded but the line it holds.
HalfPaired ==
    pc = "err" =>
        /\ Yielded("err") = TextPlaces("err", taken["err"])
        /\ Yielded("out") =
              TextPlaces("out", IF held = "eof" THEN taken["out"] ELSE taken["out"] - 1)

SawBlank == \E t \in Stream : taken[t] > 0 /\ written[t][taken[t]] = "blank"
SawEnds == child = "dead" /\ \A s \in Stream : taken[s] = Len(written[s])

Stopped ==
    /\ outcome = "returned" => SawBlank \/ SawEnds
    /\ pc \in {"out", "err"} => outcome = "none"

SInv ==
    /\ TypeOK
    /\ HeldLine
    /\ NothingLostInPairing
    /\ HalfPaired
    /\ Stopped
    /\ NoOrphan

-----------------------------------------------------------------------------
(* Sequences of yielded lines *)

\* Appending a line to what is yielded adds its place, and keeps the order if it stands
\* after all lines of its stream.
LEMMA OneMore ==
    ASSUME NEW r \in Seq(Stream \X Nat), NEW s \in Stream, NEW n \in Nat,
           Ordered(r), \A i \in Places(r, s) : i < n
    PROVE  /\ Append(r, <<s, n>>) \in Seq(Stream \X Nat)
           /\ Ordered(Append(r, <<s, n>>))
           /\ \A t \in Stream : Places(Append(r, <<s, n>>), t) =
                                   Places(r, t) \cup (IF t = s THEN {n} ELSE {})
  <1> DEFINE q == Append(r, <<s, n>>)
  <1>1. /\ q \in Seq(Stream \X Nat)
        /\ Len(q) = Len(r) + 1
        /\ DOMAIN q = 1 .. Len(r) + 1 /\ DOMAIN r = 1 .. Len(r)
        /\ \A i \in 1 .. Len(r) : q[i] = r[i]
        /\ q[Len(r) + 1] = <<s, n>>
        /\ Len(r) \in Nat
    OBVIOUS
  <1>2. \A i \in 1 .. Len(r) : r[i] \in Stream \X Nat
    BY <1>1
  <1> HIDE DEF q
  <1>3. Ordered(q)
    <2> SUFFICES ASSUME NEW i \in DOMAIN q, NEW j \in DOMAIN q, i < j, q[i][1] = q[j][1]
                 PROVE  q[i][2] < q[j][2]
      BY DEF Ordered
    <2>1. CASE j \in 1 .. Len(r)
      <3>1. i \in 1 .. Len(r)
        BY <1>1, <2>1
      <3>2. QED
        BY <1>1, <2>1, <3>1 DEF Ordered
    <2>2. CASE j = Len(r) + 1
      <3>1. i \in 1 .. Len(r)
        BY <1>1, <2>2
      <3>2. r[i][1] = s
        BY <1>1, <2>2, <3>1
      <3>3. r[i][2] \in Places(r, s)
        BY <1>1, <3>1, <3>2 DEF Places
      <3>4. r[i][2] < n
        BY <3>3
      <3>5. QED
        BY <1>1, <2>2, <3>1, <3>4
    <2>3. QED
      BY <1>1, <2>1, <2>2
  <1>4. ASSUME NEW t \in Stream
        PROVE  Places(q, t) = Places(r, t) \cup (IF t = s THEN {n} ELSE {})
    <2>1. ASSUME NEW m PROVE m \in Places(q, t) <=> m \in Places(r, t) \/ (t = s /\ m = n)
      <3>1. m \in Places(r, t) <=> \E i \in 1 .. Len(r) : r[i][1] = t /\ r[i][2] = m
        BY <1>1 DEF Places
      <3>2. m \in Places(q, t) <=> \E i \in 1 .. Len(r) + 1 : q[i][1] = t /\ q[i][2] = m
        BY <1>1 DEF Places
      <3>3. (\E i \in 1 .. Len(r) + 1 : q[i][1] = t /\ q[i][2] = m)
             <=> (\E i \in 1 .. Len(r) : q[i][1] = t /\ q[i][2] = m)
                  \/ (q[Len(r) + 1][1] = t /\ q[Len(r) + 1][2] = m)
        <4>1. 1 .. Len(r) + 1 = 1 .. Len(r) \cup {Len(r) + 1}
          BY <1>1
        <4>2. QED
          BY <4>1, Zenon
      <3>4. (\E i \in 1 .. Len(r) : q[i][1] = t /\ q[i][2] = m)
             <=> (\E i \in 1 .. Len(r) : r[i][1] = t /\ r[i][2] = m)
        BY <1>1
      <3>5. q[Len(r) + 1][1] = s /\ q[Len(r) + 1][2] = n
        BY <1>1
      <3>6. QED
        BY <3>1, <3>2, <3>3, <3>4, <3>5
    <2>2. QED
      BY <2>1
  <1>5. QED
    BY <1>1, <1>3, <1>4 DEF q

\* What taking one more line, or appending one to the stream, does to its text.
LEMMA TextGrows ==
    ASSUME TypeOK, NEW s \in Stream, NEW n \in Nat
    PROVE  /\ TextPlaces(s, 0) = {}
           /\ TextPlaces(s, n + 1) =
                 TextPlaces(s, n) \cup (IF written[s][n + 1] = "text" THEN {n + 1} ELSE {})
           /\ \A i \in TextPlaces(s, n) : i \in 1 .. n
  BY DEF TextPlaces

-----------------------------------------------------------------------------
LEMMA SInitInv == Init => SInv
  <1> SUFFICES ASSUME Init PROVE SInv
    OBVIOUS
  <1> USE DEF Init
  <1>1. result = <<>> /\ DOMAIN result = {}
    OBVIOUS
  <1>a. written \in [Stream -> Seq(Kind)] /\ result \in Seq(Stream \X Nat)
    BY <1>1
  <1>b. taken \in [Stream -> Nat] /\ \A s \in Stream : taken[s] <= Len(written[s])
    OBVIOUS
  <1>2. TypeOK
    BY <1>a, <1>b DEF TypeOK
  <1>3. Ordered(result) /\ \A s \in Stream : Yielded(s) = {}
    BY <1>1 DEF Ordered, Yielded, Places
  <1>4. \A s \in Stream : TextPlaces(s, taken[s]) = {}
    BY <1>2, TextGrows
  <1>5. QED
    BY <1>2, <1>3, <1>4 DEF SInv, HeldLine, NothingLostInPairing, HalfPaired, Stopped, NoOrphan

\* A step that leaves the lines alone keeps what is said of them.
LEMMA SameText ==
    ASSUME UNCHANGED <<written, taken, result>>
    PROVE  \A s \in Stream : /\ Yielded(s)' = Yielded(s)
                             /\ \A n : TextPlaces(s, n)' = TextPlaces(s, n)
  BY DEF Yielded, TextPlaces

LEMMA WriteInv ==
    ASSUME SInv, NEW s \in Stream, ChildWrite(s)
    PROVE  SInv'
  <1> USE DEF SInv, ChildWrite, callVars
  <1>1. PICK kind \in Kind : written' = [written EXCEPT ![s] = Append(@, kind)]
    OBVIOUS
  <1>2. \A t \in Stream : /\ written[t] \in Seq(Kind) /\ written'[t] \in Seq(Kind)
                          /\ Len(written[t]) <= Len(written'[t])
                          /\ \A i \in 1 .. Len(written[t]) : written'[t][i] = written[t][i]
    BY <1>1 DEF TypeOK
  <1>3. TypeOK'
    BY <1>1, <1>2 DEF TypeOK
  <1>4. \A t \in Stream : /\ Yielded(t)' = Yielded(t)
                          /\ \A n \in 0 .. taken[t] : TextPlaces(t, n)' = TextPlaces(t, n)
    BY <1>2 DEF TypeOK, Yielded, TextPlaces
  <1>5. \A t \in Stream : taken[t] > 0 => written'[t][taken[t]] = written[t][taken[t]]
    BY <1>2 DEF TypeOK
  <1>6. HeldLine'
    BY <1>5 DEF HeldLine, Stream
  <1>7. NothingLostInPairing'
    BY <1>4 DEF NothingLostInPairing, TypeOK
  <1>8. HalfPaired'
    <2> SUFFICES ASSUME pc = "err" PROVE HalfPaired'
      BY DEF HalfPaired
    <2>1. held # "eof" /\ taken["out"] > 0 /\ taken["out"] - 1 \in 0 .. taken["out"]
      BY DEF HeldLine, TypeOK, Stream
    <2>2. QED
      BY <1>4, <2>1 DEF HalfPaired, TypeOK, Stream
  <1>9. Stopped'
    BY <1>5 DEF Stopped, SawBlank, SawEnds
  <1>10. QED
    BY <1>3, <1>6, <1>7, <1>8, <1>9 DEF NoOrphan

LEMMA ChildEndsInv == SInv /\ (ChildExit \/ ChildDies) => SInv'
  <1> SUFFICES ASSUME SInv, ChildExit \/ ChildDies PROVE SInv'
    OBVIOUS
  <1> USE DEF SInv, ChildExit, ChildDies, callVars
  <1>1. UNCHANGED <<written, taken, held, result, pc, outcome, interrupted>> /\ child' = "dead"
    OBVIOUS
  <1>2. TypeOK'
    BY DEF TypeOK
  <1>3. NothingLostInPairing' /\ HalfPaired'
    BY <1>1, SameText DEF NothingLostInPairing, HalfPaired, Stream
  <1>4. HeldLine' /\ Stopped' /\ NoOrphan'
    BY <1>1 DEF HeldLine, Stopped, SawBlank, SawEnds, NoOrphan
  <1>5. QED
    BY <1>2, <1>3, <1>4

\* What readline does to a stream.
LEMMA TakesOne ==
    ASSUME TypeOK, NEW s \in Stream, Ready(s), Take(s), UNCHANGED written
    PROVE  /\ \/ /\ LineOf(s) = "eof" /\ taken' = taken
                 /\ taken[s] = Len(written[s]) /\ child = "dead"
              \/ /\ LineOf(s) \in Kind /\ taken[s] < Len(written[s])
                 /\ taken' = [taken EXCEPT ![s] = @ + 1]
                 /\ LineOf(s) = written[s][taken[s] + 1]
           /\ taken' \in [Stream -> Nat]
           /\ \A t \in Stream : taken'[t] <= Len(written[t])
  <1>1. taken \in [Stream -> Nat] /\ \A t \in Stream : taken[t] <= Len(written[t]) /\ Len(written[t]) \in Nat
    BY DEF TypeOK
  <1>2. CASE taken[s] < Len(written[s])
    <2>1. LineOf(s) = written[s][taken[s] + 1] /\ LineOf(s) \in Kind
      BY <1>1, <1>2 DEF TypeOK, LineOf
    <2>2. LineOf(s) # "eof"
      BY <2>1 DEF Kind
    <2>3. QED
      BY <1>1, <1>2, <2>1, <2>2 DEF Take
  <1>3. CASE ~(taken[s] < Len(written[s]))
    BY <1>1, <1>3 DEF Take, LineOf, Ready
  <1>4. QED
    BY <1>2, <1>3

LEMMA StdoutInv == SInv /\ ReadStdout => SInv'
  <1> SUFFICES ASSUME SInv, ReadStdout PROVE SInv'
    OBVIOUS
  <1> USE DEF SInv
  <1>a. /\ pc = "out" /\ pc' = "err" /\ held' = LineOf("out") /\ Ready("out") /\ Take("out")
        /\ UNCHANGED <<result, outcome, cancels, interrupted, written, child, intent, signal>>
    BY DEF ReadStdout, childVars
  <1>b. taken \in [Stream -> Nat] /\ "out" \in Stream /\ "err" \in Stream /\ "out" # "err"
    BY DEF TypeOK, Stream
  <1>1. /\ \/ /\ LineOf("out") = "eof" /\ taken' = taken
              /\ taken["out"] = Len(written["out"]) /\ child = "dead"
           \/ /\ LineOf("out") \in Kind /\ taken["out"] < Len(written["out"])
              /\ taken' = [taken EXCEPT !["out"] = @ + 1]
              /\ LineOf("out") = written["out"][taken["out"] + 1]
        /\ taken' \in [Stream -> Nat]
        /\ \A t \in Stream : taken'[t] <= Len(written[t])
    BY <1>a, <1>b, TakesOne
  <1>2. TypeOK'
    BY <1>a, <1>b, <1>1 DEF TypeOK, Kind
  <1>3. HeldLine'
    BY <1>a, <1>b, <1>1 DEF HeldLine, Kind
  <1>4. \A t \in Stream : Yielded(t)' = Yielded(t) /\ \A n : TextPlaces(t, n)' = TextPlaces(t, n)
    BY <1>a DEF Yielded, TextPlaces
  <1>5. \A t \in Stream : Yielded(t) = TextPlaces(t, taken[t])
    BY <1>a DEF NothingLostInPairing
  <1>6. taken'["err"] = taken["err"]
    BY <1>b, <1>1
  <1>7. (IF held' = "eof" THEN taken'["out"] ELSE taken'["out"] - 1) = taken["out"]
    BY <1>a, <1>b, <1>1 DEF Kind
  <1>8. HalfPaired'
    BY <1>b, <1>4, <1>5, <1>6, <1>7 DEF HalfPaired
  <1>9. NothingLostInPairing' /\ Stopped' /\ NoOrphan'
    BY <1>a DEF NothingLostInPairing, Stopped, NoOrphan
  <1>10. QED
    BY <1>2, <1>3, <1>8, <1>9

\* The lines that Pair yields, appended to what was yielded.
LEMMA PairInv ==
    ASSUME SInv, pc = "err", NEW err \in Kind \cup {"eof"},
           result' = result \o Pair(err),
           UNCHANGED written,
           taken' = [taken EXCEPT !["err"] = IF err = "eof" THEN @ ELSE @ + 1],
           err # "eof" => err = written["err"][taken["err"] + 1],
           held \in {"text", "blank", "eof"}
    PROVE  /\ result' \in Seq(Stream \X Nat)
           /\ Ordered(result')
           /\ \A s \in Stream : Yielded(s)' = TextPlaces(s, taken[s])'
  <1> USE DEF SInv
  <1> DEFINE k == taken["out"]
             n == taken["err"] + 1
             half == IF held = "text" THEN Append(result, <<"out", k>>) ELSE result
  <1>a. /\ "out" \in Stream /\ "err" \in Stream /\ \A s \in Stream : s \in {"out", "err"}
        /\ k \in Nat /\ n \in Nat /\ taken["err"] \in Nat /\ result \in Seq(Stream \X Nat)
    BY DEF TypeOK, Stream
  <1>b. taken'["out"] = k /\ taken'["err"] = IF err = "eof" THEN n - 1 ELSE n
    BY <1>a DEF TypeOK
  <1>c. \A s \in Stream, m \in Nat : TextPlaces(s, m)' = TextPlaces(s, m)
    BY DEF TextPlaces
  <1>d. Ordered(result)
    BY DEF NothingLostInPairing
  <1>e. ASSUME NEW r \in Seq(Stream \X Nat), NEW s \in Stream, NEW m \in Nat,
               Ordered(r), \A i \in Places(r, s) : i < m
        PROVE  /\ Append(r, <<s, m>>) \in Seq(Stream \X Nat)
               /\ Ordered(Append(r, <<s, m>>))
               /\ \A t \in Stream : Places(Append(r, <<s, m>>), t) =
                                       Places(r, t) \cup (IF t = s THEN {m} ELSE {})
    BY <1>e, OneMore
  <1>1. result' = IF err = "text" THEN Append(half, <<"err", n>>) ELSE half
    <2>1. \A r \in Seq(Stream \X Nat) : /\ r \o <<>> = r
                                       /\ \A x \in Stream \X Nat : r \o <<x>> = Append(r, x)
      OBVIOUS
    <2>2. <<"out", k>> \in Stream \X Nat /\ <<"err", n>> \in Stream \X Nat
      BY <1>a
    <2>3. \A x, y \in Stream \X Nat : result \o (<<x>> \o <<y>>) = Append(Append(result, x), y)
      BY <1>a
    <2>4. <<>> \o <<>> = <<>> /\ \A x \in Stream \X Nat : <<x>> \o <<>> = <<x>> /\ <<>> \o <<x>> = <<x>>
      OBVIOUS
    <2>5. CASE held = "text" /\ err = "text"
      BY <1>a, <2>2, <2>3, <2>5 DEF Pair
    <2>6. CASE held = "text" /\ err # "text"
      BY <1>a, <2>1, <2>2, <2>4, <2>6 DEF Pair
    <2>7. CASE held # "text" /\ err = "text"
      BY <1>a, <2>1, <2>2, <2>4, <2>7 DEF Pair
    <2>8. CASE held # "text" /\ err # "text"
      BY <1>a, <2>1, <2>4, <2>8 DEF Pair
    <2>9. QED
      BY <2>5, <2>6, <2>7, <2>8
  <1>2. /\ half \in Seq(Stream \X Nat)
        /\ Ordered(half)
        /\ Places(half, "out") = TextPlaces("out", k)
        /\ Places(half, "err") = TextPlaces("err", n - 1)
    <2>0. Places(result, "err") = TextPlaces("err", n - 1)
      BY <1>a DEF HalfPaired, Yielded
    <2>1. CASE held = "eof"
      BY <1>a, <1>d, <2>0, <2>1 DEF HalfPaired, Yielded
    <2>2. CASE held # "eof"
      <3>1. k > 0 /\ k - 1 \in Nat /\ k = (k - 1) + 1 /\ held = written["out"][k]
        BY <1>a, <2>2 DEF HeldLine
      <3>2. Places(result, "out") = TextPlaces("out", k - 1)
        BY <2>2 DEF HalfPaired, Yielded
      <3>3. /\ TextPlaces("out", k) = TextPlaces("out", k - 1) \cup (IF held = "text" THEN {k} ELSE {})
            /\ \A i \in TextPlaces("out", k - 1) : i \in 1 .. k - 1
        BY <1>a, <3>1, TextGrows
      <3>4. CASE held = "text"
        <4>1. \A i \in Places(result, "out") : i < k
          BY <1>a, <3>1, <3>2, <3>3
        <4>2. /\ Append(result, <<"out", k>>) \in Seq(Stream \X Nat)
              /\ Ordered(Append(result, <<"out", k>>))
              /\ \A t \in Stream : Places(Append(result, <<"out", k>>), t) =
                                      Places(result, t) \cup (IF t = "out" THEN {k} ELSE {})
          BY <1>a, <1>d, <1>e, <4>1
        <4>3. QED
          BY <1>a, <2>0, <3>2, <3>3, <3>4, <4>2
      <3>5. CASE held # "text"
        BY <1>a, <1>d, <2>0, <3>2, <3>3, <3>5
      <3>6. QED
        BY <3>4, <3>5
    <2>3. QED
      BY <2>1, <2>2
  <1> HIDE DEF half, k, n
  <1>3. /\ result' \in Seq(Stream \X Nat)
        /\ Ordered(result')
        /\ Places(result', "out") = TextPlaces("out", k)
        /\ Places(result', "err") = TextPlaces("err", IF err = "eof" THEN n - 1 ELSE n)
    <2>1. CASE err = "eof"
      BY <1>1, <1>2, <2>1
    <2>2. CASE err # "eof"
      <3>1. /\ TextPlaces("err", n) = TextPlaces("err", n - 1) \cup (IF err = "text" THEN {n} ELSE {})
            /\ \A i \in TextPlaces("err", n - 1) : i \in 1 .. n - 1
        BY <1>a, <2>2, TextGrows DEF n
      <3>2. CASE err = "text"
        <4>1. \A i \in Places(half, "err") : i < n
          BY <1>a, <1>2, <3>1
        <4>2. /\ Append(half, <<"err", n>>) \in Seq(Stream \X Nat)
              /\ Ordered(Append(half, <<"err", n>>))
              /\ \A t \in Stream : Places(Append(half, <<"err", n>>), t) =
                                      Places(half, t) \cup (IF t = "err" THEN {n} ELSE {})
          <5>1. half \in Seq(Stream \X Nat) /\ Ordered(half) /\ n \in Nat /\ "err" \in Stream
            BY <1>a, <1>2
          <5>2. QED
            BY ONLY <1>e, <4>1, <5>1
        <4>3. QED
          BY <1>1, <1>2, <1>a, <2>2, <3>1, <3>2, <4>2
      <3>3. CASE err # "text"
        BY <1>1, <1>2, <2>2, <3>1, <3>3
      <3>4. QED
        BY <3>2, <3>3
    <2>3. QED
      BY <2>1, <2>2
  <1>4. ASSUME NEW s \in Stream PROVE Yielded(s)' = TextPlaces(s, taken[s])'
    <2>1. Yielded(s)' = Places(result', s)
      BY DEF Yielded, Places
    <2>2. TextPlaces(s, taken[s])' = {i \in 1 .. taken'[s] : written[s][i] = "text"}
      BY DEF TextPlaces
    <2>3. TextPlaces(s, taken[s])' = TextPlaces(s, taken'[s])
      BY <2>2 DEF TextPlaces
    <2>4. QED
      BY <1>3, <1>a, <1>b, <2>1, <2>3
  <1>5. QED
    BY <1>3, <1>4

LEMMA StderrInv == SInv /\ ReadStderr => SInv'
  <1> SUFFICES ASSUME SInv, ReadStderr PROVE SInv'
    OBVIOUS
  <1> USE DEF SInv
  <1> DEFINE err == LineOf("err")
  <1>a. /\ pc = "err" /\ Ready("err") /\ Take("err") /\ held' = "none"
        /\ UNCHANGED <<cancels, interrupted, written, child, intent, signal>>
        /\ IF "garbled" \in {held, err}
           THEN pc' = "term" /\ outcome' = "raised" /\ result' = result
           ELSE IF Ends(err)
           THEN pc' = "term" /\ outcome' = "returned" /\ result' = result
           ELSE pc' = "out" /\ result' = result \o Pair(err) /\ outcome' = outcome
    BY DEF ReadStderr, childVars
  <1>b. taken \in [Stream -> Nat] /\ "out" \in Stream /\ "err" \in Stream /\ "out" # "err"
        /\ \A s \in Stream : s \in {"out", "err"}
    BY DEF TypeOK, Stream
  <1>1. /\ \/ /\ err = "eof" /\ taken' = taken
              /\ taken["err"] = Len(written["err"]) /\ child = "dead"
           \/ /\ err \in Kind /\ taken["err"] < Len(written["err"])
              /\ taken' = [taken EXCEPT !["err"] = @ + 1]
              /\ err = written["err"][taken["err"] + 1]
        /\ taken' \in [Stream -> Nat]
        /\ \A t \in Stream : taken'[t] <= Len(written[t])
    BY <1>a, <1>b, TakesOne
  <1> HIDE DEF err
  <1>2. held \in Kind \cup {"eof"}
    <2>1. CASE held = "eof"
      BY <2>1
    <2>2. CASE held # "eof"
      BY <1>a, <1>b, <2>2 DEF HeldLine, TypeOK
    <2>3. QED
      BY <2>1, <2>2
  <1>3. CASE pc' = "out"
    <2>1. /\ "garbled" \notin {held, err} /\ ~Ends(err)
          /\ result' = result \o Pair(err) /\ outcome' = outcome
      BY <1>a, <1>3
    <2>2. taken' = [taken EXCEPT !["err"] = IF err = "eof" THEN @ ELSE @ + 1]
      BY <1>1, <1>b DEF Kind
    <2>3. /\ result' \in Seq(Stream \X Nat)
          /\ Ordered(result')
          /\ \A s \in Stream : Yielded(s)' = TextPlaces(s, taken[s])'
      <3>1. held \in {"text", "blank", "eof"} /\ err \in Kind \cup {"eof"}
        BY <1>1, <1>2, <2>1 DEF Kind
      <3>2. err # "eof" => err = written["err"][taken["err"] + 1]
        BY <1>1
      <3>3. QED
        BY <1>a, <2>1, <2>2, <3>1, <3>2, PairInv
    <2>4. TypeOK'
      BY <1>a, <1>1, <1>3, <2>1, <2>3 DEF TypeOK
    <2>5. NothingLostInPairing'
      BY <2>3 DEF NothingLostInPairing
    <2>6. HeldLine' /\ HalfPaired' /\ Stopped' /\ NoOrphan'
      BY <1>a, <1>3, <2>1 DEF HeldLine, HalfPaired, Stopped, NoOrphan
    <2>7. QED
      BY <2>4, <2>5, <2>6
  <1>4. CASE pc' # "out"
    <2>1. pc' = "term" /\ result' = result /\ outcome' \in {"raised", "returned"}
          /\ (outcome' = "returned" => held # "garbled" /\ err # "garbled" /\ Ends(err))
      BY <1>a, <1>4
    <2>2. TypeOK'
      BY <1>a, <1>1, <2>1 DEF TypeOK
    <2>3. NothingLostInPairing' /\ HeldLine' /\ HalfPaired' /\ NoOrphan'
      BY <2>1 DEF NothingLostInPairing, HeldLine, HalfPaired, NoOrphan
    <2>4. ASSUME outcome' = "returned" PROVE SawBlank' \/ SawEnds'
      <3>1. held \in {"blank", "eof"} /\ err \in {"blank", "eof"}
        BY <1>1, <1>2, <2>1, <2>4 DEF Ends, Kind
      <3>2. CASE err = "blank"
        <4>1. taken'["err"] = taken["err"] + 1 /\ taken["err"] + 1 > 0
              /\ written'["err"][taken["err"] + 1] = "blank"
          BY <1>a, <1>b, <1>1, <3>2
        <4>2. QED
          BY <1>b, <4>1 DEF SawBlank
      <3>3. CASE held = "blank"
        <4>1. taken'["out"] = taken["out"] /\ taken["out"] > 0 /\ written["out"][taken["out"]] = "blank"
          BY <1>a, <1>b, <1>1, <3>3 DEF HeldLine
        <4>2. QED
          BY <1>a, <1>b, <4>1 DEF SawBlank
      <3>4. CASE held = "eof" /\ err = "eof"
        BY <1>a, <1>b, <1>1, <3>4 DEF SawEnds, HeldLine, Kind
      <3>5. QED
        BY <3>1, <3>2, <3>3, <3>4
    <2>5. Stopped'
      BY <2>1, <2>4 DEF Stopped
    <2>6. QED
      BY <2>2, <2>3, <2>5
  <1>5. QED
    BY <1>3, <1>4

\* The steps after reading, and a cancellation, leave the lines alone.
LEMMA LeavingInv == SInv /\ (Terminate \/ Reaped \/ GraceOver \/ Cancel) => SInv'
  <1> SUFFICES ASSUME SInv, Terminate \/ Reaped \/ GraceOver \/ Cancel PROVE SInv'
    OBVIOUS
  <1>1. /\ UNCHANGED <<written, taken, result, child>>
        /\ pc' \in {"term", "grace", "kill", "left"}
        /\ outcome' \in {outcome, "raised"}
        /\ pc' = "left" => child = "dead" \/ interrupted'
    BY DEF Terminate, Reaped, GraceOver, Cancel, childVars
  <1>2. TypeOK'
    <2>1. /\ held' \in {held, "none"} /\ intent' = intent /\ signal' \in {signal, "term", "kill"}
          /\ cancels' \in {cancels, cancels + 1}
      BY DEF Terminate, Reaped, GraceOver, Cancel, childVars
    <2>3. interrupted' \in BOOLEAN
      <3>1. interrupted' = interrupted \/ interrupted' = TRUE
        BY DEF Terminate, Reaped, GraceOver, Cancel, childVars
      <3>2. QED
        BY <3>1, Zenon DEF SInv, TypeOK
    <2>4. QED
      BY <1>1, <2>1, <2>3 DEF SInv, TypeOK
  <1>3. NothingLostInPairing' /\ HeldLine' /\ HalfPaired' /\ NoOrphan'
    BY <1>1 DEF SInv, NothingLostInPairing, HeldLine, HalfPaired, NoOrphan
  <1>4. Stopped'
    BY <1>1 DEF SInv, Stopped, SawBlank, SawEnds
  <1>5. QED
    BY <1>2, <1>3, <1>4 DEF SInv

LEMMA SNextInv == SInv /\ [Next]_vars => SInv'
  <1> SUFFICES ASSUME SInv, [Next]_vars PROVE SInv'
    OBVIOUS
  <1>1. ASSUME UNCHANGED vars PROVE SInv'
    <2>1. TypeOK' /\ HeldLine' /\ Stopped' /\ NoOrphan'
      BY <1>1 DEF SInv, vars, TypeOK, HeldLine, Stopped, SawBlank, SawEnds, NoOrphan
    <2>2. NothingLostInPairing' /\ HalfPaired'
      BY <1>1, SameText DEF SInv, vars, NothingLostInPairing, HalfPaired, Stream
    <2>3. QED
      BY <2>1, <2>2 DEF SInv
  <1>2. QED
    BY <1>1, WriteInv, ChildEndsInv, StdoutInv, StderrInv, LeavingInv DEF Next, Call

LEMMA SInvariant == Spec => []SInv
  BY SInitInv, SNextInv, PTL DEF Spec

-----------------------------------------------------------------------------
\* The types, and never more lines taken from a pipe than were written to it.
THEOREM SpawnTyping == Spec => []TypeOK
  BY SInvariant, PTL DEF SInv

\* readline pairs the two streams without losing, repeating or moving a line of text
\* (asyncspawn.py:83-96), for any number of lines in any order.
THEOREM PairsKeepText == Spec => []NothingLostInPairing
  BY SInvariant, PTL DEF SInv

\* readtext returns early only at a blank line (asyncspawn.py:115).
THEOREM EarlyOnlyAtBlank == Spec => []StopsShortAtBlank
  <1>1. SInv => StopsShortAtBlank
    <2> SUFFICES ASSUME SInv, outcome = "returned", NEW s \in Stream, taken[s] < Len(written[s])
                 PROVE  SawBlank
      BY DEF StopsShortAtBlank, SawBlank
    <2>1. ~SawEnds
      BY DEF SInv, TypeOK, SawEnds
    <2>2. QED
      BY <2>1 DEF SInv, Stopped
  <1>2. QED
    BY <1>1, SInvariant, PTL

\* The context is left with the child ended, unless terminate was itself cancelled
\* (asyncspawn.py:52-81).
THEOREM NoneLeft == Spec => []NoOrphan
  BY SInvariant, PTL DEF SInv

-----------------------------------------------------------------------------
\* A readtext that returns has yielded all text it took, the last pair having none.
AllYielded ==
    outcome = "returned" => \A s \in Stream : Yielded(s) = TextPlaces(s, taken[s])

LEMMA AllYieldedStep == SInv /\ AllYielded /\ [Next]_vars => AllYielded'
  <1> SUFFICES ASSUME SInv, AllYielded, [Next]_vars, outcome' = "returned", NEW s \in Stream
               PROVE  Yielded(s)' = TextPlaces(s, taken[s])'
    BY DEF AllYielded
  <1>a. /\ written \in [Stream -> Seq(Kind)] /\ taken[s] \in Nat /\ taken[s] <= Len(written[s])
        /\ taken \in [Stream -> Nat] /\ s \in {"out", "err"}
    BY DEF SInv, TypeOK, Stream
  <1>1. ASSUME outcome = "returned", UNCHANGED <<taken, result>>,
               written' = written \/ \E t \in Stream, kind \in Kind :
                                        written' = [written EXCEPT ![t] = Append(@, kind)]
        PROVE  Yielded(s)' = TextPlaces(s, taken[s])'
    <2>1. \A i \in 1 .. taken[s] : written'[s][i] = written[s][i]
      BY <1>a, <1>1
    <2>2. Yielded(s)' = Yielded(s)
      BY <1>1 DEF Yielded
    <2>3. TextPlaces(s, taken[s])' = TextPlaces(s, taken[s])
      BY <1>1, <2>1 DEF TextPlaces
    <2>4. QED
      BY <1>1, <2>2, <2>3 DEF AllYielded
  <1>2. CASE ReadStderr
    <2> DEFINE err == LineOf("err")
    <2>1. /\ pc = "err" /\ Ready("err") /\ Take("err") /\ UNCHANGED <<written, result, child>>
          /\ "garbled" \notin {held, err} /\ Ends(err)
      BY <1>2 DEF ReadStderr, childVars, SInv, Stopped
    <2>2. /\ \/ /\ err = "eof" /\ taken' = taken
             \/ /\ err \in Kind /\ taken["err"] < Len(written["err"])
                /\ taken' = [taken EXCEPT !["err"] = @ + 1]
                /\ err = written["err"][taken["err"] + 1]
      <3>1. "err" \in Stream /\ TypeOK
        BY DEF Stream, SInv
      <3>2. QED
        BY <2>1, <3>1, TakesOne
    <2> HIDE DEF err
    <2>3. \A n : TextPlaces(s, n)' = TextPlaces(s, n)
      BY <2>1 DEF TextPlaces
    <2>4. Yielded(s)' = Yielded(s)
      BY <2>1 DEF Yielded
    <2>5. held # "text" /\ err # "text"
      BY <2>1 DEF Ends
    <2>6. CASE s = "err"
      <3>1. Yielded(s) = TextPlaces(s, taken[s])
        BY <2>1, <2>6 DEF SInv, HalfPaired
      <3>2. TextPlaces(s, taken[s] + 1) =
               TextPlaces(s, taken[s]) \cup (IF written[s][taken[s] + 1] = "text" THEN {taken[s] + 1} ELSE {})
        BY <1>a, TextGrows DEF SInv
      <3>3. TextPlaces(s, taken'[s]) = TextPlaces(s, taken[s])
        BY <1>a, <2>2, <2>5, <2>6, <3>2
      <3>4. TextPlaces(s, taken[s])' = {i \in 1 .. taken'[s] : written[s][i] = "text"}
        BY <2>1 DEF TextPlaces
      <3>5. TextPlaces(s, taken[s])' = TextPlaces(s, taken'[s])
        BY <3>4 DEF TextPlaces
      <3>6. QED
        BY <2>4, <3>1, <3>3, <3>5
    <2>7. CASE s = "out"
      <3>1. taken'[s] = taken[s]
        BY <1>a, <2>2, <2>7
      <3>2. TextPlaces(s, taken[s])' = TextPlaces(s, taken[s])
        BY <2>1, <3>1 DEF TextPlaces
      <3>3. CASE held = "eof"
        BY <2>1, <2>4, <2>7, <3>2, <3>3 DEF SInv, HalfPaired
      <3>4. CASE held # "eof"
        <4>1. taken[s] > 0 /\ held = written[s][taken[s]] /\ Yielded(s) = TextPlaces(s, taken[s] - 1)
          BY <2>1, <2>7, <3>4 DEF SInv, HalfPaired, HeldLine
        <4>2. taken[s] - 1 \in Nat /\ (taken[s] - 1) + 1 = taken[s]
          BY <1>a, <4>1
        <4>3. TextPlaces(s, (taken[s] - 1) + 1) = TextPlaces(s, taken[s] - 1) \cup
                 (IF written[s][(taken[s] - 1) + 1] = "text" THEN {(taken[s] - 1) + 1} ELSE {})
          BY <4>2, TextGrows DEF SInv
        <4>4. TextPlaces(s, taken[s]) = TextPlaces(s, taken[s] - 1)
          BY <2>5, <4>1, <4>2, <4>3
        <4>5. QED
          BY <2>4, <3>2, <4>1, <4>4
      <3>5. QED
        BY <3>3, <3>4
    <2>8. QED
      BY <1>a, <2>6, <2>7
  <1>3. CASE ReadStdout
    <2>1. FALSE
      BY <1>3 DEF ReadStdout, SInv, Stopped
    <2>2. QED
      BY <2>1
  <1>4. CASE Cancel
    BY <1>4 DEF Cancel
  <1>5. CASE Terminate \/ Reaped \/ GraceOver
    <2>1. outcome' = outcome /\ UNCHANGED <<taken, result, written>>
      BY <1>5 DEF Terminate, Reaped, GraceOver, childVars
    <2>2. QED
      BY <1>1, <2>1
  <1>6. CASE ChildExit \/ ChildDies
    <2>1. outcome' = outcome /\ UNCHANGED <<taken, result, written>>
      BY <1>6 DEF ChildExit, ChildDies, callVars
    <2>2. QED
      BY <1>1, <2>1
  <1>7. ASSUME NEW t \in Stream, ChildWrite(t) PROVE Yielded(s)' = TextPlaces(s, taken[s])'
    <2>1. /\ outcome' = outcome /\ UNCHANGED <<taken, result>>
          /\ \E kind \in Kind : written' = [written EXCEPT ![t] = Append(@, kind)]
      BY <1>7 DEF ChildWrite, callVars
    <2>2. QED
      BY <1>1, <2>1
  <1>8. CASE UNCHANGED vars
    <2>1. outcome' = outcome /\ UNCHANGED <<taken, result, written>>
      BY <1>8 DEF vars
    <2>2. QED
      BY <1>1, <2>1
  <1>9. QED
    BY <1>2, <1>3, <1>4, <1>5, <1>6, <1>7, <1>8 DEF Next, Call

\* What readtext returns is all text of the lines it took, in their order: what it leaves
\* out it never read.
THEOREM ReturnsWhatItRead ==
    Spec => [](outcome = "returned" =>
                  Ordered(result) /\ \A s \in Stream : Yielded(s) = TextPlaces(s, taken[s]))
  <1>1. Init => AllYielded
    BY DEF Init, AllYielded
  <1>2. SInv /\ AllYielded => (outcome = "returned" =>
           Ordered(result) /\ \A s \in Stream : Yielded(s) = TextPlaces(s, taken[s]))
    BY DEF SInv, AllYielded, NothingLostInPairing
  <1>3. QED
    BY <1>1, <1>2, AllYieldedStep, SInvariant, PTL DEF Spec

\* What asyncspawn.py:99 promises of readtext holds of every child that writes no blank line.
THEOREM WholeWithoutBlank ==
    Spec => []((\A s \in Stream : \A i \in 1 .. Len(written[s]) : written[s][i] # "blank")
                  => WholeOutput)
  <1>1. SInv /\ (outcome = "returned" =>
                    Ordered(result) /\ \A s \in Stream : Yielded(s) = TextPlaces(s, taken[s]))
           => ((\A s \in Stream : \A i \in 1 .. Len(written[s]) : written[s][i] # "blank")
                  => WholeOutput)
    <2> SUFFICES ASSUME SInv, outcome = "returned",
                        \A s \in Stream : Yielded(s) = TextPlaces(s, taken[s]),
                        \A s \in Stream : \A i \in 1 .. Len(written[s]) : written[s][i] # "blank",
                        NEW s \in Stream
                 PROVE  Yielded(s) = TextPlaces(s, Len(written[s]))
      BY DEF WholeOutput
    <2>1. ~SawBlank
      BY DEF SawBlank, SInv, TypeOK
    <2>2. taken[s] = Len(written[s])
      BY <2>1 DEF SInv, Stopped, SawEnds
    <2>3. QED
      BY <2>2
  <1>2. QED
    BY <1>1, SInvariant, ReturnsWhatItRead, PTL

=============================================================================
