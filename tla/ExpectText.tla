----------------------------- MODULE ExpectText -----------------------------
(***************************************************************************)
(* What an expect call promises (the docstring of src/mbpy/expect/expect.py *)
(* with the semantics of searchwindowsize that its code has): it looks at   *)
(* all text received since the last match, or at its last w characters, and *)
(* answers with the first occurrence of a pattern, ties to the leftmost     *)
(* pattern of the list.  No buffers, chunks or reader thread here.          *)
(***************************************************************************)
EXTENDS Naturals, Sequences

CONSTANTS
    Data,       \* what may be received at once
    Searches,   \* the searchers of the calls; strings is the list of patterns
    Windows,    \* values of searchwindowsize; 0 is None
    NoCall      \* no call outstanding

VARIABLES text, call, answer

vars == <<text, call, answer>>

\* s stands in t after its first n characters.
StandsAt(t, s, n) == n + Len(s) <= Len(t) /\ SubSeq(t, n + 1, n + Len(s)) = s

\* Where t may be searched.
From(t, w) == IF w = 0 \/ Len(t) <= w THEN 0 ELSE Len(t) - w

Occurrences(t, c) ==
    {h \in (From(t, c.w)..Len(t)) \X (DOMAIN c.search.strings) :
        StandsAt(t, c.search.strings[h[2]], h[1])}

\* h comes before g: earlier in the text, else earlier in the list of patterns.
Before(h, g) == h[1] < g[1] \/ (h[1] = g[1] /\ h[2] <= g[2])

FirstOf(hits) == CHOOSE h \in hits : \A g \in hits : Before(h, g)

Match(t, c) ==
    LET h == FirstOf(Occurrences(t, c))
        end == h[1] + Len(c.search.strings[h[2]])
    IN  /\ answer' = [kind |-> "match", index |-> h[2], before |-> SubSeq(t, 1, h[1]),
                      after |-> SubSeq(t, h[1] + 1, end)]
        /\ text' = SubSeq(t, end + 1, Len(t))
        /\ call' = NoCall

Look(t, c) ==
    IF Occurrences(t, c) # {} THEN Match(t, c)
    ELSE text' = t /\ call' = c /\ UNCHANGED answer

Init == text = <<>> /\ call = NoCall /\ answer.kind = "none"

Ask ==
    /\ call = NoCall
    /\ \E s \in Searches, w \in Windows, timed \in BOOLEAN :
           Look(text, [search |-> s, w |-> w, timed |-> timed])

Receive == call # NoCall /\ \E d \in Data : Look(text \o d, call)

\* The call ends without a match; before is all that was received, and only EOF uses it up.
Give(kind) ==
    /\ call # NoCall
    /\ answer' = [kind |-> kind, index |-> 0, before |-> text, after |-> <<>>]
    /\ call' = NoCall
    /\ text' = IF kind = "EOF" THEN <<>> ELSE text

TimeOut == call # NoCall /\ call.timed /\ Give("TIMEOUT")

Next == Ask \/ Receive \/ TimeOut \/ Give("EOF") \/ Give("error")

Spec == Init /\ [][Next]_vars

=============================================================================
