------------------------------ MODULE Expecter ------------------------------
(***************************************************************************)
(* Expecter (src/mbpy/expect/expect.py) on a PopenSpawn                     *)
(* (src/mbpy/expect/pop.py): a reader thread puts what the child writes on  *)
(* a queue, expect_loop reads it in pieces of at most MaxRead and searches  *)
(* a window of it.  _before holds all text since the last match, _buffer    *)
(* the end of it that a search can still need.  Characters stand for bytes; *)
(* "h" "l" are the two bytes of one character of the text.                  *)
(*                                                                         *)
(* The thread's reads and the steps of expect_loop interleave.  The clock   *)
(* is a choice: a call with a timeout may find it over whenever it looks.   *)
(***************************************************************************)
EXTENDS Naturals, Sequences, SequencesExt

CONSTANTS
    Chars,      \* bytes
    Streams,    \* what the child may write, as one sequence
    Searches,   \* searchers: [strings |-> patterns, exact |-> is it a searcher_string]
    Windows,    \* searchwindowsize; 0 is None
    MaxRead,    \* maxread
    MaxChunk,   \* most that one os.read of the thread returns
    NoCall,     \* no expect call is running
    Closed,     \* the None the thread puts on the queue
    MaxCalls    \* bound: calls of expect

ASSUME ExpecterAssumption ==
    /\ MaxRead \in Nat \ {0}
    /\ MaxChunk \in Nat \ {0}
    /\ Windows \subseteq Nat
    /\ MaxCalls \in Nat
    /\ Streams \subseteq Seq(Chars)
    /\ Searches \subseteq [strings : Seq(Seq(Chars)), exact : BOOLEAN]
    /\ Closed \notin Seq(Chars)
    /\ NoCall \notin [search : Searches, w : Windows, timed : BOOLEAN]

VARIABLES
    unread,     \* what the thread has not read yet
    queue,      \* _read_queue
    ended,      \* the thread has put Closed and returned
    pc,         \* "idle", "loop" (top of expect_loop) or "reading" (in read_nonblocking)
    call,       \* the searcher, window and timeout of the running call
    calls,      \* calls so far
    reachedEof, \* _read_reached_eof
    buf,        \* _buf, or the local buf of read_nonblocking
    received,   \* _before
    window,     \* _buffer
    answer,     \* before, after, match_index, and how the call ended
    taken,      \* history: text consumed by matches and by EOF
    torn        \* history: what a read took and raised on

vars == <<unread, queue, ended, pc, call, calls, reachedEof, buf, received, window,
          answer, taken, torn>>

thread == <<unread, queue, ended>>

Init ==
    /\ unread \in Streams
    /\ queue = <<>>
    /\ ended = FALSE
    /\ pc = "idle"
    /\ call = NoCall
    /\ calls = 0
    /\ reachedEof = FALSE
    /\ buf = <<>>
    /\ received = <<>>
    /\ window = <<>>
    /\ answer = [kind |-> "none", index |-> 0, before |-> <<>>, after |-> <<>>]
    /\ taken = <<>>
    /\ torn = <<>>

-----------------------------------------------------------------------------
(* The search *)

FirstN(s, n) == SubSeq(s, 1, IF n < Len(s) THEN n ELSE Len(s))
From(s, n) == SubSeq(s, n + 1, Len(s))

\* Len(s) - n, or 0: where the last n characters of s begin.
Back(s, n) == IF Len(s) <= n THEN 0 ELSE Len(s) - n
LastN(s, n) == From(s, Back(s, n))

StandsAt(t, s, n) == n + Len(s) <= Len(t) /\ SubSeq(t, n + 1, n + Len(s)) = s

\* searcher_string looks only where fresh text can take part in a match.
SearchStart(win, fresh, c, s) ==
    IF c.w # 0 THEN Back(win, c.w)
    ELSE IF c.search.exact THEN Back(win, fresh + Len(s)) ELSE 0

Hits(win, fresh, c) ==
    {h \in (0..Len(win)) \X (DOMAIN c.search.strings) :
        LET s == c.search.strings[h[2]]
        IN  h[1] >= SearchStart(win, fresh, c, s) /\ StandsAt(win, s, h[1])}

\* The earliest in the window; the first of the list among equals.
Best(hits) ==
    CHOOSE h \in hits : \A g \in hits : h[1] < g[1] \/ (h[1] = g[1] /\ h[2] <= g[2])

\* longest_string, which only searcher_string has.
Lookback(c) ==
    LET lengths == {Len(c.search.strings[i]) : i \in DOMAIN c.search.strings} \cup {0}
    IN  IF c.search.exact THEN CHOOSE n \in lengths : \A m \in lengths : m <= n ELSE 0

Maintain(c) == IF c.w # 0 THEN c.w ELSE Lookback(c)

\* Mutant: the wrong end of the window is kept.
Trimmed_Front(c, buffer, win) ==
    IF Maintain(c) # 0 /\ Len(buffer) > Maintain(c) THEN FirstN(win, Maintain(c)) ELSE buffer

\* What is left of the buffer after a search that found nothing.
Trimmed(c, buffer, win) ==
    IF Maintain(c) # 0 /\ Len(buffer) > Maintain(c) THEN LastN(win, Maintain(c)) ELSE buffer

\* do_search: before is the text received, buffer the new _buffer and win the part searched.
DoSearch(c, before, buffer, win, fresh) ==
    LET hits == Hits(win, fresh, c)
        h == Best(hits)
        match == c.search.strings[h[2]]
        cut == Len(before) - (Len(win) - h[1])
        rest == From(win, h[1] + Len(match))
    IN  IF hits # {}
        THEN /\ answer' = [kind |-> "match", index |-> h[2], before |-> FirstN(before, cut),
                           after |-> match]
             /\ taken' = taken \o FirstN(before, cut) \o match
             /\ received' = rest
             /\ window' = rest
             /\ pc' = "idle"
             /\ call' = NoCall
        ELSE /\ received' = before
             /\ window' = Trimmed(c, buffer, win)
             /\ pc' = "loop"
             /\ call' = c
             /\ UNCHANGED <<answer, taken>>

\* existing_data: what earlier calls have left is searched; a buffer they trimmed is
\* filled again from the text received.
ExistingData(c) ==
    LET refill == IF c.w = 0 THEN received
                  ELSE IF Len(window) < c.w THEN LastN(received, c.w) ELSE window
        buffer == IF Len(received) > Len(window) THEN refill ELSE window
        win == IF c.w = 0 THEN buffer ELSE LastN(buffer, c.w)
    IN  DoSearch(c, received, buffer, win, Len(received))

\* Mutant: only the new text is searched for an exact string.
NewData_NoLookback(c, data) ==
    LET joined == window \o data
        buffer == IF c.w # 0 /\ (Len(data) >= c.w \/ window = <<>>)
                  THEN LastN(data, c.w) ELSE joined
        win == IF c.w # 0 THEN LastN(buffer, c.w)
               ELSE IF Lookback(c) # 0 THEN data ELSE joined
    IN  DoSearch(c, received \o data, buffer, win, Len(data))

\* new_data
NewData(c, data) ==
    LET joined == window \o data
        buffer == IF c.w # 0 /\ (Len(data) >= c.w \/ window = <<>>)
                  THEN LastN(data, c.w) ELSE joined
        win == IF c.w # 0 THEN LastN(buffer, c.w)
               ELSE IF Lookback(c) # 0 THEN From(joined, Back(window, Lookback(c)))
               ELSE joined
    IN  DoSearch(c, received \o data, buffer, win, Len(data))

-----------------------------------------------------------------------------
(* expect_loop and read_nonblocking *)

\* Mutant: the loop goes on after a timeout.
Give_Continues(kind) ==
    /\ answer' = [kind |-> kind, index |-> 0, before |-> received, after |-> <<>>]
    /\ pc' = "loop"
    /\ call' = NoCall

\* The call ends without a match; before is what was received.  Whether TIMEOUT and EOF are
\* raised, or returned as a pattern of the list, makes no difference to the state.
Give(kind) ==
    /\ answer' = [kind |-> kind, index |-> 0, before |-> received, after |-> <<>>]
    /\ pc' = "idle"
    /\ call' = NoCall

Expect(s, w, timed) ==
    /\ pc = "idle"
    /\ calls < MaxCalls
    /\ calls' = calls + 1
    /\ ExistingData([search |-> s, w |-> w, timed |-> timed])
    /\ UNCHANGED <<thread, reachedEof, buf, torn>>

TimeOut ==
    /\ pc = "loop"
    /\ call.timed
    /\ Give("TIMEOUT")
    /\ UNCHANGED <<thread, calls, reachedEof, buf, received, window, taken, torn>>

\* Mutant: an empty queue is taken for the end.
Eof_Early ==
    /\ pc = "loop"
    /\ queue = <<>> /\ buf = <<>>
    /\ Give("EOF")
    /\ taken' = taken \o received
    /\ received' = <<>>
    /\ window' = <<>>
    /\ UNCHANGED <<thread, calls, reachedEof, buf, torn>>

\* read_nonblocking raises EOF, and all text is used up.  That it first returns what is left
\* in _buf never happens: Closed is taken only while a piece is not full, which is then
\* handed over whole (EofIsLast).
Eof ==
    /\ pc = "loop"
    /\ reachedEof
    /\ Give("EOF")
    /\ taken' = taken \o received
    /\ received' = <<>>
    /\ window' = <<>>
    /\ UNCHANGED <<thread, calls, reachedEof, buf, torn>>

StartRead ==
    /\ pc = "loop"
    /\ ~reachedEof
    /\ pc' = "reading"
    /\ UNCHANGED <<thread, call, calls, reachedEof, buf, received, window, answer, taken, torn>>

\* _log decodes each piece by itself, which fails on half a character.
Decodes(piece) ==
    piece = <<>> \/ (Head(piece) # "l" /\ piece[Len(piece)] # "h")

\* Mutant: what does not fit into one piece is forgotten.
HandOver_Drops(all) ==
    LET piece == FirstN(all, MaxRead) IN
    /\ buf' = <<>>
    /\ IF Decodes(piece)
       THEN NewData(call, piece) /\ UNCHANGED torn
       ELSE Give("error") /\ torn' = torn \o piece /\ UNCHANGED <<received, window, taken>>

\* The end of read_nonblocking: a piece is logged and given to new_data, the rest kept.
HandOver(all) ==
    LET piece == FirstN(all, MaxRead) IN
    /\ buf' = From(all, Len(piece))
    /\ IF Decodes(piece)
       THEN NewData(call, piece) /\ UNCHANGED torn
       ELSE Give("error") /\ torn' = torn \o piece /\ UNCHANGED <<received, window, taken>>

Get ==
    /\ pc = "reading"
    /\ Len(buf) < MaxRead
    /\ queue # <<>> /\ Head(queue) # Closed
    /\ buf' = buf \o Head(queue)
    /\ queue' = Tail(queue)
    /\ UNCHANGED <<unread, ended, pc, call, calls, reachedEof, received, window, answer,
                   taken, torn>>

\* Mutant: the mark of the end is taken for an empty piece.
GetClosed_Unnoticed ==
    /\ pc = "reading"
    /\ Len(buf) < MaxRead
    /\ queue # <<>> /\ Head(queue) = Closed
    /\ queue' = Tail(queue)
    /\ HandOver(buf)
    /\ UNCHANGED <<unread, ended, calls, reachedEof>>

GetClosed ==
    /\ pc = "reading"
    /\ Len(buf) < MaxRead
    /\ queue # <<>> /\ Head(queue) = Closed
    /\ queue' = Tail(queue)
    /\ reachedEof' = TRUE
    /\ HandOver(buf)
    /\ UNCHANGED <<unread, ended, calls>>

\* The queue is empty, the piece is full, or the time is over.
EndRead ==
    /\ pc = "reading"
    /\ queue = <<>> \/ Len(buf) >= MaxRead \/ call.timed
    /\ HandOver(buf)
    /\ UNCHANGED <<thread, calls, reachedEof>>

-----------------------------------------------------------------------------
(* The thread: _read_incoming *)

ThreadReads(n) ==
    /\ n <= Len(unread)
    /\ unread' = From(unread, n)
    /\ queue' = Append(queue, FirstN(unread, n))
    /\ UNCHANGED <<ended, pc, call, calls, reachedEof, buf, received, window, answer, taken, torn>>

\* The child has closed its end, after all it had to write.
ThreadEnds ==
    /\ ~ended
    /\ unread = <<>>
    /\ ended' = TRUE
    /\ queue' = Append(queue, Closed)
    /\ UNCHANGED <<unread, pc, call, calls, reachedEof, buf, received, window, answer, taken, torn>>

Loop == Eof \/ StartRead \/ Get \/ GetClosed \/ EndRead

Next ==
    \/ \E s \in Searches, w \in Windows, timed \in BOOLEAN : Expect(s, w, timed)
    \/ TimeOut
    \/ Loop
    \/ \E n \in 1..MaxChunk : ThreadReads(n)
    \/ ThreadEnds

Spec == Init /\ [][Next]_vars

\* expect_loop runs on; a timeout is over at some look at the clock.  Nothing is assumed of
\* the child and the thread.
FairSpec == Spec /\ WF_vars(Loop) /\ SF_vars(TimeOut)

-----------------------------------------------------------------------------
(* Properties *)

\* The text of the pieces on a queue, first to last.
TextOn(q) ==
    LET text[i \in 0..Len(q)] ==
            IF i = 0 THEN <<>>
            ELSE IF q[i] = Closed THEN text[i - 1] ELSE text[i - 1] \o q[i]
    IN  text[Len(q)]

TypeOK ==
    /\ pc \in {"idle", "loop", "reading"}
    /\ call = NoCall <=> pc = "idle"
    /\ calls \in 0..MaxCalls
    /\ ended \in BOOLEAN /\ reachedEof \in BOOLEAN
    /\ answer.kind \in {"none", "match", "TIMEOUT", "EOF", "error"}

\* do_search cuts _before by a distance from its end (expect.py:317), so _buffer must always
\* be the end of _before, whatever windows and searchers earlier calls had.
BufferIsTheEnd == IsSuffix(window, received)

\* Text is neither lost, doubled nor reordered between the child and the matches: what is used
\* up, received, buffered, queued and unread stays the same text in every step, but for the
\* piece the step raises on (spawnbase.py:275), which was the next after what was received.
NothingLost ==
    [][taken' \o received' \o From(torn', Len(torn)) \o buf' \o TextOn(queue') \o unread'
       = taken \o received \o buf \o TextOn(queue) \o unread]_vars

\* EOF is reported only when everything the child wrote has been searched.
EofIsLast == answer.kind = "EOF" => unread = <<>> /\ queue = <<>> /\ buf = <<>>

\* Chunks, buffers and lookback do not show: each call answers as if it searched all the
\* text received since the last match, or its last searchwindowsize characters.
Pieces == {<<>>} \cup UNION {{SubSeq(s, i, j) : i \in 1..Len(s), j \in 1..Len(s)} : s \in Streams}
Text == INSTANCE ExpectText WITH text <- received, Data <- Pieces
ImplementsText == Text!Spec

\* A call with a timeout returns; one without returns when the child has closed its end.
ExpectReturns == pc # "idle" /\ (call.timed \/ ended) ~> pc = "idle"

\* expect.py:34-36: "On general exception, class attribute before is all data received up to
\* the exception": a call that raises hands out what it has read.
BeforeIsAllReceived == answer.kind = "error" => torn = <<>>

=============================================================================
