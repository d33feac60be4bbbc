----------------------------- MODULE AsyncSpawn -----------------------------
(***************************************************************************)
(* One use of AsyncSpawn (src/mbpy/expect/asyncspawn.py), as cmd.arun makes *)
(* it: enter the context, readtext(), leave the context.  The reader awaits *)
(* one line of stdout, then one line of stderr, and so on; the child writes *)
(* to two pipes of limited size.  A line is "text", "blank" (nothing left   *)
(* once stripped) or "garbled" (bytes that do not decode); its place in its *)
(* stream identifies it.                                                   *)
(***************************************************************************)
EXTENDS Naturals, Sequences

CONSTANTS
    PipeCap,        \* lines a pipe and its stream reader hold before the child blocks
    MaxLines,       \* bound: lines the child writes
    MaxCancels      \* bound: cancellations of the calling task

ASSUME SpawnAssumption ==
    PipeCap \in Nat \ {0} /\ MaxLines \in Nat /\ MaxCancels \in Nat

VARIABLES
    written,    \* written[s]: the lines the child has written to stream s
    taken,      \* taken[s]: how many of them the reader has taken
    held,       \* the stdout line readline() holds while it awaits stderr
    result,     \* what streamlines() has yielded, a sequence of <<stream, place>>
    pc,         \* where the call stands
    outcome,    \* how reading ended
    child,      \* the child process
    intent,     \* what the child does next: write to a stream, read its stdin or exit
    signal,     \* the last signal sent to it
    cancels,    \* cancellations so far
    interrupted \* history: one of them fell into terminate()

vars == <<written, taken, held, result, pc, outcome, child, intent, signal, cancels,
          interrupted>>
childVars == <<written, child, intent, signal>>
callVars == <<taken, held, result, pc, outcome, cancels, interrupted>>

Stream == {"out", "err"}
Kind == {"text", "blank", "garbled"}
Intent == Stream \cup {"read", "exit"}

-----------------------------------------------------------------------------
(* The child *)

Full(s) == Len(written[s]) - taken[s] >= PipeCap

\* stdin is a pipe that arun never writes to nor closes: a child that reads it waits.

ChildWrite(s) ==
    /\ child = "alive"
    /\ intent = s
    /\ ~Full(s)
    /\ Len(written["out"]) + Len(written["err"]) < MaxLines
    /\ \E kind \in Kind : written' = [written EXCEPT ![s] = Append(@, kind)]
    /\ intent' \in Intent
    /\ UNCHANGED <<child, signal, callVars>>

\* The child ends by itself (at the bound at the latest); its end closes both pipes.
ChildExit ==
    /\ child = "alive"
    /\ intent = "exit" \/ Len(written["out"]) + Len(written["err"]) = MaxLines
    /\ child' = "dead"
    /\ UNCHANGED <<written, intent, signal, callVars>>

\* It may also die of a signal; it may ignore SIGTERM, not SIGKILL.
ChildDies ==
    /\ child = "alive"
    /\ signal # "none"
    /\ child' = "dead"
    /\ UNCHANGED <<written, intent, signal, callVars>>

-----------------------------------------------------------------------------
(* The call *)

Init ==
    /\ written = [s \in Stream |-> <<>>]
    /\ taken = [s \in Stream |-> 0]
    /\ held = "none"
    /\ result = <<>>
    /\ pc = "out"
    /\ outcome = "none"
    /\ child = "alive"
    /\ intent \in Intent
    /\ signal = "none"
    /\ cancels = 0
    /\ interrupted = FALSE

\* StreamReader.readline: the next line, or nothing at the end of the stream.
LineOf(s) ==
    IF taken[s] < Len(written[s]) THEN written[s][taken[s] + 1] ELSE "eof"

Ready(s) == taken[s] < Len(written[s]) \/ child = "dead"

\* Mutant: the empty read at the end of a stream counts as a line.
Take_AtEnd(s) == taken' = [taken EXCEPT ![s] = @ + 1]

Take(s) == taken' = IF LineOf(s) = "eof" THEN taken ELSE [taken EXCEPT ![s] = @ + 1]

ReadStdout ==
    /\ pc = "out"
    /\ Ready("out")
    /\ held' = LineOf("out")
    /\ Take("out")
    /\ pc' = "err"
    /\ UNCHANGED <<result, outcome, cancels, interrupted, childVars>>

\* Mutant: readline keeps stdout's line only, when there is one.
Pair_StdoutFirst(err) ==
    IF held = "text" THEN <<<<"out", taken["out"]>>>>
    ELSE IF err = "text" THEN <<<<"err", taken["err"] + 1>>>> ELSE <<>>

\* What readline returns: the lines of the pair that are not empty once stripped.
Pair(err) ==
    (IF held = "text" THEN <<<<"out", taken["out"]>>>> ELSE <<>>)
    \o (IF err = "text" THEN <<<<"err", taken["err"] + 1>>>> ELSE <<>>)

\* Mutant: an empty stderr line ends the stream whatever stdout brought.
Ends_OnStderr(err) == err # "text"

\* streamlines breaks off at the first pair with nothing in it.
Ends(err) == held # "text" /\ err # "text"

ReadStderr ==
    /\ pc = "err"
    /\ Ready("err")
    /\ LET err == LineOf("err") IN
       /\ Take("err")
       /\ IF "garbled" \in {held, err}
          THEN pc' = "term" /\ outcome' = "raised" /\ UNCHANGED result
          ELSE IF Ends(err)
          THEN pc' = "term" /\ outcome' = "returned" /\ UNCHANGED result
          ELSE pc' = "out" /\ result' = result \o Pair(err) /\ UNCHANGED outcome
    /\ held' = "none"
    /\ UNCHANGED <<cancels, interrupted, childVars>>

\* terminate: SIGTERM unless the child is known to have ended (an end that has not been
\* noticed yet makes the signal miss).
Terminate ==
    /\ pc = "term"
    /\ \/ child = "dead" /\ pc' = "left" /\ UNCHANGED signal
       \/ pc' = "grace" /\ signal' = "term"
    /\ UNCHANGED <<taken, held, result, outcome, cancels, interrupted, written, child, intent>>

Reaped ==
    /\ pc \in {"grace", "kill"}
    /\ child = "dead"
    /\ pc' = "left"
    /\ UNCHANGED <<taken, held, result, outcome, cancels, interrupted, childVars>>

\* Mutant: the child is given up after the grace period.
GraceOver_GiveUp ==
    /\ pc = "grace"
    /\ pc' = "left"
    /\ UNCHANGED <<signal, taken, held, result, outcome, cancels, interrupted, written, child, intent>>

\* Mutant: SIGKILL is not sent.
GraceOver_NoKill ==
    /\ pc = "grace"
    /\ pc' = "kill"
    /\ UNCHANGED <<signal, taken, held, result, outcome, cancels, interrupted, written, child, intent>>

\* The second of grace is over: SIGKILL (which misses a child that has just ended, and
\* then terminate is done at once).
GraceOver ==
    /\ pc = "grace"
    /\ \/ pc' = "kill" /\ signal' = "kill"
       \/ child = "dead" /\ pc' = "left" /\ UNCHANGED signal
    /\ UNCHANGED <<taken, held, result, outcome, cancels, interrupted, written, child, intent>>

\* The calling task is cancelled at one of its awaits.  Inside terminate the `finally`
\* forgets the process.
Cancel ==
    /\ cancels < MaxCancels
    /\ cancels' = cancels + 1
    /\ outcome' = "raised"
    /\ \/ pc \in {"out", "err"} /\ pc' = "term" /\ UNCHANGED interrupted
       \/ pc \in {"grace", "kill"} /\ pc' = "left" /\ interrupted' = TRUE
    /\ held' = "none"
    /\ UNCHANGED <<taken, result, childVars>>

Call == ReadStdout \/ ReadStderr \/ Terminate \/ Reaped \/ GraceOver

Next ==
    \/ \E s \in Stream : ChildWrite(s)
    \/ ChildExit
    \/ ChildDies
    \/ Call
    \/ Cancel

Spec == Init /\ [][Next]_vars

\* The event loop resumes the call, timers fire, the child runs, SIGKILL works.
FairSpec ==
    /\ Spec
    /\ WF_vars(Call)
    /\ WF_vars(GraceOver)
    /\ WF_vars(ChildExit \/ \E s \in Stream : ChildWrite(s))
    /\ WF_vars(ChildDies /\ signal = "kill")

-----------------------------------------------------------------------------
(* Properties *)

TypeOK ==
    /\ written \in [Stream -> Seq(Kind)]
    /\ taken \in [Stream -> Nat]
    /\ \A s \in Stream : taken[s] <= Len(written[s])
    /\ held \in Kind \cup {"none", "eof"}
    /\ result \in Seq(Stream \X Nat)
    /\ pc \in {"out", "err", "term", "grace", "kill", "left"}
    /\ outcome \in {"none", "returned", "raised"}
    /\ child \in {"alive", "dead"}
    /\ intent \in Intent
    /\ signal \in {"none", "term", "kill"}
    /\ cancels \in Nat
    /\ interrupted \in BOOLEAN

\* The places that lines of stream s have in sequence r of yielded lines.
Places(r, s) == {r[i][2] : i \in {j \in DOMAIN r : r[j][1] = s}}
Yielded(s) == Places(result, s)

\* The text lines among the first n of stream s.
TextPlaces(s, n) == {i \in 1..n : written[s][i] = "text"}

\* The lines of a stream are yielded in the order they were written, and once.
Ordered(r) == \A i, j \in DOMAIN r : i < j /\ r[i][1] = r[j][1] => r[i][2] < r[j][2]

\* While lines are paired up, none is lost, repeated or moved: at every line boundary
\* each stream's part of the result is the text lines taken from it so far.
NothingLostInPairing ==
    /\ Ordered(result)
    /\ pc = "out" => \A s \in Stream : Yielded(s) = TextPlaces(s, taken[s])

\* readtext stops short of what the child had written only at a blank line.
StopsShortAtBlank ==
    outcome = "returned" =>
        \A s \in Stream : taken[s] < Len(written[s]) =>
            \E t \in Stream : taken[t] > 0 /\ written[t][taken[t]] = "blank"

\* The context is not left with the child running, unless terminate itself was cancelled.
NoOrphan == pc = "left" => child = "dead" \/ interrupted

\* The reader waits for a line of one stream while the child waits for room in the other
\* or for input.
Stuck ==
    /\ child = "alive"
    /\ \E s, t \in Stream :
          /\ pc = s /\ taken[s] = Len(written[s])
          /\ intent = "read" \/ (intent = t /\ t # s /\ Full(t))

\* The only way for a call not to end is such a standstill.
EndsOrStuck == <>(pc = "left" \/ []Stuck)

\* asyncspawn.py:99 says of readtext that it reads "the entire output from the process".
WholeOutput ==
    pc = "left" /\ outcome = "returned" =>
        \A s \in Stream : Yielded(s) = TextPlaces(s, Len(written[s]))

=============================================================================
