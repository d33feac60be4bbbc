----------------------------- MODULE MCExpecter -----------------------------
(* Expecter on all short streams over two bytes and on some with a two-byte character. *)
EXTENDS Expecter

CONSTANTS MaxLen        \* bound: length of the streams over "a" and "b"

Words(n) == UNION {[1..k -> {"a", "b"}] : k \in 0..n}

MCStreams == Words(MaxLen) \cup {<<"a", "h", "l", "b">>}

Exact(strings) == [strings |-> strings, exact |-> TRUE]
Regex(strings) == [strings |-> strings, exact |-> FALSE]

MCSearches ==
    {Exact(<<<<"b">>>>), Exact(<<<<"b", "a", "b">>, <<"a", "b">>>>), Regex(<<<<"a", "b">>, <<"a">>>>),
     Exact(<<>>)}

TornStreams == {<<"h", "l">>}
TornSearches == {Exact(<<<<"b">>>>)}
=============================================================================
