----------------------------- MODULE MCLazyInit -----------------------------
(* LazyInit with three git dependencies of one repository: depA and    *)
(* depB spell its URL alike, depC otherwise; depA2 is a copy of depA.      *)
EXTENDS LazyInit

CONSTANTS short, long, r1, depA, depA2, depB, depC

TwoKeys == {short, long}
TwoRepoOf == [k \in TwoKeys |-> r1]

Deps == {depA, depA2, depB, depC}
DepOrigin == [o \in Deps |-> IF o = depA2 THEN depA ELSE o]
DepKey == [o \in Deps |-> IF o = depC THEN long ELSE short]
=============================================================================
