---------------------------- MODULE MCCloneRepo ----------------------------
(* CloneRepo with one spelling of one repository.                          *)
EXTENDS CloneRepo

CONSTANTS long, r1

OneKey == {long}
OneRepoOf == [k \in OneKey |-> r1]
=============================================================================
