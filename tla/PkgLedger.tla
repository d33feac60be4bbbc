----------------------------- MODULE PkgLedger -----------------------------
(***************************************************************************)
(* What a package command promises about the project's dependency table:   *)
(* every package of the command is an independent request, and serving it  *)
(* changes the table by exactly that package, in one step, whatever the     *)
(* other requests of the command are doing.                                *)
(***************************************************************************)
EXTENDS FiniteSets

CONSTANT Pkgs

VARIABLES
    listed,     \* the packages in the table
    op,         \* "install" or "uninstall": what the command asks for
    request     \* request[p]: "none", "pending", "served" or "refused"

ledgerVars == <<listed, op, request>>

Idle == \A p \in Pkgs : request[p] # "pending"

LedgerInit ==
    /\ listed \in SUBSET Pkgs
    /\ op = "install"
    /\ request = [p \in Pkgs |-> "none"]

\* A command starts with a set of packages.
Begin ==
    /\ Idle
    /\ op' \in {"install", "uninstall"}
    /\ \E ps \in SUBSET Pkgs :
          request' = [p \in Pkgs |-> IF p \in ps THEN "pending" ELSE "none"]
    /\ UNCHANGED listed

\* One request takes effect.
Serve(p) ==
    /\ request[p] = "pending"
    /\ request' = [request EXCEPT ![p] = "served"]
    /\ listed' = IF op = "install" THEN listed \cup {p} ELSE listed \ {p}
    /\ UNCHANGED op

\* One request ends without effect (the installer failed, say).
Refuse(p) ==
    /\ request[p] = "pending"
    /\ request' = [request EXCEPT ![p] = "refused"]
    /\ UNCHANGED <<listed, op>>

\* The process is killed; a kill inside the rewrite of the file empties it.
Kill ==
    /\ request' = [p \in Pkgs |-> "none"]
    /\ listed' \in {listed, {}}
    /\ UNCHANGED op

LedgerNext ==
    \/ Begin
    \/ \E p \in Pkgs : Serve(p) \/ Refuse(p)
    \/ Kill

LedgerSpec == LedgerInit /\ [][LedgerNext]_ledgerVars

=============================================================================
