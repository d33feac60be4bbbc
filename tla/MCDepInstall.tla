---------------------------- MODULE MCDepInstall ----------------------------
(* DepInstall on three packages: one from the index whose name is one letter, a      *)
(* local directory with this letter in its name, and a listed git URL.              *)
EXTENDS DepInstall

CONSTANTS x, exe, dir, repo

MCPkgs == {x, exe, repo}
MCLetters == [p \in MCPkgs |-> IF p \in {x, exe} THEN {x} ELSE {}]
MCReqs == {[name |-> x, form |-> "spec"], [name |-> repo, form |-> "url"]}
MCProject == {x}

\* Two packages from the index and a directory, no git URL: the plainest project there is.
PlainPkgs == {x, exe, dir}
PlainReqs == {[name |-> p, form |-> "spec"] : p \in {x, exe}}
PlainLetters == [p \in PlainPkgs |-> IF p = dir THEN {} ELSE {x}]
=============================================================================
