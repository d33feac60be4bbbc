-------------------------- MODULE DepInstallProofs --------------------------
(***************************************************************************)
(* Theorems about DepInstall, for every set of packages and every bound.    *)
(***************************************************************************)
EXTENDS DepInstall, TLAPS

(* Installing keeps every line of another package and adds the package's own, and     *)
(* cloning the urls of a list renames nothing (mpip.py, modify_dependency_list;       *)
(* dependency.py, requirements_name).                                                *)
LEMMA ListNames ==
    ASSUME NEW lines \in SUBSET Line, NEW p \in Pkgs
    PROVE  /\ WithLine(lines, p) \in SUBSET Line
           /\ Names(WithLine(lines, p)) = Names(lines) \cup {p}
           /\ WithoutLetters(lines, p) \in SUBSET Line
           /\ Letters[p] = {} => WithoutLetters(lines, p) = lines
           /\ Written(lines) \in SUBSET Line
           /\ Names(Written(lines)) = Names(lines)
  <1>1. FormOf(p) \in {"spec", "path"}
    BY DEF FormOf
  <1>2. WithLine(lines, p) \in SUBSET Line
    BY <1>1 DEF WithLine, Line
  <1>3. Names(WithLine(lines, p)) = Names(lines) \cup {p}
    <2> DEFINE new == [name |-> p, form |-> FormOf(p)]
               kept == {l \in lines : l.name # p}
    <2>1. WithLine(lines, p) = {new} \cup kept
      BY DEF WithLine
    <2>2. new.name = p
      OBVIOUS
    <2>3. \A n : n \in Names({new} \cup kept) <=> n = p \/ n \in Names(lines)
      <3> HIDE DEF new
      <3> QED
        BY <2>2 DEF Names
    <2> QED
      BY <2>1, <2>3
  <1>4. /\ WithoutLetters(lines, p) \in SUBSET Line
        /\ Letters[p] = {} => WithoutLetters(lines, p) = lines
    BY DEF WithoutLetters
  <1>5. Written(lines) \in SUBSET Line
    BY DEF Written, Line
  <1>6. \A l \in lines :
           (IF l.form = "url" THEN [l EXCEPT !.form = "path"] ELSE l).name = l.name
    BY DEF Line
  <1>7. Names(Written(lines)) = Names(lines)
    BY <1>6 DEF Written, Names
  <1> QED
    BY <1>2, <1>3, <1>4, <1>5, <1>7

-----------------------------------------------------------------------------
(* Type correctness *)

LEMMA TypeInit == Init => TypeOK
  <1> SUFFICES ASSUME Init PROVE TypeOK
    OBVIOUS
  <1> USE PkgsAssumption DEF PkgsAssumption
  <1>1. project \in [deps : SUBSET Pkgs, all : SUBSET Pkgs, intact : BOOLEAN]
    BY DEF Init
  <1>2. pc \in [Pkgs -> Stage] /\ modified \in [Pkgs -> SUBSET Line]
    BY DEF Init, Stage
  <1>3. Names(InitReqs) \in SUBSET Pkgs
    BY DEF Names, Line
  <1>4. running \in BOOLEAN /\ reqs \in SUBSET Line /\ env \in SUBSET Pkgs
    BY DEF Init
  <1> QED
    BY <1>1, <1>2, <1>3, <1>4 DEF Init, TypeOK

LEMMA TypeStep == TypeOK /\ [Next]_vars => TypeOK'
  <1> SUFFICES ASSUME TypeOK, [Next]_vars PROVE TypeOK'
    OBVIOUS
  <1> USE DEF TypeOK
  <1>1. ASSUME NEW ps, NEW what \in {"install", "uninstall"},
               NEW stage \in {"pip", "find"}, Launch(ps, what, stage)
        PROVE  TypeOK'
    BY <1>1 DEF Launch, Stage
  <1>2. CASE StartInstall
    BY <1>1, <1>2 DEF StartInstall
  <1>3. CASE StartUninstall
    BY <1>1, <1>3 DEF StartUninstall
  <1>4. ASSUME NEW p \in Pkgs, Step(p) PROVE TypeOK'
    <2>1. CASE PipClean(p)
      <3>1. env' \in SUBSET Pkgs /\ misread' \in SUBSET Pkgs
        BY <2>1 DEF PipClean, PipInstall
      <3> QED
        BY <2>1, <3>1 DEF PipClean, Goto, Stage, files
    <2>2. CASE PipError(p)
      BY <2>2 DEF PipError, PipInstall, Goto, Stage, files
    <2>3. CASE CloneSelfFails(p)
      BY <2>3 DEF CloneSelfFails, Goto, Stage, files
    <2>4. CASE ReadReqs(p)
      <3>1. ParsedReqs \in SUBSET Line
        BY DEF ParsedReqs
      <3>2. ModifiedLines(ParsedReqs, p) \in SUBSET Line
        BY <3>1, ListNames DEF ModifiedLines
      <3>3. causes' \in SUBSET Cause
        BY <2>4 DEF ReadReqs, Cause
      <3> QED
        BY <2>4, <3>2, <3>3 DEF ReadReqs, Goto, Stage
    <2>5. CASE OpenReqs(p)
      BY <2>5 DEF OpenReqs, Goto, Stage
    <2>6. CASE WriteReqs(p)
      <3>1. Written(modified[p]) \in SUBSET Line
        BY ListNames
      <3>2. reqs' \in SUBSET Line
        BY <2>6, <3>1 DEF WriteReqs, Residues
      <3> QED
        BY <2>6, <3>2 DEF WriteReqs, Goto, Stage
    <2>7. CASE CloneListedFails(p)
      BY <2>7 DEF CloneListedFails, Goto, Stage, Cause
    <2>8. CASE ModifyProject(p)
      <3>1. project' \in [deps : SUBSET Pkgs, all : SUBSET Pkgs, intact : BOOLEAN]
        BY <2>8 DEF ModifyProject, ModifiedProject
      <3> QED
        BY <2>8, <3>1 DEF ModifyProject, Goto, Stage, files
    <2>9. CASE PipUninstall(p)
      BY <2>9 DEF PipUninstall, Goto, Stage, files
    <2> QED
      BY <1>4, <2>1, <2>2, <2>3, <2>4, <2>5, <2>6, <2>7, <2>8, <2>9 DEF Step
  <1>5. CASE EndCommand
    BY <1>5 DEF EndCommand, files
  <1>6. CASE Crash
    <2>0. EmptyProject \in [deps : SUBSET Pkgs, all : SUBSET Pkgs, intact : BOOLEAN]
      BY DEF EmptyProject
    <2>1. project' = project \/ project' = EmptyProject
      BY <1>6 DEF Crash
    <2>1a. project' \in [deps : SUBSET Pkgs, all : SUBSET Pkgs, intact : BOOLEAN]
      BY <2>0, <2>1
    <2>1b. pc' \in [Pkgs -> Stage]
      BY <1>6 DEF Crash, Stage
    <2>2. causes' \in SUBSET Cause
      BY <1>6 DEF Crash, Cause
    <2>3. env' \in SUBSET Pkgs
      BY <1>6 DEF Crash
    <2>4. modified' \in [Pkgs -> SUBSET Line]
      BY <1>6 DEF Crash
    <2>5. running' \in BOOLEAN
      BY <1>6 DEF Crash
    <2>7. crashes' \in Nat
      BY <1>6 DEF Crash
    <2>6. UNCHANGED <<reqs, misread, op, cmds, due>>
      BY <1>6 DEF Crash
    <2> QED
      BY <2>1a, <2>1b, <2>2, <2>3, <2>4, <2>5, <2>6, <2>7
  <1>7. CASE UNCHANGED vars
    BY <1>7 DEF vars
  <1> QED
    BY <1>2, <1>3, <1>4, <1>5, <1>6, <1>7 DEF Next

(* Every variable keeps its type. *)
THEOREM Typing == Spec => []TypeOK
  BY TypeInit, TypeStep, PTL DEF Spec

-----------------------------------------------------------------------------
(* Between commands no coroutine is under way. *)

Quiet == ~running => \A p \in Pkgs : pc[p] \in Ended

LEMMA QuietInit == Init => Quiet
  BY DEF Init, Quiet, Ended

LEMMA QuietStep == TypeOK /\ Quiet /\ [Next]_vars => Quiet'
  <1> SUFFICES ASSUME TypeOK, Quiet, [Next]_vars PROVE Quiet'
    OBVIOUS
  <1> USE DEF Quiet
  <1>1. CASE StartInstall \/ StartUninstall
    BY <1>1 DEF StartInstall, StartUninstall, Launch
  <1>2. ASSUME NEW p \in Pkgs, Step(p) PROVE Quiet'
    <2>1. pc[p] \notin Ended /\ running' = running
      BY <1>2 DEF Step, PipClean, PipError, CloneSelfFails, ReadReqs, OpenReqs, WriteReqs,
                  CloneListedFails, ModifyProject, PipUninstall, Ended
    <2> QED
      BY <2>1
  <1>3. CASE EndCommand
    BY <1>3 DEF EndCommand
  <1>4. CASE Crash
    BY <1>4 DEF Crash, Ended
  <1>5. CASE UNCHANGED vars
    BY <1>5 DEF vars
  <1> QED
    BY <1>1, <1>2, <1>3, <1>4, <1>5 DEF Next

-----------------------------------------------------------------------------
(* pyproject.toml and the environment *)

(* A package that is about to be recorded is installed or its pip was misread; one whose *)
(* pip uninstall is about to run is recorded no more, unless it is a git source, of which *)
(* pip has installed none.                                                            *)
Records ==
    /\ FalseListingHasCause
    /\ \A p \in Pkgs : op = "install" /\ pc[p] \in {"find", "open", "write", "toml"}
          => p \in env \cup misread
    /\ \A p \in Pkgs \ Git : pc[p] = "purge" => p \notin project.deps \cup project.all
    /\ \A p \in Pkgs : pc[p] = "purge" => op = "uninstall"
    /\ env \cap Git = {}

LEMMA RecordsInit == Init => Records
  BY PkgsAssumption DEF PkgsAssumption, Init, Records, FalseListingHasCause

LEMMA RecordsStep == TypeOK /\ Quiet /\ Records /\ [Next]_vars => Records'
  <1> SUFFICES ASSUME TypeOK, Quiet, Records, [Next]_vars PROVE Records'
    OBVIOUS
  <1> USE DEF TypeOK, Records, FalseListingHasCause
  <1>1. CASE StartInstall
    BY <1>1 DEF StartInstall, Launch
  <1>2. CASE StartUninstall
    BY <1>2 DEF StartUninstall, Launch
  <1>3. ASSUME NEW p \in Pkgs, Step(p) PROVE Records'
    <2>1. CASE PipClean(p)
      <3>1. /\ p \in env' \cup misread'
            /\ env \subseteq env' /\ misread \ {p} \subseteq misread'
            /\ env' \cap Git = {}
        BY <2>1 DEF PipClean, PipInstall
      <3>2. /\ pc' = [pc EXCEPT ![p] = "find"] /\ pc[p] = "pip"
            /\ UNCHANGED <<project, op>>
        BY <2>1 DEF PipClean, Goto
      <3> QED
        BY <3>1, <3>2
    <2>2. CASE PipError(p)
      BY <2>2 DEF PipError, PipInstall, Goto
    <2>3. CASE CloneSelfFails(p)
      BY <2>3 DEF CloneSelfFails, Goto
    <2>4. CASE ReadReqs(p)
      BY <2>4 DEF ReadReqs, Goto
    <2>5. CASE OpenReqs(p)
      BY <2>5 DEF OpenReqs, Goto
    <2>6. CASE WriteReqs(p)
      BY <2>6 DEF WriteReqs, Goto
    <2>7. CASE CloneListedFails(p)
      BY <2>7 DEF CloneListedFails, Goto
    <2>8. CASE ModifyProject(p)
      <3>1. CASE op = "install"
        <4>1. /\ project'.deps = project.deps \cup {p}
              /\ project'.all \in {project.all, project.all \cup {p}}
          BY <2>8, <3>1 DEF ModifyProject, ModifiedProject
        <4>2. p \in env \cup misread
          BY <2>8, <3>1 DEF ModifyProject
        <4> QED
          BY <2>8, <3>1, <4>1, <4>2 DEF ModifyProject, Goto
      <3>2. CASE op # "install"
        <4>1. /\ project'.deps = project.deps \ Unlisted(p)
              /\ project'.all = project.all \ Unlisted(p)
          BY <2>8, <3>2 DEF ModifyProject, ModifiedProject
        <4>2. op = "uninstall"
          BY <3>2
        <4> QED
          BY <2>8, <3>2, <4>1, <4>2 DEF ModifyProject, Goto, Unlisted
      <3> QED
        BY <3>1, <3>2
    <2>9. CASE PipUninstall(p)
      BY <2>9 DEF PipUninstall, Goto
    <2> QED
      BY <1>3, <2>1, <2>2, <2>3, <2>4, <2>5, <2>6, <2>7, <2>8, <2>9 DEF Step
  <1>4. CASE EndCommand
    BY <1>4 DEF EndCommand
  <1>5. CASE Crash
    <2>1. project'.deps \cup project'.all \subseteq project.deps \cup project.all
      BY <1>5 DEF Crash, EmptyProject
    <2>2. PICK late \in SUBSET {p \in Pkgs \ Git : pc[p] = "pip"},
               gone \in SUBSET {p \in Pkgs : pc[p] = "purge"} :
                  env' = (env \cup late) \ gone
      BY <1>5 DEF Crash
    <2>3. misread' = misread /\ \A p \in Pkgs : pc'[p] = "idle"
      BY <1>5 DEF Crash
    <2> QED
      BY <2>1, <2>2, <2>3
  <1>6. CASE UNCHANGED vars
    BY <1>6 DEF vars
  <1> QED
    BY <1>1, <1>2, <1>3, <1>4, <1>5, <1>6 DEF Next

(* Whatever fails, is killed or runs at the same time, pyproject.toml lists a package that *)
(* is not installed only if its pip ended without installing it and without the word     *)
(* "error", the one thing install() looks at: install() records after pip, and            *)
(* _uninstall_command unrecords before pip.                                            *)
THEOREM FalseListing == Spec => []FalseListingHasCause
  <1>1. Init => TypeOK /\ Quiet /\ Records
    BY TypeInit, QuietInit, RecordsInit
  <1>2. TypeOK /\ Quiet /\ Records /\ [Next]_vars => (TypeOK /\ Quiet /\ Records)'
    BY TypeStep, QuietStep, RecordsStep
  <1>3. Records => FalseListingHasCause
    BY DEF Records
  <1> QED
    BY <1>1, <1>2, <1>3, PTL DEF Spec

-----------------------------------------------------------------------------
(* requirements.txt loses nothing without a cause *)

InSection(p) == pc[p] \in {"open", "write"}

(* As long as nothing has gone wrong, at most one coroutine stands between reading and   *)
(* writing requirements.txt, the list it holds names everything the file has to list,   *)
(* and so does the file itself except while it is empty under that coroutine's hands.   *)
Kept ==
    causes = {} =>
        /\ \A p, q \in Pkgs : InSection(p) /\ InSection(q) => p = q
        /\ \A p \in Pkgs : InSection(p) =>
              /\ due \subseteq Names(modified[p])
              /\ op = "install" => p \in Names(modified[p])
        /\ (\A p \in Pkgs : pc[p] # "write") => due \subseteq Names(reqs)

LEMMA KeptInit == Init => Kept
  BY DEF Init, Kept, InSection

(* A step that leaves the files and the lists alone and moves one coroutine from outside *)
(* the section to outside the section.                                                *)
LEMMA KeptAside ==
    ASSUME TypeOK, Kept, NEW p \in Pkgs, NEW stage,
           ~InSection(p), stage \notin {"open", "write"}, Goto(p, stage),
           UNCHANGED <<op, files>>
    PROVE  Kept'
  BY DEF TypeOK, Kept, Goto, InSection, files

LEMMA KeptStep == TypeOK /\ Quiet /\ Kept /\ [Next]_vars => Kept'
  <1> SUFFICES ASSUME TypeOK, Quiet, Kept, [Next]_vars PROVE Kept'
    OBVIOUS
  <1>1. CASE StartInstall \/ StartUninstall
    <2>1. \A p \in Pkgs : ~InSection(p) /\ pc'[p] \notin {"open", "write"}
      BY <1>1 DEF StartInstall, StartUninstall, Launch, Quiet, InSection, Ended
    <2>2. UNCHANGED files
      BY <1>1 DEF StartInstall, StartUninstall, Launch, files
    <2> QED
      BY <2>1, <2>2 DEF files, Kept, InSection
  <1>2. ASSUME NEW p \in Pkgs, Step(p) PROVE Kept'
    <2>1. CASE PipClean(p)
      BY <2>1, KeptAside DEF PipClean, InSection
    <2>2. CASE PipError(p)
      BY <2>2, KeptAside DEF PipError, InSection
    <2>3. CASE CloneSelfFails(p)
      BY <2>3, KeptAside DEF CloneSelfFails, InSection
    <2>4. CASE ReadReqs(p)
      <3> SUFFICES ASSUME causes' = {} PROVE Kept'
        BY DEF Kept
      <3>1. /\ causes = {}
            /\ \A q \in Pkgs \ {p} : ~InSection(q)
            /\ ~Unparsable
            /\ op = "uninstall" => Letters[p] = {}
        BY <2>4 DEF ReadReqs, InSection
      <3>2. due \subseteq Names(reqs)
        BY <2>4, <3>1 DEF ReadReqs, Kept, InSection
      <3>3. modified'[p] = ModifiedLines(reqs, p)
        BY <2>4, <3>1 DEF ReadReqs, ParsedReqs, TypeOK
      <3>4. reqs \in SUBSET Line
        BY DEF TypeOK
      <3>5. due \subseteq Names(modified'[p]) /\ (op = "install" => p \in Names(modified'[p]))
        <4>1. CASE op = "install"
          <5>1. Names(WithLine(reqs, p)) = Names(reqs) \cup {p}
            BY <3>4, ListNames
          <5>2. modified'[p] = WithLine(reqs, p)
            BY <4>1, <3>3 DEF ModifiedLines
          <5> QED
            BY <3>2, <5>1, <5>2
        <4>2. CASE op = "uninstall"
          <5>1. WithoutLetters(reqs, p) = reqs
            BY <4>2, <3>1, <3>4, ListNames
          <5>2. modified'[p] = reqs
            BY <4>2, <3>3, <5>1 DEF ModifiedLines
          <5> QED
            BY <4>2, <3>2, <5>2
        <4> QED
          BY <4>1, <4>2 DEF TypeOK
      <3> QED
        BY <2>4, <3>1, <3>2, <3>5 DEF ReadReqs, Goto, Kept, InSection, TypeOK
    <2>5. CASE OpenReqs(p)
      BY <2>5 DEF OpenReqs, Goto, Kept, InSection, TypeOK
    <2>6. CASE WriteReqs(p)
      <3> SUFFICES ASSUME causes' = {} PROVE Kept'
        BY DEF Kept
      <3>1. causes = {} /\ InSection(p)
        BY <2>6 DEF WriteReqs, InSection
      <3>2. \A q \in Pkgs \ {p} : ~InSection(q)
        BY <3>1 DEF Kept
      <3>3. \A q \in Pkgs : pc'[q] \notin {"open", "write"}
        BY <2>6, <3>2 DEF WriteReqs, Goto, InSection, TypeOK
      <3>4. Names(modified[p]) \subseteq Names(reqs')
        <4>1. PICK old : reqs' = Written(modified[p]) \cup old
          BY <2>6 DEF WriteReqs
        <4>2. Names(Written(modified[p])) = Names(modified[p])
          BY ListNames DEF TypeOK
        <4> QED
          BY <4>1, <4>2 DEF Names
      <3>5. due' \subseteq Names(reqs')
        BY <2>6, <3>1, <3>4 DEF WriteReqs, Kept
      <3> QED
        BY <3>3, <3>5 DEF Kept, InSection
    <2>7. CASE CloneListedFails(p)
      BY <2>7 DEF CloneListedFails, Kept
    <2>8. CASE ModifyProject(p)
      BY <2>8, KeptAside DEF ModifyProject, InSection
    <2>9. CASE PipUninstall(p)
      BY <2>9, KeptAside DEF PipUninstall, InSection
    <2> QED
      BY <1>2, <2>1, <2>2, <2>3, <2>4, <2>5, <2>6, <2>7, <2>8, <2>9 DEF Step
  <1>3. CASE EndCommand
    BY <1>3 DEF EndCommand, Kept, InSection, files
  <1>4. CASE Crash
    <2> SUFFICES ASSUME causes' = {} PROVE Kept'
      BY DEF Kept
    <2>1. causes = {} /\ \A p \in Pkgs : pc[p] # "write"
      BY <1>4 DEF Crash
    <2>2. due \subseteq Names(reqs)
      BY <2>1 DEF Kept
    <2> QED
      BY <1>4, <2>2 DEF Crash, Kept, InSection
  <1>5. CASE UNCHANGED vars
    BY <1>5 DEF vars, Kept, InSection
  <1> QED
    BY <1>1, <1>2, <1>3, <1>4, <1>5 DEF Next

(* The only ways for requirements.txt to lose a package it has to list are those named  *)
(* in `causes`: without an overlap, a kill, a failed clone, an unparsable line or a      *)
(* letter mix-up the read-modify-write of modify_requirements is safe.                   *)
THEOREM NoLossWithoutCause == Spec => []LossHasCause
  <1>1. Init => TypeOK /\ Quiet /\ Kept
    BY TypeInit, QuietInit, KeptInit
  <1>2. TypeOK /\ Quiet /\ Kept /\ [Next]_vars => (TypeOK /\ Quiet /\ Kept)'
    BY TypeStep, QuietStep, KeptStep
  <1>3. Kept => LossHasCause
    BY DEF Kept, LossHasCause
  <1> QED
    BY <1>1, <1>2, <1>3, PTL DEF Spec

-----------------------------------------------------------------------------
(* Where the commands do what they say *)

(* p is the only package of the command. *)
Solo(p) == \A q \in Pkgs \ {p} : pc[q] = "idle"

(* What a command has recorded of a package: an install that has written is due to be    *)
(* listed, and it is listed when no other package of the command can undo it.  An         *)
(* uninstall is alone, finds the file it emptied empty, and takes out the packages that   *)
(* are named by a letter.                                                             *)
Recorded ==
    /\ \A p \in Pkgs : op = "install" /\ InSection(p) => p \in Names(modified[p])
    /\ \A p \in Pkgs : op = "install" /\ pc[p] \in {"toml", "done"} => p \in due
    /\ \A p \in Pkgs : op = "install" /\ pc[p] \in {"toml", "done"} /\ Solo(p) => p \in Names(reqs)
    /\ op = "uninstall" => \A p \in Pkgs : pc[p] # "idle" => Solo(p)
    /\ op = "uninstall" => \A p \in Pkgs : pc[p] = "write" => reqs = {}
    /\ op = "uninstall" => \A p \in Pkgs : p \in Letters[p] =>
          /\ InSection(p) => p \notin Names(modified[p])
          /\ pc[p] \in {"toml", "purge", "done"} => p \notin Names(reqs)

LEMMA RecordedInit == Init => Recorded
  BY DEF Init, Recorded, InSection

(* A step of one coroutine that leaves the lists alone and records nothing. *)
LEMMA RecordedAside ==
    ASSUME TypeOK, Recorded, NEW p \in Pkgs, NEW stage, pc[p] # "idle", stage # "idle",
           stage \notin {"open", "write"}, Goto(p, stage), UNCHANGED <<op, files>>,
           stage \in {"toml", "purge", "done"} => pc[p] \in {"toml", "purge"},
           op = "install" => pc[p] # "purge"
    PROVE  Recorded'
  <1>1. \A q \in Pkgs : pc'[q] = IF q = p THEN stage ELSE pc[q]
    BY DEF TypeOK, Goto
  <1>2. \A q \in Pkgs : Solo(q)' <=> Solo(q)
    BY <1>1 DEF Solo
  <1>3. UNCHANGED <<op, reqs, modified, due>>
    BY DEF files
  <1> QED
    BY <1>1, <1>2, <1>3 DEF Recorded, InSection

LEMMA RecordedStep == TypeOK /\ Quiet /\ Records /\ Recorded /\ [Next]_vars => Recorded'
  <1> SUFFICES ASSUME TypeOK, Quiet, Records, Recorded, [Next]_vars PROVE Recorded'
    OBVIOUS
  <1>1. CASE StartInstall
    <2>1. op' = "install" /\ \A p \in Pkgs : pc'[p] \in {"idle", "pip"}
      BY <1>1 DEF StartInstall, Launch
    <2> QED
      BY <2>1 DEF Recorded, InSection
  <1>2. CASE StartUninstall
    <2>1. op' = "uninstall" /\ \A p \in Pkgs : pc'[p] \in {"idle", "find"}
      BY <1>2 DEF StartUninstall, Launch
    <2>2. PICK p \in Pkgs : \A q \in Pkgs : q # p => pc'[q] = "idle"
      BY <1>2 DEF StartUninstall, Launch
    <2>3. \A q \in Pkgs : pc'[q] # "idle" => Solo(q)'
      BY <2>2 DEF Solo
    <2> QED
      BY <2>1, <2>3 DEF Recorded, InSection
  <1>3. ASSUME NEW p \in Pkgs, Step(p) PROVE Recorded'
    <2>1. CASE PipClean(p)
      BY <2>1, RecordedAside DEF PipClean
    <2>2. CASE PipError(p)
      BY <2>2, RecordedAside DEF PipError
    <2>3. CASE CloneSelfFails(p)
      BY <2>3, RecordedAside DEF CloneSelfFails
    <2>4. CASE ReadReqs(p)
      <3>1. \A q \in Pkgs : pc'[q] = IF q = p THEN "open" ELSE pc[q]
        BY <2>4 DEF ReadReqs, Goto, TypeOK
      <3>2. /\ UNCHANGED <<op, reqs, due>> /\ pc[p] = "find"
            /\ modified' = [modified EXCEPT ![p] = ModifiedLines(ParsedReqs, p)]
        BY <2>4 DEF ReadReqs
      <3>3. \A q \in Pkgs : Solo(q)' <=> Solo(q)
        BY <3>1, <3>2 DEF Solo
      <3>4. ParsedReqs \in SUBSET Line
        BY DEF ParsedReqs, TypeOK
      <3>5. op = "install" => p \in Names(modified'[p])
        <4>1. modified'[p] = ModifiedLines(ParsedReqs, p)
          BY <3>2 DEF TypeOK
        <4>2. Names(WithLine(ParsedReqs, p)) = Names(ParsedReqs) \cup {p}
          BY <3>4, ListNames
        <4> QED
          BY <4>1, <4>2 DEF ModifiedLines
      <3>6. op = "uninstall" /\ p \in Letters[p] => p \notin Names(modified'[p])
        BY <3>2, <3>4 DEF ModifiedLines, WithoutLetters, Names, TypeOK
      <3>7. \A q \in Pkgs : q # p => modified'[q] = modified[q]
        BY <3>2 DEF TypeOK
      <3> QED
        BY <3>1, <3>2, <3>3, <3>5, <3>6, <3>7 DEF Recorded, InSection
    <2>5. CASE OpenReqs(p)
      <3>1. \A q \in Pkgs : pc'[q] = IF q = p THEN "write" ELSE pc[q]
        BY <2>5 DEF OpenReqs, Goto, TypeOK
      <3>2. UNCHANGED <<op, modified, due>> /\ pc[p] = "open" /\ reqs' = {}
        BY <2>5 DEF OpenReqs
      <3>3. \A q \in Pkgs : Solo(q)' <=> Solo(q)
        BY <3>1, <3>2 DEF Solo
      <3>4. \A q \in Pkgs : q # p => ~Solo(q)
        BY <3>2 DEF Solo
      <3>5. Names(reqs') = {}
        BY <3>2 DEF Names
      <3> QED
        BY <3>1, <3>2, <3>3, <3>4, <3>5 DEF Recorded, InSection
    <2>6. CASE WriteReqs(p)
      <3>1. \A q \in Pkgs : pc'[q] = IF q = p THEN "toml" ELSE pc[q]
        BY <2>6 DEF WriteReqs, Goto, TypeOK
      <3>2. /\ op' = op /\ pc[p] = "write"
            /\ due' = IF op = "install" THEN due \cup {p} ELSE due \ {p}
            /\ modified' = [modified EXCEPT ![p] = {}]
        BY <2>6 DEF WriteReqs
      <3>3. PICK old \in SUBSET reqs : reqs' = Written(modified[p]) \cup old
        BY <2>6 DEF WriteReqs, Residues
      <3>4. Names(Written(modified[p])) = Names(modified[p])
        BY ListNames DEF TypeOK
      <3>5. Names(reqs') = Names(modified[p]) \cup Names(old)
        BY <3>3, <3>4 DEF Names
      <3>6. \A q \in Pkgs : Solo(q)' <=> Solo(q)
        BY <3>1, <3>2 DEF Solo
      <3>7. \A q \in Pkgs : q # p => ~Solo(q) /\ modified'[q] = modified[q]
        BY <3>2 DEF Solo, TypeOK
      <3>8. op = "uninstall" => Names(old) = {}
        BY <3>2, <3>3 DEF Recorded, Names
      <3>9. \A q \in Pkgs : InSection(q)' => InSection(q) /\ q # p
        BY <3>1 DEF InSection
      <3>10. InSection(p)
        BY <3>2 DEF InSection
      <3>11. CASE op = "install"
        BY <3>1, <3>2, <3>5, <3>6, <3>7, <3>9, <3>10, <3>11 DEF Recorded
      <3>12. CASE op = "uninstall"
        <4>1. \A q \in Pkgs : q # p => pc[q] = "idle"
          BY <3>2, <3>12 DEF Recorded, Solo
        <4> QED
          BY <3>1, <3>2, <3>5, <3>6, <3>7, <3>8, <3>9, <3>10, <3>12, <4>1 DEF Recorded
      <3> QED
        BY <3>11, <3>12 DEF TypeOK
    <2>7. CASE CloneListedFails(p)
      <3>1. \A q \in Pkgs : pc'[q] = IF q = p THEN "failed" ELSE pc[q]
        BY <2>7 DEF CloneListedFails, Goto, TypeOK
      <3>2. UNCHANGED <<op, reqs, due>> /\ pc[p] = "write" /\ modified' = [modified EXCEPT ![p] = {}]
        BY <2>7 DEF CloneListedFails
      <3>3. \A q \in Pkgs : Solo(q)' <=> Solo(q)
        BY <3>1, <3>2 DEF Solo
      <3>4. \A q \in Pkgs : q # p => modified'[q] = modified[q]
        BY <3>2 DEF TypeOK
      <3> QED
        BY <3>1, <3>2, <3>3, <3>4 DEF Recorded, InSection
    <2>8. CASE ModifyProject(p)
      <3>1. PICK stage \in {"done", "purge"} : Goto(p, stage)
        BY <2>8 DEF ModifyProject
      <3> QED
        BY <2>8, <3>1, RecordedAside DEF ModifyProject
    <2>9. CASE PipUninstall(p)
      <3>1. op = "uninstall"
        BY <2>9 DEF PipUninstall, Records
      <3> QED
        BY <2>9, <3>1, RecordedAside DEF PipUninstall
    <2> QED
      BY <1>3, <2>1, <2>2, <2>3, <2>4, <2>5, <2>6, <2>7, <2>8, <2>9 DEF Step
  <1>4. CASE EndCommand
    BY <1>4 DEF EndCommand, files, Recorded, InSection, Solo
  <1>5. CASE Crash
    <2>1. UNCHANGED <<op, reqs, due>> /\ \A p \in Pkgs : pc'[p] = "idle"
      BY <1>5 DEF Crash
    <2> QED
      BY <2>1 DEF Recorded, InSection
  <1>6. CASE UNCHANGED vars
    BY <1>6 DEF vars, Recorded, InSection, Solo
  <1> QED
    BY <1>1, <1>2, <1>3, <1>4, <1>5, <1>6 DEF Next

LEMMA RecordedHolds == Spec => [](Quiet /\ Kept /\ Recorded)
  <1> DEFINE I == TypeOK /\ Quiet /\ Records /\ Kept /\ Recorded
  <1>1. Init => I
    BY TypeInit, QuietInit, RecordsInit, KeptInit, RecordedInit
  <1>2. I /\ [Next]_vars => I'
    BY TypeStep, QuietStep, RecordsStep, KeptStep, RecordedStep
  <1>3. I => Quiet /\ Kept /\ Recorded
    OBVIOUS
  <1> HIDE DEF I
  <1> QED
    BY <1>1, <1>2, <1>3, PTL DEF Spec

(* What main.py:61 promises of an install holds as long as nothing of `causes` has        *)
(* happened: the lost update that refutes it needs an overlap of coroutines, a kill, a    *)
(* failed clone or an unparsable line.                                                *)
THEOREM InstallUpdatesUnlessLost ==
    Spec => [](causes = {} => InstallUpdatesRequirements)
  <1>1. Quiet /\ Kept /\ Recorded => (causes = {} => InstallUpdatesRequirements)
    <2> SUFFICES ASSUME Quiet, Kept, Recorded, causes = {}, ~running, op = "install",
                        NEW p \in Pkgs, pc[p] = "done"
                 PROVE  p \in Names(reqs)
      BY DEF InstallUpdatesRequirements
    <2>1. \A q \in Pkgs : pc[q] # "write"
      BY DEF Quiet, Ended
    <2>2. due \subseteq Names(reqs)
      BY <2>1 DEF Kept
    <2> QED
      BY <2>2 DEF Recorded
  <1> QED
    BY <1>1, RecordedHolds, PTL

(* It holds of every command that installs one package, whatever went wrong before: the   *)
(* package of such a command is listed when its coroutine is done.                       *)
THEOREM InstallAloneUpdates ==
    Spec => [](op = "install" => \A p \in Pkgs : pc[p] = "done" /\ Solo(p) => p \in Names(reqs))
  <1>1. Recorded => (op = "install" => \A p \in Pkgs : pc[p] = "done" /\ Solo(p) => p \in Names(reqs))
    BY DEF Recorded
  <1> QED
    BY <1>1, RecordedHolds, PTL

(* What main.py:261 promises of an uninstall holds of the packages whose name is one of   *)
(* its own letters, which are those of one letter.                                     *)
THEOREM UninstallTakesLetters ==
    Spec => [](op = "uninstall" =>
                  \A p \in Pkgs : pc[p] = "done" /\ p \in Letters[p] => p \notin Names(reqs))
  <1>1. Recorded => (op = "uninstall" =>
                        \A p \in Pkgs : pc[p] = "done" /\ p \in Letters[p] => p \notin Names(reqs))
    BY DEF Recorded
  <1> QED
    BY <1>1, RecordedHolds, PTL

-----------------------------------------------------------------------------
(* The project table as a ledger of one-step requests *)

LEMMA LedgerStart == Init => Ledger!LedgerInit
  <1> SUFFICES ASSUME Init PROVE Ledger!LedgerInit
    OBVIOUS
  <1>1. [p \in Pkgs \ Git |-> RequestOf(pc[p])] = [p \in Pkgs \ Git |-> "none"]
    BY DEF Init, RequestOf
  <1>2. project.deps \ Git \in SUBSET (Pkgs \ Git)
    BY PkgsAssumption DEF PkgsAssumption, Init
  <1> QED
    BY <1>1, <1>2 DEF Init, Ledger!LedgerInit

(* Moving one coroutine changes the request of that package alone; the ledger has no      *)
(* request of a git source.                                                            *)
LEMMA RequestMoves ==
    ASSUME TypeOK, NEW p \in Pkgs, NEW stage, Goto(p, stage)
    PROVE  /\ p \notin Git =>
                [q \in Pkgs \ Git |-> RequestOf(pc[q])]'
                  = [[q \in Pkgs \ Git |-> RequestOf(pc[q])] EXCEPT ![p] = RequestOf(stage)]
           /\ p \in Git =>
                [q \in Pkgs \ Git |-> RequestOf(pc[q])]' = [q \in Pkgs \ Git |-> RequestOf(pc[q])]
  BY DEF TypeOK, Goto

LEMMA RequestValues ==
    ASSUME NEW stage \in Stage
    PROVE  /\ RequestOf(stage) = "pending" <=> stage \in {"pip", "find", "open", "write", "toml"}
           /\ stage \in {"done", "purge"} => RequestOf(stage) = "served"
           /\ stage \in {"skipped", "failed"} => RequestOf(stage) = "refused"
           /\ stage = "idle" => RequestOf(stage) = "none"
  BY DEF Stage, RequestOf

LEMMA LedgerStep ==
    TypeOK /\ Quiet /\ [Next]_vars => [Ledger!LedgerNext]_Ledger!ledgerVars
  <1> SUFFICES ASSUME TypeOK, Quiet, [Next]_vars
               PROVE  [Ledger!LedgerNext]_Ledger!ledgerVars
    OBVIOUS
  <1> DEFINE req == [p \in Pkgs \ Git |-> RequestOf(pc[p])]
             listed == project.deps \ Git
  <1>1. ASSUME NEW ps \in SUBSET Pkgs, NEW what \in {"install", "uninstall"},
               NEW stage \in {"pip", "find"}, Launch(ps, what, stage)
        PROVE  Ledger!Begin
    <2>1. \A p \in Pkgs : pc[p] \in Stage /\ pc[p] \notin {"pip", "find", "open", "write", "toml"}
      BY <1>1 DEF Launch, Quiet, Ended, TypeOK
    <2>2. Ledger!Idle
      BY <2>1, RequestValues DEF Ledger!Idle
    <2>3. req' = [p \in Pkgs \ Git |-> IF p \in ps \ Git THEN "pending" ELSE "none"]
      <3>1. \A p \in Pkgs : pc'[p] = IF p \in ps THEN stage ELSE "idle"
        BY <1>1 DEF Launch
      <3>2. stage \in Stage /\ "idle" \in Stage
        BY DEF Stage
      <3> QED
        BY <3>1, <3>2, RequestValues
    <2>4. ps \ Git \in SUBSET (Pkgs \ Git) /\ listed' = listed
      BY <1>1 DEF Launch
    <2> QED
      BY <1>1, <2>2, <2>3, <2>4 DEF Launch, Ledger!Begin
  <1>2. CASE StartInstall
    BY <1>1, <1>2 DEF StartInstall, Ledger!LedgerNext
  <1>3. CASE StartUninstall
    BY <1>1, <1>3 DEF StartUninstall, Ledger!LedgerNext
  <1>4g. ASSUME NEW p \in Git, Step(p) PROVE UNCHANGED Ledger!ledgerVars
    <2>0. p \in Pkgs
      BY PkgsAssumption DEF PkgsAssumption
    <2>1. \E stage : Goto(p, stage)
      BY <1>4g DEF Step, PipClean, PipError, CloneSelfFails, ReadReqs, OpenReqs, WriteReqs,
                   CloneListedFails, ModifyProject, PipUninstall
    <2>2. req' = req
      BY <2>0, <2>1, RequestMoves
    <2>3. op' = op /\ (project' = project \/ project' = ModifiedProject(p))
      BY <1>4g DEF Step, PipClean, PipError, CloneSelfFails, ReadReqs, OpenReqs, WriteReqs,
                   CloneListedFails, ModifyProject, PipUninstall
    <2>4. listed' = listed
      <3>1. CASE project' = project
        BY <3>1
      <3>2. CASE project' = ModifiedProject(p)
        <4>1. \/ project'.deps = project.deps \cup {p}
              \/ project'.deps = project.deps \ Unlisted(p)
          BY <3>2 DEF ModifiedProject, TypeOK
        <4> QED
          BY <1>4g, <4>1 DEF Unlisted
      <3> QED
        BY <2>3, <3>1, <3>2
    <2> QED
      BY <2>2, <2>3, <2>4 DEF Ledger!ledgerVars
  <1>4. ASSUME NEW p \in Pkgs \ Git, Step(p) PROVE [Ledger!LedgerNext]_Ledger!ledgerVars
    <2> USE DEF Ledger!ledgerVars
    <2>1. ASSUME NEW stage \in {"find", "open", "write", "toml"}, Goto(p, stage),
                 pc[p] \in {"pip", "find", "open", "write"}, UNCHANGED <<project, op>>
          PROVE  UNCHANGED Ledger!ledgerVars
      <3>0. stage \in Stage /\ Goto(p, stage)
        BY <2>1 DEF Stage
      <3>1. req' = [req EXCEPT ![p] = RequestOf(stage)]
        BY <3>0, RequestMoves
      <3>2. RequestOf(stage) = "pending" /\ req[p] = "pending"
        BY <2>1, RequestValues DEF Stage
      <3>3. req' = req
        BY <3>1, <3>2
      <3> QED
        BY <2>1, <3>3
    <2>2. ASSUME NEW stage \in {"skipped", "failed"}, Goto(p, stage),
                 pc[p] \in {"pip", "write"}, UNCHANGED <<project, op>>
          PROVE  Ledger!Refuse(p)
      <3>0. stage \in Stage /\ Goto(p, stage)
        BY <2>2 DEF Stage
      <3>1. req' = [req EXCEPT ![p] = RequestOf(stage)]
        BY <3>0, RequestMoves
      <3>2. RequestOf(stage) = "refused" /\ req[p] = "pending"
        BY <2>2, RequestValues DEF Stage
      <3> QED
        BY <2>2, <3>1, <3>2 DEF Ledger!Refuse
    <2>3. CASE PipClean(p) \/ ReadReqs(p) \/ OpenReqs(p) \/ WriteReqs(p)
      BY <2>1, <2>3 DEF PipClean, ReadReqs, OpenReqs, WriteReqs
    <2>4. CASE PipError(p) \/ CloneSelfFails(p) \/ CloneListedFails(p)
      BY <2>2, <2>4 DEF PipError, CloneSelfFails, CloneListedFails, Ledger!LedgerNext
    <2>5. CASE ModifyProject(p)
      <3>1. PICK stage \in {"done", "purge"} : Goto(p, stage)
        BY <2>5 DEF ModifyProject
      <3>2. req' = [req EXCEPT ![p] = "served"]
        <4>1. stage \in Stage /\ RequestOf(stage) = "served"
          BY RequestValues DEF Stage
        <4> QED
          BY <3>1, <4>1, RequestMoves
      <3>3. req[p] = "pending"
        BY <2>5, RequestValues DEF ModifyProject, Stage
      <3>4. listed' = IF op = "install" THEN listed \cup {p} ELSE listed \ {p}
        BY <2>5 DEF ModifyProject, ModifiedProject, Unlisted, TypeOK
      <3> QED
        BY <2>5, <3>2, <3>3, <3>4 DEF ModifyProject, Ledger!Serve, Ledger!LedgerNext
    <2>6. CASE PipUninstall(p)
      <3>1. req' = [req EXCEPT ![p] = "served"]
        <4>1. "done" \in Stage /\ RequestOf("done") = "served"
          BY RequestValues DEF Stage
        <4> QED
          BY <2>6, <4>1, RequestMoves DEF PipUninstall
      <3>2. req[p] = "served"
        BY <2>6, RequestValues DEF PipUninstall, Stage
      <3>3. req' = req
        BY <3>1, <3>2
      <3> QED
        BY <2>6, <3>3 DEF PipUninstall
    <2> QED
      BY <1>4, <2>3, <2>4, <2>5, <2>6 DEF Step
  <1>5. CASE EndCommand
    BY <1>5 DEF EndCommand, files, Ledger!ledgerVars
  <1>6. CASE Crash
    <2>1. req' = [p \in Pkgs \ Git |-> "none"]
      BY <1>6 DEF Crash, RequestOf
    <2>2. listed' \in {listed, {}}
      BY <1>6 DEF Crash, EmptyProject
    <2> QED
      BY <1>6, <2>1, <2>2 DEF Crash, Ledger!Kill, Ledger!LedgerNext
  <1>7. CASE UNCHANGED vars
    BY <1>7 DEF vars, Ledger!ledgerVars
  <1> QED
    BY <1>2, <1>3, <1>4, <1>4g, <1>5, <1>6, <1>7 DEF Next

(* The dependency table of pyproject.toml implements PkgLedger: concurrent coroutines    *)
(* update it as if each took effect in one step, so no update of it is lost.             *)
THEOREM ProjectImplementsLedger == Spec => ImplementsLedger
  <1>1. Init => TypeOK /\ Quiet /\ Ledger!LedgerInit
    BY TypeInit, QuietInit, LedgerStart
  <1>2. TypeOK /\ Quiet /\ [Next]_vars
           => (TypeOK /\ Quiet)' /\ [Ledger!LedgerNext]_Ledger!ledgerVars
    BY TypeStep, QuietStep, LedgerStep
  <1> QED
    BY <1>1, <1>2, PTL DEF Spec, ImplementsLedger, Ledger!LedgerSpec

=============================================================================
