------------------------------- MODULE Update -------------------------------
(***************************************************************************)
(* kddp update (update_cmd.go): one process replaces the kddp binary, then *)
(* starts the new binary, which replaces the libraries, the Duden and the  *)
(* language server.  Every step may fail, and either process may be killed *)
(* between any two steps; the user may then start kddp update again.       *)
(***************************************************************************)
EXTENDS Integers

CONSTANTS LibFiles, DudenFiles,     \* files in the lib and in the Duden directory
          Archive,                  \* those of them that are in the new release
          Runtime, MainO, Stdlib,   \* libddpruntime.a, main.o, libddpstdlib.a
          Versions                  \* version numbers of releases

Files == LibFiles \cup DudenFiles

ASSUME FilesAssumption ==
    /\ Archive \subseteq Files
    /\ {Runtime, MainO, Stdlib} \subseteq Archive \cap LibFiles
    /\ Runtime # MainO /\ MainO # Stdlib /\ Runtime # Stdlib

ASSUME VersionsAssumption ==
    Versions \subseteq [major : Nat, minor : Nat, patch : Nat, additional : {"full", "pre", "alpha", "beta"}]

VARIABLES installed, latest,   \* the version first installed, and the newest release
          gcc,                 \* whether the local gcc is the one the release was built with
          kddp, ddpls, files,  \* what is on disk: old, new, partial, none, or rebuilt
          archive,             \* the downloaded archive
          pc, report,          \* kddp update: its next step, and what it told the user
          sub, todo, err       \* its subprocess: its next step, elements to extract, and errors so far

constants == << installed, latest, gcc >>
disk == << kddp, ddpls, files, archive >>
main == << pc, report >>
process == << sub, todo, err >>
vars == << constants, disk, main, process >>

(* Mutant: the same version counts as newer. *)
IsNewerOrSame(a, b) == a.major >= b.major \/ a.minor >= b.minor \/ a.patch >= b.patch

is_newer_version(a, b) ==
    /\ a.additional = "pre" => b.additional = "pre"
    /\ \/ a.additional = "alpha" /\ b.additional = "pre"
       \/ a.additional = "beta" /\ b.additional \in {"pre", "alpha"}
       \/ a.additional = "full" /\ b.additional # "full"
       \/ a.major > b.major \/ a.minor > b.minor \/ a.patch > b.patch

(* DDPVERSION of the binary that runs. *)
DDPVERSION == IF kddp = "new" THEN latest ELSE installed

Init ==
    /\ installed \in Versions /\ latest \in Versions
    /\ gcc \in {"same", "other"}
    /\ kddp = "old" /\ ddpls = "old" /\ files = [f \in Files |-> "old"]
    /\ archive = "none"
    /\ pc = "idle" /\ report = "none"
    /\ sub = "none" /\ todo = {} /\ err = FALSE

(***************************************************************************)
(* The command.                                                            *)
(***************************************************************************)
Goto(step) == pc' = step /\ UNCHANGED << report, process >>

End(message) == pc' = "idle" /\ report' = message /\ UNCHANGED process

Start ==
    /\ pc = "idle" /\ kddp # "none"
    /\ pc' = "compare" /\ report' = "none"
    /\ UNCHANGED << disk, process >>

(* The flags --vergleiche-version and --jetzt may be given. *)
Compare ==
    /\ pc = "compare"
    /\ \/ End("Fehler")
       \/ ~is_newer_version(latest, DDPVERSION) /\ End("neuster_Stand")
       \/ /\ is_newer_version(latest, DDPVERSION)
          /\ End("verglichen") \/ Goto("ask") \/ Goto("download")
    /\ UNCHANGED disk

Ask ==
    /\ pc = "ask"
    /\ Goto("download") \/ End("nein") \/ End("Fehler")
    /\ UNCHANGED disk

Download ==
    /\ pc = "download"
    /\ \/ archive' = "complete" /\ Goto("open")
       \/ archive' \in {archive, "partial"} /\ End("Fehler")
    /\ UNCHANGED << kddp, ddpls, files >>

(* Opening the archive and finding kddp in it. *)
Open ==
    /\ pc = "open"
    /\ Goto("apply") \/ End("Fehler")
    /\ UNCHANGED disk

(* do_selfupdate: selfupdate.Apply replaces the binary or puts the old one *)
(* back, unless that fails, too; then the new binary is started.           *)
SelfUpdate ==
    /\ pc = "apply"
    /\ \/ /\ kddp' = "new"
          /\ pc' = "wait" /\ UNCHANGED report
          /\ sub' = "empty_lib" /\ todo' = Archive /\ err' = FALSE
       \/ kddp' = "new" /\ End("Fehler")
       \/ kddp' \in {kddp, "none"} /\ End("Fehler")
    /\ UNCHANGED << ddpls, files, archive >>

(* Mutant: the command only goes on after a subprocess that succeeded. *)
WaitForSuccess ==
    /\ pc = "wait" /\ sub = "end" /\ ~err
    /\ sub' = "none" /\ UNCHANGED << todo, err >>
    /\ pc' = "remove" /\ report' = "erfolgreich"
    /\ UNCHANGED disk

(* The subprocess has ended; what it returned decides. *)
Wait ==
    /\ pc = "wait" /\ sub = "end"
    /\ sub' = "none" /\ UNCHANGED << todo, err >>
    /\ \/ err /\ pc' = "idle" /\ report' = "Fehler"
       \/ ~err /\ pc' = "remove" /\ report' = "erfolgreich"
    /\ UNCHANGED disk

(* An archive that cannot be deleted is an error, after the success. *)
Remove ==
    /\ pc = "remove"
    /\ \/ archive' = "none" /\ End("erfolgreich")
       \/ UNCHANGED archive /\ End("Fehler")
    /\ UNCHANGED << kddp, ddpls, files >>

(***************************************************************************)
(* The subprocess: update_lib and update_ddpls.                            *)
(***************************************************************************)
(* The step after one that succeeded, and after one whose error ends or    *)
(* does not end update_lib.                                                *)
Then(step) == sub' = step /\ UNCHANGED << todo, err >>

Fail(step) == sub' = step /\ err' = TRUE /\ UNCHANGED todo

(* empty_dir: removes everything, or fails and leaves some of it. *)
EmptyDir(step, dir, next) ==
    /\ sub = step
    /\ \/ files' = [f \in Files |-> IF f \in dir THEN "none" ELSE files[f]] /\ Then(next)
       \/ /\ \E left \in SUBSET dir : files' = [f \in Files |-> IF f \in dir \ left THEN "none" ELSE files[f]]
          /\ Fail(next)
    /\ UNCHANGED << kddp, ddpls, archive >>

EmptyLib == EmptyDir("empty_lib", LibFiles, "empty_duden")

EmptyDuden == EmptyDir("empty_duden", DudenFiles, "extract")

Write(f, content) == files' = [files EXCEPT ![f] = content] /\ UNCHANGED << kddp, ddpls, archive >>

(* Mutant: extraction goes on with the next element after an error. *)
ExtractFailedAndGoOn(f) == sub' = "extract" /\ todo' = todo \ {f} /\ UNCHANGED err

ExtractFailed(f) == Fail("ddpls")

Extract ==
    /\ sub = "extract"
    /\ \E f \in todo :
        \/ Write(f, "new") /\ sub' = "extract" /\ todo' = todo \ {f} /\ UNCHANGED err
        \/ Write(f, "partial") /\ ExtractFailed(f)

(* The archive is at its end, or cannot be read any further. *)
Extracted ==
    /\ sub = "extract"
    /\ (todo = {} /\ Then("gcc")) \/ Fail("ddpls")
    /\ UNCHANGED disk

(* Without a version of gcc everything is recompiled "to be sure". *)
GccVersion ==
    /\ sub = "gcc"
    /\ \/ gcc = "same" /\ Then("ddpls")
       \/ gcc = "other" /\ Then("make_runtime")
       \/ Fail("make_runtime")
    /\ UNCHANGED disk

Make(step, next) ==
    /\ sub = step
    /\ Then(next) \/ Fail("ddpls")
    /\ UNCHANGED disk

CopyFile(step, f, next) ==
    /\ sub = step
    /\ \/ Write(f, "rebuilt") /\ Then(next)
       \/ Write(f, "partial") /\ Fail("ddpls")

(* update_ddpls: the binary is truncated before the new one is written. *)
UpdateDdpls ==
    /\ sub = "ddpls"
    /\ \/ ddpls' = "new" /\ Then("end")
       \/ ddpls' \in {ddpls, "partial"} /\ Fail("end")
    /\ UNCHANGED << kddp, files, archive >>

SubCommand ==
    /\ \/ EmptyLib \/ EmptyDuden \/ Extract \/ Extracted \/ GccVersion
       \/ Make("make_runtime", "make_stdlib") \/ Make("make_stdlib", "copy_runtime")
       \/ CopyFile("copy_runtime", Runtime, "copy_main") \/ CopyFile("copy_main", MainO, "copy_stdlib")
       \/ CopyFile("copy_stdlib", Stdlib, "ddpls")
       \/ UpdateDdpls
    /\ UNCHANGED main

(***************************************************************************)
(* Interruptions.                                                          *)
(***************************************************************************)
(* The command is killed; its subprocess goes on. *)
Kill ==
    /\ pc # "idle"
    /\ pc' = "idle" /\ report' = "none"
    /\ UNCHANGED << disk, process >>

(* The subprocess is killed, perhaps while it writes: the command sees an  *)
(* error.                                                                  *)
KillSub ==
    /\ sub \notin {"none", "end"}
    /\ Fail("end")
    /\ \/ UNCHANGED disk
       \/ sub = "extract" /\ \E f \in todo : Write(f, "partial")
       \/ sub = "ddpls" /\ ddpls' = "partial" /\ UNCHANGED << kddp, files, archive >>
    /\ UNCHANGED main

(* Nobody waits for the subprocess of a command that was killed. *)
Orphan ==
    /\ sub = "end" /\ pc # "wait"
    /\ Then("none")
    /\ UNCHANGED << disk, main >>

Command == Start \/ Compare \/ Ask \/ Download \/ Open \/ SelfUpdate \/ Wait \/ Remove

Next ==
    /\ Command \/ SubCommand \/ Kill \/ KillSub \/ Orphan
    /\ UNCHANGED constants

Spec == Init /\ [][Next]_vars

(* The processes go on, and are not killed over and over. *)
FairSpec == Spec /\ WF_vars(Command /\ pc # "idle" /\ UNCHANGED constants)
                 /\ WF_vars((SubCommand \/ Orphan) /\ UNCHANGED constants)

(***************************************************************************)
(* Properties.                                                             *)
(***************************************************************************)
States == {"old", "new", "none", "partial", "rebuilt"}

(* Type invariant: the disk holds files in known states, and both          *)
(* processes are at one of their steps.                                    *)
TypeOK ==
    /\ installed \in Versions /\ latest \in Versions /\ gcc \in {"same", "other"}
    /\ kddp \in {"old", "new", "none"} /\ ddpls \in {"old", "new", "partial"}
    /\ files \in [Files -> States]
    /\ archive \in {"none", "partial", "complete"}
    /\ pc \in {"idle", "compare", "ask", "download", "open", "apply", "wait", "remove"}
    /\ report \in {"none", "Fehler", "neuster_Stand", "verglichen", "nein", "erfolgreich"}
    /\ sub \in {"none", "empty_lib", "empty_duden", "extract", "gcc", "make_runtime", "make_stdlib",
                "copy_runtime", "copy_main", "copy_stdlib", "ddpls", "end"}
    /\ todo \subseteq Archive /\ err \in BOOLEAN

(* The files of the release, and nothing else, with the three compiled     *)
(* libraries built by the gcc that will link them.                         *)
LibraryInstalled ==
    \A f \in Files :
        files[f] = IF f \notin Archive THEN "none"
                   ELSE IF f \in {Runtime, MainO, Stdlib} /\ gcc = "other" THEN "rebuilt"
                   ELSE "new"

Installed == kddp = "new" /\ ddpls = "new" /\ LibraryInstalled

(* "Update war erfolgreich" is only printed when binary, libraries, Duden  *)
(* and language server all are those of the new release, whatever failed   *)
(* or was killed in this or in an earlier run.                             *)
SuccessMeansInstalled == report = "erfolgreich" => Installed

(* The libraries are replaced by the new binary: whenever one of them or   *)
(* the language server is no longer the old one, kddp is the new one.      *)
LibraryFollowsBinary ==
    ddpls # "old" \/ (\E f \in Files : files[f] # "old") => kddp = "new"

(* A run of the command ends, whatever its subprocess meets. *)
CommandEnds == pc # "idle" ~> pc = "idle"

(* "DDP ist auf dem neusten Stand" means, when an earlier run has replaced *)
(* the binary, that it has replaced the rest of DDP, too.  Refuted         *)
(* (README, Findings).                                                     *)
UpToDateMeansInstalled == report = "neuster_Stand" /\ kddp = "new" => Installed

(* "returns wether a is a newer version than b": the command never         *)
(* downloads a release that comes before the installed one.  Refuted       *)
(* (README, Findings).                                                     *)
NoDowngrade ==
    pc = "download" =>
        \/ latest.major > installed.major
        \/ latest.major = installed.major /\ latest.minor > installed.minor
        \/ latest.major = installed.major /\ latest.minor = installed.minor /\ latest.patch >= installed.patch
=============================================================================
