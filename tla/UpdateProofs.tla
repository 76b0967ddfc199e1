---------------------------- MODULE UpdateProofs ----------------------------
(***************************************************************************)
(* What kddp update guarantees, for every set of library files and every   *)
(* two versions.                                                           *)
(*                                                                         *)
(* SuccessMeansInstalled is not inductive: that the subprocess ended       *)
(* without an error says something about the disk only because of what the *)
(* disk looked like before each of its steps (Progress), and it stays true *)
(* only because a binary that was replaced is never replaced again, nor    *)
(* its subprocess started again (OneUpdate).                               *)
(***************************************************************************)
EXTENDS Update, TLAPS

(* The archive is unpacked; the files in rebuilt were compiled again. *)
Unpacked(rebuilt) ==
    \A f \in Files :
        files[f] = IF f \notin Archive THEN "none" ELSE IF f \in rebuilt THEN "rebuilt" ELSE "new"

(* The disk at each step of the subprocess, if there was no error before. *)
Progress ==
    /\ sub \in {"empty_lib", "empty_duden"} => todo = Archive
    /\ sub = "empty_duden" => \A f \in LibFiles : files[f] = "none"
    /\ sub = "extract" => \A f \in Files : files[f] = IF f \in Archive \ todo THEN "new" ELSE "none"
    /\ sub = "gcc" => Unpacked({})
    /\ sub \in {"make_runtime", "make_stdlib", "copy_runtime"} => gcc = "other" /\ Unpacked({})
    /\ sub = "copy_main" => gcc = "other" /\ Unpacked({Runtime})
    /\ sub = "copy_stdlib" => gcc = "other" /\ Unpacked({Runtime, MainO})
    /\ sub = "ddpls" => LibraryInstalled
    /\ sub = "end" => LibraryInstalled /\ ddpls = "new"

(* The command gets past the comparison only with the old binary, and the  *)
(* subprocess only runs once that is replaced.                             *)
OneUpdate ==
    /\ pc # "idle" => kddp # "none"
    /\ pc \in {"ask", "download", "open", "apply"} => kddp = "old"
    /\ pc = "wait" => sub # "none"
    /\ sub # "none" => kddp = "new"
    /\ pc = "remove" => report = "erfolgreich"

Reported == report = "erfolgreich" => pc \in {"idle", "remove"} /\ sub = "none" /\ Installed

IInv ==
    /\ TypeOK
    /\ OneUpdate
    /\ LibraryFollowsBinary
    /\ ~err => Progress
    /\ Reported

-----------------------------------------------------------------------------

(* is_newer_version of a version and itself is FALSE: the new binary finds *)
(* nothing to update.                                                      *)
LEMMA NotNewerThanItself ==
    ASSUME NEW v \in Versions
    PROVE  ~is_newer_version(v, v)
BY VersionsAssumption DEF is_newer_version

(* The initial states satisfy the invariant: nothing has been touched. *)
LEMMA InitIInv == Init => IInv
BY FilesAssumption DEF Init, IInv, TypeOK, OneUpdate, LibraryFollowsBinary, Progress, Reported, States, Files

(* The steps of the command preserve the invariant. *)
LEMMA CommandIInv == IInv /\ Command /\ UNCHANGED constants => IInv'
<1> SUFFICES ASSUME IInv, Command, UNCHANGED constants PROVE IInv'
  OBVIOUS
<1> USE DEF constants, IInv
<1>1. CASE Start
  BY <1>1 DEF Start, disk, process, TypeOK, OneUpdate, LibraryFollowsBinary, Progress, Unpacked, LibraryInstalled, Reported, Installed
<1>2. CASE Compare
  <2>1. pc' \in {"ask", "download"} => kddp = "old"
    BY <1>2, NotNewerThanItself DEF Compare, Goto, End, DDPVERSION, TypeOK, OneUpdate
  <2>2. QED
    BY <1>2, <2>1 DEF Compare, Goto, End, disk, process, TypeOK, OneUpdate, LibraryFollowsBinary, Progress, Unpacked, LibraryInstalled, Reported, Installed
<1>3. CASE Ask \/ Open
  BY <1>3 DEF Ask, Open, Goto, End, disk, process, TypeOK, OneUpdate, LibraryFollowsBinary, Progress, Unpacked, LibraryInstalled, Reported, Installed
<1>4. CASE Download
  BY <1>4 DEF Download, Goto, End, process, TypeOK, OneUpdate, LibraryFollowsBinary, Progress, Unpacked, LibraryInstalled, Reported, Installed
<1>5. CASE SelfUpdate
  BY <1>5 DEF SelfUpdate, End, process, TypeOK, OneUpdate, LibraryFollowsBinary, Progress, Unpacked, LibraryInstalled, Reported, Installed
<1>6. CASE Wait
  BY <1>6 DEF Wait, disk, TypeOK, OneUpdate, LibraryFollowsBinary, Progress, Unpacked, LibraryInstalled, Reported, Installed
<1>7. CASE Remove
  BY <1>7 DEF Remove, End, process, TypeOK, OneUpdate, LibraryFollowsBinary, Progress, Unpacked, LibraryInstalled, Reported, Installed
<1>8. QED
  BY <1>1, <1>2, <1>3, <1>4, <1>5, <1>6, <1>7 DEF Command

(* The steps of the subprocess preserve it. *)
LEMMA SubCommandIInv == IInv /\ SubCommand /\ UNCHANGED constants => IInv'
<1> SUFFICES ASSUME IInv, SubCommand, UNCHANGED constants PROVE IInv'
  OBVIOUS
<1> USE FilesAssumption DEF constants, IInv, main, Then, Fail
<1>0. UNCHANGED << pc, report, kddp, archive >> /\ sub # "none" /\ kddp = "new"
  BY DEF SubCommand, EmptyLib, EmptyDuden, EmptyDir, Extract, Extracted, Write, GccVersion, Make, CopyFile, UpdateDdpls, disk, OneUpdate
<1>1. CASE EmptyLib
  <2>0. files' \in [Files -> States]
    BY <1>1 DEF EmptyLib, EmptyDir, TypeOK, States
  <2>1. TypeOK'
    BY <1>0, <1>1, <2>0 DEF EmptyLib, EmptyDir, TypeOK
  <2>2. ~err' => Progress'
    BY <1>0, <1>1 DEF EmptyLib, EmptyDir, Progress, Files
  <2>3. QED
    BY <1>0, <1>1, <2>1, <2>2 DEF EmptyLib, EmptyDir, OneUpdate, LibraryFollowsBinary, Reported
<1>2. CASE EmptyDuden
  <2>0. files' \in [Files -> States]
    BY <1>2 DEF EmptyDuden, EmptyDir, TypeOK, States
  <2>1. TypeOK'
    BY ZenonT(60), <1>0, <1>2, <2>0 DEF EmptyDuden, EmptyDir, TypeOK
  <2>2. ~err' => Progress'
    BY <1>0, <1>2 DEF EmptyDuden, EmptyDir, Progress, Files
  <2>3. QED
    BY <1>0, <1>2, <2>1, <2>2 DEF EmptyDuden, EmptyDir, OneUpdate, LibraryFollowsBinary, Reported
<1>3. CASE Extract
  <2>0. files' \in [Files -> States]
    BY <1>3 DEF Extract, Write, TypeOK, States
  <2>1. TypeOK'
    BY ZenonT(60), <1>0, <1>3, <2>0 DEF Extract, ExtractFailed, Write, TypeOK
  <2>2. ~err' => Progress'
    BY <1>0, <1>3 DEF Extract, ExtractFailed, Write, Progress, TypeOK
  <2>3. QED
    BY <1>0, <1>3, <2>1, <2>2 DEF Extract, ExtractFailed, Write, OneUpdate, LibraryFollowsBinary, Reported
<1>4. CASE Extracted
  <2>1. TypeOK'
    BY <1>0, <1>4 DEF Extracted, disk, TypeOK
  <2>2. ~err' => Progress'
    BY <1>0, <1>4 DEF Extracted, disk, Progress, Unpacked
  <2>3. QED
    BY <1>0, <1>4, <2>1, <2>2 DEF Extracted, disk, OneUpdate, LibraryFollowsBinary, Reported
<1>5. CASE GccVersion
  <2>1. TypeOK'
    BY <1>0, <1>5 DEF GccVersion, disk, TypeOK
  <2>2. ~err' => Progress'
    BY <1>0, <1>5 DEF GccVersion, disk, Progress, Unpacked, LibraryInstalled, TypeOK
  <2>3. QED
    BY <1>0, <1>5, <2>1, <2>2 DEF GccVersion, disk, OneUpdate, LibraryFollowsBinary, Reported
<1>6. CASE Make("make_runtime", "make_stdlib") \/ Make("make_stdlib", "copy_runtime")
  <2>1. TypeOK'
    BY ZenonT(60), <1>0, <1>6 DEF Make, disk, TypeOK
  <2>2. ~err' => Progress'
    BY <1>0, <1>6 DEF Make, disk, Progress, Unpacked
  <2>3. QED
    BY <1>0, <1>6, <2>1, <2>2 DEF Make, disk, OneUpdate, LibraryFollowsBinary, Reported
<1>7. CASE CopyFile("copy_runtime", Runtime, "copy_main")
  <2>0. files' \in [Files -> States]
    BY <1>7 DEF CopyFile, Write, TypeOK, States
  <2>1. TypeOK'
    BY ZenonT(60), <1>0, <1>7, <2>0 DEF CopyFile, Write, TypeOK
  <2>2. ~err' => Progress'
    BY <1>0, <1>7 DEF CopyFile, Write, Progress, Unpacked, LibraryInstalled, TypeOK, Files
  <2>3. QED
    BY <1>0, <1>7, <2>1, <2>2 DEF CopyFile, Write, OneUpdate, LibraryFollowsBinary, Reported
<1>8. CASE CopyFile("copy_main", MainO, "copy_stdlib")
  <2>0. files' \in [Files -> States]
    BY <1>8 DEF CopyFile, Write, TypeOK, States
  <2>1. TypeOK'
    BY ZenonT(60), <1>0, <1>8, <2>0 DEF CopyFile, Write, TypeOK
  <2>2. ~err' => Progress'
    BY <1>0, <1>8 DEF CopyFile, Write, Progress, Unpacked, LibraryInstalled, TypeOK, Files
  <2>3. QED
    BY <1>0, <1>8, <2>1, <2>2 DEF CopyFile, Write, OneUpdate, LibraryFollowsBinary, Reported
<1>9. CASE CopyFile("copy_stdlib", Stdlib, "ddpls")
  <2>0. files' \in [Files -> States]
    BY <1>9 DEF CopyFile, Write, TypeOK, States
  <2>1. TypeOK'
    BY ZenonT(60), <1>0, <1>9, <2>0 DEF CopyFile, Write, TypeOK
  <2>2. ~err' => Progress'
    BY <1>0, <1>9 DEF CopyFile, Write, Progress, Unpacked, LibraryInstalled, TypeOK, Files
  <2>3. QED
    BY <1>0, <1>9, <2>1, <2>2 DEF CopyFile, Write, OneUpdate, LibraryFollowsBinary, Reported
<1>10. CASE UpdateDdpls
  <2>1. TypeOK'
    BY <1>0, <1>10 DEF UpdateDdpls, TypeOK
  <2>2. ~err' => Progress'
    BY <1>0, <1>10 DEF UpdateDdpls, Progress, LibraryInstalled
  <2>3. QED
    BY <1>0, <1>10, <2>1, <2>2 DEF UpdateDdpls, OneUpdate, LibraryFollowsBinary, Reported
<1>11. QED
  BY <1>1, <1>2, <1>3, <1>4, <1>5, <1>6, <1>7, <1>8, <1>9, <1>10 DEF SubCommand

(* The interruptions preserve it. *)
LEMMA InterruptionIInv == IInv /\ (Kill \/ KillSub \/ Orphan) /\ UNCHANGED constants => IInv'
<1> SUFFICES ASSUME IInv, Kill \/ KillSub \/ Orphan, UNCHANGED constants PROVE IInv'
  OBVIOUS
<1> USE FilesAssumption DEF constants, IInv, main, disk, process, Then, Fail
<1>1. CASE Kill
  BY <1>1 DEF Kill, TypeOK, OneUpdate, LibraryFollowsBinary, Progress, Unpacked, LibraryInstalled, Reported, Installed
<1>2. CASE KillSub
  <2>0. files' \in [Files -> States]
    BY <1>2 DEF KillSub, Write, TypeOK, States
  <2>1. TypeOK'
    BY <1>2, <2>0 DEF KillSub, Write, TypeOK
  <2>2. QED
    BY <1>2, <2>1 DEF KillSub, Write, OneUpdate, LibraryFollowsBinary, Reported
<1>3. CASE Orphan
  BY <1>3 DEF Orphan, TypeOK, OneUpdate, LibraryFollowsBinary, Progress, Unpacked, LibraryInstalled, Reported, Installed
<1>4. QED
  BY <1>1, <1>2, <1>3

(* The inductive invariant holds in every reachable state. *)
LEMMA Invariance == Spec => []IInv
<1>1. IInv /\ [Next]_vars => IInv'
  <2> SUFFICES ASSUME IInv, [Next]_vars PROVE IInv'
    OBVIOUS
  <2>1. CASE Next
    BY <2>1, CommandIInv, SubCommandIInv, InterruptionIInv DEF Next
  <2>2. CASE UNCHANGED vars
    BY <2>2 DEF vars, constants, disk, main, process, IInv, TypeOK, OneUpdate, LibraryFollowsBinary, Progress, Unpacked, LibraryInstalled, Reported, Installed
  <2>3. QED
    BY <2>1, <2>2
<1>2. QED
  BY InitIInv, <1>1, PTL DEF Spec

(* Both processes stay at one of their steps, with the files of the disk   *)
(* in one of the states that writing and removing them leaves.             *)
THEOREM TypeCorrect == Spec => []TypeOK
<1>1. IInv => TypeOK
  BY DEF IInv
<1>2. QED
  BY Invariance, <1>1, PTL

(* For every release and every way in which steps fail or processes are    *)
(* killed: a reported success means that all parts of DDP are the new ones *)
(* (update_cmd.go prints "Update war erfolgreich" after the subprocess).   *)
THEOREM Success == Spec => []SuccessMeansInstalled
<1>1. IInv => SuccessMeansInstalled
  BY DEF IInv, Reported, SuccessMeansInstalled
<1>2. QED
  BY Invariance, <1>1, PTL

(* The libraries, the Duden and the language server are never ahead of the *)
(* binary: only the new binary replaces them (the subprocess of            *)
(* do_selfupdate).                                                         *)
THEOREM BinaryFirst == Spec => []LibraryFollowsBinary
<1>1. IInv => LibraryFollowsBinary
  BY DEF IInv
<1>2. QED
  BY Invariance, <1>1, PTL
=============================================================================
