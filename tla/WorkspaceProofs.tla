-------------------------- MODULE WorkspaceProofs ---------------------------
(***************************************************************************)
(* Safety of Workspace for all limits, sizes and revisions.                *)
(***************************************************************************)
EXTENDS Workspace, TLAPS

\* A step of prepare belongs to one kind of source.
AtSource ==
  /\ pc \in {"walk", "copy"} => spec.source = "local"
  /\ pc \in {"request", "download", "unpack"} => spec.source = "archive"
  /\ pc \in {"clone", "fetch", "verify_head", "verify_base"} => spec.source = "git"

\* What is counted is within the limits, and what is on the disk was counted or
\* escaped: the file in hand is counted before it is copied, an entry of an
\* archive before it is unpacked.
Counted ==
  /\ files <= MaxFiles /\ bytes <= MaxBytes /\ entries <= MaxFiles
  /\ spec.source = "local" => written <= files
  /\ spec.source = "archive" => written <= entries
  /\ spec.source # "git"
       => stored + (IF pc = "copy" THEN size ELSE 0) <= bytes + escaped
  /\ pc = "copy" => written < files

\* Each check of a pinned revision holds from its step on.
Pinned ==
  spec.source = "git" =>
    /\ pc \in {"fetch", "verify_head", "verify_base", "exclude", "ready"} => head # Unset
    /\ pc \in {"verify_head", "verify_base", "exclude", "ready"} => origin # Unset
    /\ pc \in {"verify_base", "exclude", "ready"} => spec.head_sha \in {Unset, head}
    /\ pc \in {"exclude", "ready"} => spec.base_sha \in {Unset, origin}

IInv == TypeOK /\ AtSource /\ Counted /\ Pinned
-----------------------------------------------------------------------------
\* Before the staging directory exists nothing is counted or cloned.
LEMMA InitIInv == Init => IInv
<1> SUFFICES ASSUME Init PROVE IInv
  OBVIOUS
<1> USE WorkspaceConstants DEF Init, Final, Revisions, Unset
<1>1. TypeOK
  <2>1. 1 \in Revisions
    OBVIOUS
  <2>2. buffered \in 0..MaxDownload
    OBVIOUS
  <2>3. escaped \in Nat /\ cancellation \in BOOLEAN /\ expired \in BOOLEAN
    OBVIOUS
  <2>4. /\ files \in Nat /\ bytes \in Nat /\ entries \in Nat /\ size \in Nat
        /\ written \in Nat /\ stored \in Nat
    OBVIOUS
  <2> QED
    BY <2>1, <2>2, <2>3, <2>4 DEF TypeOK
<1>2. AtSource
  BY DEF AtSource
<1>3. Counted
  BY DEF Counted
<1>4. Pinned
  BY DEF Pinned
<1> QED
  BY <1>1, <1>2, <1>3, <1>4 DEF IInv

\* Every step of prepare, and every write of somebody else, keeps the invariant.
LEMMA NextIInv == IInv /\ [Next]_vars => IInv'
<1> SUFFICES ASSUME IInv, [Next]_vars PROVE IInv'
  OBVIOUS
<1> USE WorkspaceConstants
<1> USE DEF Final, Unset, Revisions, counters, staged, cloneVars, remoteVars, signalVars
<1>0. TypeOK /\ AtSource /\ Counted /\ Pinned
  BY DEF IInv
<1>a. Specs = Specs' /\ \A s \in Specs : s.source \in {"local", "archive", "git"}
  BY DEF Specs
<1>1. CASE Cancel \/ Expire
  BY <1>0, <1>1 DEF IInv, Cancel, Expire, TypeOK, AtSource, Counted, Pinned
<1>2. CASE RemoteMoves
  BY <1>0, <1>2 DEF IInv, RemoteMoves, TypeOK, AtSource, Counted, Pinned
<1>3. CASE SourceGrows
  BY <1>0, <1>3 DEF IInv, SourceGrows, TypeOK, AtSource, Counted, Pinned
<1>4. CASE Abort /\ UNCHANGED <<spec, counters, cloneVars, remoteVars, escaped, signalVars>>
  BY <1>0, <1>4 DEF IInv, Abort, TypeOK, AtSource, Counted, Pinned
<1>5. CASE Start
  BY <1>0, <1>5, <1>a DEF IInv, Start, TypeOK, AtSource, Counted, Pinned
<1>6. CASE \E n \in Sizes : WalkFile(n)
  <2> PICK n \in Sizes : WalkFile(n)
    BY <1>6
  <2>1. CASE files + 1 > MaxFiles \/ bytes + n > MaxBytes
    BY <1>0, <2>1 DEF WalkFile, IInv, Abort, TypeOK, AtSource, Counted, Pinned
  <2>2. CASE ~(files + 1 > MaxFiles \/ bytes + n > MaxBytes)
    BY <1>0, <2>2 DEF WalkFile, IInv, TypeOK, AtSource, Counted, Pinned
  <2> QED
    BY <2>1, <2>2
<1>7. CASE CopyFile
  BY <1>0, <1>7 DEF IInv, CopyFile, TypeOK, AtSource, Counted, Pinned
<1>8. CASE WalkEnd \/ DownloadEnd \/ UnpackEnd \/ Exclude
  BY <1>0, <1>8
  DEF IInv, WalkEnd, DownloadEnd, UnpackEnd, Exclude, TypeOK, AtSource, Counted, Pinned
<1>9. CASE \E n \in Sizes \cup {0} : Respond(n)
  BY <1>0, <1>9 DEF IInv, Respond, Abort, TypeOK, AtSource, Counted, Pinned
<1>10. CASE \E n \in Sizes : Chunk(n)
  BY <1>0, <1>10 DEF IInv, Chunk, Abort, TypeOK, AtSource, Counted, Pinned
<1>11. CASE UnpackDirectory
  BY <1>0, <1>11 DEF IInv, UnpackDirectory, Abort, TypeOK, AtSource, Counted, Pinned
<1>12. CASE \E n \in Sizes : UnpackFile(n)
  <2> PICK n \in Sizes : UnpackFile(n)
    BY <1>12
  <2>1. CASE entries + 1 > MaxFiles \/ files + 1 > MaxFiles \/ bytes + n > MaxBytes
    BY <1>0, <2>1 DEF UnpackFile, IInv, Abort, TypeOK, AtSource, Counted, Pinned
  <2>2. CASE ~(entries + 1 > MaxFiles \/ files + 1 > MaxFiles \/ bytes + n > MaxBytes)
    BY <1>0, <2>2 DEF UnpackFile, IInv, TypeOK, AtSource, Counted, Pinned
  <2> QED
    BY <2>1, <2>2
<1>19. CASE \E n \in Sizes : UnpackOther(n)
  <2> PICK n \in Sizes : UnpackOther(n)
    BY <1>19
  <2>1. CASE entries + 1 > MaxFiles
    BY <1>0, <2>1 DEF UnpackOther, IInv, Abort, TypeOK, AtSource, Counted, Pinned
  <2>2. CASE ~(entries + 1 > MaxFiles)
    BY <1>0, <2>2 DEF UnpackOther, IInv, TypeOK, AtSource, Counted, Pinned
  <2> QED
    BY <2>1, <2>2
<1>13. CASE Clone
  BY <1>0, <1>13 DEF IInv, Clone, TypeOK, AtSource, Counted, Pinned
<1>14. CASE Fetch
  BY <1>0, <1>14 DEF IInv, Fetch, TypeOK, AtSource, Counted, Pinned
<1>15. CASE VerifyHead
  BY <1>0, <1>15 DEF IInv, VerifyHead, Abort, TypeOK, AtSource, Counted, Pinned
<1>16. CASE VerifyBase
  BY <1>0, <1>16 DEF IInv, VerifyBase, Abort, TypeOK, AtSource, Counted, Pinned
<1>17. CASE UNCHANGED vars
  BY <1>0, <1>17 DEF IInv, vars, TypeOK, AtSource, Counted, Pinned
<1>18. CASE BudgetStops \/ SelectStops \/ StepFails \/ UnpackRefused
  BY <1>4, <1>18 DEF BudgetStops, SelectStops, StepFails, UnpackRefused
<1> QED
  BY <1>1, <1>2, <1>3, <1>5, <1>6, <1>7, <1>8, <1>9, <1>10, <1>11, <1>12, <1>13,
     <1>14, <1>15, <1>16, <1>17, <1>18, <1>19
  DEF Next, CopyTree, DownloadArchive, Git, Over

\* The inductive invariant: what is on the disk was counted or escaped, what was
\* counted is within the limits, and a verified revision stays verified.
THEOREM Inductive == Spec => []IInv
<1>1. Init => IInv
  BY InitIInv
<1>2. IInv /\ [Next]_vars => IInv'
  BY NextIInv
<1> QED
  BY <1>1, <1>2, PTL DEF Spec

\* Every variable of a preparation stays in its type; an archive never takes more
\* memory than max_archive_download_bytes.
THEOREM TypeCorrect == Spec => []TypeOK
<1>1. IInv => TypeOK
  BY DEF IInv
<1> QED
  BY <1>1, Inductive, PTL

\* copy_tree and download_archive keep the files they put on the disk within
\* max_workspace_files at every moment, and the bytes within max_workspace_bytes but
\* for those that escape the counter, for all limits and sizes.
THEOREM LimitsKept == Spec => []StagedWithinLimits
<1>1. IInv => StagedWithinLimits
  <2> SUFFICES ASSUME IInv, spec.source # "git"
               PROVE  written <= MaxFiles /\ stored <= MaxBytes + escaped
    BY DEF StagedWithinLimits
  <2>1. /\ written \in Nat /\ stored \in Nat /\ files \in Nat /\ bytes \in Nat
        /\ size \in Nat /\ entries \in Nat /\ escaped \in Nat
    BY DEF IInv, TypeOK
  <2>2. written <= MaxFiles
    <3>1. spec.source \in {"local", "archive"}
      BY WorkspaceConstants DEF IInv, TypeOK, Specs
    <3> QED
      BY <2>1, <3>1, WorkspaceConstants DEF IInv, Counted
  <2>3. /\ bytes <= MaxBytes
        /\ stored + (IF pc = "copy" THEN size ELSE 0) <= bytes + escaped
    BY DEF IInv, Counted
  <2> QED
    BY <2>1, <2>2, <2>3, WorkspaceConstants
<1> QED
  BY <1>1, Inductive, PTL

\* A workspace that prepare returns for a git job is at the revisions head_sha and
\* base_sha ask for, whatever happened on the remote meanwhile.
THEOREM RevisionsPinned == Spec => []PreparedIsPinned
<1>1. IInv => PreparedIsPinned
  BY DEF IInv, Pinned, PreparedIsPinned
<1> QED
  BY <1>1, Inductive, PTL
============================================================================
