----------------------------- MODULE Workspace ------------------------------
(***************************************************************************)
(* workspace::prepare in crates/runner-core/src/workspace.rs: a local tree *)
(* is copied, an archive downloaded and unpacked, or a git branch cloned,  *)
(* into a fresh staging directory, under the job's token and deadline.     *)
(*                                                                         *)
(* The source is external: a local file may grow while it is copied, a     *)
(* branch may move between two git commands, a server or a git process may *)
(* never answer, a tree may have no end.  Of what is staged the model      *)
(* keeps the number of regular files and their bytes.                      *)
(***************************************************************************)
EXTENDS Naturals

CONSTANTS
  Sources,      \* kinds of workspace explored: "local", "archive", "git"
  MaxFiles,     \* limits.max_workspace_files
  MaxBytes,     \* limits.max_workspace_bytes
  MaxDownload,  \* limits.max_archive_download_bytes
  Sizes,        \* sizes of a file, of a chunk, of an announced body
  MaxRevision   \* bound: commits on a branch of the remote

ASSUME WorkspaceConstants ==
  /\ Sources \subseteq {"local", "archive", "git"}
  /\ MaxFiles \in Nat /\ MaxBytes \in Nat /\ MaxDownload \in Nat
  /\ Sizes \subseteq Nat /\ MaxRevision \in Nat \ {0}

Revisions == 1..MaxRevision
Unset == 0  \* head_sha or base_sha that the job does not give

Specs == {s \in [source : Sources, one_branch : BOOLEAN,
                 head_sha : Revisions \cup {Unset}, base_sha : Revisions \cup {Unset}] :
            s.source # "git"
              => ~s.one_branch /\ s.head_sha = Unset /\ s.base_sha = Unset}

VARIABLES
  spec,          \* one_branch: base_branch = branch
  pc,            \* the next thing prepare does
  files, bytes, entries,  \* its counters
  size,          \* length of the local file being copied
  buffered,      \* bytes of the archive in memory
  written, stored,  \* files and bytes in the staging directory
  head, origin,  \* HEAD and refs/remotes/origin/<base_branch> of the clone
  branch, base,  \* the two branches on the remote
  escaped,       \* history: bytes bound for the disk that no counter has seen
  cancellation, expired

counters   == <<files, bytes, entries, size, buffered>>
staged     == <<written, stored>>
cloneVars  == <<head, origin>>
remoteVars == <<branch, base>>
signalVars == <<cancellation, expired>>
vars == <<spec, pc, counters, staged, cloneVars, remoteVars, escaped, signalVars>>

Init ==
  /\ spec \in Specs /\ pc = "start"
  /\ files = 0 /\ bytes = 0 /\ entries = 0 /\ size = 0 /\ buffered = 0
  /\ written = 0 /\ stored = 0 /\ head = Unset /\ origin = Unset
  /\ branch = 1 /\ base = 1 /\ escaped = 0
  /\ cancellation = FALSE /\ expired = FALSE

Final == {"ready", "failed"}

-----------------------------------------------------------------------------
(* The world around (external). *)

Cancel == /\ ~cancellation /\ pc \notin Final /\ cancellation' = TRUE
          /\ UNCHANGED <<spec, pc, counters, staged, cloneVars, remoteVars, escaped, expired>>

Expire == /\ ~expired /\ pc \notin Final /\ expired' = TRUE
          /\ UNCHANGED <<spec, pc, counters, staged, cloneVars, remoteVars, escaped,
                         cancellation>>

\* Somebody pushes to one of the branches.
RemoteMoves ==
  /\ spec.source = "git" /\ pc \notin Final
  /\ \/ branch < MaxRevision /\ branch' = branch + 1 /\ UNCHANGED base
     \/ ~spec.one_branch /\ base < MaxRevision /\ base' = base + 1 /\ UNCHANGED branch
  /\ UNCHANGED <<spec, pc, counters, staged, cloneVars, escaped, signalVars>>

\* Somebody appends to the local file that was just measured.
SourceGrows ==
  /\ pc = "copy"
  /\ \E n \in Sizes : n > size /\ size' = n /\ escaped' = escaped + (n - size)
  /\ UNCHANGED <<spec, pc, files, bytes, entries, buffered, staged, cloneVars,
                 remoteVars, signalVars>>

-----------------------------------------------------------------------------
(* The ways out: an error drops the TempDir, and with it what was staged. *)

Abort == pc' = "failed" /\ written' = 0 /\ stored' = 0

\* Mutant: the loops look at the token only.
ensure_budget_tokenOnly == cancellation

\* ensure_budget, once per entry of the tree and of the archive.
ensure_budget == cancellation \/ expired

BudgetStops ==
  /\ pc \in {"walk", "unpack"} /\ ensure_budget /\ Abort
  /\ UNCHANGED <<spec, counters, cloneVars, remoteVars, escaped, signalVars>>

\* A revision is resolved by a process of its own, if the job gives one.
Resolving == \/ pc = "verify_head" /\ spec.head_sha # Unset
             \/ pc = "verify_base" /\ spec.base_sha # Unset

\* The select! around a git process (run_process) and around the HTTP client.
SelectStops ==
  /\ pc \in {"request", "download", "clone", "fetch"} \/ Resolving
  /\ cancellation \/ expired
  /\ Abort
  /\ UNCHANGED <<spec, counters, cloneVars, remoteVars, escaped, signalVars>>

\* Any other error: the directory, an entry, a copy, the answer or a chunk of
\* the server, a git command, the exclude file.
StepFails ==
  /\ pc \in {"start", "walk", "copy", "request", "download", "unpack", "clone",
             "fetch", "exclude"} \/ Resolving
  /\ Abort
  /\ UNCHANGED <<spec, counters, cloneVars, remoteVars, escaped, signalVars>>

-----------------------------------------------------------------------------
Start ==
  /\ pc = "start"
  /\ pc' = CASE spec.source = "local"   -> "walk"
             [] spec.source = "archive" -> "request"
             [] spec.source = "git"     -> "clone"
  /\ UNCHANGED <<spec, counters, staged, cloneVars, remoteVars, escaped, signalVars>>

-----------------------------------------------------------------------------
(* copy_tree.  Directories, symbolic links and pruned directories of the tree *)
(* change no variable of the model; any number of them may come.              *)

\* Mutant: the limits are compared with what was counted before this file.
WalkFileChecksLate(n) ==
  /\ pc = "walk" /\ ~ensure_budget
  /\ IF files > MaxFiles \/ bytes > MaxBytes
     THEN Abort /\ UNCHANGED <<files, bytes, size>>
     ELSE /\ files' = files + 1 /\ bytes' = bytes + n
          /\ size' = n /\ pc' = "copy" /\ UNCHANGED staged
  /\ UNCHANGED <<spec, entries, buffered, cloneVars, remoteVars, escaped, signalVars>>

\* A regular file of n bytes is counted and measured.
WalkFile(n) ==
  /\ pc = "walk" /\ ~ensure_budget
  /\ IF files + 1 > MaxFiles \/ bytes + n > MaxBytes
     THEN Abort /\ UNCHANGED <<files, bytes, size>>
     ELSE /\ files' = files + 1 /\ bytes' = bytes + n
          /\ size' = n /\ pc' = "copy" /\ UNCHANGED staged
  /\ UNCHANGED <<spec, entries, buffered, cloneVars, remoteVars, escaped, signalVars>>

\* fs::copy takes the file as it is now.
CopyFile ==
  /\ pc = "copy" /\ pc' = "walk"
  /\ written' = written + 1 /\ stored' = stored + size /\ size' = 0
  /\ UNCHANGED <<spec, files, bytes, entries, buffered, cloneVars, remoteVars, escaped,
                 signalVars>>

WalkEnd ==
  /\ pc = "walk" /\ pc' = "exclude"
  /\ UNCHANGED <<spec, counters, staged, cloneVars, remoteVars, escaped, signalVars>>

-----------------------------------------------------------------------------
(* download_archive *)

\* The answer, with or without a content-length; an absent one counts as 0.
Respond(length) ==
  /\ pc = "request"
  /\ IF length > MaxDownload THEN Abort ELSE pc' = "download" /\ UNCHANGED staged
  /\ UNCHANGED <<spec, counters, cloneVars, remoteVars, escaped, signalVars>>

\* Mutant: the announced length is trusted, the chunks are not counted.
ChunkTrusted(n) ==
  /\ pc = "download" /\ buffered' = buffered + n
  /\ UNCHANGED <<spec, pc, files, bytes, entries, size, staged, cloneVars, remoteVars,
                 escaped, signalVars>>

Chunk(n) ==
  /\ pc = "download"
  /\ IF buffered + n > MaxDownload
     THEN Abort /\ UNCHANGED buffered
     ELSE buffered' = buffered + n /\ UNCHANGED <<pc, staged>>
  /\ UNCHANGED <<spec, files, bytes, entries, size, cloneVars, remoteVars, escaped,
                 signalVars>>

DownloadEnd ==
  /\ pc = "download" /\ pc' = "unpack"
  /\ UNCHANGED <<spec, counters, staged, cloneVars, remoteVars, escaped, signalVars>>

\* A directory: only entries counts.
UnpackDirectory ==
  /\ pc = "unpack" /\ ~ensure_budget
  /\ IF entries + 1 > MaxFiles
     THEN Abort /\ UNCHANGED entries
     ELSE entries' = entries + 1 /\ UNCHANGED <<pc, staged>>
  /\ UNCHANGED <<spec, files, bytes, size, buffered, cloneVars, remoteVars, escaped,
                 signalVars>>

\* A regular file of n bytes.
UnpackFile(n) ==
  /\ pc = "unpack" /\ ~ensure_budget
  /\ IF entries + 1 > MaxFiles \/ files + 1 > MaxFiles \/ bytes + n > MaxBytes
     THEN Abort /\ UNCHANGED <<entries, files, bytes>>
     ELSE /\ entries' = entries + 1 /\ files' = files + 1 /\ bytes' = bytes + n
          /\ written' = written + 1 /\ stored' = stored + n /\ UNCHANGED pc
  /\ UNCHANGED <<spec, size, buffered, cloneVars, remoteVars, escaped, signalVars>>

\* An entry of another kind that is not refused below (contiguous, sparse or of
\* an unknown type): unpacked as a file, but only entries counts.
UnpackOther(n) ==
  /\ pc = "unpack" /\ ~ensure_budget
  /\ IF entries + 1 > MaxFiles
     THEN Abort /\ UNCHANGED <<entries, escaped>>
     ELSE /\ entries' = entries + 1 /\ escaped' = escaped + n
          /\ written' = written + 1 /\ stored' = stored + n /\ UNCHANGED pc
  /\ UNCHANGED <<spec, files, bytes, size, buffered, cloneVars, remoteVars, signalVars>>

\* An absolute path, a path through a parent, a link, a device or a pipe.
UnpackRefused ==
  /\ pc = "unpack" /\ ~ensure_budget /\ Abort
  /\ UNCHANGED <<spec, counters, cloneVars, remoteVars, escaped, signalVars>>

UnpackEnd ==
  /\ pc = "unpack" /\ pc' = "exclude"
  /\ UNCHANGED <<spec, counters, staged, cloneVars, remoteVars, escaped, signalVars>>

-----------------------------------------------------------------------------
(* git *)

\* git clone --depth 1 --branch: the tip of this moment, of whatever size.
Clone ==
  /\ pc = "clone" /\ head' = branch
  /\ \E f \in 0..(MaxFiles + 1), b \in 0..(MaxBytes + 1) : written' = f /\ stored' = b
  /\ IF spec.one_branch THEN origin' = branch /\ pc' = "verify_head"
                        ELSE UNCHANGED origin /\ pc' = "fetch"
  /\ UNCHANGED <<spec, counters, remoteVars, escaped, signalVars>>

\* git fetch of the base branch, some time later.
Fetch ==
  /\ pc = "fetch" /\ pc' = "verify_head" /\ origin' = base
  /\ UNCHANGED <<spec, counters, staged, head, remoteVars, escaped, signalVars>>

\* Mutant: the base is taken for verified with the head.
VerifyHeadOnly ==
  /\ pc = "verify_head"
  /\ IF spec.head_sha \in {Unset, head}
     THEN pc' = "exclude" /\ UNCHANGED staged
     ELSE Abort
  /\ UNCHANGED <<spec, counters, cloneVars, remoteVars, escaped, signalVars>>

\* verify_revision of HEAD, then of the base.
VerifyHead ==
  /\ pc = "verify_head"
  /\ IF spec.head_sha \in {Unset, head}
     THEN pc' = "verify_base" /\ UNCHANGED staged
     ELSE Abort
  /\ UNCHANGED <<spec, counters, cloneVars, remoteVars, escaped, signalVars>>

VerifyBase ==
  /\ pc = "verify_base"
  /\ IF spec.base_sha \in {Unset, origin}
     THEN pc' = "exclude" /\ UNCHANGED staged
     ELSE Abort
  /\ UNCHANGED <<spec, counters, cloneVars, remoteVars, escaped, signalVars>>

-----------------------------------------------------------------------------
\* exclude_runner_files where there is a .git directory; nothing elsewhere.
Exclude ==
  /\ pc = "exclude" /\ pc' = "ready"
  /\ UNCHANGED <<spec, counters, staged, cloneVars, remoteVars, escaped, signalVars>>

CopyTree == \/ WalkEnd \/ CopyFile \/ \E n \in Sizes : WalkFile(n)
DownloadArchive == \/ DownloadEnd \/ UnpackDirectory \/ UnpackRefused \/ UnpackEnd
                   \/ \E n \in Sizes \cup {0} : Respond(n)
                   \/ \E n \in Sizes : Chunk(n) \/ UnpackFile(n) \/ UnpackOther(n)
Git == Clone \/ Fetch \/ VerifyHead \/ VerifyBase

Over == pc \in Final /\ UNCHANGED vars

Next == \/ Cancel \/ Expire \/ RemoteMoves \/ SourceGrows
        \/ Start \/ CopyTree \/ DownloadArchive \/ Git \/ Exclude
        \/ BudgetStops \/ SelectStops \/ StepFails \/ Over

Spec == Init /\ [][Next]_vars

(***************************************************************************)
(* Time passes, the runner's own steps are taken, and what it waits for    *)
(* may never come: no fairness of the walk, the server or the git process. *)
(* The entries keep coming or end, so the walk looks at the budget again.  *)
(***************************************************************************)
FairSpec ==
  /\ Spec /\ WF_vars(Expire)
  /\ WF_vars(Start) /\ WF_vars(CopyFile) /\ WF_vars(Exclude)
  /\ WF_vars(~Resolving /\ (VerifyHead \/ VerifyBase))
  /\ WF_vars(BudgetStops) /\ WF_vars(SelectStops)

-----------------------------------------------------------------------------
(* Properties *)

\* Every variable stays in its type.
TypeOK ==
  /\ spec \in Specs
  /\ pc \in {"start", "walk", "copy", "request", "download", "unpack", "clone", "fetch",
             "verify_head", "verify_base", "exclude"} \cup Final
  /\ files \in Nat /\ bytes \in Nat /\ entries \in Nat
  /\ size \in Nat /\ buffered \in 0..MaxDownload
  /\ written \in Nat /\ stored \in Nat
  /\ head \in Revisions \cup {Unset} /\ origin \in Revisions \cup {Unset}
  /\ branch \in Revisions /\ base \in Revisions
  /\ escaped \in Nat /\ cancellation \in BOOLEAN /\ expired \in BOOLEAN

\* At every moment of the preparation, a copied tree or an unpacked archive has put
\* no more files on the disk than the limit, and no more bytes than the limit and
\* what escaped the counter: a file's growth after it was measured, and archive
\* entries that are unpacked although they are not regular files.
StagedWithinLimits ==
  spec.source # "git" => written <= MaxFiles /\ stored <= MaxBytes + escaped

\* README: "Workspace preparation is bounded by `limits.max_workspace_bytes`,
\* `limits.max_workspace_files`".
PreparationBounded == pc = "ready" => written <= MaxFiles /\ stored <= MaxBytes

\* A prepared git workspace is at the revisions the job pins, whatever is pushed
\* to the two branches between clone, fetch and the checks.
PreparedIsPinned ==
  (pc = "ready" /\ spec.source = "git")
    => /\ head # Unset /\ spec.head_sha \in {Unset, head}
       /\ origin # Unset /\ spec.base_sha \in {Unset, origin}

\* Preparation ends by the deadline although the source may stall or have no end.
PreparationEnds == <>(pc \in Final)
============================================================================
