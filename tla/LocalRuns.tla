----------------------------- MODULE LocalRuns ------------------------------
(***************************************************************************)
(* Several runs of one job document with `ai-kodu-runner run` (src/main.rs)*)
(* at the same time or one after the other, each a process of its own.     *)
(* They meet in the journal, where a run finds its attempt number, in the  *)
(* artifact directories, which are named after it, and on the remote       *)
(* branch, to which publish_git (runner-core/src/workspace.rs) pushes.     *)
(*                                                                         *)
(* Admission is module Admission, preparation module Workspace, Docker and *)
(* the lifecycle row module Sandbox: here they pass or end the run.  The   *)
(* history of a branch is the sequence of its commits; git is external: a  *)
(* push without force is taken only if it extends what the remote has.     *)
(***************************************************************************)
EXTENDS Admission, FiniteSets, SequencesExt

CONSTANTS
  Runs,        \* processes
  Documents,   \* job documents explored
  MaxAttempt,  \* the largest u32
  EarlierRows, \* attempts of the job that the journal may hold at the start
  MaxCommits   \* bound: commits of others on the branch

ASSUME LocalRunsConstants ==
  /\ IsFiniteSet(Runs)
  /\ MaxAttempt \in Nat \ {0} /\ MaxCommits \in Nat
  /\ EarlierRows \subseteq SUBSET (1..MaxAttempt)
  /\ Documents \subseteq JobSpecs
  /\ \A doc \in Documents : doc.attempt <= MaxAttempt

\* Files in a working tree: "derived" are untracked files of the runner or of a
\* build that the patterns of exclude_runner_files name; every other file is
\* "source", a tracked one too that a pattern names, since git add -A stages it
\* whatever the exclude file says.
FileKinds == {"source", "derived"}
Attempts == 1..MaxAttempt

\* What the exclude patterns do in a tree: they are in force, they are missing, or
\* a line that git reads after them takes one back: `!build/` below it in the
\* exclude file or in a .gitignore, the command's or the repository's own.
Patterns == {"kept", "lost", "negated"}

\* by: the run that made the commit, in its agent or in publish_git; files: the
\* kinds that publish_git itself added; patterns: history, those it added them under.
Commits == [by : Runs, author : {"agent"}]
             \cup [by : Runs, author : {"runner"}, files : SUBSET FileKinds,
                   patterns : Patterns]
             \cup {[author |-> "other"]}

VARIABLES
  job,        \* the document
  pc,         \* the next thing each run does
  attempt,    \* spec.attempt, 0 until it is known
  resources,  \* what policy::validate returned
  tree,       \* the run's clone and what its agent did to it
  status,     \* final_status
  rows,       \* attempts with a row in `jobs`
  remote,     \* the branch on the remote
  exported,   \* which runs wrote into artifacts/<job_id>/<attempt>
  recorded,   \* history: runs that wrote their row
  before,     \* history: runs that had, when this one asked for a number
  due         \* history: runs with a change to push from their branch

runVars     == <<pc, attempt, resources, tree, status>>
sharedVars  == <<rows, remote, exported>>
historyVars == <<recorded, before, due>>
vars == <<job, runVars, sharedVars, historyVars>>

NoTree == [branch |-> <<>>, on_branch |-> TRUE, edited |-> {}, staged |-> {},
           added |-> {}, patterns |-> "lost"]

Init ==
  /\ job \in Documents
  /\ pc = [r \in Runs |-> "start"] /\ attempt = [r \in Runs |-> 0]
  /\ resources = [r \in Runs |-> [memory_mb |-> 0, timeout_seconds |-> 0]]
  /\ tree = [r \in Runs |-> NoTree] /\ status = [r \in Runs |-> "none"]
  /\ rows \in EarlierRows
  /\ remote = <<>> /\ exported = [a \in Attempts |-> {}]
  /\ recorded = {} /\ before = [r \in Runs |-> {}] /\ due = {}

Final == {"refused", "failed", "over"}
Goto(r, at) == pc' = [pc EXCEPT ![r] = at]

-----------------------------------------------------------------------------
(* main: decode, number, admit *)

Decode(r) ==
  /\ pc[r] = "start"
  /\ \/ ~decodes(job) /\ Goto(r, "refused") /\ UNCHANGED attempt
     \/ decodes(job) /\ job.attempt = 0 /\ Goto(r, "allocate") /\ UNCHANGED attempt
     \/ /\ decodes(job) /\ job.attempt # 0
        /\ attempt' = [attempt EXCEPT ![r] = job.attempt] /\ Goto(r, "admit")
  /\ UNCHANGED <<job, resources, tree, status, sharedVars, historyVars>>

\* Mutant: the rows are counted.
next_attempt_counts == Cardinality(rows) + 1

\* Journal::next_attempt: COALESCE(MAX(attempt), 0) + 1.
next_attempt == Max(rows \cup {0}) + 1

\* Mutant: the number is used whatever it is.
AllocateUnchecked(r) ==
  /\ pc[r] = "allocate"
  /\ attempt' = [attempt EXCEPT ![r] = next_attempt]
  /\ before' = [before EXCEPT ![r] = recorded]
  /\ Goto(r, "admit")
  /\ UNCHANGED <<job, resources, tree, status, sharedVars, recorded, due>>

\* The number must fit into a u32.
Allocate(r) ==
  /\ pc[r] = "allocate" /\ next_attempt <= MaxAttempt
  /\ attempt' = [attempt EXCEPT ![r] = next_attempt]
  /\ before' = [before EXCEPT ![r] = recorded]
  /\ Goto(r, "admit")
  /\ UNCHANGED <<job, resources, tree, status, sharedVars, recorded, due>>

\* select_for, then policy::validate at the head of the executor's run.
Admit(r) ==
  LET spec == from_json(job) IN
  /\ pc[r] = "admit"
  /\ IF select_for(spec) /\ validate(spec, FALSE)
     THEN Goto(r, "receive") /\ resources' = [resources EXCEPT ![r] = clamp(spec.resources)]
     ELSE Goto(r, "refused") /\ UNCHANGED resources
  /\ UNCHANGED <<job, attempt, tree, status, sharedVars, historyVars>>

\* transition to Received: upserts the row of (job_id, attempt).
Receive(r) ==
  /\ pc[r] = "receive" /\ Goto(r, "prepare")
  /\ rows' = rows \cup {attempt[r]} /\ recorded' = recorded \cup {r}
  /\ UNCHANGED <<job, attempt, resources, tree, status, remote, exported, before, due>>

-----------------------------------------------------------------------------
(* The sandbox: workspace::prepare and the command *)

Prepare(r) ==
  /\ pc[r] = "prepare" /\ Goto(r, "work")
  /\ tree' = [tree EXCEPT ![r].branch = IF job.workspace = "git" THEN remote ELSE <<>>,
                          ![r].patterns = "kept"]
  /\ UNCHANGED <<job, attempt, resources, status, sharedVars, historyVars>>

\* What the command leaves behind: edited files, some of them staged, commits of
\* its own, another branch checked out, other exclude patterns.
Worked(r, edited, staged, commits, stays, patterns) ==
  [tree[r] EXCEPT
    !.edited = edited, !.staged = staged, !.on_branch = stays, !.patterns = patterns,
    !.branch = IF commits /\ stays
               THEN Append(@, [by |-> r, author |-> "agent"]) ELSE @]

\* Only run calls publish_git, for completed jobs; without git or with publishing
\* disabled it has nothing to do.
Publishes == /\ ~job.workflow.given
             /\ job.workspace = "git" /\ job.publish_mode # "disabled"

Work(r) ==
  /\ pc[r] = "work" /\ Publishes /\ Goto(r, "configure")
  /\ status' = [status EXCEPT ![r] = "completed"]
  /\ \E edited \in SUBSET FileKinds : \E staged \in SUBSET edited :
       \E commits, stays \in BOOLEAN : \E patterns \in Patterns :
         tree' = [tree EXCEPT ![r] = Worked(r, edited, staged, commits, stays, patterns)]
  /\ UNCHANGED <<job, attempt, resources, sharedVars, historyVars>>

\* The command failed, was cancelled or timed out, or there is nothing to publish:
\* what it did to the tree does not matter any more.
WorkUnpublished(r) ==
  /\ pc[r] = "work" /\ Goto(r, "export")
  /\ \E verdict \in {"completed", "failed"} :
       /\ verdict = "completed" => ~Publishes
       /\ status' = [status EXCEPT ![r] = verdict]
  /\ tree' = [tree EXCEPT ![r] = NoTree]
  /\ UNCHANGED <<job, attempt, resources, sharedVars, historyVars>>

-----------------------------------------------------------------------------
(* publish_git *)

\* Mutant: the exclude file of the preparation is relied upon.
ConfigureOnly(r) ==
  /\ pc[r] = "configure" /\ Goto(r, "add")
  /\ UNCHANGED <<job, attempt, resources, tree, status, sharedVars, historyVars>>

\* user.name, exclude_runner_files, user.email.  A pattern that some line equals is
\* not written again, and the last match counts: a negation stays in force.
Configure(r) ==
  /\ pc[r] = "configure" /\ Goto(r, "add")
  /\ tree' = [tree EXCEPT ![r].patterns = IF @ = "lost" THEN "kept" ELSE @]
  /\ UNCHANGED <<job, attempt, resources, status, sharedVars, historyVars>>

\* git add -A leaves out untracked files that a pattern in force names.
Add(r) ==
  /\ pc[r] = "add" /\ Goto(r, "diff")
  /\ tree' = [tree EXCEPT
       ![r].added = {k \in tree[r].edited \ tree[r].staged :
                       k = "derived" => tree[r].patterns # "kept"},
       ![r].edited = {}]
  /\ UNCHANGED <<job, attempt, resources, status, sharedVars, historyVars>>

\* git diff --cached --quiet: a clean index is an error where changes are required.
Diff(r) ==
  /\ pc[r] = "diff"
  /\ IF tree[r].added \cup tree[r].staged = {}
     THEN /\ Goto(r, "export") /\ UNCHANGED due
          /\ status' = [status EXCEPT ![r] =
               IF job.publish_mode = "required" THEN "failed" ELSE "completed"]
     ELSE /\ Goto(r, "commit") /\ UNCHANGED status
          /\ due' = IF tree[r].on_branch THEN due \cup {r} ELSE due
  /\ UNCHANGED <<job, attempt, resources, tree, sharedVars, recorded, before>>

\* git commit goes to whatever is checked out.
Commit(r) ==
  /\ pc[r] = "commit" /\ Goto(r, "push")
  /\ tree' = [tree EXCEPT
       ![r].branch = IF tree[r].on_branch
                     THEN Append(@, [by |-> r, author |-> "runner",
                                     files |-> tree[r].added,
                                     patterns |-> tree[r].patterns])
                     ELSE @,
       ![r].added = {}, ![r].staged = {}]
  /\ UNCHANGED <<job, attempt, resources, status, sharedVars, historyVars>>

\* Mutant: the branch on the remote is replaced.
PushForces(r) ==
  /\ pc[r] = "push" /\ Goto(r, "export")
  /\ remote' = tree[r].branch
  /\ UNCHANGED <<job, attempt, resources, tree, status, rows, exported, historyVars>>

\* git push origin <branch>: an extension, or nothing new.
Push(r) ==
  /\ pc[r] = "push" /\ IsPrefix(remote, tree[r].branch) /\ Goto(r, "export")
  /\ remote' = tree[r].branch
  /\ UNCHANGED <<job, attempt, resources, tree, status, rows, exported, historyVars>>

\* A git command fails or is stopped by the token or the deadline; a push may
\* have arrived all the same.  Nothing reads the tree any more.
PublishFails(r) ==
  /\ pc[r] \in {"configure", "add", "diff", "commit", "push"} /\ Goto(r, "export")
  /\ status' = [status EXCEPT ![r] = "failed"]
  /\ \/ UNCHANGED remote
     \/ pc[r] = "push" /\ IsPrefix(remote, tree[r].branch) /\ remote' = tree[r].branch
  /\ tree' = [tree EXCEPT ![r] = NoTree]
  /\ UNCHANGED <<job, attempt, resources, rows, exported, historyVars>>

-----------------------------------------------------------------------------
\* artifacts::export and the rest of the run.  A job that did not complete always
\* has its diagnostics to export.
Export(r) ==
  /\ pc[r] = "export" /\ Goto(r, "over")
  /\ exported' = IF job.artifacts \/ status[r] = "failed"
                 THEN [exported EXCEPT ![attempt[r]] = @ \cup {r}] ELSE exported
  /\ tree' = [tree EXCEPT ![r] = NoTree]
  /\ UNCHANGED <<job, attempt, resources, status, rows, remote, historyVars>>

\* An error that ends the run, or the death of its process: a row or some of the
\* artifacts may have been written by then; the workspace goes.
Stops(r) ==
  /\ pc[r] \notin Final /\ Goto(r, "failed")
  /\ \/ UNCHANGED <<rows, exported, recorded>>
     \/ /\ pc[r] = "receive" /\ UNCHANGED exported
        /\ rows' = rows \cup {attempt[r]} /\ recorded' = recorded \cup {r}
     \/ /\ pc[r] = "export" /\ UNCHANGED <<rows, recorded>>
        /\ exported' = [exported EXCEPT ![attempt[r]] = @ \cup {r}]
  /\ tree' = [tree EXCEPT ![r] = NoTree]
  /\ UNCHANGED <<job, attempt, resources, status, remote, before, due>>

\* Somebody else pushes to the branch (external).
OtherPushes ==
  /\ job.workspace = "git"
  /\ Len(SelectSeq(remote, LAMBDA c : c.author = "other")) < MaxCommits
  /\ remote' = Append(remote, [author |-> "other"])
  /\ UNCHANGED <<job, runVars, rows, exported, historyVars>>

PublishGit(r) == \/ Configure(r) \/ Add(r) \/ Diff(r) \/ Commit(r) \/ Push(r)
                 \/ PublishFails(r)
Run(r) == \/ Decode(r) \/ Allocate(r) \/ Admit(r) \/ Receive(r) \/ Prepare(r)
          \/ Work(r) \/ WorkUnpublished(r) \/ PublishGit(r) \/ Export(r) \/ Stops(r)

Over == (\A r \in Runs : pc[r] \in Final) /\ UNCHANGED vars

Next == OtherPushes \/ Over \/ \E r \in Runs : Run(r)

Spec == Init /\ [][Next]_vars

-----------------------------------------------------------------------------
(* Properties *)

\* Every variable stays in its type; every attempt number fits.
TypeOK ==
  /\ job \in Documents
  /\ pc \in [Runs -> {"start", "allocate", "admit", "receive", "prepare", "work",
                      "configure", "add", "diff", "commit", "push", "export"} \cup Final]
  /\ attempt \in [Runs -> 0..MaxAttempt]
  /\ resources \in [Runs -> [memory_mb : Nat, timeout_seconds : Nat]]
  /\ tree \in [Runs -> [branch : Seq(Commits), on_branch : BOOLEAN,
                        edited : SUBSET FileKinds, staged : SUBSET FileKinds,
                        added : SUBSET FileKinds, patterns : Patterns]]
  /\ status \in [Runs -> {"none", "completed", "failed"}]
  /\ rows \subseteq Attempts /\ remote \in Seq(Commits)
  /\ exported \in [Attempts -> SUBSET Runs]
  /\ recorded \subseteq Runs /\ before \in [Runs -> SUBSET Runs] /\ due \subseteq Runs

\* A run that reports completed and found changes on its branch has its commit on
\* the remote, behind everything its agent committed there and whoever else pushed
\* before or since.
PublishedIsPushed ==
  \A r \in due : (pc[r] = "over" /\ status[r] = "completed") =>
    \E i \in DOMAIN remote :
      /\ remote[i].author = "runner" /\ remote[i].by = r
      /\ \A j \in DOMAIN remote :
           (remote[j].author = "agent" /\ remote[j].by = r) => j < i

\* What publish_git adds to a commit is never an untracked file that
\* exclude_runner_files names, also if the command emptied or removed the exclude
\* file of the preparation; a tree in which a later line takes a pattern back is
\* excepted, since exclude_runner_files does not look for one.
DerivedStaysOut ==
  \A i \in DOMAIN remote :
    (remote[i].author = "runner" /\ remote[i].patterns # "negated")
      => remote[i].files \subseteq {"source"}

\* README: "repeated runs create separate directories".  Two runs put files into
\* one artifact directory only if neither had its row in the journal when the
\* other asked for its number.
OwnDirectory ==
  job.attempt = 0 =>
    \A a \in Attempts : \A r, q \in exported[a] : r # q => q \notin before[r]

\* What a job may ask for, said independently of the checks: an executor that has
\* what it needs, a permitted network, and an environment in which every name is
\* permitted and has one value.
Acceptable(spec) ==
  /\ spec.executor = "docker"
  /\ spec.execution.given =>
       /\ spec.execution.isolation = "container"
       /\ \A i \in DOMAIN spec.execution.capabilities :
            spec.execution.capabilities[i] \in Capabilities
  /\ spec.network = "none" \/ (AllowNetwork /\ spec.network = "bridge")
  /\ LET env == environment_for_job(spec)
     IN  /\ \A i \in DOMAIN env : env[i] \in AllowedEnvironment
         /\ Cardinality(Range(env)) = Len(env)
  /\ spec.workspace # "outside"

\* Only an acceptable job leaves a trace (a row, a commit, artifacts), and it runs
\* with resources within the limits, or at the floor where a limit is below it.
TraceIsAdmitted ==
  \A r \in recorded \cup UNION Range(exported) :
    /\ Acceptable(from_json(job))
    /\ resources[r].memory_mb \in MinMemory..Max({MaxMemory, MinMemory})
    /\ resources[r].timeout_seconds \in MinTimeout..Max({MaxTimeout, MinTimeout})
============================================================================
