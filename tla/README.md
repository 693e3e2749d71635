# Verification of ai-kodu-runner

TLA+ models of the runner, the TLC runs that check them on small instances and
TLAPS proofs of their main properties for every value of the constants. The
source of every definition is named in `PROJECT.json` under `map`.

## 1. The system

The runner leases jobs from a control plane, executes each in a Docker sandbox
and reports one result per `(job_id, attempt)`.

| Part | State | Operations | Works with |
|---|---|---|---|
| Daemon loop, `run_daemon` in `src/control/mod.rs` | semaphore permits, shutdown token, set of job tasks | acquire, lease, wait, spawn, break, drain | control plane, journal, job tasks |
| Leased job, `run_leased_job` | job token, log channel, heartbeat failure count, result | admit, execute, flush the log, stop the heartbeat, record, complete with retries | all of the others |
| Heartbeat task | consecutive failures | tick, call, continue, refused, error | job token |
| Log uploader | chunk in hand, attempts, loss | receive, post, give up | log channel |
| Control plane client, `src/control/http.rs` | none | lease, heartbeat, log chunk, complete | HTTP |
| Journal, `runner-core/src/journal.rs` | `jobs`, `events`, `completion_outbox` | transition, unfinished, next_attempt; enqueue, record attempt, mark delivered, pending | SQLite file shared by processes |
| Docker executor, `executor-docker/src/lib.rs` | containers, network, log sequence and drop counters | run, run_workflow, start_services, exec_command, cleanup | Docker, journal, workspace |
| Workspace, `runner-core/src/workspace.rs` | staging directory, counters, clone | prepare (copy, download and unpack, clone and verify), publish_git | source, git remote, token and deadline |
| Policy and executor registry, `policy.rs`, `executor.rs` | none | validate, clamp, select_for | job document, configuration |
| Artifacts, `artifacts.rs` | directories named after `(job_id, attempt)` | export | workspace |
| Command line, `src/main.rs` | none | run (with its attempt number from the journal), cleanup, daemon, doctor | all of the above |

How the parts interact: tasks of one process share a cancellation token, a
bounded channel and a semaphore. Processes (a daemon, a local `run`, `cleanup`)
share only Docker and the SQLite file. The control plane sees the runner through
four idempotent-or-not HTTP calls, each of which can be lost in either direction.

What is hard in this code:

* *interleavings*: three tasks per job; `select!` takes any ready branch; the
  token is read after an await and may have changed;
* *failure of one step of several*: every `?` between the creation of a Docker
  resource and its removal; a journal write that fails between two calls;
* *lost and late answers*: completions, log chunks, Docker calls;
* *crashes* between storing a result, sending it and marking it delivered, and
  between a job's last status and the removal of its sandbox;
* *limits*: the log channel, retry budgets, heartbeat failures, iterations, permits;
* *stale values*: a container listing, `failed_phase`, the feedback file, the
  length of a file before it is copied, the exclude file before `git add`;
* *others at the same time*: pushes between clone, fetch and push, local runs that
  ask for an attempt number together, sources that stall or have no end.

`PROJECT.json` lists each of these at its line under `hazards`.

## 2. Modules

| Module | Models | Proofs |
|---|---|---|
| `LeasedJob` | one `run_leased_job`: worker, heartbeat task, uploader | `LeasedJobProofs` |
| `LeaseContract` | what a lease promises: recorded, then accepted, then marked; always closed | refined by `LeasedJob` |
| `Daemon` | `run_daemon`, the outbox and its replay, over leases, crashes and restarts | `DaemonProofs` |
| `OutboxContract` | what the outbox promises: write-ahead, never replaced, delivered only if accepted | refined by `Daemon` |
| `Workflow` | the agent-and-verifier loop of `run_workflow` with `exec_command` | `WorkflowProofs` |
| `Sandbox` | Docker resources and lifecycle row of one job, all exits of `run` and `run_workflow`, and `cleanup` | `SandboxProofs` |
| `Workspace` | `workspace::prepare` for local trees, archives and git, with limits, token and deadline | `WorkspaceProofs` |
| `Admission` | pure operators: `from_json`, `JobSpec::validate`, `select_for`, `policy::validate`, `clamp` | in `LocalRunsProofs` |
| `LocalRuns` | several `ai-kodu-runner run` of one document over one journal, artifact directory and remote branch, with `publish_git` opened up; extends `Admission` | `LocalRunsProofs` |
| `MC*` | values of the constants for TLC | |

Definitions whose comment begins with "Mutant" are wrong versions of the
definition after them. `PROJECT.json` says which property each one must break.
They are not part of any specification.

### LeasedJob

`worker`, `heartbeat` and `uploader` are the program counters of the three
tasks. `token`, `queue`, `dropped`, `sequence`, `row` are the objects they share;
`received`, `accepted`, `refusals`, `missed` are what the control plane knows. A log
call that timed out or was aborted may be lost or stay in `late`, from where
`LateArrives` delivers it at any later step, after the job's end too. The answer to
a heartbeat may be lost whatever the control plane decided: `refusals` counts its
refusals since it last renewed, heard or not.
Time is not measured: a timeout may fire whenever the call it guards is pending,
a sleep may end whenever it is entered. `decode` is the translation of an HTTP
answer to a decision, error cases included. What an execution does is reduced to
what the daemon sees of it: chunks emitted, and `Ok` with a status or `Err`.
`FlushLossy` is the path on which `log_upload.await` polls a finished handle.

### Daemon

A key stands for `(job_id, attempt)`; a lease's number also names the result of
its execution, so two leases of one key have different results. `row`,
`delivered` and the control plane's `accepted` survive `Crash`; everything else
starts again. A crash can happen between any two steps, including between the
control plane's answer and the mark. Executions are one phase, which `LeasedJob`
opens up; `WorkerAborts` stands for its panic and its journal errors.
`Reissued` is the set of keys that the control plane may lease more than once.

### Workflow

One action per command list, with the flags `setup_ok`, `all_passed`,
`failed_phase`, `termination` and `final_status` of the code under their own
names. `passed`, `failed` and `publications` are history variables: which
commands of the current iteration (and of the preparation) exited 0, which did
not, and how often publishing succeeded. Output text is left out; the feedback
file is represented by who wrote it, in which iteration.

### Sandbox

`pc` walks through `run` or `run_workflow`, which share most of their steps.
Steps that only pass or fail (policy, workspace, pull, environment, feedback
path, export) are one table, `PassedTo`; the journal transitions another,
`Written` and `WrittenThen`. `Unwind` is an error arm that removes some
containers and the network; `ReturnErr` is a `?` that removes nothing. `Cleanup`
is another process with the same runner id. The workflow's own steps are one
step here, with the verdict that `Workflow` computes. `Crash` clears what the
process held in memory; the row, the containers and the network stay. `refused`
remembers which removals Docker turned down, so that the properties can be stated
of runs in which some calls fail. `StreamCut` ends the log stream of a container
that still runs: `Logs` goes on to `Inspect`, which reads exit code 0 of it, as the
code does. `valid_transition` is the state machine of `state.rs`, against which
`LifecycleForward` compares the row.

### Workspace

`pc` walks through `prepare`; `files`, `bytes`, `entries` and `buffered` are the
counters of `copy_tree` and `download_archive`, `written` and `stored` what is in
the staging directory. `BudgetStops` is `ensure_budget` at the head of an entry,
`SelectStops` the `select!` around a process or the HTTP client, `Abort` the drop
of the `TempDir`. `SourceGrows` and `RemoteMoves` are other people's writes
between two steps. `UnpackOther` is an archive entry of a kind that is neither
refused nor a regular file nor a directory: it is written and not measured.
`escaped` counts the bytes that no counter of the code saw. A revision is a number; the tree behind it has any size.

### Admission and LocalRuns

A document is a record in which names and images are abstract values and text
that need only be well formed is an attribute. `decodes`, `validate_spec`,
`select_for` and `validate` are conjunctions of the checks of the code; the order
of the checks decides only which message is printed and is left out. `JobSpecs` is
the type that deserializes: `memory_mb` and its limit are signed and may be negative.

Each member of `Runs` is a process. `rows` is the journal, `exported` says who
wrote into the directory of which attempt, `remote` is the sequence of commits of
the branch. `Worked` is everything the command in the container may do to the
clone: edit, stage, commit, leave another branch checked out, lose the exclude
patterns, or negate one with a later line, which `exclude_runner_files` does not
undo (`Configure`). `"derived"` are the untracked files the patterns name; a tracked
one is `"source"`, because `git add -A` stages it in any case. From there `publish_git` is one action per git command, and any of them may
fail, a push also after it arrived. `Stops` is an error or the death of a process
at any point. A push is taken if it extends what the remote has (git, external).
`LocalRuns` follows jobs with a command; a workflow job goes the same way and
never publishes (finding 5).

## 3. Runs

| Run | Distinct states | Shows |
|---|---|---|
| `leased_job` | 568 882 | log loss is reported, cancellation has a cause, repeated refusals cancel although their answers are lost, the lease is renewed while the job runs and silent after its result is recorded, chunks arrive in order unless one was given up, all tasks end, the lease contract is kept |
| `leased_job_panic` | violation | finding 1 |
| `leased_job_error_log` | violation | finding 2 |
| `leased_job_decision_body` | violation | finding 3 |
| `daemon` | 143 687 | permits are conserved, the outbox contract is kept with attempts leased twice, outbox and control plane agree on the others, shutdown drains, pending results are delivered |
| `workflow` | 6 210 | completed means verified and published, nothing runs after publication or termination, verdict and failed phase are true, feedback is current, the loop ends |
| `sandbox` | 973 781 | a finished run leaves nothing that Docker did not refuse to remove, a destroyed row is true, the row of one run moves as the state machine of the repository allows but for named moves, a successful cleanup is clean, a completed command earned it unless its log stream was cut, runs end |
| `sandbox_cleanup_race` | violation | finding 4 |
| `sandbox_workflow_git` | violation | finding 5 |
| `workspace` | 139 280 | limits hold at every moment but for bytes that escape the counters, a prepared clone is at the pinned revisions, preparation ends by the deadline |
| `workspace_git_limits` | violation | finding 6 |
| `local_runs` | 3 095 331 | a completed run's commit is on the remote and stays there, derived files are not added unless a pattern was negated, attempts and directories are separate as far as the journal can tell, only acceptable jobs leave a trace |

Bounds and why they are enough:

* `leased_job`: a channel of one and two chunks, so that a chunk can wait behind the
  one in hand, or be dropped because the uploader has not taken the first; two
  upload attempts, three heartbeat failures (a renewal below the limit must reset
  the count), two completion attempts, so that each budget has a retry and an
  exhaustion.
* `daemon`: two keys, two permits, three leases, so that one attempt can be
  leased twice beside another job, which is not. Any number of crashes and
  restarts.
* `workflow`: two setup commands, an initialization, three iterations, a required and an
  optional verifier, a mandatory one, a publish command.
* `sandbox`: both kinds of job, every network and publish mode, two services, so
  that an error can come with none, one or both of them up; two cleanups, so
  that one can follow a failed one; Docker and the journal may fail any call.
* `workspace`: two files and three bytes with files of zero to two bytes, so that
  each limit can be met exactly, be exceeded alone and stop the second or third
  file; three revisions, so that the branch can move twice; a download of three
  bytes in chunks.
* `local_runs`: two processes and one commit of somebody else, so that every pair
  of pushes can meet; a journal that is empty or holds attempt 2 (and not 1), with
  3 as the largest number, so that numbers are counted from the maximum and can
  run out; six documents that run and one per check that refuses. `MaxMemory` is
  below the floor of `clamp`.

Fairness:

* the runtime polls every task that can move (`WF` of each task's actions);
* an execution returns, because each of its waits is bounded by the deadline;
  calls to the control plane return, because the client has a request timeout
  (`http.rs`, 5 s to connect and 30 s in all);
* in `Sandbox` the deadline passes and Docker calls return, but the command in the
  container need not end;
* in `Workspace` the deadline passes and the runner takes its own steps; the walk,
  the server and the git processes need not make progress, so that
  `PreparationEnds` rests on `ensure_budget` and the `select!`s alone;
* `PendingRecovered` also assumes an operator who restarts the daemon and a
  control plane and journal that do not fail one entry's replay every time (`SF`).
  Without these the code gives no such guarantee: a row is retried only at startup.

## 4. Proofs

Each `*Proofs` module has the same shape: an inductive invariant `IInv` with
named parts, `InitIInv`, `NextIInv` (one step per action), and the theorems that
follow from it. Every `IInv` was model-checked before it was proved, on the
instance of the component's passing run. Every safety property that a passing run
checks is also a theorem, for every value of the constants.

* **LeasedJobProofs** (assumes `LeasedJobConstants`). The invariant adds to the
  type: where every emitted chunk is (stored, queued, in hand, or lost with
  `loss`, `logLoss` or `dropped` to show for it), that the queue is increasing
  and ahead of the chunk in hand, of what is stored and of what may still arrive,
  that without a loss only the chunk in hand can be late, which task is over at
  which point of the worker, and how the failure count relates to the heartbeats
  missed and to the refusals. `LogLossReported` alone is not inductive: nothing in it says what has become
  of a chunk before the result exists. `CancellationJustified` assumes that the
  decision bodies are the ones the code decodes: with others it is false (finding
  3). `RefusalsReachToken` needs no such assumption, because a refusal that is not
  understood or not heard is a failure that counts. `ContractSafety` proves the safety half
  of the refinement of `LeaseContract`. `DaemonWorkerSafety` joins two layers:
  under the mapping `AsWorker`, which calls everything before the row "working" and
  every end "over", each step of the three tasks is a step of one `Daemon!Worker`,
  its shutdown or a stutter. It needs one fact beside `IInv`: the row is there
  exactly from `enqueue_completion` on (`Unwritten`), else a mapped row could change
  without a step of the worker.
* **DaemonProofs** (assumes `DaemonConstants`). The invariant adds: which leases have a
  task, that a result is sent only after its row exists, that what is marked was
  accepted, that outside `Reissued` a row belongs to the only lease of its key,
  and that no task is active while the process is down. The permit count needs
  facts about cardinalities, proved once in `TaskCount`. `OutboxSafety` is the
  whole refinement of `OutboxContract`, re-issued attempts included.
* **WorkflowProofs** (assumes `WorkflowConstants`). The invariant relates `pc` and
  `next` to the commands that must be in `passed` while `all_passed` holds,
  publications to the place of the loop, and `failed_phase` to a failed command
  of this iteration. The last part is what makes a stale phase impossible: each
  iteration that does not end in success has overwritten it. `SandboxVerdict` joins
  this module to `Sandbox`: under the mapping `InSandbox` the whole loop is one
  `Sandbox!WorkflowSettles` or one `Sandbox!WorkError`, and its container is stopped
  exactly with a verdict of the token or of the deadline.
* **WorkspaceProofs** (assumes `WorkspaceConstants`). `StagedWithinLimits` speaks of
  the disk and the code compares counters: the invariant relates the two, one
  file ahead while a file is measured and not yet copied and apart by `escaped`
  bytes, and says which places of `prepare` a source of each kind can be at. `PreparedIsPinned` needs that the
  comparison made at `verify_head` still holds at the end, because nothing after
  the clone changes `head`, whatever the remote does.

* **SandboxProofs** (assumes `SandboxConstants`). Two invariants. `JobInv` holds
  whenever `cleanup` runs: which containers can exist and that each is still to be
  removed or was refused (`Resources`), and what a verdict rests on (`Earned`: a
  command that was not stopped has exited before its code is read, or its stream was
  cut; a cleanup that removes the container cannot change the code behind the
  verdict). From it
  follow `TypeCorrect`, `NothingForgotten`, `CompletionEarned` and
  `CommandsPublish`; the last one says of jobs with a command what finding 5
  refutes for workflows. `IInv` adds the row at every step of the run (`Row`) and
  what is left when a cleanup is between two of its steps (`Swept`). It holds if
  `CleanupWhen` is not `"any"`: a cleanup beside a job in preparation closes that
  job's row, and the run then writes behind `destroyed`. `DestroyedMeansGone`,
  `CleanupComplete` and `RowOnlyForward` state this assumption. They also speak of
  one run per row: a second run of the same attempt upserts its row back to
  `received` (`journal.rs:49`).
* **LocalRunsProofs** (assumes `AdmissionConstants` and `LocalRunsConstants`: finitely
  many processes, documents of type `JobSpecs` whose attempt fits into a u32). The
  pure part comes first: `Clamped` (resources end within the limits or at the floor,
  also for a negative `memory_mb`), `AdmissionSound` (the checks imply
  `Acceptable`, which is stated without them; that the two environment lists have
  no name in common needs that a list without repetitions has as many values as
  places) and `DaemonIsStricter`. `MaxOf` gets the largest row from
  well-foundedness, because a proof by induction is out of reach. The invariant
  says that a run without its checks has left nothing (`Untraced`, `Admitted`), that
  a number is larger than those of all rows seen when it was asked for (`Numbered`),
  that the patterns are written when files are added and no commit made without a
  negated pattern holds a derived file (`Excluded`), and follows a due change from the branch to the remote
  (`Delivered`). `Delivered` is not inductive by itself: another run's push could
  bring commits of this run's agent behind its last one. `Cloned` excludes
  that: what a clone has of others, the remote has at the same place.

`DeliveredIsAccepted` is proved and not checked by a run of its own: `KeepsContract`
implies it.

Only model-checked: all liveness (`WorkerEnds`, `CancelEndsHeartbeat`,
`ShutdownDrains`, `PendingRecovered`, `WorkflowEnds`, `RunEnds`, `PreparationEnds`
and the liveness half of `KeepsContract`), which is beyond this prover. The
properties of the runs that expect a violation have no theorem, except
`CancellationHasCause` and `RequiredIsPublished` under the assumptions that exclude
the finding. The two mappings `AsWorker` and `InSandbox` were model-checked on the
instances of `leased_job` and `workflow` and have no run of their own.

## 5. Findings

1. A job whose log lost one chunk in time for the flush panics at
   `src/control/mod.rs:299`: its result is neither recorded nor sent, and its
   heartbeat task keeps the lease alive. `LogLossReported` is therefore stated of
   recorded results.
2. A result made from an executor error always says `log_truncated: false`.
3. The client decodes a heartbeat body that differs from the OpenAPI document: a
   job whose lease is renewed with the documented body is cancelled after a few
   heartbeats.
4. `cleanup` removes containers of a leased job that are not running yet or
   not running any more.
5. Workflow jobs ignore `publish_mode`.
6. A git workspace is not bounded by the workspace limits.

Also seen, and not given a run: `cleanup` beside a job in preparation closes its
row as destroyed; `run` writes `collecting` before `cancelled` or `timed_out`,
which `valid_transition` in `state.rs` (used only by its test) does not list; a
runner without a configured name has a new id in every process, so its `cleanup`
finds nothing and closes the rows. A command that commits its own work leaves
nothing to push, and one that leaves another branch checked out makes the push
succeed without the commit; in both cases the job is completed, and
`PublishedIsPushed` is stated of the runs in which neither happened. When the log
stream ends before the container, a command that still runs is taken for completed
with exit code 0, published and removed; `CompletedIsEarned` excepts this case and
shows that there is no other. Archive entries that are neither regular files nor
refused (contiguous, sparse, unknown types) are unpacked without being measured, and
a file that grows between its measurement and its copy is stored whole;
`StagedWithinLimits` is exact up to these bytes. A line such as `!build/` behind the
exclude patterns or in a `.gitignore` lets derived files into the runner's commit;
`DerivedStaysOut` excepts these commits. Two local
runs that ask for a number before either has its row share one attempt. A relative
local path is checked against `work_dir` and opened from the current directory. The
staging directory of a process that died stays; `cleanup` does not know of it.

## 6. Not modelled

* Which files `artifacts::export` copies (glob matching, pruning, byte and file
  limits) and which names `is_derived_path` prunes: functions over strings on
  which no modelled decision depends. The export is a step that may fail half-way.
* Heartbeats and completions that arrive after the runner gave them up: they are
  taken to be decided or stored at the latest when the call ends. Log calls, whose
  order matters, may arrive at any time.
* Two runs of the same attempt one after the other, in `Sandbox`: its row belongs to
  one run, and the passing run starts cleanups when that run is over. A cleanup
  beside the run is `sandbox_cleanup_race`, and `JobInv` holds beside it.
* Diagnostics, redaction and command rewriting: text. `doctor`, `version`, the
  parsing of `runner.toml` and serialization carry no state.
* The mock executor and mock control plane are test doubles.
* Docker, SQLite, git and the control plane are external and modelled by how the
  code uses them. The runner is assumed to have a configured name.

## 7. Plan

Done, most important first: a result must not be lost (`LeasedJob`), the daemon
around it (`Daemon`), the verdict (`Workflow`), the sandbox (`Sandbox`), what goes
into it (`Workspace`, `Admission`) and what comes out of it (`LocalRuns`).

The safety properties of all six components are proved, and `LeasedJob` and
`Workflow` are shown to be the steps that `Daemon` and `Sandbox` have for them.

Next, in this order:

1. `Sandbox` as the steps `Work` and `WorkUnpublished` of `LocalRuns` and as the
   execution of `LeasedJob`: a result `Ok` or `Err`, cancelled only by the token.
2. An abstract specification of a published branch (append-only, one runner commit
   per completed run) that `LocalRuns` implements.

Not planned: `Workspace` as the step `Prepare` of `LocalRuns`. The step only says
that the clone has the history of the remote at one moment, and `Workspace` keeps
no histories: it tells revisions apart by number.
