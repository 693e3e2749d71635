------------------------------- MODULE Daemon -------------------------------
(***************************************************************************)
(* The daemon of src/control/mod.rs over many leases, shutdowns, crashes   *)
(* and restarts: run_daemon (the permit semaphore, the lease loop, the     *)
(* drain), the reporting half of every run_leased_job, the completion      *)
(* outbox of crates/runner-core/src/journal.rs and its replay at startup.  *)
(* A job's execution is one phase here; LeasedJob opens it up.             *)
(*                                                                         *)
(* A key is a (job_id, attempt) pair: the outbox's primary key and the     *)
(* Idempotency-Key of a completion.  Leases are numbered in the order the  *)
(* control plane grants them, and the result of a lease's execution is     *)
(* named by the lease.  The control plane is external: it grants leases,   *)
(* stores the first result it gets for a key, takes a repetition of that   *)
(* result as success and answers 409 to a different one.                   *)
(***************************************************************************)
EXTENDS Naturals, FiniteSets, Sequences

CONSTANTS
  Keys,
  MaxLeases,          \* bound: leases the control plane grants in all
  Concurrency,        \* config.concurrency, at least 1
  CompletionAttempts, \* COMPLETION_ATTEMPTS
  Reissued            \* attempts the plane may lease more than once

ASSUME DaemonConstants ==
  /\ MaxLeases \in Nat
  /\ Concurrency \in Nat \ {0}
  /\ CompletionAttempts \in Nat \ {0}
  /\ Reissued \subseteq Keys

Leases == 1..MaxLeases

VARIABLES
  loop,      \* where run_daemon is
  shutdown,  \* is the shutdown token cancelled?
  permits,   \* free permits of the semaphore
  worker,    \* worker[l]: where the task of lease l is
  tries,     \* tries[l]: completion calls it has made
  todo,      \* replay: pending_completions() not yet looked at
  replayed,  \* replay: the entry under way, as a set of at most one key
  row,       \* row[k]: the lease whose result the outbox holds, 0 for none
  delivered, \* keys whose row has delivered_at set
  leased,    \* control plane: leased[l] is the key of the l-th lease
  accepted   \* control plane: the lease whose result it holds, 0 for none

loopVars   == <<loop, shutdown, permits>>
workerVars == <<worker, tries>>
replayVars == <<todo, replayed>>
outboxVars == <<row, delivered>>
planeVars  == <<leased, accepted>>
vars == <<loopVars, workerVars, replayVars, outboxVars, planeVars>>

LoopAt   == {"replay", "replay_send", "replay_mark", "acquire", "leasing",
             "idle", "drain", "exited", "down"}
Active   == {"working", "record", "send", "mark"}
WorkerAt == {"none", "over"} \cup Active

ActiveWorkers == {l \in Leases : worker[l] \in Active}
Pending       == {k \in Keys : row[k] # 0 /\ k \notin delivered}

Init ==
  /\ loop = "down" /\ shutdown = FALSE /\ permits = Concurrency
  /\ worker = [l \in Leases |-> "none"] /\ tries = [l \in Leases |-> 0]
  /\ todo = {} /\ replayed = {}
  /\ row = [k \in Keys |-> 0] /\ delivered = {}
  /\ leased = <<>> /\ accepted = [k \in Keys |-> 0]

-----------------------------------------------------------------------------
(* The control plane (external). *)

\* It leases a job it has no result for, under an attempt number it has not
\* used before unless that attempt is one of the reissued.
Leasable(k) ==
  /\ Len(leased) < MaxLeases
  /\ accepted[k] = 0
  /\ k \in Reissued \/ \A l \in 1..Len(leased) : leased[l] # k

Grants(k) == Leasable(k) /\ leased' = Append(leased, k)

\* It stores a result, or already holds this very result.
Stores(k, l) == accepted[k] \in {0, l}

-----------------------------------------------------------------------------
(* Process start, Ctrl-C and death. *)

\* Mutant: the outbox is not read at startup.
StartWithoutReplay ==
  /\ loop \in {"exited", "down"}
  /\ loop' = "replay" /\ shutdown' = FALSE /\ permits' = Concurrency
  /\ todo' = {} /\ replayed' = {}
  /\ UNCHANGED <<workerVars, outboxVars, planeVars>>

\* Journal::open and pending_completions(); if reading the outbox fails every
\* entry is skipped (ReplaySkip).
Start ==
  /\ loop \in {"exited", "down"}
  /\ loop' = "replay" /\ shutdown' = FALSE /\ permits' = Concurrency
  /\ todo' = Pending /\ replayed' = {}
  /\ UNCHANGED <<workerVars, outboxVars, planeVars>>

\* The signal task is spawned after the replay; an earlier Ctrl-C is a Crash.
Shutdown ==
  /\ loop \in {"acquire", "leasing", "idle", "drain"} /\ ~shutdown
  /\ shutdown' = TRUE
  /\ UNCHANGED <<loop, permits, workerVars, replayVars, outboxVars, planeVars>>

\* The process dies; only the journal survives.
Crash ==
  /\ loop \notin {"exited", "down"}
  /\ loop' = "down" /\ shutdown' = FALSE /\ permits' = Concurrency
  /\ worker' = [l \in Leases |-> IF worker[l] \in Active THEN "over"
                                                         ELSE worker[l]]
  /\ todo' = {} /\ replayed' = {}
  /\ UNCHANGED <<tries, outboxVars, planeVars>>

-----------------------------------------------------------------------------
(* replay_pending_completions: each pending row is looked at once.  The rows  *)
(* come ordered by updated_at, a wall-clock text, so any order can happen.    *)

\* The attempt is counted and the stored result is posted.
ReplaySend(k) ==
  /\ loop = "replay" /\ k \in todo
  /\ todo' = todo \ {k} /\ replayed' = {k}
  /\ loop' = "replay_send"
  /\ UNCHANGED <<shutdown, permits, workerVars, outboxVars, planeVars>>

\* The attempt cannot be recorded: `continue` with the next entry.
ReplaySkip(k) ==
  /\ loop = "replay" /\ k \in todo
  /\ todo' = todo \ {k}
  /\ UNCHANGED <<loopVars, workerVars, replayed, outboxVars, planeVars>>

ReplayOk(k) ==
  /\ loop = "replay_send" /\ k \in replayed
  /\ Stores(k, row[k])
  /\ accepted' = [accepted EXCEPT ![k] = row[k]]
  /\ loop' = "replay_mark"
  /\ UNCHANGED <<shutdown, permits, workerVars, replayVars, outboxVars, leased>>

\* Refused, unreachable, or stored with the answer lost: the row stays.
ReplayFail(k) ==
  /\ loop = "replay_send" /\ k \in replayed
  /\ \/ UNCHANGED accepted
     \/ Stores(k, row[k]) /\ accepted' = [accepted EXCEPT ![k] = row[k]]
  /\ loop' = "replay" /\ replayed' = {}
  /\ UNCHANGED <<shutdown, permits, workerVars, todo, outboxVars, leased>>

ReplayMark(k) ==
  /\ loop = "replay_mark" /\ k \in replayed
  /\ delivered' = delivered \cup {k}
  /\ loop' = "replay" /\ replayed' = {}
  /\ UNCHANGED <<shutdown, permits, workerVars, todo, row, planeVars>>

ReplayMarkFail(k) ==
  /\ loop = "replay_mark" /\ k \in replayed
  /\ loop' = "replay" /\ replayed' = {}
  /\ UNCHANGED <<shutdown, permits, workerVars, todo, outboxVars, planeVars>>

ReplayEnd ==
  /\ loop = "replay" /\ todo = {}
  /\ loop' = "acquire"
  /\ UNCHANGED <<shutdown, permits, workerVars, replayVars, outboxVars, planeVars>>

Replay == ReplayEnd \/ \E k \in Keys : \/ ReplaySend(k) \/ ReplaySkip(k)
                                       \/ ReplayOk(k) \/ ReplayFail(k)
                                       \/ ReplayMark(k) \/ ReplayMarkFail(k)

-----------------------------------------------------------------------------
(* The lease loop.  Its select!s pick at random among ready branches, so a    *)
(* permit or a lease may still be taken after the shutdown token is cancelled. *)

Acquire ==
  /\ loop = "acquire" /\ permits > 0
  /\ permits' = permits - 1 /\ loop' = "leasing"
  /\ UNCHANGED <<shutdown, workerVars, replayVars, outboxVars, planeVars>>

\* Ok(Some(job)): the permit moves into the spawned task.
LeaseSome(k) ==
  /\ loop = "leasing"
  /\ Grants(k)
  /\ worker' = [worker EXCEPT ![Len(leased) + 1] = "working"]
  /\ loop' = "acquire"
  /\ UNCHANGED <<shutdown, permits, tries, replayVars, outboxVars, accepted>>

\* Mutant: the permit of an empty lease is not dropped.
LeaseNoneKeepsPermit ==
  /\ loop = "leasing" /\ loop' = "idle"
  /\ UNCHANGED leased \/ \E k \in Keys : Grants(k)
  /\ UNCHANGED <<shutdown, permits, workerVars, replayVars, outboxVars, accepted>>

\* Ok(None) or Err: the permit is dropped before the wait.  With Err the
\* plane may have granted a lease the daemon never hears of.
LeaseNone ==
  /\ loop = "leasing"
  /\ permits' = permits + 1 /\ loop' = "idle"
  /\ UNCHANGED leased \/ \E k \in Keys : Grants(k)
  /\ UNCHANGED <<shutdown, workerVars, replayVars, outboxVars, accepted>>

IdleOver ==
  /\ loop = "idle"
  /\ loop' = "acquire"
  /\ UNCHANGED <<shutdown, permits, workerVars, replayVars, outboxVars, planeVars>>

\* Mutant: only the wait for a permit listens to the shutdown token.
BreakBeforeLeasing ==
  /\ shutdown /\ loop = "acquire"
  /\ loop' = "drain"
  /\ UNCHANGED <<shutdown, permits, workerVars, replayVars, outboxVars, planeVars>>

\* The shutdown branch of each select!; while leasing it drops the permit and
\* the request, which the plane may already have granted.
Break ==
  /\ shutdown /\ loop \in {"acquire", "leasing", "idle"}
  /\ loop' = "drain"
  /\ permits' = IF loop = "leasing" THEN permits + 1 ELSE permits
  /\ UNCHANGED leased \/ (loop = "leasing" /\ \E k \in Keys : Grants(k))
  /\ UNCHANGED <<shutdown, workerVars, replayVars, outboxVars, accepted>>

\* join_next() until every job task has ended.
Drained ==
  /\ loop = "drain" /\ ActiveWorkers = {}
  /\ loop' = "exited"
  /\ UNCHANGED <<shutdown, permits, workerVars, replayVars, outboxVars, planeVars>>

Loop == \/ Acquire \/ LeaseNone \/ IdleOver \/ Break \/ Drained
        \/ \E k \in Keys : LeaseSome(k)

-----------------------------------------------------------------------------
(* run_leased_job for lease l, from the end of its execution on. *)

\* The task ends, normally, with an error or by a panic: its permit is freed.
TaskOver(l) == /\ worker' = [worker EXCEPT ![l] = "over"]
               /\ permits' = permits + 1

\* Mutant: ON CONFLICT DO UPDATE, the newer result replaces the row.
WorkerRecordReplaces(l) ==
  /\ worker[l] = "working"
  /\ row' = [row EXCEPT ![leased[l]] = l]
  /\ worker' = [worker EXCEPT ![l] = "record"]
  /\ UNCHANGED <<loopVars, tries, replayVars, delivered, planeVars>>

\* Mutant: the result is sent without being recorded.
WorkerRecordForgets(l) ==
  /\ worker[l] = "working"
  /\ worker' = [worker EXCEPT ![l] = "record"]
  /\ UNCHANGED <<loopVars, tries, replayVars, outboxVars, planeVars>>

\* enqueue_completion: ON CONFLICT(job_id, attempt) DO NOTHING.
WorkerRecord(l) ==
  /\ worker[l] = "working"
  /\ row' = IF row[leased[l]] = 0 THEN [row EXCEPT ![leased[l]] = l] ELSE row
  /\ worker' = [worker EXCEPT ![l] = "record"]
  /\ UNCHANGED <<loopVars, tries, replayVars, delivered, planeVars>>

\* record_completion_attempt, then the call to the control plane.
WorkerSend(l) ==
  /\ worker[l] = "record"
  /\ tries' = [tries EXCEPT ![l] = @ + 1]
  /\ worker' = [worker EXCEPT ![l] = "send"]
  /\ UNCHANGED <<loopVars, replayVars, outboxVars, planeVars>>

WorkerOk(l) ==
  /\ worker[l] = "send" /\ Stores(leased[l], l)
  /\ accepted' = [accepted EXCEPT ![leased[l]] = l]
  /\ worker' = [worker EXCEPT ![l] = "mark"]
  /\ UNCHANGED <<loopVars, tries, replayVars, outboxVars, leased>>

\* Mutant: one completion attempt too many.
WorkerFailOneMore(l) ==
  /\ worker[l] = "send"
  /\ \/ UNCHANGED accepted
     \/ /\ Stores(leased[l], l)
        /\ accepted' = [accepted EXCEPT ![leased[l]] = l]
  /\ IF tries[l] <= CompletionAttempts
       THEN worker' = [worker EXCEPT ![l] = "record"] /\ UNCHANGED permits
       ELSE TaskOver(l)
  /\ UNCHANGED <<loop, shutdown, tries, replayVars, outboxVars, leased>>

\* Refused, timed out, or stored with the answer lost.
WorkerFail(l) ==
  /\ worker[l] = "send"
  /\ \/ UNCHANGED accepted
     \/ /\ Stores(leased[l], l)
        /\ accepted' = [accepted EXCEPT ![leased[l]] = l]
  /\ IF tries[l] < CompletionAttempts
       THEN worker' = [worker EXCEPT ![l] = "record"] /\ UNCHANGED permits
       ELSE TaskOver(l)
  /\ UNCHANGED <<loop, shutdown, tries, replayVars, outboxVars, leased>>

WorkerMark(l) ==
  /\ worker[l] = "mark"
  /\ delivered' = delivered \cup {leased[l]}
  /\ TaskOver(l)
  /\ UNCHANGED <<loop, shutdown, tries, replayVars, row, planeVars>>

\* A panic while draining the logs or a failed journal operation.
WorkerAborts(l) ==
  /\ worker[l] \in {"working", "record", "mark"}
  /\ TaskOver(l)
  /\ UNCHANGED <<loop, shutdown, tries, replayVars, outboxVars, planeVars>>

Worker(l) == \/ WorkerRecord(l) \/ WorkerSend(l) \/ WorkerOk(l)
             \/ WorkerFail(l) \/ WorkerMark(l) \/ WorkerAborts(l)

Next == \/ Start \/ Shutdown \/ Crash \/ Replay \/ Loop
        \/ \E l \in Leases : Worker(l)

Spec == Init /\ [][Next]_vars

(***************************************************************************)
(* The runtime polls every task; each wait of the loop and of a worker is  *)
(* bounded by a timer or by the job's deadline.                            *)
(***************************************************************************)
FairSpec == /\ Spec
            /\ WF_vars(Replay) /\ WF_vars(Loop)
            /\ WF_vars(Break)
            /\ \A l \in Leases : WF_vars(Worker(l))

(***************************************************************************)
(* An operator who restarts the daemon, and a control plane and a journal  *)
(* that do not fail every replay of an attempt that was leased once.       *)
(* Nothing is assumed of a reissued one: the plane may hold another result *)
(* for it and refuse the row at every start.                               *)
(***************************************************************************)
RecoverySpec == /\ FairSpec /\ WF_vars(Start)
                /\ \A k \in Keys \ Reissued : /\ SF_vars(ReplaySend(k))
                                              /\ SF_vars(ReplayOk(k))
                                              /\ SF_vars(ReplayMark(k))

-----------------------------------------------------------------------------
(* Properties *)

\* Every variable stays in its type.
TypeOK ==
  /\ loop \in LoopAt /\ shutdown \in BOOLEAN /\ permits \in Nat
  /\ worker \in [Leases -> WorkerAt]
  /\ tries \in [Leases -> 0..CompletionAttempts]
  /\ todo \subseteq Keys /\ replayed \subseteq Keys
  /\ row \in [Keys -> 0..MaxLeases] /\ delivered \subseteq Keys
  /\ leased \in Seq(Keys) /\ Len(leased) <= MaxLeases
  /\ accepted \in [Keys -> 0..MaxLeases]

\* Permits are neither lost nor invented: the free ones, the one the loop
\* holds while it waits for a lease and those of the job tasks add up to the
\* configured concurrency, whatever way a task or a wait ends.
PermitsConserved ==
  permits + Cardinality(ActiveWorkers) + (IF loop = "leasing" THEN 1 ELSE 0)
    = Concurrency

\* The result the control plane holds for an attempt is the one in the
\* outbox, so a replay repeats it and never contradicts it, when the control
\* plane uses an attempt number once.
OutboxMatchesPlane ==
  \A k \in Keys \ Reissued : accepted[k] # 0 => row[k] = accepted[k]

\* Written first, never replaced, delivered only when stored: through
\* retries, replays, crashes and a second lease of the same attempt.
Outbox == INSTANCE OutboxContract WITH
  Payloads <- Leases,
  recorded <- [k \in Keys |-> {row[k]} \ {0}],
  accepted <- [k \in Keys |-> {accepted[k]} \ {0}]
KeepsOutboxContract == Outbox!Spec

\* A shutdown ends the process: the loop is left and every job task ends.
ShutdownDrains == shutdown ~> (loop \in {"exited", "down"})

\* A result in the outbox reaches the control plane if the daemon is
\* restarted again and again, although one entry's failure, a crash between
\* storing and marking, or an exhausted retry budget came before, and
\* although another row is refused at every start and never leaves.
PendingRecovered ==
  []<>(loop = "replay")
    => \A k \in Keys \ Reissued : (k \in Pending) ~> (k \in delivered)
============================================================================
