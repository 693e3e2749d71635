----------------------------- MODULE LeasedJob -----------------------------
(***************************************************************************)
(* One leased job inside the daemon: run_leased_job of                     *)
(* src/control/mod.rs and the three tasks it is made of.                   *)
(*                                                                         *)
(*   worker     the task that admits and executes the job, drains the log  *)
(*              queue, stops the heartbeat, records the result in the      *)
(*              outbox and sends it to the control plane;                  *)
(*   heartbeat  the spawned task that renews the lease every               *)
(*              HEARTBEAT_INTERVAL and cancels the job when the lease is   *)
(*              refused or the control plane stays unreachable;            *)
(*   uploader   the spawned task that takes log chunks from the bounded    *)
(*              channel and posts each one at most LOG_UPLOAD_ATTEMPTS     *)
(*              times.                                                     *)
(*                                                                         *)
(* They share the job's cancellation token and the log channel.  The       *)
(* control plane is external: every call may be answered, refused, lost on *)
(* the way there or lost on the way back, and a log call the runner has    *)
(* given up may still arrive, at any later time.  Timers are not clocked:  *)
(* a timeout may fire whenever the call it guards is pending.              *)
(***************************************************************************)
EXTENDS Naturals, Sequences

CONSTANTS
  LogQueueCapacity,       \* LOG_QUEUE_CAPACITY
  LogUploadAttempts,      \* LOG_UPLOAD_ATTEMPTS
  HeartbeatFailureLimit,  \* HEARTBEAT_FAILURE_LIMIT
  CompletionAttempts,     \* COMPLETION_ATTEMPTS
  MaxChunks,              \* bound: log chunks one execution emits
  DecisionBody,           \* how the plane writes a 200 heartbeat body
  JournalFaults           \* may a journal operation fail?

ASSUME LeasedJobConstants ==
  /\ LogQueueCapacity \in Nat \ {0}
  /\ LogUploadAttempts \in Nat \ {0}
  /\ HeartbeatFailureLimit \in Nat \ {0}
  /\ CompletionAttempts \in Nat \ {0}
  /\ MaxChunks \in Nat
  /\ DecisionBody \in {"string", "object"}
  /\ JournalFaults \in BOOLEAN

VARIABLES
  worker,     \* where run_leased_job is
  token,      \* is the job's CancellationToken cancelled?
  shutdown,   \* has the daemon's shutdown token been cancelled?
  heartbeat,  \* where the heartbeat task is
  failures,   \* its count of consecutive failed heartbeats
  sequence,   \* DockerExecutor.log_sequence
  dropped,    \* DockerExecutor.dropped_log_chunks
  queue,      \* the log channel, oldest chunk first
  uploader,   \* where the log uploader is
  chunk,      \* the chunk it has in hand
  retries,    \* upload attempts of that chunk that have failed
  loss,       \* its local loss: has it given a chunk up?
  logLoss,    \* the worker's local log_loss
  result,     \* the worker's local result, but for log_truncated
  truncated,  \* result.log_truncated
  row,        \* the job's row of completion_outbox
  tries,      \* completion calls made so far
  received,   \* control plane: the log chunks it has stored
  late,       \* the log calls given up that may still arrive, by their chunk
  accepted,   \* control plane: has it stored the job's result?
  refusals,   \* control plane: times it refused the lease since it last renewed it
  missed      \* heartbeats in a row that brought no renewal back to the runner

planeVars     == <<received, late, accepted, refusals, missed>>
heartbeatVars == <<heartbeat, failures>>
uploadVars    == <<uploader, chunk, retries, loss>>
logVars       == <<sequence, dropped, queue, uploadVars>>
resultVars    == <<result, truncated>>
reportVars    == <<logLoss, resultVars, row, tries>>
vars == <<worker, token, shutdown, heartbeatVars, logVars, reportVars,
          planeVars>>

-----------------------------------------------------------------------------
(* Program counters of the three tasks. *)

WorkerOpen  == {"admit", "execute"}            \* a log Sender is still alive
WorkerFlush == {"flush", "abort"}
WorkerSend  == {"record", "send", "mark"}      \* the row exists
WorkerFinal == {"delivered", "exhausted", "errored", "panicked"}
WorkerAt    == WorkerOpen \cup WorkerFlush \cup {"join", "enqueue"}
                 \cup WorkerSend \cup WorkerFinal

HeartbeatAt == {"waiting", "calling", "stopped"}
UploaderAt  == {"receiving", "sending", "exited"}
RowStates   == {"none", "pending", "delivered"}

Statuses == {"completed", "failed", "cancelled", "timed_out"}
Kinds    == {"none", "execution", "policy", "infrastructure",
             "cancellation", "timeout"}
Origins  == {"rejected", "run_ok", "run_err"}

\* The parts of a JobResult the properties tell apart: which branch of
\* run_leased_job built it, its status and its FailureInfo.kind.
Results  == [origin : Origins, status : Statuses, kind : Kinds]
NoResult == [origin |-> "none", status |-> "none", kind |-> "none"]

\* failed_result and failed_executor_result: always "failed", and the log is
\* always reported whole (JobResult::failed_from_failure).
failed_result(origin, kind) ==
  /\ result' = [origin |-> origin, status |-> "failed", kind |-> kind]
  /\ truncated' = FALSE

\* What Executor::run returns: the failure kind follows from the status, and
\* log_truncated holds when max_log_bytes was reached or a chunk was dropped.
FailureKindOf(status) ==
  CASE status = "completed" -> "none"
    [] status = "cancelled" -> "cancellation"
    [] status = "timed_out" -> "timeout"
    [] OTHER                -> "execution"

\* Mutant: chunks the full channel dropped do not count as truncation.
executor_result_overLimitOnly(status, overLimit) ==
  /\ result' = [origin |-> "run_ok", status |-> status,
                kind |-> FailureKindOf(status)]
  /\ truncated' = overLimit

executor_result(status, overLimit) ==
  /\ result' = [origin |-> "run_ok", status |-> status,
                kind |-> FailureKindOf(status)]
  /\ truncated' = (overLimit \/ dropped > 0)

-----------------------------------------------------------------------------
Init ==
  /\ worker = "admit" /\ token = FALSE /\ shutdown = FALSE
  /\ heartbeat = "waiting" /\ failures = 0
  /\ sequence = 0 /\ dropped = 0 /\ queue = <<>>
  /\ uploader = "receiving" /\ chunk = 0 /\ retries = 0 /\ loss = FALSE
  /\ logLoss = FALSE /\ result = NoResult /\ truncated = FALSE
  /\ row = "none" /\ tries = 0
  /\ received = {} /\ late = {} /\ accepted = FALSE
  /\ refusals = 0 /\ missed = 0

-----------------------------------------------------------------------------
(* The daemon's Ctrl-C handler cancels the parent token. *)

Shutdown ==
  /\ ~shutdown
  /\ shutdown' = TRUE /\ token' = TRUE
  /\ UNCHANGED <<worker, heartbeatVars, logVars, reportVars, planeVars>>

-----------------------------------------------------------------------------
(* The heartbeat task. *)

\* The sleep branch of the select wins.  It may win against a token cancelled
\* at the same instant: select! picks among ready branches at random.
HeartbeatTick ==
  /\ heartbeat = "waiting"
  /\ heartbeat' = "calling"
  /\ UNCHANGED <<worker, token, shutdown, failures, logVars, reportVars,
                 planeVars>>

HeartbeatExit ==
  /\ heartbeat = "waiting" /\ token
  /\ heartbeat' = "stopped"
  /\ UNCHANGED <<worker, token, shutdown, failures, logVars, reportVars,
                 planeVars>>

\* Mutant: the loop sleeps and calls again whatever the token says.
NextRoundAlwaysSleeps == "waiting"

\* Where the loop goes after an answer that does not end it: a new round, or
\* out at once when the token is cancelled (the new sleep is not ready yet).
NextRound == IF token THEN "stopped" ELSE "waiting"

\* The answers of the control plane to a heartbeat.  Status 0 stands for a
\* transport error or a request timeout: the plane may have decided all the
\* same ("none": the call never reached it), only its answer is lost.
Decisions == {"continue", "cancel", "lease_lost"}
Answers   == [status : {204, 409, 410, 500}, decision : {"none"}]
               \cup [status : {200}, decision : Decisions]
               \cup [status : {0}, decision : Decisions \cup {"none"}]

\* HttpControlPlane::heartbeat: 204 renews, 409 and 410 end the lease, any
\* other success body is read as HeartbeatDecision, a bare JSON string.
decode(answer) ==
  CASE answer.status = 204                               -> "continue"
    [] answer.status \in {409, 410}                      -> "lease_lost"
    [] answer.status = 200 /\ DecisionBody = "string"    -> answer.decision
    [] OTHER                                             -> "error"

\* What the control plane decided, whatever reached the runner of it.
MeansRenewed(answer) == answer.status = 204 \/ answer.decision = "continue"
MeansRefused(answer) == \/ answer.status \in {409, 410}
                        \/ answer.decision \in {"cancel", "lease_lost"}

PlaneAnswers(answer) ==
  /\ refusals' = IF MeansRenewed(answer) THEN 0
                 ELSE IF MeansRefused(answer) THEN refusals + 1 ELSE refusals
  /\ missed' = IF MeansRenewed(answer) /\ answer.status # 0
                 THEN 0 ELSE missed + 1
  /\ UNCHANGED <<received, late, accepted>>

\* Mutant: a renewed lease does not reset the failure count.
HeartbeatContinueKeepsCount(answer) ==
  /\ heartbeat = "calling" /\ decode(answer) = "continue"
  /\ heartbeat' = NextRound
  /\ PlaneAnswers(answer)
  /\ UNCHANGED <<worker, token, shutdown, failures, logVars, reportVars>>

HeartbeatContinue(answer) ==
  /\ heartbeat = "calling" /\ decode(answer) = "continue"
  /\ failures' = 0
  /\ heartbeat' = NextRound
  /\ PlaneAnswers(answer)
  /\ UNCHANGED <<worker, token, shutdown, logVars, reportVars>>

\* Cancel or LeaseLost: the job is cancelled and the task ends.
HeartbeatRefused(answer) ==
  /\ heartbeat = "calling" /\ decode(answer) \in {"cancel", "lease_lost"}
  /\ heartbeat' = "stopped" /\ token' = TRUE
  /\ PlaneAnswers(answer)
  /\ UNCHANGED <<worker, shutdown, failures, logVars, reportVars>>

\* Mutant: a call that got no answer at all is not counted.
HeartbeatErrorAnsweredOnly(answer) ==
  /\ heartbeat = "calling" /\ decode(answer) = "error"
  /\ failures' = IF answer.status = 0 THEN failures ELSE failures + 1
  /\ IF failures' >= HeartbeatFailureLimit
       THEN token' = TRUE /\ heartbeat' = "stopped"
       ELSE token' = token /\ heartbeat' = NextRound
  /\ PlaneAnswers(answer)
  /\ UNCHANGED <<worker, shutdown, logVars, reportVars>>

\* Err: the job is cancelled at the HEARTBEAT_FAILURE_LIMIT-th in a row.
HeartbeatError(answer) ==
  /\ heartbeat = "calling" /\ decode(answer) = "error"
  /\ failures' = failures + 1
  /\ IF failures' >= HeartbeatFailureLimit
       THEN token' = TRUE /\ heartbeat' = "stopped"
       ELSE token' = token /\ heartbeat' = NextRound
  /\ PlaneAnswers(answer)
  /\ UNCHANGED <<worker, shutdown, logVars, reportVars>>

Heartbeat ==
  \/ HeartbeatTick \/ HeartbeatExit
  \/ \E answer \in Answers : \/ HeartbeatContinue(answer)
                             \/ HeartbeatRefused(answer)
                             \/ HeartbeatError(answer)

-----------------------------------------------------------------------------
(* Executor::run, seen from the daemon: it emits log chunks and returns. *)

\* emit_log: the sequence number is spent even when the channel is full.
emit_log ==
  /\ worker = "execute" /\ sequence < MaxChunks
  /\ sequence' = sequence + 1
  /\ IF Len(queue) < LogQueueCapacity
       THEN queue' = Append(queue, sequence') /\ dropped' = dropped
       ELSE queue' = queue /\ dropped' = dropped + 1
  /\ UNCHANGED <<worker, token, shutdown, heartbeatVars, uploadVars, reportVars,
                 planeVars>>

\* Ok(result).  "cancelled" is decided by reading the token; every other
\* status may be returned although the token was cancelled a moment later.
RunOk ==
  /\ worker = "execute"
  /\ \E status \in Statuses, overLimit \in BOOLEAN :
       /\ status = "cancelled" => token
       /\ executor_result(status, overLimit)
  /\ worker' = "flush"
  /\ UNCHANGED <<token, shutdown, heartbeatVars, logVars, logLoss, row, tries,
                 planeVars>>

\* Err(error): the daemon reads the token to tell cancellation from failure.
RunErr ==
  /\ worker = "execute"
  /\ failed_result("run_err",
                   IF token THEN "cancellation" ELSE "infrastructure")
  /\ worker' = "flush"
  /\ UNCHANGED <<token, shutdown, heartbeatVars, logVars, logLoss, row, tries,
                 planeVars>>

-----------------------------------------------------------------------------
(* The log uploader. *)

UploadReceive ==
  /\ uploader = "receiving" /\ queue # <<>>
  /\ uploader' = "sending" /\ chunk' = Head(queue) /\ retries' = 0
  /\ queue' = Tail(queue)
  /\ UNCHANGED <<worker, token, shutdown, heartbeatVars, sequence, dropped, loss,
                 reportVars, planeVars>>

\* recv() returns None: the channel is empty and every Sender is dropped.
UploadExit ==
  /\ uploader = "receiving" /\ queue = <<>> /\ worker \notin WorkerOpen
  /\ uploader' = "exited"
  /\ UNCHANGED <<worker, token, shutdown, heartbeatVars, sequence, dropped,
                 queue, chunk, retries, loss, reportVars, planeVars>>

UploadOk ==
  /\ uploader = "sending"
  /\ uploader' = "receiving"
  /\ received' = received \cup {chunk}
  /\ UNCHANGED <<worker, token, shutdown, heartbeatVars, sequence, dropped,
                 queue, chunk, retries, loss, reportVars, late, accepted,
                 refusals, missed>>

\* The attempt of the chunk in hand is dropped without an answer: it was lost
\* on its way, or the plane stores the chunk now or at any time later.
MayStillArrive == late' \in {late, late \cup {chunk}}

\* A call the runner no longer waits for reaches the control plane.
LateArrives(c) ==
  /\ c \in late
  /\ late' = late \ {c} /\ received' = received \cup {c}
  /\ UNCHANGED <<worker, token, shutdown, heartbeatVars, logVars, reportVars,
                 accepted, refusals, missed>>

\* Mutant: one upload attempt too many.
UploadFailOneMore ==
  /\ uploader = "sending"
  /\ retries' = retries + 1
  /\ IF retries' <= LogUploadAttempts
       THEN uploader' = uploader /\ loss' = loss
       ELSE uploader' = "receiving" /\ loss' = TRUE
  /\ MayStillArrive
  /\ UNCHANGED <<worker, token, shutdown, heartbeatVars, sequence, dropped,
                 queue, chunk, reportVars, received, accepted, refusals, missed>>

\* Mutant: a chunk that failed goes behind the chunks that wait.
UploadFailRequeues ==
  /\ uploader = "sending"
  /\ IF retries + 1 < LogUploadAttempts /\ queue # <<>>
       THEN /\ chunk' = Head(queue) /\ queue' = Append(Tail(queue), chunk)
            /\ UNCHANGED <<uploader, retries, loss>>
       ELSE /\ uploader' = "receiving" /\ loss' = TRUE
            /\ UNCHANGED <<chunk, queue, retries>>
  /\ MayStillArrive
  /\ UNCHANGED <<worker, token, shutdown, heartbeatVars, sequence, dropped,
                 reportVars, received, accepted, refusals, missed>>

\* An error or a timed-out attempt: the chunk may arrive all the same, even
\* behind later ones.  The last attempt gives it up and records the loss.
UploadFail ==
  /\ uploader = "sending"
  /\ retries' = retries + 1
  /\ IF retries' < LogUploadAttempts
       THEN uploader' = uploader /\ loss' = loss
       ELSE uploader' = "receiving" /\ loss' = TRUE
  /\ MayStillArrive
  /\ UNCHANGED <<worker, token, shutdown, heartbeatVars, sequence, dropped,
                 queue, chunk, reportVars, received, accepted, refusals, missed>>

Upload == UploadReceive \/ UploadExit \/ UploadOk \/ UploadFail

-----------------------------------------------------------------------------
(* The worker: admission. *)

Admit ==
  /\ worker = "admit"
  /\ worker' = "execute"
  /\ UNCHANGED <<token, shutdown, heartbeatVars, logVars, reportVars, planeVars>>

\* The policy rejects the job, no executor can be built, or none satisfies
\* the job's requirements: a failed result without an execution.
Reject ==
  /\ worker = "admit"
  /\ \E kind \in {"policy", "infrastructure"} :
       failed_result("rejected", kind)
  /\ worker' = "flush"
  /\ UNCHANGED <<token, shutdown, heartbeatVars, logVars, logLoss, row, tries,
                 planeVars>>

-----------------------------------------------------------------------------
(* The worker: draining the log channel. *)

\* Mutant: the heartbeat task is awaited without being cancelled.
FlushCleanUncancelled ==
  /\ worker = "flush" /\ uploader = "exited" /\ ~loss
  /\ worker' = "join"
  /\ UNCHANGED <<token, shutdown, heartbeatVars, logVars, reportVars, planeVars>>

\* The uploader ended in time and lost nothing; cancellation.cancel().
FlushClean ==
  /\ worker = "flush" /\ uploader = "exited" /\ ~loss
  /\ worker' = "join" /\ token' = TRUE
  /\ UNCHANGED <<shutdown, heartbeatVars, logVars, reportVars, planeVars>>

\* The uploader ended in time but had given a chunk up.  timeout(&mut
\* log_upload) has taken the task's output, and `log_upload.await` polls the
\* finished JoinHandle a second time, which panics: the job task unwinds, its
\* permit is dropped, the spawned heartbeat task stays behind.
FlushLossy ==
  /\ worker = "flush" /\ uploader = "exited" /\ loss
  /\ logLoss' = TRUE
  /\ worker' = "panicked"
  /\ UNCHANGED <<token, shutdown, heartbeatVars, logVars, resultVars, row, tries,
                 planeVars>>

\* LOG_FLUSH_TIMEOUT passed first: the uploader is told to abort.
FlushTimeout ==
  /\ worker = "flush" /\ uploader # "exited"
  /\ logLoss' = TRUE
  /\ worker' = "abort"
  /\ UNCHANGED <<token, shutdown, heartbeatVars, logVars, resultVars, row, tries,
                 planeVars>>

\* The aborted task is joined.  A call it had under way may still arrive.
AbortJoined ==
  /\ worker = "abort"
  /\ uploader' = "exited"
  /\ IF uploader = "sending" THEN MayStillArrive ELSE late' = late
  /\ worker' = "join" /\ token' = TRUE
  /\ UNCHANGED <<shutdown, heartbeatVars, sequence, dropped, queue, chunk,
                 retries, loss, reportVars, received, accepted, refusals,
                 missed>>

\* Mutant: the heartbeat task is cancelled but not awaited.
HeartbeatNotJoined ==
  /\ worker = "join"
  /\ truncated' = (truncated \/ logLoss)
  /\ worker' = "enqueue"
  /\ UNCHANGED <<token, shutdown, heartbeatVars, logVars, logLoss, result, row,
                 tries, planeVars>>

\* heartbeat.await, then log_truncated is raised when log_loss was seen.
HeartbeatJoined ==
  /\ worker = "join" /\ heartbeat = "stopped"
  /\ truncated' = (truncated \/ logLoss)
  /\ worker' = "enqueue"
  /\ UNCHANGED <<token, shutdown, heartbeatVars, logVars, logLoss, result, row,
                 tries, planeVars>>

-----------------------------------------------------------------------------
(* The worker: reporting the result. *)

\* Mutant: the result is sent without being written to the outbox.
enqueue_completion_skipped ==
  /\ worker = "enqueue"
  /\ worker' = "record"
  /\ UNCHANGED <<token, shutdown, heartbeatVars, logVars, logLoss, resultVars,
                 row, tries, planeVars>>

enqueue_completion ==
  /\ worker = "enqueue"
  /\ row' = "pending"
  /\ worker' = "record"
  /\ UNCHANGED <<token, shutdown, heartbeatVars, logVars, logLoss, resultVars, tries,
                 planeVars>>

record_completion_attempt ==
  /\ worker = "record"
  /\ tries' = tries + 1
  /\ worker' = "send"
  /\ UNCHANGED <<token, shutdown, heartbeatVars, logVars, logLoss, resultVars, row,
                 planeVars>>

CompleteOk ==
  /\ worker = "send"
  /\ accepted' = TRUE
  /\ worker' = "mark"
  /\ UNCHANGED <<token, shutdown, heartbeatVars, logVars, reportVars, received,
                 late, refusals, missed>>

\* An error status, a lost answer or COMPLETION_ATTEMPT_TIMEOUT: the plane
\* may have stored the result.  After the last attempt the worker gives up.
CompleteFail ==
  /\ worker = "send"
  /\ accepted' \in {accepted, TRUE}
  /\ worker' = IF tries < CompletionAttempts THEN "record" ELSE "exhausted"
  /\ UNCHANGED <<token, shutdown, heartbeatVars, logVars, reportVars, received,
                 late, refusals, missed>>

mark_completion_delivered ==
  /\ worker = "mark"
  /\ row' = "delivered"
  /\ worker' = "delivered"
  /\ UNCHANGED <<token, shutdown, heartbeatVars, logVars, logLoss, resultVars, tries,
                 planeVars>>

\* A `?` on a journal operation ends run_leased_job with an error.
JournalError ==
  /\ JournalFaults
  /\ worker \in {"enqueue", "record", "mark"}
  /\ worker' = "errored"
  /\ UNCHANGED <<token, shutdown, heartbeatVars, logVars, reportVars, planeVars>>

Finish == RunOk \/ RunErr

Report == \/ enqueue_completion \/ record_completion_attempt \/ CompleteOk
          \/ CompleteFail \/ mark_completion_delivered \/ JournalError

Worker == \/ Admit \/ Reject \/ FlushClean \/ FlushLossy \/ FlushTimeout
          \/ AbortJoined \/ HeartbeatJoined \/ Report

\* All three tasks are over: the only state with nothing left to do.
Over ==
  /\ worker \in WorkerFinal /\ heartbeat = "stopped" /\ uploader = "exited"
  /\ UNCHANGED vars

Next == \/ Shutdown \/ Heartbeat \/ Upload \/ emit_log \/ Finish \/ Worker
        \/ \E c \in late : LateArrives(c)
        \/ Over

(***************************************************************************)
(* Fairness.  Each task is polled by the Tokio runtime while it can move.  *)
(* Finish is fair because every wait of Executor::run is bounded by the    *)
(* job's deadline; the calls to the control plane end because the HTTP     *)
(* client has a request timeout.  Nothing is assumed of the control plane  *)
(* or of Shutdown.                                                         *)
(***************************************************************************)
Spec == /\ Init /\ [][Next]_vars
        /\ WF_vars(Worker) /\ WF_vars(Finish)
        /\ WF_vars(Heartbeat) /\ WF_vars(Upload)

-----------------------------------------------------------------------------
(* Properties *)

\* Every variable stays in its type; no counter passes its configured limit.
TypeOK ==
  /\ worker \in WorkerAt /\ token \in BOOLEAN /\ shutdown \in BOOLEAN
  /\ heartbeat \in HeartbeatAt /\ failures \in 0..HeartbeatFailureLimit
  /\ sequence \in 0..MaxChunks /\ dropped \in 0..MaxChunks
  /\ queue \in Seq(1..MaxChunks) /\ Len(queue) <= LogQueueCapacity
  /\ uploader \in UploaderAt /\ chunk \in 0..MaxChunks
  /\ retries \in 0..LogUploadAttempts /\ loss \in BOOLEAN
  /\ logLoss \in BOOLEAN /\ result \in Results \cup {NoResult}
  /\ truncated \in BOOLEAN
  /\ row \in RowStates /\ tries \in 0..CompletionAttempts
  /\ received \subseteq 1..MaxChunks /\ late \subseteq 1..MaxChunks
  /\ accepted \in BOOLEAN /\ refusals \in 0..HeartbeatFailureLimit
  /\ missed \in 0..HeartbeatFailureLimit

\* A result the executor returned and that says the log is whole
\* (log_truncated = false) is recorded only when the control plane holds
\* every chunk the execution emitted: neither the full channel, nor a chunk
\* whose upload attempts ran out, nor the flush deadline loses one silently.
LogLossReported ==
  (row # "none" /\ result.origin = "run_ok" /\ ~truncated)
    => 1..sequence \subseteq received

\* The same for every result, the ones built from an executor error included.
EveryLogLossReported ==
  (row # "none" /\ ~truncated) => 1..sequence \subseteq received

\* A job is reported as cancelled only because of the daemon's shutdown, a
\* refusal the control plane really gave, or HEARTBEAT_FAILURE_LIMIT
\* heartbeats in a row that brought no renewal back.
CancellationHasCause ==
  result.kind = "cancellation"
    => shutdown \/ refusals > 0 \/ missed >= HeartbeatFailureLimit

\* A refusal cancels the job even when its answer is lost on the way back: once
\* the control plane has refused the lease HEARTBEAT_FAILURE_LIMIT times without
\* renewing it in between, whatever answers reached the runner, the token is
\* cancelled.
RefusalCancels == ~token => refusals < HeartbeatFailureLimit

\* The lease is renewed while the job may run uncancelled, for the heartbeat
\* task never ends without cancelling it, and silent once the result is in the
\* outbox: the runner starts no heartbeat and no log call beside the completion.
RenewedThenQuiet ==
  /\ ~token => heartbeat # "stopped"
  /\ row # "none" => heartbeat = "stopped" /\ uploader = "exited"

\* The outbox says delivered only when the control plane has the result.
DeliveredIsAccepted == row = "delivered" => accepted

\* Chunks reach the control plane in the order they were emitted, retries and
\* the call of an aborted uploader included.  Only the late call of a chunk that
\* the uploader had given up can bring one behind its successors, and that loss
\* is on record by then.
UploadsInOrder ==
  [][(\E old \in received, new \in received' \ received : old > new) => loss]_vars

\* When run_leased_job ends, by whatever path, the result is in the outbox.
ResultRecorded == worker \in WorkerFinal => row # "none"

\* The worker never waits for ever: not for the uploader, not for the
\* heartbeat task it joins, not for the control plane.
WorkerEnds == <>(worker \in WorkerFinal)

\* A cancelled job stops renewing its lease.
CancelEndsHeartbeat == token ~> (heartbeat = "stopped")

\* The three tasks together keep the contract of a lease.
Contract == INSTANCE LeaseContract WITH
  phase <- CASE worker \in WorkerFinal -> "closed"
             [] worker \in WorkerSend  -> "reporting"
             [] OTHER                  -> "working"
KeepsContract == Contract!Spec
============================================================================
