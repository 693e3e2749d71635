-------------------------- MODULE LeasedJobProofs --------------------------
(***************************************************************************)
(* Proofs about LeasedJob, for every queue capacity, retry budget,         *)
(* heartbeat limit and number of log chunks.                               *)
(***************************************************************************)
EXTENDS LeasedJob, TLAPS

-----------------------------------------------------------------------------
(* The inductive invariant, one conjunct per concern. *)

\* The workers that have passed the flush, and those that have also joined the
\* heartbeat task.
Flushed == {"join", "enqueue", "record", "send", "mark",
            "delivered", "exhausted", "errored"}
Joined  == Flushed \ {"join"}

\* Why no counter passes its limit.
Counters ==
  /\ dropped <= sequence
  /\ heartbeat # "stopped" => failures < HeartbeatFailureLimit
                              /\ missed <= failures
                              /\ refusals <= failures
  /\ uploader = "sending" => retries < LogUploadAttempts
                              /\ chunk \in 1..MaxChunks
  /\ worker \notin {"send", "mark"} \cup WorkerFinal
       => tries < CompletionAttempts

\* Until a loss is on record every emitted chunk is stored, queued or in hand.
Accounting ==
  (dropped = 0 /\ ~loss /\ ~logLoss) =>
     \A s \in 1..sequence :
        \/ s \in received
        \/ \E i \in 1..Len(queue) : queue[i] = s
        \/ uploader = "sending" /\ chunk = s

\* How far the uploader is when the worker is where it is.
Drained ==
  /\ worker \in WorkerOpen => ~logLoss /\ uploader # "exited"
  /\ worker = "flush" => ~logLoss
  /\ worker \in {"abort", "panicked"} => logLoss
  /\ (uploader = "exited" /\ ~logLoss) => queue = <<>>
  /\ worker \in Flushed => uploader = "exited"
  /\ (worker \in Flushed /\ ~logLoss) => ~loss

\* What log_truncated has been told by then, and when the row appears.
Reported ==
  /\ (result.origin = "run_ok" /\ ~truncated) => dropped = 0
  /\ (result.origin = "run_ok") => worker \notin WorkerOpen
  /\ (worker \in Joined /\ logLoss) => truncated
  /\ row # "none" => worker \in Joined
  /\ worker = "mark" => accepted
  /\ row = "delivered" => accepted

\* What may have cancelled the token before the worker does: the shutdown, or
\* the heartbeat task, which ends with it, so that its counts are final.
Caused ==
  \/ shutdown
  \/ heartbeat = "stopped"
       /\ (refusals > 0 \/ missed >= HeartbeatFailureLimit)

\* The heartbeat task and the token.
Cancelling ==
  /\ heartbeat = "stopped" => token
  /\ worker \in Joined => heartbeat = "stopped"
  /\ DecisionBody = "string" =>
       /\ heartbeat # "stopped" => failures = missed
       /\ token /\ worker \in WorkerOpen => Caused
       /\ result.kind = "cancellation" => Caused

\* Why chunks arrive in order: those sent precede those queued, which are
\* sorted, and the last one sent is the one in hand.  While no chunk has been
\* given up, a call that may still arrive with a chunk the plane has not seen
\* carries that one.
Ordered ==
  /\ \A i, j \in 1..Len(queue) : i < j => queue[i] < queue[j]
  /\ \A i \in 1..Len(queue) : queue[i] <= sequence
  /\ chunk <= sequence
  /\ \A i \in 1..Len(queue) : chunk < queue[i]
  /\ \A r \in received \cup late : r <= chunk
  /\ ~loss => \A c \in late \ received : uploader # "receiving" /\ c = chunk

IInv == /\ TypeOK /\ Counters /\ Accounting /\ Drained /\ Reported
        /\ Cancelling /\ Ordered

-----------------------------------------------------------------------------
(* What the heartbeat decoder preserves of the control plane's meaning. *)

\* HttpControlPlane::heartbeat takes no other answer for a renewal or a refusal;
\* when a 200 body is a bare string it understands every answer that arrives as
\* it was meant.
LEMMA DecodeMeaning ==
  ASSUME NEW answer \in Answers
  PROVE  /\ decode(answer) = "continue" => MeansRenewed(answer)
         /\ DecisionBody = "string" =>
              /\ decode(answer) = "continue"
                   <=> MeansRenewed(answer) /\ answer.status # 0
              /\ decode(answer) \in {"cancel", "lease_lost"}
                   <=> MeansRefused(answer) /\ answer.status # 0
         /\ decode(answer) = "continue" => answer.status # 0
         /\ decode(answer) \in {"cancel", "lease_lost"}
              => MeansRefused(answer) /\ ~MeansRenewed(answer)
  BY DEF Answers, Decisions, decode, MeansRenewed, MeansRefused

-----------------------------------------------------------------------------
(* The log channel as a sequence. *)

\* What try_send leaves in the channel.
LEMMA AppendFacts ==
  ASSUME NEW S, NEW q \in Seq(S), NEW e \in S
  PROVE  /\ Append(q, e) \in Seq(S)
         /\ Len(Append(q, e)) = Len(q) + 1
         /\ Append(q, e)[Len(q) + 1] = e
         /\ \A i \in 1..Len(q) : Append(q, e)[i] = q[i]
  OBVIOUS

\* What recv takes from it and leaves in it.
LEMMA TailFacts ==
  ASSUME NEW S, NEW q \in Seq(S), q # <<>>
  PROVE  /\ Len(q) \in Nat /\ Len(q) > 0 /\ Head(q) = q[1] /\ q[1] \in S
         /\ Tail(q) \in Seq(S) /\ Len(Tail(q)) = Len(q) - 1
         /\ \A i \in 1..Len(Tail(q)) : Tail(q)[i] = q[i + 1]
  OBVIOUS

\* Every element taken from the head or still in the tail.
LEMMA TailMember ==
  ASSUME NEW S, NEW q \in Seq(S), q # <<>>, NEW s,
         \E i \in 1..Len(q) : q[i] = s
  PROVE  s = Head(q) \/ \E i \in 1..Len(Tail(q)) : Tail(q)[i] = s
<1>1. PICK i \in 1..Len(q) : q[i] = s
  OBVIOUS
<1>2. CASE i = 1
  BY <1>1, <1>2, TailFacts
<1>3. CASE i # 1
  <2>1. i - 1 \in 1..Len(Tail(q)) /\ Tail(q)[i - 1] = q[(i - 1) + 1]
    BY <1>3, TailFacts
  <2>2. (i - 1) + 1 = i
    OBVIOUS
  <2> QED
    BY <1>1, <2>1, <2>2
<1> QED
  BY <1>2, <1>3

-----------------------------------------------------------------------------
(* The invariant holds initially and is preserved by every step. *)

\* The state run_leased_job starts from satisfies it.
LEMMA InitIInv == Init => IInv
<1> SUFFICES ASSUME Init PROVE IInv
  OBVIOUS
<1> USE LeasedJobConstants DEF Init
<1>1. TypeOK
  <2>1. queue \in Seq(1..MaxChunks) /\ Len(queue) = 0
    OBVIOUS
  <2>2. /\ worker \in WorkerAt /\ heartbeat \in HeartbeatAt
        /\ uploader \in UploaderAt /\ row \in RowStates
    BY DEF WorkerAt, WorkerOpen, HeartbeatAt, UploaderAt, RowStates
  <2>3. /\ token \in BOOLEAN /\ shutdown \in BOOLEAN /\ loss \in BOOLEAN
        /\ logLoss \in BOOLEAN /\ truncated \in BOOLEAN /\ accepted \in BOOLEAN
        /\ result \in Results \cup {NoResult}
    OBVIOUS
  <2> QED
    BY <2>1, <2>2, <2>3 DEF TypeOK
<1>2. Counters
  BY DEF Counters
<1>3. Accounting
  BY DEF Accounting
<1>4. Drained
  BY DEF Drained, WorkerOpen, Flushed
<1>5. Reported /\ Cancelling
  BY DEF Reported, Cancelling, NoResult, WorkerOpen, Joined, Flushed
<1>6. Ordered
  BY DEF Ordered
<1> QED
  BY <1>1, <1>2, <1>3, <1>4, <1>5, <1>6 DEF IInv

\* recv puts the oldest chunk in the uploader's hand and leaves the others.
LEMMA QueueTaken ==
  ASSUME TypeOK, UploadReceive, NEW s, \E i \in 1..Len(queue) : queue[i] = s
  PROVE  s = chunk' \/ \E i \in 1..Len(queue') : queue'[i] = s
<1>1. /\ queue \in Seq(1..MaxChunks) /\ queue # <<>>
      /\ chunk' = Head(queue) /\ queue' = Tail(queue)
  BY DEF TypeOK, UploadReceive
<1> QED
  BY <1>1, TailMember

\* try_send puts the new chunk behind the others, if there is room.
LEMMA QueueAppended ==
  ASSUME TypeOK, emit_log, Len(queue) < LogQueueCapacity
  PROVE  /\ queue' \in Seq(1..MaxChunks)
         /\ Len(queue') = Len(queue) + 1
         /\ queue'[Len(queue) + 1] = sequence'
         /\ \A i \in 1..Len(queue) : queue'[i] = queue[i]
<1>1. queue \in Seq(1..MaxChunks) /\ queue' = Append(queue, sequence')
  BY DEF TypeOK, emit_log
<1>2. sequence' \in 1..MaxChunks
  BY LeasedJobConstants DEF TypeOK, emit_log
<1> QED
  BY <1>1, <1>2, AppendFacts

\* emit_log appends a number above every earlier one, or drops it.
LEMMA OrderedEmit == TypeOK /\ Ordered /\ emit_log => Ordered'
<1> SUFFICES ASSUME TypeOK, Ordered, emit_log PROVE Ordered'
  OBVIOUS
<1>1. /\ Len(queue) \in Nat /\ chunk \in Nat /\ sequence \in Nat
      /\ \A r \in received \cup late : r \in Nat
      /\ \A i \in 1..Len(queue) : queue[i] \in Nat
  BY LeasedJobConstants DEF TypeOK
<1>2. sequence' = sequence + 1 /\ UNCHANGED <<received, late, uploader, chunk, loss>>
  BY DEF emit_log, planeVars, uploadVars
<1>3. CASE Len(queue) < LogQueueCapacity
  <2>1. /\ Len(queue') = Len(queue) + 1
        /\ queue'[Len(queue) + 1] = sequence'
        /\ \A i \in 1..Len(queue) : queue'[i] = queue[i]
    BY <1>3, QueueAppended
  <2>2. \A i \in 1..Len(queue') : i \in 1..Len(queue) \/ i = Len(queue) + 1
    BY <1>1, <2>1
  <2>3. /\ \A i, j \in 1..Len(queue) : i < j => queue[i] < queue[j]
        /\ \A i \in 1..Len(queue) : queue[i] <= sequence /\ chunk < queue[i]
        /\ chunk <= sequence
    BY DEF Ordered
  <2>4. \A i \in 1..Len(queue') : queue'[i] <= sequence' /\ chunk < queue'[i]
    BY <1>1, <1>2, <2>1, <2>2, <2>3
  <2>5. ASSUME NEW i \in 1..Len(queue'), NEW j \in 1..Len(queue'), i < j
        PROVE  queue'[i] < queue'[j]
    <3>1. i \in 1..Len(queue) /\ queue'[i] = queue[i]
      BY <1>1, <2>1, <2>2, <2>5
    <3>2. CASE j \in 1..Len(queue)
      BY <2>1, <2>3, <2>5, <3>1, <3>2
    <3>3. CASE j = Len(queue) + 1
      BY <1>1, <1>2, <2>1, <2>3, <3>1, <3>3
    <3> QED
      BY <2>2, <3>2, <3>3
  <2>6. chunk <= sequence'
    BY <1>1, <1>2, <2>3
  <2> QED
    BY <1>2, <2>4, <2>5, <2>6 DEF Ordered
<1>4. CASE ~(Len(queue) < LogQueueCapacity)
  BY <1>1, <1>2, <1>4 DEF emit_log, Ordered
<1> QED
  BY <1>3, <1>4

\* One case per action of run_leased_job and its two tasks.
LEMMA NextIInv == IInv /\ [Next]_vars => IInv'
<1> SUFFICES ASSUME IInv, [Next]_vars PROVE IInv'
  OBVIOUS
<1> USE LeasedJobConstants
    DEF IInv, TypeOK, Counters, Accounting, Drained, Reported, Cancelling,
        Caused, Ordered, Flushed, Joined, WorkerAt, WorkerOpen, WorkerFlush, WorkerSend,
        WorkerFinal, HeartbeatAt, UploaderAt, RowStates, Results, NoResult,
        Origins, Statuses, Kinds, vars, planeVars, heartbeatVars, logVars,
        uploadVars, resultVars, reportVars
<1>1. CASE Shutdown
  BY <1>1 DEF Shutdown
<1>2. CASE HeartbeatTick
  BY <1>2 DEF HeartbeatTick
<1>3. CASE HeartbeatExit
  BY <1>3 DEF HeartbeatExit
<1>4. ASSUME NEW answer \in Answers, HeartbeatContinue(answer) PROVE IInv'
  <2> USE DecodeMeaning
  <2>1. TypeOK'
    BY <1>4 DEF HeartbeatContinue, PlaneAnswers, NextRound
  <2>2. Counters'
    BY <1>4 DEF HeartbeatContinue, PlaneAnswers, NextRound
  <2>3. Accounting'
    BY <1>4 DEF HeartbeatContinue, PlaneAnswers, NextRound
  <2>4. Drained'
    BY <1>4 DEF HeartbeatContinue, PlaneAnswers, NextRound
  <2>5. Reported'
    BY <1>4 DEF HeartbeatContinue, PlaneAnswers, NextRound
  <2>6. Cancelling'
    BY <1>4 DEF HeartbeatContinue, PlaneAnswers, NextRound
  <2>7. Ordered'
    BY <1>4 DEF HeartbeatContinue, PlaneAnswers, NextRound
  <2> QED
    BY <2>1, <2>2, <2>3, <2>4, <2>5, <2>6, <2>7
<1>5. ASSUME NEW answer \in Answers, HeartbeatRefused(answer) PROVE IInv'
  <2> USE DecodeMeaning
  <2>1. TypeOK'
    BY <1>5 DEF HeartbeatRefused, PlaneAnswers
  <2>2. Counters'
    BY <1>5 DEF HeartbeatRefused, PlaneAnswers
  <2>3. Accounting'
    BY <1>5 DEF HeartbeatRefused, PlaneAnswers
  <2>4. Drained'
    BY <1>5 DEF HeartbeatRefused, PlaneAnswers
  <2>5. Reported'
    BY <1>5 DEF HeartbeatRefused, PlaneAnswers
  <2>6. Cancelling'
    BY <1>5 DEF HeartbeatRefused, PlaneAnswers
  <2>7. Ordered'
    BY <1>5 DEF HeartbeatRefused, PlaneAnswers
  <2> QED
    BY <2>1, <2>2, <2>3, <2>4, <2>5, <2>6, <2>7
<1>6. ASSUME NEW answer \in Answers, HeartbeatError(answer) PROVE IInv'
  <2> USE DecodeMeaning
  <2>1. TypeOK'
    <3>1. /\ failures' \in 0..HeartbeatFailureLimit
          /\ missed' \in 0..HeartbeatFailureLimit
          /\ refusals' \in 0..HeartbeatFailureLimit
      BY <1>6 DEF HeartbeatError, PlaneAnswers, NextRound
    <3>2. token' \in BOOLEAN /\ heartbeat' \in HeartbeatAt
      BY <1>6 DEF HeartbeatError, PlaneAnswers, NextRound
    <3> QED
      BY <1>6, <3>1, <3>2 DEF HeartbeatError, PlaneAnswers, NextRound
  <2>2. Counters'
    BY <1>6 DEF HeartbeatError, PlaneAnswers, NextRound
  <2>3. Accounting'
    BY <1>6 DEF HeartbeatError, PlaneAnswers, NextRound
  <2>4. Drained'
    BY <1>6 DEF HeartbeatError, PlaneAnswers, NextRound
  <2>5. Reported'
    BY <1>6 DEF HeartbeatError, PlaneAnswers, NextRound
  <2>6. Cancelling'
    BY <1>6 DEF HeartbeatError, PlaneAnswers, NextRound
  <2>7. Ordered'
    BY <1>6 DEF HeartbeatError, PlaneAnswers, NextRound
  <2> QED
    BY <2>1, <2>2, <2>3, <2>4, <2>5, <2>6, <2>7
<1>7. CASE UploadReceive
  <2>1. TypeOK'
    BY <1>7 DEF UploadReceive
  <2>2. Counters'
    BY <1>7 DEF UploadReceive
  <2>3. Accounting'
    <3>1. ASSUME NEW s, \E i \in 1..Len(queue) : queue[i] = s
          PROVE  s = chunk' \/ \E i \in 1..Len(queue') : queue'[i] = s
      <4>1. TypeOK
        OBVIOUS
      <4> HIDE DEF TypeOK, IInv
      <4> QED
        BY <1>7, <3>1, <4>1, QueueTaken
    <3> QED
      BY <1>7, <3>1 DEF UploadReceive
  <2>4. Drained'
    BY <1>7 DEF UploadReceive
  <2>5. Reported'
    BY <1>7 DEF UploadReceive
  <2>6. Cancelling'
    BY <1>7 DEF UploadReceive
  <2>7. Ordered'
    BY <1>7 DEF UploadReceive
  <2> QED
    BY <2>1, <2>2, <2>3, <2>4, <2>5, <2>6, <2>7
<1>8. CASE UploadExit
  BY <1>8 DEF UploadExit
<1>9. CASE UploadOk
  <2>1. TypeOK'
    BY <1>9 DEF UploadOk
  <2>2. Counters'
    BY <1>9 DEF UploadOk
  <2>3. Accounting'
    BY <1>9 DEF UploadOk
  <2>4. Drained'
    BY <1>9 DEF UploadOk
  <2>5. Reported'
    BY <1>9 DEF UploadOk
  <2>6. Cancelling'
    BY <1>9 DEF UploadOk
  <2>7. Ordered'
    BY <1>9 DEF UploadOk
  <2> QED
    BY <2>1, <2>2, <2>3, <2>4, <2>5, <2>6, <2>7
<1>10. CASE UploadFail
  <2>1. TypeOK'
    <3>1. late' \subseteq 1..MaxChunks
      BY <1>10 DEF UploadFail, MayStillArrive
    <3>2. retries' \in 0..LogUploadAttempts
      BY <1>10 DEF UploadFail
    <3>3. uploader' \in UploaderAt
      BY <1>10 DEF UploadFail
    <3>4. loss' \in BOOLEAN
      BY <1>10 DEF UploadFail
    <3> QED
      BY <1>10, <3>1, <3>2, <3>3, <3>4 DEF UploadFail
  <2>2. Counters'
    BY <1>10 DEF UploadFail
  <2>3. Accounting'
    BY <1>10 DEF UploadFail
  <2>4. Drained'
    BY <1>10 DEF UploadFail
  <2>5. Reported'
    BY <1>10 DEF UploadFail
  <2>6. Cancelling'
    BY <1>10 DEF UploadFail
  <2>7. Ordered'
    BY <1>10 DEF UploadFail, MayStillArrive
  <2> QED
    BY <2>1, <2>2, <2>3, <2>4, <2>5, <2>6, <2>7
<1>11. CASE emit_log
  <2>1. TypeOK'
    <3>1. sequence' \in 1..MaxChunks /\ dropped' \in 0..MaxChunks
      BY <1>11 DEF emit_log
    <3>2. queue' \in Seq(1..MaxChunks) /\ Len(queue') <= LogQueueCapacity
      <4>1. TypeOK
        OBVIOUS
      <4>2. CASE Len(queue) < LogQueueCapacity
        <5>1. queue' \in Seq(1..MaxChunks) /\ Len(queue') = Len(queue) + 1
          <6> HIDE DEF TypeOK, IInv
          <6> QED
            BY <1>11, <4>1, <4>2, QueueAppended
        <5> QED
          BY <4>2, <5>1
      <4>3. CASE ~(Len(queue) < LogQueueCapacity)
        BY <1>11, <4>3 DEF emit_log
      <4> QED
        BY <4>2, <4>3
    <3> QED
      BY <1>11, <3>1, <3>2 DEF emit_log
  <2>2. Counters'
    BY <1>11 DEF emit_log
  <2>3. Accounting'
    <3>1. CASE Len(queue) < LogQueueCapacity
      <4>1. /\ Len(queue') = Len(queue) + 1
            /\ queue'[Len(queue) + 1] = sequence'
            /\ \A i \in 1..Len(queue) : queue'[i] = queue[i]
        <5>1. TypeOK
          OBVIOUS
        <5> HIDE DEF TypeOK, IInv
        <5> QED
          BY <1>11, <3>1, <5>1, QueueAppended
      <4>2. \A s \in 1..sequence' : s \in 1..sequence \/ s = sequence'
        BY <1>11 DEF emit_log
      <4>3. ASSUME NEW s, \E i \in 1..Len(queue) : queue[i] = s
            PROVE  \E i \in 1..Len(queue') : queue'[i] = s
        BY <4>1, <4>3
      <4>4. \E i \in 1..Len(queue') : queue'[i] = sequence'
        BY <4>1
      <4> QED
        BY <1>11, <3>1, <4>2, <4>3, <4>4 DEF emit_log
    <3>2. CASE ~(Len(queue) < LogQueueCapacity)
      BY <1>11, <3>2 DEF emit_log
    <3> QED
      BY <3>1, <3>2
  <2>4. Drained'
    BY <1>11 DEF emit_log
  <2>5. Reported'
    BY <1>11 DEF emit_log
  <2>6. Cancelling'
    BY <1>11 DEF emit_log
  <2>7. Ordered'
    BY <1>11, OrderedEmit
  <2> QED
    BY <2>1, <2>2, <2>3, <2>4, <2>5, <2>6, <2>7
<1>12. CASE RunOk
  <2>1. TypeOK'
    BY <1>12 DEF RunOk, executor_result, FailureKindOf
  <2>2. Counters'
    BY <1>12 DEF RunOk, executor_result, FailureKindOf
  <2>3. Accounting'
    BY <1>12 DEF RunOk, executor_result, FailureKindOf
  <2>4. Drained'
    BY <1>12 DEF RunOk, executor_result, FailureKindOf
  <2>5. Reported'
    <3>1. PICK status \in Statuses, overLimit \in BOOLEAN :
                  executor_result(status, overLimit)
      BY <1>12 DEF RunOk
    <3>2. ~truncated' => ~(dropped > 0)
      BY <3>1 DEF executor_result
    <3>3. ~truncated' => dropped' = 0
      BY <1>12, <3>2 DEF RunOk
    <3> QED
      BY <1>12, <3>3 DEF RunOk
  <2>6. Cancelling'
    BY <1>12 DEF RunOk, executor_result, FailureKindOf
  <2>7. Ordered'
    BY <1>12 DEF RunOk, executor_result, FailureKindOf
  <2> QED
    BY <2>1, <2>2, <2>3, <2>4, <2>5, <2>6, <2>7
<1>13. CASE RunErr
  <2>1. TypeOK'
    <3>1. result' \in Results /\ truncated' \in BOOLEAN
      BY <1>13 DEF RunErr, failed_result
    <3> QED
      BY <1>13, <3>1 DEF RunErr, failed_result
  <2>2. Counters'
    BY <1>13 DEF RunErr, failed_result
  <2>3. Accounting'
    BY <1>13 DEF RunErr, failed_result
  <2>4. Drained'
    BY <1>13 DEF RunErr, failed_result
  <2>5. Reported'
    BY <1>13 DEF RunErr, failed_result
  <2>6. Cancelling'
    BY <1>13 DEF RunErr, failed_result
  <2>7. Ordered'
    BY <1>13 DEF RunErr, failed_result
  <2> QED
    BY <2>1, <2>2, <2>3, <2>4, <2>5, <2>6, <2>7
<1>14. CASE Admit
  BY <1>14 DEF Admit
<1>15. CASE Reject
  <2>1. TypeOK'
    <3>1. PICK kind \in {"policy", "infrastructure"} :
                  failed_result("rejected", kind)
      BY <1>15 DEF Reject
    <3>2. result' \in Results
      BY <3>1 DEF failed_result
    <3>3. truncated' = FALSE
      BY <3>1 DEF failed_result
    <3> QED
      BY <1>15, <3>2, <3>3 DEF Reject
  <2>2. Counters'
    BY <1>15 DEF Reject, failed_result
  <2>3. Accounting'
    BY <1>15 DEF Reject, failed_result
  <2>4. Drained'
    BY <1>15 DEF Reject, failed_result
  <2>5. Reported'
    BY <1>15 DEF Reject, failed_result
  <2>6. Cancelling'
    BY <1>15 DEF Reject, failed_result
  <2>7. Ordered'
    BY <1>15 DEF Reject, failed_result
  <2> QED
    BY <2>1, <2>2, <2>3, <2>4, <2>5, <2>6, <2>7
<1>16. CASE FlushClean
  BY <1>16 DEF FlushClean
<1>17. CASE FlushLossy
  BY <1>17 DEF FlushLossy
<1>18. CASE FlushTimeout
  BY <1>18 DEF FlushTimeout
<1>19. CASE AbortJoined
  <2>1. TypeOK'
    <3>1. late' \subseteq 1..MaxChunks
      BY <1>19 DEF AbortJoined, MayStillArrive
    <3> QED
      BY <1>19, <3>1 DEF AbortJoined
  <2>2. Counters' /\ Reported' /\ Cancelling'
    BY <1>19 DEF AbortJoined
  <2>3. Accounting'
    BY <1>19 DEF AbortJoined
  <2>4. Drained'
    BY <1>19 DEF AbortJoined
  <2>5. Ordered'
    <3>1. /\ UNCHANGED <<queue, sequence, chunk, received, loss>>
          /\ uploader' = "exited"
      BY <1>19 DEF AbortJoined
    <3>2. CASE late' = late
      BY <3>1, <3>2
    <3>3. CASE uploader = "sending" /\ late' = late \cup {chunk}
      BY <3>1, <3>3
    <3> QED
      BY <1>19, <3>2, <3>3 DEF AbortJoined, MayStillArrive
  <2> QED
    BY <2>1, <2>2, <2>3, <2>4, <2>5
<1>20. CASE HeartbeatJoined
  BY <1>20 DEF HeartbeatJoined
<1>21. CASE enqueue_completion
  BY <1>21 DEF enqueue_completion
<1>22. CASE record_completion_attempt
  BY <1>22 DEF record_completion_attempt
<1>23. CASE CompleteOk
  BY <1>23 DEF CompleteOk
<1>24. CASE CompleteFail
  <2>1. TypeOK'
    <3>1. accepted' \in BOOLEAN
      BY <1>24 DEF CompleteFail
    <3>2. worker' \in WorkerAt
      BY <1>24 DEF CompleteFail
    <3> QED
      BY <1>24, <3>1, <3>2 DEF CompleteFail
  <2>2. Counters'
    BY <1>24 DEF CompleteFail
  <2>3. Accounting'
    BY <1>24 DEF CompleteFail
  <2>4. Drained'
    BY <1>24 DEF CompleteFail
  <2>5. Reported'
    BY <1>24 DEF CompleteFail
  <2>6. Cancelling'
    BY <1>24 DEF CompleteFail
  <2>7. Ordered'
    BY <1>24 DEF CompleteFail
  <2> QED
    BY <2>1, <2>2, <2>3, <2>4, <2>5, <2>6, <2>7
<1>25. CASE mark_completion_delivered
  BY <1>25 DEF mark_completion_delivered
<1>26. CASE JournalError
  BY <1>26 DEF JournalError
<1>27. ASSUME NEW c \in late, LateArrives(c) PROVE IInv'
  <2>1. TypeOK'
    BY <1>27 DEF LateArrives
  <2>2. Counters' /\ Drained' /\ Reported' /\ Cancelling'
    BY <1>27 DEF LateArrives
  <2>3. Accounting'
    BY <1>27 DEF LateArrives
  <2>4. Ordered'
    BY <1>27 DEF LateArrives
  <2> QED
    BY <2>1, <2>2, <2>3, <2>4
<1>28. CASE UNCHANGED vars
  BY <1>28
<1> QED
  BY <1>1, <1>2, <1>3, <1>4, <1>5, <1>6, <1>7, <1>8, <1>9, <1>10, <1>11,
     <1>12, <1>13, <1>14, <1>15, <1>16, <1>17, <1>18, <1>19, <1>20, <1>21,
     <1>22, <1>23, <1>24, <1>25, <1>26, <1>27, <1>28
  DEF Next, Over, Heartbeat, Upload, Finish, Worker, Report

-----------------------------------------------------------------------------
(* Theorems *)

\* The inductive invariant holds in every state of every behaviour.
THEOREM Inductive == Spec => []IInv
<1>1. Init => IInv
  BY InitIInv
<1>2. IInv /\ [Next]_vars => IInv'
  BY NextIInv
<1> QED
  BY <1>1, <1>2, PTL DEF Spec

\* Every variable keeps its type: in particular the channel never holds more
\* than LOG_QUEUE_CAPACITY chunks and no retry counter passes its budget.
THEOREM TypeCorrect == Spec => []TypeOK
<1>1. IInv => TypeOK
  BY DEF IInv
<1> QED
  BY <1>1, Inductive, PTL

\* A result of Executor::run recorded with log_truncated = false has its whole
\* log at the control plane, for every capacity and every retry budget.
THEOREM NoSilentLogLoss == Spec => []LogLossReported
<1>1. IInv => LogLossReported
  <2> SUFFICES ASSUME IInv, row # "none", result.origin = "run_ok", ~truncated,
                      NEW s \in 1..sequence
               PROVE  s \in received
    BY DEF LogLossReported
  <2>1. worker \in Joined /\ dropped = 0 /\ ~logLoss
    BY DEF IInv, Reported
  <2>2. uploader = "exited" /\ ~loss /\ queue = <<>>
    BY <2>1 DEF IInv, Drained, Joined
  <2> QED
    BY <2>1, <2>2 DEF IInv, Accounting
<1> QED
  BY <1>1, Inductive, PTL

\* The heartbeat task never ends without cancelling the job, and once the
\* result is in the outbox neither it nor the uploader can call again.
THEOREM LeaseHygiene == Spec => []RenewedThenQuiet
<1>1. IInv => RenewedThenQuiet
  BY DEF IInv, Cancelling, Reported, Drained, Joined, RenewedThenQuiet
<1> QED
  BY <1>1, Inductive, PTL

\* mark_completion_delivered runs only after the control plane has stored the
\* result.
THEOREM DeliveryTruthful == Spec => []DeliveredIsAccepted
<1>1. IInv => DeliveredIsAccepted
  BY DEF IInv, Reported, DeliveredIsAccepted
<1> QED
  BY <1>1, Inductive, PTL

\* With a control plane that writes its decision as a bare string, a job is
\* reported cancelled only for one of the three documented causes.
THEOREM CancellationJustified ==
  ASSUME DecisionBody = "string"
  PROVE  Spec => []CancellationHasCause
<1>1. IInv => CancellationHasCause
  BY DEF IInv, Cancelling, Caused, CancellationHasCause
<1> QED
  BY <1>1, Inductive, PTL

\* Refusals reach the token although their answers may be lost, whatever the
\* two other tasks of the job are doing and however the plane writes its body:
\* at most HEARTBEAT_FAILURE_LIMIT - 1 refusals since the last renewal leave the
\* job uncancelled.
THEOREM RefusalsReachToken == Spec => []RefusalCancels
<1>1. IInv => RefusalCancels
  <2> SUFFICES ASSUME IInv, ~token PROVE refusals < HeartbeatFailureLimit
    BY DEF RefusalCancels
  <2>1. failures < HeartbeatFailureLimit /\ refusals <= failures
    BY DEF IInv, Counters, Cancelling
  <2>2. failures \in Nat /\ refusals \in Nat /\ HeartbeatFailureLimit \in Nat
    BY LeasedJobConstants DEF IInv, TypeOK
  <2> QED
    BY <2>1, <2>2
<1> QED
  BY <1>1, Inductive, PTL

\* Chunks arrive in the order emit_log numbered them, late calls included,
\* until the uploader has given one up.
THEOREM InOrder == Spec => UploadsInOrder
<1>1. IInv /\ [Next]_vars
        => [(\E old \in received, new \in received' \ received : old > new)
              => loss]_vars
  <2> SUFFICES ASSUME IInv, [Next]_vars, ~loss, NEW new \in received' \ received,
                      NEW old \in received, old > new
               PROVE  FALSE
    BY DEF IInv, TypeOK
  <2>1. UploadOk \/ (\E c \in late : LateArrives(c)) \/ UNCHANGED received
    <3>1. CASE UNCHANGED vars
      BY <3>1 DEF vars, planeVars
    <3>2. CASE Heartbeat
      BY <3>2 DEF Heartbeat, HeartbeatTick, HeartbeatExit, HeartbeatContinue,
                  HeartbeatRefused, HeartbeatError, PlaneAnswers, planeVars
    <3>3. CASE Upload
      BY <3>3 DEF Upload, UploadReceive, UploadExit, UploadFail, planeVars
    <3>4. CASE Worker
      BY <3>4 DEF Worker, Admit, Reject, FlushClean, FlushLossy, FlushTimeout,
                  AbortJoined, HeartbeatJoined, planeVars, Report,
                  enqueue_completion, record_completion_attempt, CompleteOk,
                  CompleteFail, mark_completion_delivered, JournalError
    <3>5. CASE Shutdown \/ emit_log \/ Finish
      BY <3>5 DEF Shutdown, emit_log, Finish, RunOk, RunErr, planeVars
    <3> QED
      BY <3>1, <3>2, <3>3, <3>4, <3>5 DEF Next, Over
  <2>2. new = chunk
    <3>1. CASE UploadOk
      BY <3>1 DEF UploadOk
    <3>2. CASE \E c \in late : LateArrives(c)
      BY <3>2 DEF LateArrives, IInv, Ordered
    <3> QED
      BY <2>1, <3>1, <3>2
  <2>3. old <= chunk
    BY DEF IInv, Ordered
  <2>4. old \in Nat /\ chunk \in Nat
    BY LeasedJobConstants DEF IInv, TypeOK
  <2> QED
    BY <2>2, <2>3, <2>4
<1> QED
  BY <1>1, Inductive, PTL DEF Spec, UploadsInOrder

\* Every step of the three tasks is a step of the lease contract or leaves it
\* unchanged.
THEOREM ContractSafety == Spec => Contract!Init /\ [][Contract!Next]_Contract!vars
<1>1. Init => Contract!Init
  BY DEF Init, Contract!Init, WorkerFinal, WorkerSend
<1>2. IInv /\ [Next]_vars => [Contract!Next]_Contract!vars
  <2> SUFFICES ASSUME IInv, [Next]_vars
               PROVE  Contract!Next \/ UNCHANGED Contract!vars
    OBVIOUS
  <2> USE DEF Contract!vars, Contract!Next, WorkerFinal, WorkerSend, WorkerOpen,
              WorkerFlush, planeVars, reportVars
  <2>1. CASE enqueue_completion
    BY <2>1 DEF enqueue_completion, Contract!Record
  <2>2. CASE CompleteOk
    BY <2>2 DEF CompleteOk, Contract!Accept
  <2>3. CASE CompleteFail
    BY <2>3 DEF CompleteFail, Contract!Accept, Contract!GiveUp
  <2>4. CASE mark_completion_delivered
    BY <2>4 DEF mark_completion_delivered, Contract!Acknowledge, IInv, Reported
  <2>5. CASE FlushLossy \/ JournalError
    BY <2>5 DEF FlushLossy, JournalError, Contract!GiveUp
  <2>6. CASE Shutdown \/ Heartbeat \/ Upload \/ emit_log \/ Over
              \/ \E c \in late : LateArrives(c)
    BY <2>6 DEF Shutdown, Heartbeat, HeartbeatTick, HeartbeatExit,
                HeartbeatContinue, HeartbeatRefused, HeartbeatError, PlaneAnswers,
                Upload, UploadReceive, UploadExit, UploadOk, UploadFail, emit_log,
                LateArrives, Over, vars
  <2>7. CASE Finish \/ Admit \/ Reject \/ FlushClean \/ FlushTimeout
              \/ AbortJoined \/ HeartbeatJoined \/ record_completion_attempt
    BY <2>7 DEF Finish, RunOk, RunErr, Admit, Reject, FlushClean, FlushTimeout,
                AbortJoined, HeartbeatJoined, record_completion_attempt
  <2>8. CASE UNCHANGED vars
    BY <2>8 DEF vars
  <2> QED
    BY <2>1, <2>2, <2>3, <2>4, <2>5, <2>6, <2>7, <2>8
    DEF Next, Worker, Report
<1> QED
  BY <1>1, <1>2, Inductive, PTL DEF Spec

-----------------------------------------------------------------------------
(* The worker of Daemon, which knows an execution as one phase. *)

\* One lease of a daemon that has no other, at any time between the lease and the
\* end of its task: everything before the row is "working", every end is "over".
AsWorker == INSTANCE Daemon WITH
  Keys <- {"job"}, MaxLeases <- 1, Concurrency <- 1, Reissued <- {},
  loop <- "acquire", todo <- {}, replayed <- {}, leased <- <<"job">>,
  permits <- IF worker \in WorkerFinal THEN 1 ELSE 0,
  worker <- [l \in {1} |-> IF worker \in WorkerFinal THEN "over"
                           ELSE IF worker \in WorkerSend THEN worker ELSE "working"],
  tries <- [l \in {1} |-> tries],
  row <- [k \in {"job"} |-> IF row = "none" THEN 0 ELSE 1],
  delivered <- IF row = "delivered" THEN {"job"} ELSE {},
  accepted <- [k \in {"job"} |-> IF accepted THEN 1 ELSE 0]

\* The three tasks of a job move Daemon's variables only in steps of its worker, and
\* by the shutdown that they all listen to.
ImplementsWorker == [][AsWorker!Worker(1) \/ AsWorker!Shutdown]_(AsWorker!vars)

\* The outbox has no row of this lease before enqueue_completion, and has one after.
Unwritten ==
  /\ row # "none" => worker \in WorkerSend \cup WorkerFinal
  /\ worker \in WorkerSend => row # "none"

\* Only enqueue_completion writes the row, and no step leads back.
LEMMA UnwrittenKept == Unwritten /\ [Next]_vars => Unwritten'
<1> USE DEF Unwritten, WorkerSend, WorkerFinal, WorkerFlush, WorkerOpen, planeVars,
            reportVars
<1> SUFFICES ASSUME Unwritten, [Next]_vars PROVE Unwritten'
  OBVIOUS
<1>1. CASE Report
  BY <1>1 DEF Report, enqueue_completion, record_completion_attempt, CompleteOk,
              CompleteFail, mark_completion_delivered, JournalError
<1>2. CASE Shutdown \/ Heartbeat \/ Upload \/ emit_log \/ Over
             \/ \E c \in late : LateArrives(c)
  BY <1>2 DEF Shutdown, Heartbeat, HeartbeatTick, HeartbeatExit, HeartbeatContinue,
              HeartbeatRefused, HeartbeatError, Upload, UploadReceive, UploadExit,
              UploadOk, UploadFail, emit_log, LateArrives, Over, vars
<1>3. CASE Finish \/ Admit \/ Reject \/ FlushClean \/ FlushLossy \/ FlushTimeout
             \/ AbortJoined \/ HeartbeatJoined
  BY <1>3 DEF Finish, RunOk, RunErr, Admit, Reject, FlushClean, FlushLossy, FlushTimeout,
              AbortJoined, HeartbeatJoined
<1>4. CASE UNCHANGED vars
  BY <1>4 DEF vars
<1> QED
  BY <1>1, <1>2, <1>3, <1>4 DEF Next, Worker

\* run_leased_job with its heartbeat task and its log uploader implements the worker
\* that Daemon has for it: Daemon leaves out nothing that they do to the permit, the
\* outbox and the result at the control plane, panic and journal errors included.
THEOREM DaemonWorkerSafety == Spec => ImplementsWorker
<1>1. Init => Unwritten
  BY DEF Init, Unwritten, WorkerSend
<1>2. IInv /\ Unwritten /\ [Next]_vars
        => [AsWorker!Worker(1) \/ AsWorker!Shutdown]_(AsWorker!vars)
  <2> SUFFICES ASSUME IInv, Unwritten, [Next]_vars
               PROVE  AsWorker!Worker(1) \/ AsWorker!Shutdown \/ UNCHANGED AsWorker!vars
    OBVIOUS
  <2> USE DEF AsWorker!vars, AsWorker!loopVars, AsWorker!workerVars, AsWorker!replayVars,
              AsWorker!outboxVars, AsWorker!planeVars, WorkerFinal, WorkerSend,
              planeVars, reportVars
  <2>1. CASE enqueue_completion
    <3>1. worker = "enqueue" /\ row = "none"
      BY <2>1 DEF enqueue_completion, Unwritten
    <3>2. AsWorker!WorkerRecord(1)
      BY <2>1, <3>1 DEF enqueue_completion, AsWorker!WorkerRecord
    <3> QED
      BY <3>2 DEF AsWorker!Worker
  <2>2. CASE record_completion_attempt
    <3>1. AsWorker!WorkerSend(1)
      BY <2>2 DEF record_completion_attempt, AsWorker!WorkerSend
    <3> QED
      BY <3>1 DEF AsWorker!Worker
  <2>3. CASE CompleteOk
    <3>1. AsWorker!WorkerOk(1)
      BY <2>3 DEF CompleteOk, AsWorker!WorkerOk, AsWorker!Stores
    <3> QED
      BY <3>1 DEF AsWorker!Worker
  <2>4. CASE CompleteFail
    <3>1. accepted \in BOOLEAN /\ (accepted' = accepted \/ accepted' = TRUE)
      BY <2>4 DEF CompleteFail, IInv, TypeOK
    <3>2. CASE tries < CompletionAttempts
      BY <2>4, <3>1, <3>2
      DEF CompleteFail, AsWorker!Worker, AsWorker!WorkerFail, AsWorker!Stores
    <3>3. CASE ~(tries < CompletionAttempts)
      BY <2>4, <3>1, <3>3
      DEF CompleteFail, AsWorker!Worker, AsWorker!WorkerFail, AsWorker!Stores,
          AsWorker!TaskOver
    <3> QED
      BY <3>2, <3>3
  <2>5. CASE mark_completion_delivered
    <3>1. row # "none" /\ row \in RowStates
      BY <2>5 DEF mark_completion_delivered, IInv, TypeOK, Unwritten
    <3>2. AsWorker!WorkerMark(1)
      BY <2>5, <3>1 DEF mark_completion_delivered, AsWorker!WorkerMark, AsWorker!TaskOver
    <3> QED
      BY <3>2 DEF AsWorker!Worker
  <2>6. CASE FlushLossy \/ JournalError
    <3>1. AsWorker!WorkerAborts(1)
      BY <2>6 DEF FlushLossy, JournalError, AsWorker!WorkerAborts, AsWorker!TaskOver
    <3> QED
      BY <3>1 DEF AsWorker!Worker
  <2>7. CASE Shutdown
    BY <2>7 DEF Shutdown, AsWorker!Shutdown
  <2>8. CASE Heartbeat \/ Upload \/ emit_log \/ Over
               \/ \E c \in late : LateArrives(c)
    BY <2>8 DEF Heartbeat, HeartbeatTick, HeartbeatExit, HeartbeatContinue,
                HeartbeatRefused, HeartbeatError, PlaneAnswers, Upload, UploadReceive,
                UploadExit, UploadOk, UploadFail, emit_log, LateArrives, Over, vars
  <2>9. CASE Finish \/ Admit \/ Reject \/ FlushClean \/ FlushTimeout \/ AbortJoined
               \/ HeartbeatJoined
    BY <2>9 DEF Finish, RunOk, RunErr, Admit, Reject, FlushClean, FlushTimeout,
                AbortJoined, HeartbeatJoined
  <2>10. CASE UNCHANGED vars
    BY <2>10 DEF vars
  <2> QED
    BY <2>1, <2>2, <2>3, <2>4, <2>5, <2>6, <2>7, <2>8, <2>9, <2>10
    DEF Next, Worker, Report
<1> QED
  BY <1>1, <1>2, UnwrittenKept, Inductive, PTL DEF Spec, ImplementsWorker
============================================================================
