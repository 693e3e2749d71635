---------------------------- MODULE DaemonProofs ----------------------------
(***************************************************************************)
(* Proofs about Daemon, for every set of keys, every concurrency, every    *)
(* retry budget and every number of leases.                                *)
(***************************************************************************)
EXTENDS Daemon, FiniteSetTheorems, TLAPS

Reporting == {"record", "send", "mark"}

\* A task exists only for a lease that was granted; its calls are counted.
Tasks ==
  \A l \in Leases :
    /\ worker[l] # "none" => l <= Len(leased)
    /\ worker[l] \in {"none", "working"} => tries[l] = 0
    /\ worker[l] = "record" => tries[l] < CompletionAttempts

\* Nothing is sent, stored or marked without its row in the outbox.
WriteAhead ==
  /\ \A l \in Leases : worker[l] \in Reporting => row[leased[l]] # 0
  /\ \A k \in todo \cup replayed : row[k] # 0
  /\ \A k \in Keys : accepted[k] # 0 => row[k] # 0

\* Nothing is marked delivered before the control plane has a result.
Acknowledged ==
  /\ \A k, q \in replayed : k = q
  /\ \A l \in Leases : worker[l] = "mark" => accepted[leased[l]] # 0
  /\ loop = "replay_mark" => \A k \in replayed : accepted[k] # 0
  /\ \A k \in delivered : accepted[k] # 0

\* An attempt number used once: the key's lease, row and stored result agree.
FreshAttempts ==
  /\ \A l, m \in 1..Len(leased) :
       leased[l] \notin Reissued /\ leased[l] = leased[m] => l = m
  /\ \A k \in Keys \ Reissued : row[k] # 0 => row[k] <= Len(leased) /\ leased[row[k]] = k
  /\ \A l \in Leases :
       worker[l] = "working" /\ leased[l] \notin Reissued => row[leased[l]] = 0
  /\ \A l \in Leases :
       worker[l] \in Reporting /\ leased[l] \notin Reissued => row[leased[l]] = l
  /\ \A k \in Keys \ Reissued : accepted[k] # 0 => row[k] = accepted[k]

\* A process that has ended leaves no task behind.
Stopped == loop \in {"exited", "down"} => ActiveWorkers = {}

IInv == /\ TypeOK /\ PermitsConserved /\ Tasks /\ WriteAhead /\ Acknowledged
        /\ FreshAttempts /\ Stopped
-----------------------------------------------------------------------------
(* Counting the job tasks. *)

\* The tasks are a finite set.
LEMMA TasksFinite == IsFiniteSet(ActiveWorkers) /\ Cardinality(ActiveWorkers) \in Nat
<1>1. IsFiniteSet(Leases)
  BY DaemonConstants, FS_Interval DEF Leases
<1> QED
  BY <1>1, FS_Subset, FS_CardinalityType DEF ActiveWorkers

\* Spawning a task, letting it move on and ending it.
LEMMA TaskCount ==
  ASSUME NEW l \in Leases, NEW at \in WorkerAt, worker \in [Leases -> WorkerAt],
         worker' = [worker EXCEPT ![l] = at]
  PROVE  /\ (worker[l] \in Active /\ at \in Active)
              => ActiveWorkers' = ActiveWorkers
         /\ (worker[l] \in Active /\ at \notin Active)
              => Cardinality(ActiveWorkers') = Cardinality(ActiveWorkers) - 1
         /\ (worker[l] \notin Active /\ at \in Active)
              => Cardinality(ActiveWorkers') = Cardinality(ActiveWorkers) + 1
<1>1. (worker[l] \in Active /\ at \in Active) => ActiveWorkers' = ActiveWorkers
  BY DEF ActiveWorkers
<1>2. (worker[l] \in Active /\ at \notin Active)
        => ActiveWorkers' = ActiveWorkers \ {l} /\ l \in ActiveWorkers
  BY DEF ActiveWorkers
<1>3. (worker[l] \notin Active /\ at \in Active)
        => ActiveWorkers' = ActiveWorkers \cup {l} /\ l \notin ActiveWorkers
  BY DEF ActiveWorkers
<1> QED
  BY <1>1, <1>2, <1>3, TasksFinite, FS_AddElement, FS_RemoveElement

-----------------------------------------------------------------------------
(* The invariant holds initially and is preserved by every step. *)

\* The first start of the process.
LEMMA InitIInv == Init => IInv
<1> SUFFICES ASSUME Init PROVE IInv
  OBVIOUS
<1> USE DaemonConstants DEF Init
<1>1. ActiveWorkers = {}
  BY DEF ActiveWorkers, Active
<1>2. TypeOK
  <2>1. leased \in Seq(Keys) /\ Len(leased) = 0
    OBVIOUS
  <2>2. worker \in [Leases -> WorkerAt] /\ loop \in LoopAt
    BY DEF WorkerAt, LoopAt
  <2>3. tries \in [Leases -> 0..CompletionAttempts]
    OBVIOUS
  <2>4. row \in [Keys -> 0..MaxLeases] /\ accepted \in [Keys -> 0..MaxLeases]
    OBVIOUS
  <2>5. shutdown \in BOOLEAN
    OBVIOUS
  <2> QED
    BY <2>1, <2>2, <2>3, <2>4, <2>5 DEF TypeOK
<1>3. PermitsConserved
  BY <1>1, FS_EmptySet DEF PermitsConserved
<1>4. Tasks /\ WriteAhead /\ Acknowledged /\ FreshAttempts /\ Stopped
  BY <1>1
  DEF Tasks, WriteAhead, Acknowledged, FreshAttempts, Stopped, Reporting
<1> QED
  BY <1>2, <1>3, <1>4 DEF IInv

\* The key of a lease whose task exists.
LEMMA LeasedKey ==
  ASSUME TypeOK, Tasks, NEW l \in Leases, worker[l] # "none"
  PROVE  l \in 1..Len(leased) /\ leased[l] \in Keys
<1>1. l \in 1..Len(leased)
  BY DaemonConstants DEF TypeOK, Tasks, Leases
<1> QED
  BY <1>1 DEF TypeOK

\* What a grant of the control plane adds.
LEMMA GrantFacts ==
  ASSUME TypeOK, NEW k \in Keys, Grants(k)
  PROVE  /\ leased' \in Seq(Keys)
         /\ Len(leased) \in Nat /\ Len(leased) + 1 \in Leases
         /\ Len(leased') = Len(leased) + 1 /\ Len(leased') <= MaxLeases
         /\ leased'[Len(leased) + 1] = k
         /\ \A i \in 1..Len(leased) : leased'[i] = leased[i] /\ leased[i] \in Keys
         /\ k \in Reissued \/ \A i \in 1..Len(leased) : leased[i] # k
<1>1. Len(leased) \in Nat /\ Len(leased) + 1 \in Leases
  BY DaemonConstants DEF TypeOK, Grants, Leasable, Leases
<1> QED
  BY <1>1, DaemonConstants DEF TypeOK, Grants, Leasable, Leases

\* A grant disturbs nothing, whether or not the daemon hears of it: the new
\* lease is the only one whose task may start, and its key may be new.
LEMMA GrantHarmless ==
  ASSUME TypeOK, Tasks, WriteAhead, Acknowledged, FreshAttempts,
         NEW k \in Keys, Grants(k),
         UNCHANGED <<tries, todo, replayed, row, delivered, accepted>>,
         loop' # "replay_mark",
         \A l \in Leases : \/ worker'[l] = worker[l]
                           \/ l = Len(leased) + 1 /\ worker'[l] = "working"
  PROVE  Tasks' /\ WriteAhead' /\ Acknowledged' /\ FreshAttempts'
<1> USE GrantFacts DEF Reporting
<1>1. \A l \in Leases : l \in Nat
  BY DaemonConstants DEF Leases
<1>2. \A l \in Leases : worker[l] # "none" => l \in 1..Len(leased)
  BY LeasedKey
<1>3. worker[Len(leased) + 1] = "none"
  BY <1>2
<1>4. Tasks'
  BY <1>1, <1>2, <1>3 DEF Tasks
<1>5. WriteAhead'
  BY <1>1, <1>2, <1>3 DEF WriteAhead
<1>6. Acknowledged'
  BY <1>1, <1>2, <1>3 DEF Acknowledged
<1>7. FreshAttempts'
  <2>1. \A l, m \in 1..Len(leased') :
          leased'[l] \notin Reissued /\ leased'[l] = leased'[m] => l = m
    <3>1. \A l \in 1..Len(leased') : l \in 1..Len(leased) \/ l = Len(leased) + 1
      OBVIOUS
    <3> QED
      BY <3>1 DEF FreshAttempts
  <2>2. k \notin Reissued => row[k] = 0
    <3>1. row[k] \in 0..MaxLeases
      BY DEF TypeOK
    <3> QED
      BY <3>1 DEF FreshAttempts
  <2>3. \A q \in Keys \ Reissued : row'[q] # 0
          => row'[q] <= Len(leased') /\ leased'[row'[q]] = q
    <3>1. \A q \in Keys : row[q] \in 0..MaxLeases
      BY DEF TypeOK
    <3> QED
      BY <3>1, DaemonConstants DEF FreshAttempts
  <2>4. \A l \in Leases :
          worker'[l] = "working" /\ leased'[l] \notin Reissued => row'[leased'[l]] = 0
    BY <1>1, <1>2, <2>2 DEF FreshAttempts
  <2>5. \A l \in Leases :
          worker'[l] \in Reporting /\ leased'[l] \notin Reissued => row'[leased'[l]] = l
    BY <1>1, <1>2, <1>3 DEF FreshAttempts
  <2>6. \A q \in Keys \ Reissued : accepted'[q] # 0 => row'[q] = accepted'[q]
    BY DEF FreshAttempts
  <2> QED
    BY <2>1, <2>3, <2>4, <2>5, <2>6 DEF FreshAttempts
<1> QED
  BY <1>4, <1>5, <1>6, <1>7

\* A task that ends, however it ends, gives its permit back.
LEMMA TaskEnds ==
  ASSUME TypeOK, PermitsConserved, NEW l \in Leases, worker[l] \in Active,
         TaskOver(l), UNCHANGED loop
  PROVE  PermitsConserved'
<1>1. "over" \in WorkerAt /\ "over" \notin Active
  BY DEF WorkerAt, Active
<1>2. worker \in [Leases -> WorkerAt] /\ permits \in Nat
  BY DEF TypeOK
<1>3. worker' = [worker EXCEPT ![l] = "over"] /\ permits' = permits + 1
  BY DEF TaskOver
<1>4. Cardinality(ActiveWorkers') = Cardinality(ActiveWorkers) - 1
  BY <1>1, <1>2, <1>3, TaskCount
<1> QED
  BY <1>2, <1>3, <1>4, TasksFinite, DaemonConstants DEF PermitsConserved

\* A completion call changes at most the called key's stored result, from
\* none to the posted one.
LEMMA CallFacts ==
  ASSUME TypeOK, NEW k \in Keys, NEW p \in 0..MaxLeases, p # 0,
         \/ UNCHANGED accepted
         \/ Stores(k, p) /\ accepted' = [accepted EXCEPT ![k] = p]
  PROVE  /\ accepted' \in [Keys -> 0..MaxLeases]
         /\ \A q \in Keys : \/ accepted'[q] = accepted[q]
                            \/ q = k /\ accepted'[q] = p
<1>1. CASE UNCHANGED accepted
  BY <1>1 DEF TypeOK
<1>2. CASE accepted' = [accepted EXCEPT ![k] = p]
  BY <1>2 DEF TypeOK
<1> QED
  BY <1>1, <1>2

\* One case per action of the daemon.
LEMMA NextIInv == IInv /\ [Next]_vars => IInv'
<1> SUFFICES ASSUME IInv, [Next]_vars PROVE IInv'
  OBVIOUS
<1> USE DaemonConstants
    DEF IInv, Reporting, Active, WorkerAt, LoopAt, loopVars, workerVars,
        replayVars, outboxVars, planeVars
<1>1. CASE Start
  <2>1. TypeOK'
    BY <1>1 DEF Start, Pending, TypeOK, Tasks
  <2>2. PermitsConserved'
    <3>1. ActiveWorkers' = {}
      BY <1>1 DEF Start, Pending, ActiveWorkers, Stopped
    <3> QED
      BY <1>1, <3>1, FS_EmptySet DEF Start, Pending, TypeOK, PermitsConserved
  <2>3. Tasks'
    BY <1>1 DEF Start, Pending, TypeOK, Tasks
  <2>4. WriteAhead'
    BY <1>1 DEF Start, Pending, TypeOK, Tasks, WriteAhead
  <2>5. Acknowledged'
    BY <1>1 DEF Start, Pending, TypeOK, Tasks, WriteAhead, Acknowledged
  <2>6. FreshAttempts'
    BY <1>1 DEF Start, Pending, TypeOK, Tasks, WriteAhead, FreshAttempts
  <2>7. Stopped'
    BY <1>1 DEF Start, Pending, TypeOK, Stopped, ActiveWorkers
  <2> QED
    BY <2>1, <2>2, <2>3, <2>4, <2>5, <2>6, <2>7
<1>2. CASE Shutdown
  <2>1. TypeOK'
    BY <1>2 DEF Shutdown, TypeOK, Tasks
  <2>2. PermitsConserved'
    BY <1>2 DEF Shutdown, TypeOK, PermitsConserved, ActiveWorkers
  <2>3. Tasks'
    BY <1>2 DEF Shutdown, TypeOK, Tasks
  <2>4. WriteAhead'
    BY <1>2 DEF Shutdown, TypeOK, Tasks, WriteAhead
  <2>5. Acknowledged'
    BY <1>2 DEF Shutdown, TypeOK, Tasks, WriteAhead, Acknowledged
  <2>6. FreshAttempts'
    BY <1>2 DEF Shutdown, TypeOK, Tasks, WriteAhead, FreshAttempts
  <2>7. Stopped'
    BY <1>2 DEF Shutdown, TypeOK, Stopped, ActiveWorkers
  <2> QED
    BY <2>1, <2>2, <2>3, <2>4, <2>5, <2>6, <2>7
<1>3. CASE Crash
  <2>1. TypeOK'
    BY <1>3 DEF Crash, TypeOK, Tasks
  <2>2. PermitsConserved'
    <3>1. ActiveWorkers' = {}
      BY <1>3 DEF Crash, ActiveWorkers, Stopped
    <3> QED
      BY <1>3, <3>1, FS_EmptySet DEF Crash, TypeOK, PermitsConserved
  <2>3. Tasks'
    BY <1>3 DEF Crash, TypeOK, Tasks
  <2>4. WriteAhead'
    BY <1>3 DEF Crash, TypeOK, Tasks, WriteAhead
  <2>5. Acknowledged'
    BY <1>3 DEF Crash, TypeOK, Tasks, WriteAhead, Acknowledged
  <2>6. FreshAttempts'
    BY <1>3 DEF Crash, TypeOK, Tasks, WriteAhead, FreshAttempts
  <2>7. Stopped'
    BY <1>3 DEF Crash, TypeOK, Stopped, ActiveWorkers
  <2> QED
    BY <2>1, <2>2, <2>3, <2>4, <2>5, <2>6, <2>7
<1>4. ASSUME NEW k \in Keys, ReplaySend(k) PROVE IInv'
  <2>1. TypeOK'
    BY <1>4 DEF ReplaySend, TypeOK, Tasks
  <2>2. PermitsConserved'
    BY <1>4 DEF ReplaySend, TypeOK, PermitsConserved, ActiveWorkers
  <2>3. Tasks'
    BY <1>4 DEF ReplaySend, TypeOK, Tasks
  <2>4. WriteAhead'
    BY <1>4 DEF ReplaySend, TypeOK, Tasks, WriteAhead
  <2>5. Acknowledged'
    BY <1>4 DEF ReplaySend, TypeOK, Tasks, WriteAhead, Acknowledged
  <2>6. FreshAttempts'
    BY <1>4 DEF ReplaySend, TypeOK, Tasks, WriteAhead, FreshAttempts
  <2>7. Stopped'
    BY <1>4 DEF ReplaySend, TypeOK, Stopped, ActiveWorkers
  <2> QED
    BY <2>1, <2>2, <2>3, <2>4, <2>5, <2>6, <2>7
<1>5. ASSUME NEW k \in Keys, ReplaySkip(k) PROVE IInv'
  <2>1. TypeOK'
    BY <1>5 DEF ReplaySkip, TypeOK, Tasks
  <2>2. PermitsConserved'
    BY <1>5 DEF ReplaySkip, TypeOK, PermitsConserved, ActiveWorkers
  <2>3. Tasks'
    BY <1>5 DEF ReplaySkip, TypeOK, Tasks
  <2>4. WriteAhead'
    BY <1>5 DEF ReplaySkip, TypeOK, Tasks, WriteAhead
  <2>5. Acknowledged'
    BY <1>5 DEF ReplaySkip, TypeOK, Tasks, WriteAhead, Acknowledged
  <2>6. FreshAttempts'
    BY <1>5 DEF ReplaySkip, TypeOK, Tasks, WriteAhead, FreshAttempts
  <2>7. Stopped'
    BY <1>5 DEF ReplaySkip, TypeOK, Stopped, ActiveWorkers
  <2> QED
    BY <2>1, <2>2, <2>3, <2>4, <2>5, <2>6, <2>7
<1>6. ASSUME NEW k \in Keys, ReplayOk(k) PROVE IInv'
  <2>0. k \in Keys /\ row[k] \in 0..MaxLeases /\ row[k] # 0 /\ row[k] # 0
    BY <1>6 DEF ReplayOk, TypeOK, WriteAhead, Leases
  <2>9. /\ accepted' \in [Keys -> 0..MaxLeases]
        /\ \A q \in Keys : \/ accepted'[q] = accepted[q]
                           \/ q = k /\ accepted'[q] = row[k]
    BY <1>6, <2>0, CallFacts DEF ReplayOk
  <2>1. TypeOK'
    BY <1>6, <2>0, <2>9 DEF ReplayOk, TypeOK, Tasks
  <2>2. PermitsConserved'
    BY <1>6 DEF ReplayOk, TypeOK, PermitsConserved, ActiveWorkers
  <2>3. Tasks'
    BY <1>6 DEF ReplayOk, TypeOK, Tasks
  <2>4. WriteAhead'
    BY <1>6, <2>0, <2>9 DEF ReplayOk, TypeOK, Tasks, WriteAhead
  <2>5. Acknowledged'
    <3>1. \A q \in Keys : accepted[q] # 0 => accepted'[q] # 0
      BY <2>0, <2>9
    <3>2. \A m \in Leases : worker[m] = "mark" => leased[m] \in Keys
      BY LeasedKey
    <3>3. \A m \in Leases : worker'[m] = "mark" => accepted'[leased'[m]] # 0
      BY <1>6, <3>1, <3>2 DEF ReplayOk, TypeOK, Acknowledged
    <3>4. loop' = "replay_mark" => \A q \in replayed' : accepted'[q] # 0
      BY <1>6, <2>0, <3>1 DEF ReplayOk, TypeOK, Acknowledged, WriteAhead
    <3>5. \A q \in delivered' : accepted'[q] # 0
      BY <1>6, <3>1 DEF ReplayOk, TypeOK, Acknowledged
    <3> QED
      BY <1>6, <3>3, <3>4, <3>5 DEF ReplayOk, Acknowledged
  <2>6. FreshAttempts'
    BY <1>6, <2>0, <2>9 DEF ReplayOk, TypeOK, Tasks, WriteAhead, FreshAttempts
  <2>7. Stopped'
    BY <1>6 DEF ReplayOk, TypeOK, Stopped, ActiveWorkers
  <2> QED
    BY <2>1, <2>2, <2>3, <2>4, <2>5, <2>6, <2>7
<1>7. ASSUME NEW k \in Keys, ReplayFail(k) PROVE IInv'
  <2>0. k \in Keys /\ row[k] \in 0..MaxLeases /\ row[k] # 0 /\ row[k] # 0
    BY <1>7 DEF ReplayFail, TypeOK, WriteAhead, Leases
  <2>9. /\ accepted' \in [Keys -> 0..MaxLeases]
        /\ \A q \in Keys : \/ accepted'[q] = accepted[q]
                           \/ q = k /\ accepted'[q] = row[k]
    BY <1>7, <2>0, CallFacts DEF ReplayFail
  <2>1. TypeOK'
    BY <1>7, <2>0, <2>9 DEF ReplayFail, TypeOK, Tasks
  <2>2. PermitsConserved'
    BY <1>7 DEF ReplayFail, TypeOK, PermitsConserved, ActiveWorkers
  <2>3. Tasks'
    BY <1>7 DEF ReplayFail, TypeOK, Tasks
  <2>4. WriteAhead'
    BY <1>7, <2>0, <2>9 DEF ReplayFail, TypeOK, Tasks, WriteAhead
  <2>5. Acknowledged'
    <3>1. \A q \in Keys : accepted[q] # 0 => accepted'[q] # 0
      BY <2>0, <2>9
    <3>2. \A m \in Leases : worker[m] = "mark" => leased[m] \in Keys
      BY LeasedKey
    <3>3. \A m \in Leases : worker'[m] = "mark" => accepted'[leased'[m]] # 0
      BY <1>7, <3>1, <3>2 DEF ReplayFail, TypeOK, Acknowledged
    <3>4. loop' = "replay_mark" => \A q \in replayed' : accepted'[q] # 0
      BY <1>7, <2>0, <3>1 DEF ReplayFail, TypeOK, Acknowledged, WriteAhead
    <3>5. \A q \in delivered' : accepted'[q] # 0
      BY <1>7, <3>1 DEF ReplayFail, TypeOK, Acknowledged
    <3> QED
      BY <1>7, <3>3, <3>4, <3>5 DEF ReplayFail, Acknowledged
  <2>6. FreshAttempts'
    BY <1>7, <2>0, <2>9
    DEF ReplayFail, TypeOK, Tasks, WriteAhead, FreshAttempts
  <2>7. Stopped'
    BY <1>7 DEF ReplayFail, TypeOK, Stopped, ActiveWorkers
  <2> QED
    BY <2>1, <2>2, <2>3, <2>4, <2>5, <2>6, <2>7
<1>8. ASSUME NEW k \in Keys, ReplayMark(k) PROVE IInv'
  <2>1. TypeOK'
    BY <1>8 DEF ReplayMark, TypeOK, Tasks
  <2>2. PermitsConserved'
    BY <1>8 DEF ReplayMark, TypeOK, PermitsConserved, ActiveWorkers
  <2>3. Tasks'
    BY <1>8 DEF ReplayMark, TypeOK, Tasks
  <2>4. WriteAhead'
    BY <1>8 DEF ReplayMark, TypeOK, Tasks, WriteAhead
  <2>5. Acknowledged'
    BY <1>8 DEF ReplayMark, TypeOK, Tasks, WriteAhead, Acknowledged
  <2>6. FreshAttempts'
    BY <1>8 DEF ReplayMark, TypeOK, Tasks, WriteAhead, FreshAttempts
  <2>7. Stopped'
    BY <1>8 DEF ReplayMark, TypeOK, Stopped, ActiveWorkers
  <2> QED
    BY <2>1, <2>2, <2>3, <2>4, <2>5, <2>6, <2>7
<1>9. ASSUME NEW k \in Keys, ReplayMarkFail(k) PROVE IInv'
  <2>1. TypeOK'
    BY <1>9 DEF ReplayMarkFail, TypeOK, Tasks
  <2>2. PermitsConserved'
    BY <1>9 DEF ReplayMarkFail, TypeOK, PermitsConserved, ActiveWorkers
  <2>3. Tasks'
    BY <1>9 DEF ReplayMarkFail, TypeOK, Tasks
  <2>4. WriteAhead'
    BY <1>9 DEF ReplayMarkFail, TypeOK, Tasks, WriteAhead
  <2>5. Acknowledged'
    BY <1>9 DEF ReplayMarkFail, TypeOK, Tasks, WriteAhead, Acknowledged
  <2>6. FreshAttempts'
    BY <1>9 DEF ReplayMarkFail, TypeOK, Tasks, WriteAhead, FreshAttempts
  <2>7. Stopped'
    BY <1>9 DEF ReplayMarkFail, TypeOK, Stopped, ActiveWorkers
  <2> QED
    BY <2>1, <2>2, <2>3, <2>4, <2>5, <2>6, <2>7
<1>10. CASE ReplayEnd
  <2>1. TypeOK'
    BY <1>10 DEF ReplayEnd, TypeOK, Tasks
  <2>2. PermitsConserved'
    BY <1>10 DEF ReplayEnd, TypeOK, PermitsConserved, ActiveWorkers
  <2>3. Tasks'
    BY <1>10 DEF ReplayEnd, TypeOK, Tasks
  <2>4. WriteAhead'
    BY <1>10 DEF ReplayEnd, TypeOK, Tasks, WriteAhead
  <2>5. Acknowledged'
    BY <1>10 DEF ReplayEnd, TypeOK, Tasks, WriteAhead, Acknowledged
  <2>6. FreshAttempts'
    BY <1>10 DEF ReplayEnd, TypeOK, Tasks, WriteAhead, FreshAttempts
  <2>7. Stopped'
    BY <1>10 DEF ReplayEnd, TypeOK, Stopped, ActiveWorkers
  <2> QED
    BY <2>1, <2>2, <2>3, <2>4, <2>5, <2>6, <2>7
<1>11. CASE Acquire
  <2>1. TypeOK'
    BY <1>11 DEF Acquire, TypeOK, Tasks
  <2>2. PermitsConserved'
    <3>1. ActiveWorkers' = ActiveWorkers
      BY <1>11 DEF Acquire, ActiveWorkers
    <3> QED
      BY <1>11, <3>1, TasksFinite DEF Acquire, TypeOK, PermitsConserved
  <2>3. Tasks'
    BY <1>11 DEF Acquire, TypeOK, Tasks
  <2>4. WriteAhead'
    BY <1>11 DEF Acquire, TypeOK, Tasks, WriteAhead
  <2>5. Acknowledged'
    BY <1>11 DEF Acquire, TypeOK, Tasks, WriteAhead, Acknowledged
  <2>6. FreshAttempts'
    BY <1>11 DEF Acquire, TypeOK, Tasks, WriteAhead, FreshAttempts
  <2>7. Stopped'
    BY <1>11 DEF Acquire, TypeOK, Stopped, ActiveWorkers
  <2> QED
    BY <2>1, <2>2, <2>3, <2>4, <2>5, <2>6, <2>7
<1>12. ASSUME NEW k \in Keys, LeaseSome(k) PROVE IInv'
  <2>0. PICK j : j = Len(leased) + 1 /\ j \in Leases /\ worker[j] = "none"
    <3>1. Len(leased) + 1 \in Leases /\ Len(leased) \in Nat
      BY <1>12, GrantFacts DEF LeaseSome
    <3> QED
      BY <3>1, LeasedKey
  <2>8. Tasks' /\ WriteAhead' /\ Acknowledged' /\ FreshAttempts'
    <3>1. TypeOK /\ Tasks /\ WriteAhead /\ Acknowledged /\ FreshAttempts /\ Grants(k)
      BY <1>12 DEF LeaseSome
    <3>2. UNCHANGED <<tries, todo, replayed, row, delivered, accepted>>
      BY <1>12 DEF LeaseSome
    <3>3. loop' # "replay_mark"
      BY <1>12 DEF LeaseSome
    <3>4. \A l \in Leases : \/ worker'[l] = worker[l]
                            \/ l = Len(leased) + 1 /\ worker'[l] = "working"
      <4>1. worker' = [worker EXCEPT ![j] = "working"] /\ worker \in [Leases -> WorkerAt]
        BY <1>12, <2>0 DEF LeaseSome, TypeOK
      <4> QED
        BY ONLY <4>1, <2>0
    <3> QED
      BY ONLY <3>1, <3>2, <3>3, <3>4, GrantHarmless
  <2>1. TypeOK'
    BY <1>12, GrantFacts, <2>0 DEF LeaseSome, TypeOK, Tasks
  <2>2. PermitsConserved'
    <3>1. Cardinality(ActiveWorkers') = Cardinality(ActiveWorkers) + 1
      BY <1>12, <2>0, TaskCount DEF LeaseSome, TypeOK
    <3> QED
      BY <1>12, <3>1, TasksFinite DEF LeaseSome, TypeOK, PermitsConserved
  <2>3. Tasks'
    BY <2>8
  <2>4. WriteAhead'
    BY <2>8
  <2>5. Acknowledged'
    BY <2>8
  <2>6. FreshAttempts'
    BY <2>8
  <2>7. Stopped'
    BY <1>12, GrantFacts, <2>0 DEF LeaseSome, TypeOK, Stopped, ActiveWorkers
  <2> QED
    BY <2>1, <2>2, <2>3, <2>4, <2>5, <2>6, <2>7
<1>13. CASE LeaseNone
  <2>8. Tasks' /\ WriteAhead' /\ Acknowledged' /\ FreshAttempts'
    <3>1. CASE UNCHANGED leased
      BY <1>13, <3>1
      DEF LeaseNone, Tasks, WriteAhead, Acknowledged, FreshAttempts
    <3>2. ASSUME NEW k \in Keys, Grants(k)
          PROVE  Tasks' /\ WriteAhead' /\ Acknowledged' /\ FreshAttempts'
      <4>1. TypeOK /\ Tasks /\ WriteAhead /\ Acknowledged /\ FreshAttempts
        OBVIOUS
      <4>2. UNCHANGED <<tries, todo, replayed, row, delivered, accepted>>
        BY <1>13 DEF LeaseNone
      <4>3. loop' # "replay_mark" /\ UNCHANGED worker
        BY <1>13 DEF LeaseNone
      <4>4. \A l \in Leases : \/ worker'[l] = worker[l]
                              \/ l = Len(leased) + 1 /\ worker'[l] = "working"
        BY ONLY <4>3
      <4> QED
        BY ONLY <3>2, <4>1, <4>2, <4>3, <4>4, GrantHarmless
    <3> QED
      BY <1>13, <3>1, <3>2 DEF LeaseNone
  <2>1. TypeOK'
    BY <1>13, GrantFacts DEF LeaseNone, TypeOK, Tasks
  <2>2. PermitsConserved'
    <3>1. ActiveWorkers' = ActiveWorkers
      BY <1>13 DEF LeaseNone, ActiveWorkers
    <3> QED
      BY <1>13, <3>1, TasksFinite DEF LeaseNone, TypeOK, PermitsConserved
  <2>3. Tasks'
    BY <2>8
  <2>4. WriteAhead'
    BY <2>8
  <2>5. Acknowledged'
    BY <2>8
  <2>6. FreshAttempts'
    BY <2>8
  <2>7. Stopped'
    BY <1>13, GrantFacts DEF LeaseNone, TypeOK, Stopped, ActiveWorkers
  <2> QED
    BY <2>1, <2>2, <2>3, <2>4, <2>5, <2>6, <2>7
<1>14. CASE IdleOver
  <2>1. TypeOK'
    BY <1>14 DEF IdleOver, TypeOK, Tasks
  <2>2. PermitsConserved'
    BY <1>14 DEF IdleOver, TypeOK, PermitsConserved, ActiveWorkers
  <2>3. Tasks'
    BY <1>14 DEF IdleOver, TypeOK, Tasks
  <2>4. WriteAhead'
    BY <1>14 DEF IdleOver, TypeOK, Tasks, WriteAhead
  <2>5. Acknowledged'
    BY <1>14 DEF IdleOver, TypeOK, Tasks, WriteAhead, Acknowledged
  <2>6. FreshAttempts'
    BY <1>14 DEF IdleOver, TypeOK, Tasks, WriteAhead, FreshAttempts
  <2>7. Stopped'
    BY <1>14 DEF IdleOver, TypeOK, Stopped, ActiveWorkers
  <2> QED
    BY <2>1, <2>2, <2>3, <2>4, <2>5, <2>6, <2>7
<1>15. CASE Break
  <2>8. Tasks' /\ WriteAhead' /\ Acknowledged' /\ FreshAttempts'
    <3>1. CASE UNCHANGED leased
      BY <1>15, <3>1 DEF Break, Tasks, WriteAhead, Acknowledged, FreshAttempts
    <3>2. ASSUME NEW k \in Keys, Grants(k)
          PROVE  Tasks' /\ WriteAhead' /\ Acknowledged' /\ FreshAttempts'
      <4>1. TypeOK /\ Tasks /\ WriteAhead /\ Acknowledged /\ FreshAttempts
        OBVIOUS
      <4>2. UNCHANGED <<tries, todo, replayed, row, delivered, accepted>>
        BY <1>15 DEF Break
      <4>3. loop' # "replay_mark" /\ UNCHANGED worker
        BY <1>15 DEF Break
      <4>4. \A l \in Leases : \/ worker'[l] = worker[l]
                              \/ l = Len(leased) + 1 /\ worker'[l] = "working"
        BY ONLY <4>3
      <4> QED
        BY ONLY <3>2, <4>1, <4>2, <4>3, <4>4, GrantHarmless
    <3> QED
      BY <1>15, <3>1, <3>2 DEF Break
  <2>1. TypeOK'
    BY <1>15, GrantFacts DEF Break, TypeOK, Tasks
  <2>2. PermitsConserved'
    <3>1. ActiveWorkers' = ActiveWorkers
      BY <1>15 DEF Break, ActiveWorkers
    <3> QED
      BY <1>15, <3>1, TasksFinite DEF Break, TypeOK, PermitsConserved
  <2>3. Tasks'
    BY <2>8
  <2>4. WriteAhead'
    BY <2>8
  <2>5. Acknowledged'
    BY <2>8
  <2>6. FreshAttempts'
    BY <2>8
  <2>7. Stopped'
    BY <1>15, GrantFacts DEF Break, TypeOK, Stopped, ActiveWorkers
  <2> QED
    BY <2>1, <2>2, <2>3, <2>4, <2>5, <2>6, <2>7
<1>16. CASE Drained
  <2>1. TypeOK'
    BY <1>16 DEF Drained, TypeOK, Tasks
  <2>2. PermitsConserved'
    BY <1>16 DEF Drained, TypeOK, PermitsConserved, ActiveWorkers
  <2>3. Tasks'
    BY <1>16 DEF Drained, TypeOK, Tasks
  <2>4. WriteAhead'
    BY <1>16 DEF Drained, TypeOK, Tasks, WriteAhead
  <2>5. Acknowledged'
    BY <1>16 DEF Drained, TypeOK, Tasks, WriteAhead, Acknowledged
  <2>6. FreshAttempts'
    BY <1>16 DEF Drained, TypeOK, Tasks, WriteAhead, FreshAttempts
  <2>7. Stopped'
    BY <1>16 DEF Drained, TypeOK, Stopped, ActiveWorkers
  <2> QED
    BY <2>1, <2>2, <2>3, <2>4, <2>5, <2>6, <2>7
<1>17. ASSUME NEW l \in Leases, WorkerRecord(l) PROVE IInv'
  <2>0. l # 0 /\ leased[l] \in Keys /\ l \in 1..Len(leased)
    BY <1>17, LeasedKey DEF WorkerRecord
  <2>1. TypeOK'
    <3>1. worker' \in [Leases -> WorkerAt]
      BY <1>17 DEF WorkerRecord, TypeOK
    <3>2. row' \in [Keys -> 0..MaxLeases]
      BY <1>17, <2>0 DEF WorkerRecord, TypeOK
    <3>3. UNCHANGED <<loopVars, tries, replayVars, delivered, planeVars>>
      BY <1>17 DEF WorkerRecord
    <3> QED
      BY <3>1, <3>2, <3>3 DEF TypeOK
  <2>2. PermitsConserved'
    BY <1>17, <2>0, TaskCount, TasksFinite
    DEF WorkerRecord, TypeOK, PermitsConserved
  <2>3. Tasks'
    BY <1>17, <2>0 DEF WorkerRecord, TypeOK, Tasks
  <2>4. WriteAhead'
    BY <1>17, <2>0 DEF WorkerRecord, TypeOK, Tasks, WriteAhead
  <2>5. Acknowledged'
    BY <1>17, <2>0 DEF WorkerRecord, TypeOK, Tasks, WriteAhead, Acknowledged
  <2>6. FreshAttempts'
    <3>1. CASE leased[l] \in Reissued
      <4>1. \A q \in Keys \ Reissued : row'[q] = row[q]
        BY <1>17, <2>0, <3>1 DEF WorkerRecord, TypeOK
      <4>2. \A m \in Leases : worker[m] # "none"
              => m \in 1..Len(leased) /\ leased[m] \in Keys
        BY LeasedKey
      <4>3. \A m \in Leases : worker'[m] # "none" /\ leased[m] \notin Reissued
              => worker'[m] = worker[m] /\ row'[leased[m]] = row[leased[m]]
        BY <1>17, <3>1, <4>1, <4>2 DEF WorkerRecord, TypeOK
      <4> QED
        BY <1>17, <4>1, <4>3 DEF WorkerRecord, FreshAttempts, Reporting
    <3>2. CASE leased[l] \notin Reissued
      <4>1. row[leased[l]] = 0 /\ row' = [row EXCEPT ![leased[l]] = l]
        BY <1>17, <3>2 DEF WorkerRecord, FreshAttempts
      <4>2. \A q \in Keys \ Reissued :
              row'[q] # 0 => row'[q] <= Len(leased') /\ leased'[row'[q]] = q
        BY <1>17, <2>0, <4>1 DEF WorkerRecord, TypeOK, FreshAttempts
      <4>3. \A m \in Leases : worker[m] # "none"
              => m \in 1..Len(leased) /\ leased[m] \in Keys
        BY LeasedKey
      <4>4. \A m \in Leases : (worker[m] # "none" /\ m # l) => leased[m] # leased[l]
        BY <2>0, <3>2, <4>3 DEF FreshAttempts
      <4>9. /\ leased' = leased
            /\ \A m \in Leases : worker'[m] = IF m = l THEN "record" ELSE worker[m]
            /\ \A m \in Leases : (worker[m] # "none" /\ m # l)
                 => row'[leased[m]] = row[leased[m]]
        BY <1>17, <2>0, <4>1, <4>3, <4>4 DEF WorkerRecord, TypeOK
      <4>10. row'[leased[l]] = l
        BY <2>0, <4>1 DEF TypeOK
      <4>5. \A m \in Leases :
              worker'[m] = "working" /\ leased'[m] \notin Reissued => row'[leased'[m]] = 0
        BY <4>9 DEF FreshAttempts
      <4>6. \A m \in Leases :
              worker'[m] \in Reporting /\ leased'[m] \notin Reissued => row'[leased'[m]] = m
        BY <4>9, <4>10 DEF FreshAttempts, Reporting
      <4>7. \A q \in Keys \ Reissued : accepted'[q] # 0 => row'[q] = accepted'[q]
        BY <1>17, <2>0, <4>1 DEF WorkerRecord, TypeOK, FreshAttempts
      <4>8. \A i, m \in 1..Len(leased') :
              leased'[i] \notin Reissued /\ leased'[i] = leased'[m] => i = m
        BY <1>17 DEF WorkerRecord, FreshAttempts
      <4> QED
        BY <4>2, <4>5, <4>6, <4>7, <4>8 DEF FreshAttempts
    <3> QED
      BY <3>1, <3>2
  <2>7. Stopped'
    BY <1>17, <2>0 DEF WorkerRecord, TypeOK, Stopped, ActiveWorkers
  <2> QED
    BY <2>1, <2>2, <2>3, <2>4, <2>5, <2>6, <2>7
<1>18. ASSUME NEW l \in Leases, WorkerSend(l) PROVE IInv'
  <2>0. l # 0 /\ leased[l] \in Keys /\ l \in 1..Len(leased)
    BY <1>18, LeasedKey DEF WorkerSend
  <2>1. TypeOK'
    <3>1. worker' \in [Leases -> WorkerAt]
      BY <1>18 DEF WorkerSend, TypeOK
    <3>2. tries' \in [Leases -> 0..CompletionAttempts]
      BY <1>18, <2>0 DEF WorkerSend, TypeOK, Tasks
    <3>3. UNCHANGED <<loopVars, replayVars, outboxVars, planeVars>>
      BY <1>18 DEF WorkerSend
    <3> QED
      BY <3>1, <3>2, <3>3 DEF TypeOK
  <2>2. PermitsConserved'
    BY <1>18, <2>0, TaskCount, TasksFinite
    DEF WorkerSend, TypeOK, PermitsConserved
  <2>3. Tasks'
    BY <1>18, <2>0 DEF WorkerSend, TypeOK, Tasks
  <2>4. WriteAhead'
    BY <1>18, <2>0 DEF WorkerSend, TypeOK, Tasks, WriteAhead
  <2>5. Acknowledged'
    BY <1>18, <2>0 DEF WorkerSend, TypeOK, Tasks, WriteAhead, Acknowledged
  <2>6. FreshAttempts'
    BY <1>18, <2>0 DEF WorkerSend, TypeOK, Tasks, WriteAhead, FreshAttempts
  <2>7. Stopped'
    BY <1>18, <2>0 DEF WorkerSend, TypeOK, Stopped, ActiveWorkers
  <2> QED
    BY <2>1, <2>2, <2>3, <2>4, <2>5, <2>6, <2>7
<1>19. ASSUME NEW l \in Leases, WorkerOk(l) PROVE IInv'
  <2>10. l # 0 /\ leased[l] \in Keys /\ l \in 1..Len(leased)
    BY <1>19, LeasedKey DEF WorkerOk
  <2>0. leased[l] \in Keys /\ l \in 0..MaxLeases /\ l # 0 /\ row[leased[l]] # 0
    BY <1>19, <2>10 DEF WorkerOk, TypeOK, WriteAhead, Leases
  <2>9. /\ accepted' \in [Keys -> 0..MaxLeases]
        /\ \A q \in Keys : \/ accepted'[q] = accepted[q]
                           \/ q = leased[l] /\ accepted'[q] = l
    BY <1>19, <2>0, CallFacts DEF WorkerOk
  <2>1. TypeOK'
    BY <1>19, <2>10, <2>0, <2>9 DEF WorkerOk, TypeOK, Tasks
  <2>2. PermitsConserved'
    BY <1>19, <2>10, TaskCount, TasksFinite
    DEF WorkerOk, TypeOK, PermitsConserved
  <2>3. Tasks'
    BY <1>19, <2>10 DEF WorkerOk, TypeOK, Tasks
  <2>4. WriteAhead'
    BY <1>19, <2>10, <2>0, <2>9 DEF WorkerOk, TypeOK, Tasks, WriteAhead
  <2>5. Acknowledged'
    BY <1>19, <2>10, <2>0, <2>9
    DEF WorkerOk, TypeOK, Tasks, WriteAhead, Acknowledged
  <2>6. FreshAttempts'
    BY <1>19, <2>10, <2>0, <2>9
    DEF WorkerOk, TypeOK, Tasks, WriteAhead, FreshAttempts
  <2>7. Stopped'
    BY <1>19, <2>10 DEF WorkerOk, TypeOK, Stopped, ActiveWorkers
  <2> QED
    BY <2>1, <2>2, <2>3, <2>4, <2>5, <2>6, <2>7
<1>20. ASSUME NEW l \in Leases, WorkerFail(l) PROVE IInv'
  <2>10. l # 0 /\ leased[l] \in Keys /\ l \in 1..Len(leased)
    BY <1>20, LeasedKey DEF WorkerFail
  <2>0. leased[l] \in Keys /\ l \in 0..MaxLeases /\ l # 0 /\ row[leased[l]] # 0
    BY <1>20, <2>10 DEF WorkerFail, TypeOK, WriteAhead, Leases
  <2>9. /\ accepted' \in [Keys -> 0..MaxLeases]
        /\ \A q \in Keys : \/ accepted'[q] = accepted[q]
                           \/ q = leased[l] /\ accepted'[q] = l
    BY <1>20, <2>0, CallFacts DEF WorkerFail
  <2>11. /\ permits' \in Nat
         /\ \/ worker' = [worker EXCEPT ![l] = "over"]
            \/ tries[l] < CompletionAttempts /\ worker' = [worker EXCEPT ![l] = "record"]
    BY <1>20 DEF WorkerFail, TaskOver, TypeOK
  <2>1. TypeOK'
    BY <1>20, <2>10, <2>0, <2>9, <2>11 DEF WorkerFail, TypeOK, Tasks
  <2>2. PermitsConserved'
    <3>1. CASE worker' = [worker EXCEPT ![l] = "record"] /\ UNCHANGED permits
      <4>1. ActiveWorkers' = ActiveWorkers
        BY <1>20, <3>1, TaskCount DEF WorkerFail, TypeOK
      <4> QED
        BY <1>20, <3>1, <4>1 DEF WorkerFail, TypeOK, PermitsConserved
    <3>2. CASE TaskOver(l)
      BY <1>20, <3>2, TaskEnds DEF WorkerFail
    <3> QED
      BY <1>20, <3>1, <3>2 DEF WorkerFail
  <2>3. Tasks'
    BY <1>20, <2>10, <2>0, <2>9, <2>11 DEF WorkerFail, TypeOK, Tasks
  <2>4. WriteAhead'
    BY <1>20, <2>10, <2>0, <2>9, <2>11
    DEF WorkerFail, TypeOK, Tasks, WriteAhead
  <2>5. Acknowledged'
    <3>1. \A q \in Keys : accepted[q] # 0 => accepted'[q] # 0
      BY <2>0, <2>9
    <3>2. \A m \in Leases : worker[m] = "mark" => leased[m] \in Keys
      BY LeasedKey
    <3>3. \A m \in Leases : worker'[m] = "mark" => accepted'[leased'[m]] # 0
      BY <1>20, <3>1, <3>2, <2>11 DEF WorkerFail, TypeOK, Acknowledged
    <3>4. loop' = "replay_mark" => \A q \in replayed' : accepted'[q] # 0
      BY <1>20, <2>0, <3>1 DEF WorkerFail, TypeOK, Acknowledged, WriteAhead
    <3>5. \A q \in delivered' : accepted'[q] # 0
      BY <1>20, <3>1 DEF WorkerFail, TypeOK, Acknowledged
    <3> QED
      BY <1>20, <3>3, <3>4, <3>5 DEF WorkerFail, Acknowledged
  <2>6. FreshAttempts'
    <3>1. leased[l] \notin Reissued => row[leased[l]] = l
      BY <1>20 DEF WorkerFail, FreshAttempts
    <3>2. \A q \in Keys \ Reissued : accepted'[q] # 0 => row'[q] = accepted'[q]
      BY <1>20, <2>9, <3>1 DEF WorkerFail, FreshAttempts
    <3>3. \A m \in Leases : /\ worker'[m] = "working" => worker[m] = "working"
                            /\ worker'[m] \in Reporting => worker[m] \in Reporting
      BY <1>20, <2>11 DEF WorkerFail, TypeOK
    <3> QED
      BY <1>20, <3>2, <3>3 DEF WorkerFail, FreshAttempts
  <2>7. Stopped'
    BY <1>20, <2>11 DEF WorkerFail, TypeOK, Stopped, ActiveWorkers
  <2> QED
    BY <2>1, <2>2, <2>3, <2>4, <2>5, <2>6, <2>7
<1>21. ASSUME NEW l \in Leases, WorkerMark(l) PROVE IInv'
  <2>0. l # 0 /\ leased[l] \in Keys /\ l \in 1..Len(leased)
    BY <1>21, LeasedKey DEF WorkerMark, TaskOver
  <2>1. TypeOK'
    BY <1>21, <2>0 DEF WorkerMark, TaskOver, TypeOK, Tasks
  <2>2. PermitsConserved'
    BY <1>21, TaskEnds DEF WorkerMark
  <2>3. Tasks'
    BY <1>21, <2>0 DEF WorkerMark, TaskOver, TypeOK, Tasks
  <2>4. WriteAhead'
    BY <1>21, <2>0 DEF WorkerMark, TaskOver, TypeOK, Tasks, WriteAhead
  <2>5. Acknowledged'
    BY <1>21, <2>0
    DEF WorkerMark, TaskOver, TypeOK, Tasks, WriteAhead, Acknowledged
  <2>6. FreshAttempts'
    BY <1>21, <2>0
    DEF WorkerMark, TaskOver, TypeOK, Tasks, WriteAhead, FreshAttempts
  <2>7. Stopped'
    BY <1>21, <2>0 DEF WorkerMark, TaskOver, TypeOK, Stopped, ActiveWorkers
  <2> QED
    BY <2>1, <2>2, <2>3, <2>4, <2>5, <2>6, <2>7
<1>22. ASSUME NEW l \in Leases, WorkerAborts(l) PROVE IInv'
  <2>0. l # 0 /\ leased[l] \in Keys /\ l \in 1..Len(leased)
    BY <1>22, LeasedKey DEF WorkerAborts, TaskOver
  <2>1. TypeOK'
    BY <1>22, <2>0 DEF WorkerAborts, TaskOver, TypeOK, Tasks
  <2>2. PermitsConserved'
    BY <1>22, TaskEnds DEF WorkerAborts
  <2>3. Tasks'
    BY <1>22, <2>0 DEF WorkerAborts, TaskOver, TypeOK, Tasks
  <2>4. WriteAhead'
    BY <1>22, <2>0 DEF WorkerAborts, TaskOver, TypeOK, Tasks, WriteAhead
  <2>5. Acknowledged'
    BY <1>22, <2>0
    DEF WorkerAborts, TaskOver, TypeOK, Tasks, WriteAhead, Acknowledged
  <2>6. FreshAttempts'
    BY <1>22, <2>0
    DEF WorkerAborts, TaskOver, TypeOK, Tasks, WriteAhead, FreshAttempts
  <2>7. Stopped'
    BY <1>22, <2>0 DEF WorkerAborts, TaskOver, TypeOK, Stopped, ActiveWorkers
  <2> QED
    BY <2>1, <2>2, <2>3, <2>4, <2>5, <2>6, <2>7
<1>23. CASE UNCHANGED vars
  BY <1>23
  DEF vars, ActiveWorkers, TypeOK, PermitsConserved, Tasks, WriteAhead,
              Acknowledged, FreshAttempts, Stopped
<1> QED
  BY <1>1, <1>2, <1>3, <1>4, <1>5, <1>6, <1>7, <1>8, <1>9, <1>10, <1>11,
     <1>12, <1>13, <1>14, <1>15, <1>16, <1>17, <1>18, <1>19, <1>20, <1>21,
     <1>22, <1>23
  DEF Next, Replay, Loop, Worker
-----------------------------------------------------------------------------
(* The theorems. *)

\* The conjunction above is an inductive invariant of the daemon.
THEOREM Inductive == Spec => []IInv
  BY InitIInv, NextIInv, PTL DEF Spec

\* Every variable of the daemon keeps its type.
THEOREM TypeCorrect == Spec => []TypeOK
<1>1. IInv => TypeOK
  BY DEF IInv
<1> QED
  BY <1>1, Inductive, PTL

\* The semaphore of run_daemon neither loses nor invents a permit.
THEOREM PermitsKept == Spec => []PermitsConserved
<1>1. IInv => PermitsConserved
  BY DEF IInv
<1> QED
  BY <1>1, Inductive, PTL

\* With attempt numbers used once, a replay repeats what the plane holds.
THEOREM ReplayAgrees == Spec => []OutboxMatchesPlane
<1>1. IInv => OutboxMatchesPlane
  BY DEF IInv, FreshAttempts, OutboxMatchesPlane
<1> QED
  BY <1>1, Inductive, PTL

\* Every step of the daemon is a step of the outbox contract or leaves it
\* unchanged.
THEOREM OutboxSafety == Spec => KeepsOutboxContract
<1>1. Init => Outbox!Init
  BY DEF Init, Outbox!Init
<1>2. IInv /\ [Next]_vars => [Outbox!Next]_Outbox!vars
  <2> SUFFICES ASSUME IInv, [Next]_vars
               PROVE  Outbox!Next \/ UNCHANGED Outbox!vars
    OBVIOUS
  <2> USE DEF loopVars, workerVars, replayVars, outboxVars, planeVars
  <2>0. ASSUME NEW k \in Keys, NEW p \in Leases, row[k] # 0,
               Stores(k, p), accepted' = [accepted EXCEPT ![k] = p],
               UNCHANGED outboxVars
        PROVE  Outbox!Next \/ UNCHANGED Outbox!vars
    <3>1. accepted \in [Keys -> 0..MaxLeases] /\ p # 0
      BY DaemonConstants DEF IInv, TypeOK, Leases
    <3>2. CASE accepted[k] = p
      <4>1. accepted' = accepted
        BY <2>0, <3>1, <3>2
      <4> QED
        BY <2>0, <4>1 DEF Outbox!vars
    <3>3. CASE accepted[k] = 0
      <4> DEFINE acc == [q \in Keys |-> {accepted[q]} \ {0}]
                 rec == [q \in Keys |-> {row[q]} \ {0}]
      <4>1. acc' = [acc EXCEPT ![k] = {p}] /\ acc[k] = {}
        BY <2>0, <3>1, <3>3
      <4>2. rec[k] # {} /\ rec' = rec
        BY <2>0
      <4>3. Outbox!Accept(k, p)
        BY <2>0, <4>1, <4>2 DEF Outbox!Accept
      <4> QED
        BY <4>3 DEF Outbox!Next
    <3> QED
      BY <2>0, <3>2, <3>3 DEF Stores
  <2>1. ASSUME NEW k \in Keys, accepted[k] # 0, delivered' = delivered \cup {k},
               UNCHANGED <<row, accepted>>
        PROVE  Outbox!Next \/ UNCHANGED Outbox!vars
    BY <2>1 DEF Outbox!Next, Outbox!Deliver
  <2>2. ASSUME NEW l \in Leases, WorkerRecord(l)
        PROVE  Outbox!Next \/ UNCHANGED Outbox!vars
    <3>1. leased[l] \in Keys /\ l # 0 /\ row \in [Keys -> 0..MaxLeases]
      BY <2>2, LeasedKey DEF IInv, TypeOK, WorkerRecord, Leases
    <3>2. CASE row[leased[l]] # 0
      BY <2>2, <3>2 DEF WorkerRecord, Outbox!vars
    <3>3. CASE row[leased[l]] = 0
      <4> DEFINE rec == [q \in Keys |-> {row[q]} \ {0}]
      <4>1. rec' = [rec EXCEPT ![leased[l]] = {l}] /\ rec[leased[l]] = {}
        BY <2>2, <3>1, <3>3 DEF WorkerRecord
      <4>2. Outbox!Record(leased[l], l)
        BY <2>2, <4>1 DEF WorkerRecord, Outbox!Record
      <4> QED
        BY <3>1, <4>2 DEF Outbox!Next
    <3> QED
      BY <3>2, <3>3
  <2>3. ASSUME NEW l \in Leases, worker[l] \in {"send", "mark"}
        PROVE  leased[l] \in Keys /\ row[leased[l]] # 0
    BY <2>3, LeasedKey DEF IInv, WriteAhead, Reporting
  <2>4. ASSUME NEW l \in Leases, Worker(l)
        PROVE  Outbox!Next \/ UNCHANGED Outbox!vars
    <3>1. CASE WorkerOk(l)
      BY <2>0, <2>3, <3>1 DEF WorkerOk
    <3>2. CASE WorkerFail(l)
      <4>1. CASE UNCHANGED accepted
        BY <3>2, <4>1 DEF WorkerFail, Outbox!vars
      <4>2. CASE Stores(leased[l], l) /\ accepted' = [accepted EXCEPT ![leased[l]] = l]
        BY <2>0, <2>3, <3>2, <4>2 DEF WorkerFail
      <4> QED
        BY <3>2, <4>1, <4>2 DEF WorkerFail
    <3>3. CASE WorkerMark(l)
      BY <2>1, <2>3, <3>3 DEF WorkerMark, IInv, Acknowledged
    <3>4. CASE WorkerSend(l) \/ WorkerAborts(l)
      BY <3>4 DEF WorkerSend, WorkerAborts, Outbox!vars
    <3> QED
      BY <2>2, <2>4, <3>1, <3>2, <3>3, <3>4 DEF Worker
  <2>5. ASSUME NEW k \in replayed
        PROVE  k \in Keys /\ row[k] # 0 /\ row[k] \in Leases
    <3>1. k \in Keys /\ row[k] # 0 /\ row[k] \in 0..MaxLeases
      BY <2>5 DEF IInv, TypeOK, WriteAhead
    <3> QED
      BY <3>1, DaemonConstants DEF Leases
  <2>6. ASSUME NEW k \in Keys, \/ ReplaySend(k) \/ ReplaySkip(k) \/ ReplayOk(k)
                               \/ ReplayFail(k) \/ ReplayMark(k) \/ ReplayMarkFail(k)
        PROVE  Outbox!Next \/ UNCHANGED Outbox!vars
    <3>1. CASE ReplayOk(k)
      BY <2>0, <2>5, <3>1 DEF ReplayOk
    <3>2. CASE ReplayFail(k)
      <4>1. CASE UNCHANGED accepted
        BY <3>2, <4>1 DEF ReplayFail, Outbox!vars
      <4>2. CASE Stores(k, row[k]) /\ accepted' = [accepted EXCEPT ![k] = row[k]]
        BY <2>0, <2>5, <3>2, <4>2 DEF ReplayFail
      <4> QED
        BY <3>2, <4>1, <4>2 DEF ReplayFail
    <3>3. CASE ReplayMark(k)
      BY <2>1, <3>3 DEF ReplayMark, IInv, Acknowledged
    <3>4. CASE ReplaySend(k) \/ ReplaySkip(k) \/ ReplayMarkFail(k)
      BY <3>4 DEF ReplaySend, ReplaySkip, ReplayMarkFail, Outbox!vars
    <3> QED
      BY <2>6, <3>1, <3>2, <3>3, <3>4
  <2>7. CASE Start \/ Shutdown \/ Crash \/ ReplayEnd \/ Loop
    BY <2>7 DEF Start, Shutdown, Crash, ReplayEnd, Loop, Acquire, LeaseSome,
                LeaseNone, IdleOver, Break, Drained, Outbox!vars
  <2>8. CASE UNCHANGED vars
    BY <2>8 DEF vars, Outbox!vars
  <2> QED
    BY <2>4, <2>6, <2>7, <2>8 DEF Next, Replay
<1> QED
  BY <1>1, <1>2, Inductive, PTL DEF Spec, KeepsOutboxContract, Outbox!Spec
============================================================================
