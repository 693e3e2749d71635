--------------------------- MODULE SandboxProofs ----------------------------
(***************************************************************************)
(* Safety of Sandbox for every number of services and of cleanups.  Three  *)
(* invariants: what a run makes and removes holds beside any cleanup       *)
(* (Resources), so does what a command has earned (Earned); the row of the *)
(* journal belongs to one process at a time (Row, Swept) only where        *)
(* cleanup waits for the run to be over.                                   *)
(***************************************************************************)
EXTENDS Sandbox, TLAPS

\* The run has returned or died exactly when nothing is left for it to do, and
\* the service in hand is one of the job's.
Placed ==
  /\ outcome = "none" <=> pc # "ended"
  /\ next >= 1
  /\ pc = "start_service" => next \in Services

\* The job has no other containers than its own and its services', and while it
\* removes them each one that exists is still to be removed or was refused.
Resources ==
  /\ \A c \in Containers : ctr[c] # "gone" => c \in {0} \cup Services
  /\ pc = "remove" => \A c \in Containers : ctr[c] # "gone" => c \in victims \cup refused
  /\ pc = "destroyed" \/ outcome = "ok" => OnlyRefusedLeft

\* Steps that run after the verdict on a command.
AfterVerdict == {"export", "final", "destroying", "remove", "destroyed", "ended"}

\* A command that was not stopped, and whose log stream was not cut, has exited by
\* the time its code is read, and Docker's account of it does not change any more.
Earned ==
  /\ pc \in {"inspect", "verdict", "publish"} => IsCommand
  /\ pc \notin AfterVerdict => pushed = "none"
  /\ (IsCommand /\ pc \notin AfterVerdict \cup {"publish"}) => status = "none"
  /\ (IsCommand /\ stop = "none" /\ ~cut /\ pc \in {"inspect", "collecting", "verdict"})
       => ctr[0] # "running"
  /\ (IsCommand /\ stop = "none" /\ ~cut /\ pc \in {"collecting", "verdict"} /\ code = 0)
       => ctr[0] \in {"exited", "gone"}
  /\ (IsCommand /\ pc \in {"work", "inspect", "collecting", "verdict"})
       => ctr[0] # "created"
  /\ pc = "publish" => status = "completed"
  /\ (IsCommand /\ status = "completed") =>
       /\ stop = "none" /\ (cut \/ ctr[0] \in {"exited", "gone"})
       /\ (pc # "publish" /\ job.publish_mode = "required") => pushed # "none"
  /\ pushed # "none" => stop = "none" /\ (cut \/ ctr[0] \in {"exited", "gone"})

JobInv == TypeOK /\ Placed /\ Resources /\ Earned

\* The state of the row at each step of the run.
Row ==
  /\ pc \in {"validate", "received"} => journal = "none"
  /\ pc = "preparing" => journal = "received"
  /\ pc \in {"workspace", "pull", "network", "environment", "services", "start_service",
             "create", "feedback", "running"} => journal = "preparing"
  /\ pc = "start" => journal = IF IsCommand THEN "running" ELSE "preparing"
  /\ pc \in {"work", "inspect", "collecting"} => journal = "running"
  /\ pc \in {"verdict", "publish", "export", "final"} => journal = "collecting"
  /\ pc = "destroying" => journal \in Statuses
  /\ pc \in {"remove", "destroyed"} => journal = "destroying"
  /\ pc = "unwind" => journal \in {"preparing", "running"}
  /\ pc \in {"publish", "export", "final"} => status \in Statuses
  /\ (pc = "collecting" /\ ~IsCommand) => status \in Statuses
  /\ journal = "destroyed" => pc = "ended" /\ OnlyRefusedLeft

\* A cleanup that waits for the run meets no container that appears behind its
\* back: what it has seen removed stays removed.
Swept ==
  /\ outcome = "none" => cleaner = "idle"
  /\ (cleaner = "containers" /\ ~active /\ ~incomplete)
       => \A c \in Containers : ctr[c] # "gone" => c \in listed
  /\ (cleaner \in {"network", "journal", "mark", "marked", "done"} /\ ~active /\ ~incomplete)
       => \A c \in Containers : ctr[c] = "gone"
  /\ (cleaner \in {"journal", "mark", "marked", "done"} /\ ~active /\ ~incomplete)
       => net = "gone"
  /\ cleaner \in {"mark", "marked"} => ~active /\ ~incomplete
  /\ cleaner = "mark" => journal \notin Finished \cup {"none"}
  /\ cleaner = "marked" => journal = "destroying"
  /\ cleaner = "done" => ~incomplete
  /\ (cleaner = "done" /\ ~active) => journal \in Finished \cup {"none"}

IInv == JobInv /\ Row /\ Swept
-----------------------------------------------------------------------------
\* The steps that pass or fail, and the ones that write the journal.
LEMMA Domains ==
  /\ DOMAIN PassedTo = {"validate", "workspace", "pull", "environment", "feedback", "export"}
  /\ DOMAIN Written = {"received", "preparing", "running", "collecting", "final",
                       "destroying", "destroyed"}
BY DEF PassedTo, Written

\* Where each step leads when it passes.
LEMMA PassedToAt ==
  /\ PassedTo["validate"] = "received" /\ PassedTo["workspace"] = "pull"
  /\ PassedTo["pull"] = "network" /\ PassedTo["feedback"] = "running"
  /\ PassedTo["environment"] = IF IsCommand THEN "create" ELSE "services"
  /\ PassedTo["export"] = "final"
BY DEF PassedTo

\* What each transition writes and what follows it.
LEMMA WrittenAt ==
  /\ Written["received"] = "received" /\ WrittenThen["received"] = "preparing"
  /\ Written["preparing"] = "preparing" /\ WrittenThen["preparing"] = "workspace"
  /\ Written["running"] = "running"
  /\ WrittenThen["running"] = IF IsCommand THEN "start" ELSE "work"
  /\ Written["collecting"] = "collecting"
  /\ WrittenThen["collecting"] = IF IsCommand THEN "verdict" ELSE "export"
  /\ Written["final"] = status /\ WrittenThen["final"] = "destroying"
  /\ Written["destroying"] = "destroying" /\ WrittenThen["destroying"] = "remove"
  /\ Written["destroyed"] = "destroyed" /\ WrittenThen["destroyed"] = "ended"
BY DEF Written, WrittenThen

\* The two tables keep their domains.
LEMMA DomainsNext ==
  /\ (DOMAIN PassedTo)' = {"validate", "workspace", "pull", "environment", "feedback",
                           "export"}
  /\ (DOMAIN Written)' = {"received", "preparing", "running", "collecting", "final",
                          "destroying", "destroyed"}
BY DEF PassedTo, Written

\* The containers of a job are among those of its sandbox.
LEMMA ServicesIn ==
  /\ 0 \in Containers /\ {0} \cup Services \subseteq Containers
  /\ \A n \in Services : n \in Nat /\ n >= 1 /\ 1..n \subseteq Containers
                         /\ 1..(n - 1) \subseteq Containers
BY SandboxConstants DEF Services, Containers

\* The initial states.
LEMMA InitIInv == Init => IInv
<1> SUFFICES ASSUME Init PROVE IInv
  OBVIOUS
<1> USE SandboxConstants, Domains, ServicesIn DEF Init
<1>1. TypeOK
  <2>1. /\ cut \in BOOLEAN /\ cancellation \in BOOLEAN /\ expired \in BOOLEAN
        /\ active \in BOOLEAN /\ incomplete \in BOOLEAN
    OBVIOUS
  <2>2. /\ pc \in DOMAIN PassedTo /\ next \in Nat /\ cleanups \in 0..MaxCleanups
        /\ ctr \in [Containers -> {"gone", "created", "running", "exited", "failed"}]
    OBVIOUS
  <2> QED
    BY <2>1, <2>2 DEF TypeOK
<1>2. Placed
  BY DEF Placed
<1>3. Resources
  BY DEF Resources
<1>4. Earned
  BY DEF Earned, AfterVerdict
<1>5. Row
  BY DEF Row
<1>6. Swept
  BY DEF Swept
<1> QED
  BY <1>1, <1>2, <1>3, <1>4, <1>5, <1>6 DEF IInv, JobInv

\* The steps around the run keep every variable in its type and the run in its place.
LEMMA TypeAround ==
  ASSUME TypeOK, Placed,
         \/ Cancel \/ Expire \/ StreamCut \/ Crash \/ Over
         \/ \E c \in Containers : ContainerExits(c)
  PROVE  TypeOK' /\ Placed'
<1> USE SandboxConstants, Domains, DomainsNext, ServicesIn
<1> USE DEF jobVars, dockerVars, signalVars, cleanerVars
<1>1. CASE Cancel
  BY <1>1 DEF Cancel, TypeOK, Placed, Services, IsCommand
<1>2. CASE Expire
  BY <1>2 DEF Expire, TypeOK, Placed, Services, IsCommand
<1>3. CASE Crash
  <2>1. cancellation' \in BOOLEAN /\ expired' \in BOOLEAN
    BY <1>3 DEF Crash
  <2>2. next' \in Nat /\ next' >= 1 /\ outcome' # "none" /\ pc' = "ended"
    BY <1>3 DEF Crash
  <2> QED
    BY <1>3, <2>1, <2>2 DEF Crash, TypeOK, Placed
<1>4. CASE Over
  BY <1>4 DEF Over, vars, TypeOK, Placed, Services, IsCommand
<1>5. CASE \E c \in Containers : ContainerExits(c)
  BY <1>5 DEF ContainerExits, TypeOK, Placed, Services, IsCommand
<1>6. CASE StreamCut
  <2>1. cut' \in BOOLEAN
    BY <1>6 DEF StreamCut
  <2> QED
    BY <1>6, <2>1 DEF StreamCut, TypeOK, Placed, Services, IsCommand
<1> QED
  BY <1>1, <1>2, <1>3, <1>4, <1>5, <1>6

\* A step of the run is taken before its end and leaves the document as it is.
LEMMA StepFrame ==
  ASSUME Step \/ WorkError
  PROVE  /\ pc # "ended" /\ job' = job
         /\ Services' = Services /\ IsCommand' = IsCommand
BY Domains
DEF Step, WorkError, Pass, Fail, Transition, TransitionFails, CreateNetwork,
    CreateNetworkFails, ServicesRefused, CreateService, StartService, ServicesHealthy,
    CreateContainer, StartContainer, Logs, LogsStopped, Inspect, Verdict, PublishGit,
    PublishGitFails, WorkflowSettles, RemoveNetwork, Remove, Services, IsCommand

\* Every step of the run keeps every variable in its type and the run in its place.
LEMMA TypeStep ==
  ASSUME TypeOK, Placed, Step \/ WorkError
  PROVE  TypeOK' /\ Placed'
<1> USE SandboxConstants, Domains, DomainsNext
<1> USE DEF dockerVars, signalVars, cleanerVars
<1>a. job' = job /\ Services' = Services
  BY StepFrame
<1>1. CASE Pass
  BY <1>1, <1>a, PassedToAt DEF Pass, TypeOK, Placed
<1>2. CASE Fail \/ ServicesRefused \/ WorkError
  BY <1>2, <1>a DEF Fail, ServicesRefused, WorkError, ReturnErr, TypeOK, Placed
<1>3. CASE Transition
  <2>1. pc = "final" => journal' \in Statuses \cup {"none"}
    BY <1>3, WrittenAt DEF Transition, TypeOK
  <2> QED
    BY <1>3, <1>a, <2>1, WrittenAt, ServicesIn DEF Transition, TypeOK, Placed, Finished
<1>4. CASE TransitionFails
  BY <1>4, <1>a, WrittenAt DEF TransitionFails, ReturnErr, TypeOK, Placed, Finished
<1>5. CASE CreateNetwork
  BY <1>5, <1>a DEF CreateNetwork, TypeOK, Placed
<1>6. CASE CreateNetworkFails
  BY <1>6, <1>a DEF CreateNetworkFails, ReturnErr, TypeOK, Placed
<1>7. CASE CreateService
  BY <1>7, <1>a, ServicesIn DEF CreateService, Unwind, TypeOK, Placed
<1>8. CASE StartService
  BY <1>8, <1>a, ServicesIn DEF StartService, Starts, StartFails, Unwind, TypeOK, Placed
<1>9. CASE ServicesHealthy
  BY <1>9, <1>a, ServicesIn DEF ServicesHealthy, Unwind, TypeOK, Placed
<1>10. CASE CreateContainer
  BY <1>10, <1>a, ServicesIn DEF CreateContainer, Unwind, TypeOK, Placed
<1>11. CASE StartContainer
  BY <1>11, <1>a, ServicesIn
  DEF StartContainer, Starts, StartFails, Unwind, TypeOK, Placed
<1>12. CASE Logs
  BY <1>12, <1>a DEF Logs, TypeOK, Placed
<1>13. CASE LogsStopped
  BY <1>13, <1>a DEF LogsStopped, StopMain, TypeOK, Placed
<1>14. CASE Inspect
  BY <1>14, <1>a, ServicesIn DEF Inspect, Unwind, TypeOK, Placed
<1>15. CASE Verdict
  BY <1>15, <1>a DEF Verdict, TypeOK, Placed, Statuses
<1>16. CASE PublishGit
  BY <1>16, <1>a DEF PublishGit, TypeOK, Placed
<1>17. CASE PublishGitFails
  BY <1>17, <1>a DEF PublishGitFails, TypeOK, Placed, Statuses
<1>18. CASE WorkflowSettles
  BY <1>18, <1>a DEF WorkflowSettles, StopMain, TypeOK, Placed, Statuses
<1>19. CASE RemoveNetwork
  BY <1>19, <1>a DEF RemoveNetwork, ReturnErr, TypeOK, Placed
<1>20. CASE \E c \in Containers : Remove(c)
  BY <1>20, <1>a DEF Remove, TypeOK, Placed
<1> QED
  BY <1>1, <1>2, <1>3, <1>4, <1>5, <1>6, <1>7, <1>8, <1>9, <1>10, <1>11, <1>12, <1>13,
     <1>14, <1>15, <1>16, <1>17, <1>18, <1>19, <1>20 DEF Step

\* So does every step of cleanup.
LEMMA TypeCleanup ==
  ASSUME TypeOK, Placed, Cleanup
  PROVE  TypeOK' /\ Placed'
<1> USE SandboxConstants, Domains, DomainsNext
<1> USE DEF jobVars, dockerVars, signalVars
<1>a. Services' = Services
  BY DEF Cleanup, CleanupList, CleanupListNetworks, CleanupRemoveNetwork, CleanupJournal,
         CleanupMark, CleanupRemove, Services, IsCommand
<1>1. CASE CleanupList
  <2>1. active' \in BOOLEAN /\ incomplete' \in BOOLEAN
    BY <1>1 DEF CleanupList
  <2>2. cleanups' \in 0..MaxCleanups
    BY <1>1 DEF CleanupList, TypeOK
  <2> QED
    BY <1>1, <1>a, <2>1, <2>2 DEF CleanupList, TypeOK, Placed
<1>2. CASE CleanupListNetworks
  <2>1. active' \in BOOLEAN
    BY <1>2 DEF CleanupListNetworks, TypeOK
  <2> QED
    BY <1>2, <1>a, <2>1 DEF CleanupListNetworks, TypeOK, Placed
<1>3. CASE CleanupRemoveNetwork
  <2>1. incomplete' \in BOOLEAN
    BY <1>3 DEF CleanupRemoveNetwork, TypeOK
  <2> QED
    BY <1>3, <1>a, <2>1 DEF CleanupRemoveNetwork, TypeOK, Placed
<1>4. CASE CleanupJournal
  BY <1>4, <1>a DEF CleanupJournal, TypeOK, Placed
<1>5. CASE CleanupMark
  BY <1>5, <1>a DEF CleanupMark, TypeOK, Placed, Finished
<1>6. CASE \E c \in Containers : CleanupRemove(c)
  <2> PICK c \in Containers : CleanupRemove(c)
    BY <1>6
  <2>1. incomplete' \in BOOLEAN
    BY DEF CleanupRemove, TypeOK
  <2> QED
    BY <1>a, <2>1 DEF CleanupRemove, TypeOK, Placed
<1> QED
  BY <1>1, <1>2, <1>3, <1>4, <1>5, <1>6 DEF Cleanup
-----------------------------------------------------------------------------
\* What the world around the run does leaves the resources as Resources says.
LEMMA ResourcesAround ==
  ASSUME TypeOK, Placed, Resources,
         \/ Cancel \/ Expire \/ StreamCut \/ Crash \/ Over
         \/ \E c \in Containers : ContainerExits(c)
  PROVE  Resources'
<1> USE DEF jobVars, dockerVars, signalVars, cleanerVars
<1>1. CASE Cancel \/ Expire \/ StreamCut \/ Over
  BY <1>1 DEF Cancel, Expire, StreamCut, Over, vars, Resources, OnlyRefusedLeft, Services, IsCommand
<1>2. CASE Crash
  BY <1>2 DEF Crash, Resources, Services, IsCommand
<1>3. CASE \E c \in Containers : ContainerExits(c)
  BY <1>3 DEF ContainerExits, TypeOK, Resources, OnlyRefusedLeft, Services, IsCommand
<1> QED
  BY <1>1, <1>2, <1>3

\* Cleanup only takes containers and the network away.
LEMMA ResourcesCleanup ==
  ASSUME TypeOK, Placed, Resources, Cleanup
  PROVE  Resources'
<1> USE DEF jobVars, dockerVars, signalVars
<1>1. CASE CleanupList \/ CleanupListNetworks \/ CleanupJournal \/ CleanupMark
  BY <1>1 DEF CleanupList, CleanupListNetworks, CleanupJournal, CleanupMark, Resources,
              OnlyRefusedLeft, Services, IsCommand
<1>2. CASE CleanupRemoveNetwork
  BY <1>2 DEF CleanupRemoveNetwork, Resources, OnlyRefusedLeft, Services, IsCommand
<1>3. CASE \E c \in Containers : CleanupRemove(c)
  BY <1>3 DEF CleanupRemove, TypeOK, Resources, OnlyRefusedLeft, Services, IsCommand
<1> QED
  BY <1>1, <1>2, <1>3 DEF Cleanup

\* The run makes only its own containers, asks for the removal of every one that
\* exists, and of the network behind them.
LEMMA ResourcesStep ==
  ASSUME TypeOK, Placed, Resources, Step \/ WorkError
  PROVE  Resources'
<1> USE SandboxConstants, Domains DEF dockerVars, signalVars, cleanerVars
<1>a. job' = job /\ Services' = Services
  BY StepFrame
<1>b. outcome # "ok"
  BY StepFrame DEF Placed
<1> USE <1>a, <1>b
<1>1. CASE Pass
  BY <1>1, PassedToAt DEF Pass, Resources
<1>2. CASE Fail \/ ServicesRefused \/ WorkError
  BY <1>2 DEF Fail, ServicesRefused, WorkError, ReturnErr, Resources
<1>3. CASE Transition
  BY <1>3, WrittenAt DEF Transition, Resources, OnlyRefusedLeft
<1>4. CASE TransitionFails
  BY <1>4 DEF TransitionFails, ReturnErr, Resources
<1>5. CASE CreateNetwork \/ CreateNetworkFails
  BY <1>5 DEF CreateNetwork, CreateNetworkFails, ReturnErr, Resources
<1>6. CASE CreateService
  BY <1>6 DEF CreateService, Unwind, TypeOK, Resources
<1>7. CASE StartService
  BY <1>7 DEF StartService, Starts, StartFails, Unwind, TypeOK, Resources
<1>8. CASE ServicesHealthy
  BY <1>8 DEF ServicesHealthy, Unwind, Resources
<1>9. CASE CreateContainer
  BY <1>9 DEF CreateContainer, Unwind, TypeOK, Resources
<1>10. CASE StartContainer
  BY <1>10 DEF StartContainer, Starts, StartFails, Unwind, TypeOK, Resources
<1>11. CASE Logs \/ Inspect \/ Verdict \/ PublishGit \/ PublishGitFails
  BY <1>11
  DEF Logs, Inspect, Unwind, Verdict, PublishGit, PublishGitFails, Resources
<1>12. CASE LogsStopped
  BY <1>12 DEF LogsStopped, StopMain, TypeOK, Resources
<1>13. CASE WorkflowSettles
  BY <1>13 DEF WorkflowSettles, StopMain, TypeOK, Resources
<1>14. CASE RemoveNetwork
  <2>1. CASE pc = "unwind"
    BY <1>14, <2>1 DEF RemoveNetwork, ReturnErr, Resources
  <2>2. CASE pc = "remove"
    <3>1. \A c \in Containers : ctr'[c] # "gone" => c \in refused'
      BY <1>14, <2>2 DEF RemoveNetwork, Resources
    <3>2. net' = "up" => refused' # {}
      BY <1>14, <2>2 DEF RemoveNetwork, Removable, Resources, TypeOK
    <3> QED
      BY <1>14, <2>2, <3>1, <3>2 DEF RemoveNetwork, Resources, OnlyRefusedLeft
  <2> QED
    BY <1>14, <2>1, <2>2 DEF RemoveNetwork
<1>15. CASE \E c \in Containers : Remove(c)
  BY <1>15 DEF Remove, TypeOK, Resources
<1> QED
  BY <1>1, <1>2, <1>3, <1>4, <1>5, <1>6, <1>7, <1>8, <1>9, <1>10, <1>11, <1>12, <1>13,
     <1>14, <1>15 DEF Step
-----------------------------------------------------------------------------
\* A container that exits, a crash and a cleanup leave what was earned: the code
\* of a container that has exited does not change.
LEMMA EarnedAround ==
  ASSUME TypeOK, Placed, Earned,
         \/ Cancel \/ Expire \/ StreamCut \/ Crash \/ Over \/ Cleanup
         \/ \E c \in Containers : ContainerExits(c)
  PROVE  Earned'
<1> USE ServicesIn DEF jobVars, dockerVars, signalVars, cleanerVars, AfterVerdict
<1>1. CASE Cancel \/ Expire \/ StreamCut \/ Over
  BY <1>1 DEF Cancel, Expire, StreamCut, Over, vars, Earned, IsCommand
<1>2. CASE Crash
  BY <1>2 DEF Crash, Earned, IsCommand
<1>3. CASE \E c \in Containers : ContainerExits(c)
  BY <1>3 DEF ContainerExits, TypeOK, Earned, IsCommand
<1>4. CASE \/ CleanupList \/ CleanupListNetworks \/ CleanupJournal \/ CleanupMark
           \/ CleanupRemoveNetwork
  <2>1. UNCHANGED <<job, pc, stop, status, pushed, ctr, code, cut>>
    BY <1>4 DEF CleanupList, CleanupListNetworks, CleanupJournal, CleanupMark,
                CleanupRemoveNetwork
  <2> QED
    BY <2>1 DEF Earned, IsCommand
<1>5. CASE \E c \in Containers : CleanupRemove(c)
  BY <1>5 DEF CleanupRemove, TypeOK, Earned, IsCommand
<1> QED
  BY <1>1, <1>2, <1>3, <1>4, <1>5 DEF Cleanup

\* Nothing is published or completed but by a verdict on the code of a command
\* that exited by itself.
LEMMA EarnedStep ==
  ASSUME TypeOK, Placed, Earned, Step \/ WorkError
  PROVE  Earned'
<1> USE Domains, ServicesIn DEF dockerVars, signalVars, cleanerVars, AfterVerdict
<1>a. job' = job /\ IsCommand' = IsCommand
  BY StepFrame
<1> USE <1>a
<1>1. CASE Pass
  BY <1>1, PassedToAt DEF Pass, Earned
<1>2. CASE Fail \/ ServicesRefused \/ WorkError
  BY <1>2 DEF Fail, ServicesRefused, WorkError, ReturnErr, Earned
<1>3. CASE Transition
  BY <1>3, WrittenAt DEF Transition, Earned
<1>4. CASE TransitionFails
  BY <1>4 DEF TransitionFails, ReturnErr, Earned
<1>5. CASE CreateNetwork \/ CreateNetworkFails
  BY <1>5 DEF CreateNetwork, CreateNetworkFails, ReturnErr, Earned
<1>6. CASE CreateService
  BY <1>6 DEF CreateService, Unwind, TypeOK, Earned
<1>7. CASE StartService
  BY <1>7 DEF StartService, Starts, StartFails, Unwind, TypeOK, Earned
<1>8. CASE ServicesHealthy
  BY <1>8 DEF ServicesHealthy, Unwind, Earned
<1>9. CASE CreateContainer
  BY <1>9 DEF CreateContainer, Unwind, TypeOK, Earned
<1>10. CASE StartContainer
  BY <1>10 DEF StartContainer, Starts, StartFails, Unwind, TypeOK, Earned
<1>11. CASE Logs
  BY <1>11 DEF Logs, Earned
<1>12. CASE LogsStopped
  BY <1>12 DEF LogsStopped, StopMain, TypeOK, Earned
<1>13. CASE Inspect
  <2>1. /\ pc = "inspect" /\ pc' \in {"collecting", "unwind"}
        /\ UNCHANGED <<stop, status, pushed, ctr, cut>>
    BY <1>13 DEF Inspect, Unwind
  <2>2. (pc' = "collecting" /\ code' = 0) => ctr[0] # "failed" /\ ctr[0] # "gone"
    BY <1>13 DEF Inspect, Unwind
  <2>3. ctr[0] \in {"gone", "created", "running", "exited", "failed"}
    BY DEF TypeOK
  <2>4. IsCommand /\ pushed = "none" /\ status = "none" /\ ctr[0] # "created"
    BY <2>1 DEF Earned
  <2> QED
    BY <2>1, <2>2, <2>3, <2>4 DEF Earned
<1>14. CASE Verdict
  <2>1. pc = "verdict" /\ UNCHANGED <<job, stop, pushed, ctr, code, cut>>
    BY <1>14 DEF Verdict
  <2>2. /\ pc' = IF status' = "completed" THEN "publish" ELSE "export"
        /\ status' = "completed" => stop \notin {"cancelled", "timed_out"} /\ code = 0
    BY <1>14 DEF Verdict
  <2>3. status' = "completed"
          => stop = "none" /\ (cut \/ ctr[0] \in {"exited", "gone"})
    BY <2>1, <2>2 DEF Earned, TypeOK
  <2> QED
    BY <2>1, <2>2, <2>3 DEF Earned
<1>15. CASE PublishGit
  BY <1>15 DEF PublishGit, Earned
<1>16. CASE PublishGitFails
  BY <1>16 DEF PublishGitFails, Earned
<1>17. CASE WorkflowSettles
  BY <1>17 DEF WorkflowSettles, StopMain, TypeOK, Earned
<1>18. CASE RemoveNetwork
  BY <1>18 DEF RemoveNetwork, ReturnErr, Earned
<1>19. CASE \E c \in Containers : Remove(c)
  BY <1>19 DEF Remove, TypeOK, Earned
<1> QED
  BY <1>1, <1>2, <1>3, <1>4, <1>5, <1>6, <1>7, <1>8, <1>9, <1>10, <1>11, <1>12, <1>13,
     <1>14, <1>15, <1>16, <1>17, <1>18, <1>19 DEF Step

\* The run's part of the invariant, for any time cleanup may run at.
LEMMA NextJobInv == JobInv /\ [Next]_vars => JobInv'
<1> SUFFICES ASSUME JobInv, [Next]_vars PROVE JobInv'
  OBVIOUS
<1>0. TypeOK /\ Placed /\ Resources /\ Earned
  BY DEF JobInv
<1>1. CASE Cancel \/ Expire \/ StreamCut \/ Crash \/ Over \/ \E c \in Containers : ContainerExits(c)
  BY <1>0, <1>1, TypeAround, ResourcesAround, EarnedAround DEF JobInv
<1>2. CASE Step \/ WorkError
  BY <1>0, <1>2, TypeStep, ResourcesStep, EarnedStep DEF JobInv
<1>3. CASE Cleanup
  BY <1>0, <1>3, TypeCleanup, ResourcesCleanup, EarnedAround DEF JobInv
<1>4. CASE UNCHANGED vars
  <2> USE <1>0, <1>4 DEF vars, jobVars, dockerVars, signalVars, cleanerVars
  <2>1. TypeOK' /\ Placed'
    BY DEF TypeOK, Placed, PassedTo, Written, Services, IsCommand
  <2>2. Resources' /\ Earned'
    BY DEF Resources, OnlyRefusedLeft, Earned, Services, IsCommand
  <2> QED
    BY <2>1, <2>2 DEF JobInv
<1> QED
  BY <1>1, <1>2, <1>3, <1>4 DEF Next

\* The inductive invariant of a run, whenever cleanup may run beside it.
THEOREM JobInductive == Spec => []JobInv
<1>1. Init => JobInv
  BY InitIInv DEF IInv
<1> QED
  BY <1>1, NextJobInv, PTL DEF Spec

\* Every variable of the run, of Docker and of cleanup stays in its type, for every
\* number of services and cleanups.
THEOREM TypeCorrect == Spec => []TypeOK
<1>1. JobInv => TypeOK
  BY DEF JobInv
<1> QED
  BY <1>1, JobInductive, PTL

\* run and run_workflow return a result only after they asked Docker to remove
\* every container, service and network they made, even beside a cleanup.
THEOREM NothingForgotten == Spec => []OkLeavesNothing
<1>1. JobInv => OkLeavesNothing
  BY DEF JobInv, Resources, OkLeavesNothing
<1> QED
  BY <1>1, JobInductive, PTL

\* A command is published or completed only if it exited by itself with code 0,
\* unless its log stream was cut, and a required push has been made by then, even
\* beside a cleanup that removes the container before its code is read.
THEOREM CompletionEarned == Spec => []CompletedIsEarned
<1>1. JobInv => CompletedIsEarned
  BY DEF JobInv, Placed, Earned, CompletedIsEarned
<1> QED
  BY <1>1, JobInductive, PTL

\* For commands publish_mode = "required" means what the README says: what is
\* completed was pushed.  Only workflows break it.
THEOREM CommandsPublish ==
  ASSUME "workflow" \notin Kinds
  PROVE  Spec => []RequiredIsPublished
<1>1. JobInv => RequiredIsPublished
  <2> SUFFICES ASSUME JobInv PROVE RequiredIsPublished
    OBVIOUS
  <2>1. IsCommand
    BY SandboxConstants DEF JobInv, TypeOK, Jobs, IsCommand
  <2> QED
    BY <2>1 DEF JobInv, Placed, Earned, RequiredIsPublished
<1> QED
  BY <1>1, JobInductive, PTL
-----------------------------------------------------------------------------
\* The run writes its row in the order of the lifecycle.
LEMMA RowStep ==
  ASSUME JobInv, Row, Step \/ WorkError
  PROVE  Row'
<1> USE Domains DEF dockerVars, signalVars, cleanerVars
<1>a. job' = job /\ IsCommand' = IsCommand
  BY StepFrame
<1>b. journal # "destroyed"
  BY StepFrame DEF Row
<1> USE <1>a, <1>b DEF Row
<1>1. CASE Pass
  BY <1>1, PassedToAt DEF Pass
<1>2. CASE Fail \/ ServicesRefused \/ WorkError
  BY <1>2 DEF Fail, ServicesRefused, WorkError, ReturnErr
<1>3. CASE Transition
  <2>1. pc = "destroyed" => OnlyRefusedLeft'
    BY <1>3 DEF Transition, JobInv, Resources, OnlyRefusedLeft
  <2>2. pc = "final" => journal' \in Statuses
    BY <1>3, WrittenAt DEF Transition
  <2> QED
    BY <1>3, <2>1, <2>2, WrittenAt DEF Transition, Statuses
<1>4. CASE TransitionFails
  <2>1. pc = "destroyed" => OnlyRefusedLeft'
    BY <1>4 DEF TransitionFails, JobInv, Resources, OnlyRefusedLeft
  <2>2. pc = "final" => journal' # "destroyed"
    BY <1>4, WrittenAt DEF TransitionFails, Statuses
  <2> QED
    BY <1>4, <2>1, <2>2, WrittenAt DEF TransitionFails, ReturnErr
<1>5. CASE CreateNetwork \/ CreateNetworkFails
  BY <1>5 DEF CreateNetwork, CreateNetworkFails, ReturnErr
<1>6. CASE CreateService \/ StartService \/ ServicesHealthy
  BY <1>6 DEF CreateService, StartService, ServicesHealthy, Unwind
<1>7. CASE CreateContainer \/ StartContainer
  BY <1>7 DEF CreateContainer, StartContainer, Unwind
<1>8. CASE Logs \/ LogsStopped \/ Inspect
  BY <1>8 DEF Logs, LogsStopped, Inspect, Unwind, JobInv, Earned
<1>9. CASE Verdict \/ PublishGit \/ PublishGitFails
  BY <1>9 DEF Verdict, PublishGit, PublishGitFails, Statuses
<1>10. CASE WorkflowSettles
  BY <1>10 DEF WorkflowSettles, Statuses
<1>11. CASE RemoveNetwork \/ \E c \in Containers : Remove(c)
  BY <1>11 DEF RemoveNetwork, Remove, ReturnErr
<1> QED
  BY <1>1, <1>2, <1>3, <1>4, <1>5, <1>6, <1>7, <1>8, <1>9, <1>10, <1>11 DEF Step

\* A cleanup that waits for the run finds it over.
LEMMA CleanupWaits ==
  ASSUME CleanupWhen # "any", Placed, Swept, Cleanup
  PROVE  outcome # "none" /\ pc = "ended"
BY DEF Cleanup, CleanupList, CleanupListNetworks, CleanupRemoveNetwork, CleanupJournal,
       CleanupMark, CleanupRemove, Placed, Swept

\* What happens around the run, and a cleanup after it, keep the row's meaning.
LEMMA RowAround ==
  ASSUME CleanupWhen # "any", JobInv, Row, Swept,
         \/ Cancel \/ Expire \/ StreamCut \/ Crash \/ Over \/ Cleanup
         \/ \E c \in Containers : ContainerExits(c)
  PROVE  Row'
<1> USE DEF jobVars, dockerVars, signalVars, cleanerVars
<1>1. CASE Cancel \/ Expire \/ StreamCut \/ Over
  BY <1>1 DEF Cancel, Expire, StreamCut, Over, vars, Row, OnlyRefusedLeft, IsCommand
<1>2. CASE Crash
  BY <1>2 DEF Crash, Row, JobInv, Placed
<1>3. CASE \E c \in Containers : ContainerExits(c)
  BY <1>3 DEF ContainerExits, JobInv, TypeOK, Row, OnlyRefusedLeft, IsCommand
<1>4. CASE Cleanup
  <2>1. pc' = "ended"
    BY <1>4, CleanupWaits
       DEF Cleanup, CleanupList, CleanupListNetworks, CleanupRemoveNetwork,
           CleanupJournal, CleanupMark, CleanupRemove, JobInv
  <2>2. journal' = "destroyed" => OnlyRefusedLeft'
    <3>1. CASE CleanupList \/ CleanupListNetworks \/ CleanupJournal
      BY <3>1 DEF CleanupList, CleanupListNetworks, CleanupJournal, Row, OnlyRefusedLeft
    <3>2. CASE CleanupRemoveNetwork
      BY <3>2 DEF CleanupRemoveNetwork, Row, OnlyRefusedLeft
    <3>3. CASE \E c \in Containers : CleanupRemove(c)
      BY <3>3 DEF CleanupRemove, JobInv, TypeOK, Row, OnlyRefusedLeft
    <3>4. CASE CleanupMark
      BY <3>4 DEF CleanupMark, Swept, OnlyRefusedLeft
    <3> QED
      BY <1>4, <3>1, <3>2, <3>3, <3>4 DEF Cleanup
  <2> QED
    BY <2>1, <2>2 DEF Row
<1> QED
  BY <1>1, <1>2, <1>3, <1>4

\* While the run is on, a cleanup that waits for it is idle; after it no container
\* comes back.
LEMMA SweptAround ==
  ASSUME JobInv, Swept,
         \/ Cancel \/ Expire \/ StreamCut \/ Crash \/ Over \/ Step \/ WorkError
         \/ \E c \in Containers : ContainerExits(c)
  PROVE  Swept'
<1> USE DEF jobVars, dockerVars, signalVars, cleanerVars
<1>1. CASE Over
  BY <1>1 DEF Over, vars, Swept
<1>2. CASE \E c \in Containers : ContainerExits(c)
  BY <1>2 DEF ContainerExits, JobInv, TypeOK, Swept
<1>3. CASE Cancel \/ Expire \/ StreamCut \/ Crash
  BY <1>3 DEF Cancel, Expire, StreamCut, Crash, Swept
<1>4. CASE Step \/ WorkError
  <2>1. cleaner = "idle"
    BY <1>4, StepFrame DEF JobInv, Placed, Swept
  <2>2. cleaner' = cleaner
    BY <1>4
    DEF Step, WorkError, Pass, Fail, Transition, TransitionFails, CreateNetwork,
        CreateNetworkFails, ServicesRefused, CreateService, StartService,
        ServicesHealthy, CreateContainer, StartContainer, Logs, LogsStopped, Inspect,
        Verdict, PublishGit, PublishGitFails, WorkflowSettles, RemoveNetwork, Remove
  <2> QED
    BY <2>1, <2>2 DEF Swept
<1> QED
  BY <1>1, <1>2, <1>3, <1>4

\* Cleanup goes from what it listed to what is gone; an error on the way, or
\* something active, takes its claim back.
LEMMA SweptCleanup ==
  ASSUME CleanupWhen # "any", JobInv, Swept, Cleanup
  PROVE  Swept'
<1> USE DEF jobVars, dockerVars, signalVars
<1>0. outcome # "none" /\ TypeOK
  BY CleanupWaits DEF JobInv
<1>a. outcome' # "none"
  BY <1>0 DEF Cleanup, CleanupList, CleanupListNetworks, CleanupRemoveNetwork,
              CleanupJournal, CleanupMark, CleanupRemove
<1>1. CASE CleanupList
  <2>1. cleaner' = "containers" /\ ctr' = ctr
    BY <1>1 DEF CleanupList
  <2>2. ~active' => \A c \in Containers : ctr[c] # "gone" => c \in listed'
    BY <1>1, <1>0 DEF CleanupList, TypeOK
  <2> QED
    BY <1>a, <2>1, <2>2 DEF Swept
<1>2. CASE CleanupListNetworks
  BY <1>2, <1>a, <1>0 DEF CleanupListNetworks, TypeOK, Swept
<1>3. CASE CleanupRemoveNetwork
  BY <1>3, <1>a, <1>0 DEF CleanupRemoveNetwork, TypeOK, Swept
<1>4. CASE CleanupJournal
  BY <1>4, <1>a, <1>0 DEF CleanupJournal, TypeOK, Swept
<1>5. CASE CleanupMark
  BY <1>5, <1>a, <1>0 DEF CleanupMark, TypeOK, Swept, Finished, Statuses
<1>6. CASE \E c \in Containers : CleanupRemove(c)
  <2> PICK c \in Containers : CleanupRemove(c)
    BY <1>6
  <2>1. /\ cleaner = "containers" /\ cleaner' = "containers"
        /\ active' = active /\ listed' = listed \ {c}
    BY DEF CleanupRemove
  <2>2. ~incomplete' => ~incomplete /\ ctr' = [ctr EXCEPT ![c] = "gone"]
    BY <1>0 DEF CleanupRemove, TypeOK
  <2> QED
    BY <1>a, <1>0, <2>1, <2>2 DEF TypeOK, Swept
<1> QED
  BY <1>1, <1>2, <1>3, <1>4, <1>5, <1>6 DEF Cleanup

\* Every step keeps the whole invariant where cleanup waits for the run.
LEMMA NextIInv ==
  ASSUME CleanupWhen # "any"
  PROVE  IInv /\ [Next]_vars => IInv'
<1> SUFFICES ASSUME IInv, [Next]_vars PROVE IInv'
  OBVIOUS
<1>0. JobInv /\ Row /\ Swept /\ JobInv'
  BY NextJobInv DEF IInv
<1>1. CASE Cancel \/ Expire \/ StreamCut \/ Crash \/ Over \/ \E c \in Containers : ContainerExits(c)
  BY <1>0, <1>1, RowAround, SweptAround DEF IInv
<1>2. CASE Step \/ WorkError
  BY <1>0, <1>2, RowStep, SweptAround DEF IInv
<1>3. CASE Cleanup
  BY <1>0, <1>3, RowAround, SweptCleanup DEF IInv
<1>4. CASE UNCHANGED vars
  BY <1>0, <1>4 DEF vars, jobVars, dockerVars, signalVars, cleanerVars, IInv, Row,
                    Swept, OnlyRefusedLeft, IsCommand
<1> QED
  BY <1>1, <1>2, <1>3, <1>4 DEF Next

\* The inductive invariant where cleanup waits for the run to be over.
THEOREM Inductive ==
  ASSUME CleanupWhen # "any"
  PROVE  Spec => []IInv
BY InitIInv, NextIInv, PTL DEF Spec

\* A row that says destroyed belongs to a job of which only refused removals are
\* left, whether the run or a cleanup after any crash wrote it.
THEOREM DestroyedMeansGone ==
  ASSUME CleanupWhen # "any"
  PROVE  Spec => []DestroyedIsGone
<1>1. IInv => DestroyedIsGone
  BY DEF IInv, Row, DestroyedIsGone
<1> QED
  BY <1>1, Inductive, PTL

\* A successful cleanup that saw nothing active leaves no resource and no
\* unfinished row, wherever the run died.
THEOREM CleanupComplete ==
  ASSUME CleanupWhen # "any"
  PROVE  Spec => []CleanupDoneIsClean
<1>1. IInv => CleanupDoneIsClean
  BY DEF IInv, Swept, CleanupDoneIsClean, NothingLeft
<1> QED
  BY <1>1, Inductive, PTL

\* A move of the row that LifecycleForward allows.
Allowed ==
  \/ journal = "none" /\ journal' = "received"
  \/ <<journal, journal'>> \in valid_transition
  \/ journal = "collecting" /\ journal' \in {"cancelled", "timed_out"}
  \/ /\ outcome # "none" /\ journal \notin Finished \cup {"none"}
     /\ journal' = "destroying"

\* A step that changes the row makes an allowed move.
LEMMA RowForward ==
  ASSUME CleanupWhen # "any", IInv, [Next]_vars, journal' # journal
  PROVE  Allowed
<1> USE Domains DEF Allowed
<1>0. JobInv /\ TypeOK /\ Row /\ Swept
  BY DEF IInv, JobInv
<1>1. CASE Transition \/ TransitionFails
  <2>1. pc \in DOMAIN Written /\ journal' = Written[pc]
    BY <1>1 DEF Transition, TransitionFails
  <2>2. CASE pc = "final"
    <3>1. journal = "collecting" /\ journal' \in Statuses
      BY <1>0, <2>1, <2>2, WrittenAt DEF Row
    <3> QED
      BY <3>1 DEF valid_transition, Statuses
  <2>3. CASE pc = "destroying"
    <3>1. journal \in Statuses /\ journal' = "destroying"
      BY <1>0, <2>1, <2>3, WrittenAt DEF Row
    <3> QED
      BY <3>1 DEF valid_transition
  <2>4. CASE pc \notin {"final", "destroying"}
    BY <1>0, <2>1, <2>4, WrittenAt DEF Row, valid_transition
  <2> QED
    BY <2>2, <2>3, <2>4
<1>2. CASE CleanupMark
  <2>0. outcome # "none"
    BY <1>0, <1>2, CleanupWaits DEF Cleanup, JobInv
  <2>1. CASE cleaner = "mark"
    <3>1. journal' = "destroying"
      BY <1>2, <2>1 DEF CleanupMark
    <3>2. journal \notin Finished \cup {"none"}
      BY <1>0, <2>1 DEF Swept
    <3> QED
      BY <2>0, <3>1, <3>2
  <2>2. CASE cleaner = "marked"
    BY <1>0, <1>2, <2>2 DEF CleanupMark, Swept, valid_transition
  <2> QED
    BY <1>2, <2>1, <2>2 DEF CleanupMark
<1> QED
  BY <1>1, <1>2
  DEF Next, vars, jobVars, dockerVars, signalVars, cleanerVars, Cancel, Expire, StreamCut, Crash,
      Over, ContainerExits, Step, WorkError, Pass, Fail, CreateNetwork,
      CreateNetworkFails, ServicesRefused, CreateService, StartService,
      ServicesHealthy, CreateContainer, StartContainer, Logs, LogsStopped, Inspect,
      Verdict, PublishGit, PublishGitFails, WorkflowSettles, RemoveNetwork, Remove,
      Cleanup, CleanupList, CleanupListNetworks, CleanupRemoveNetwork, CleanupJournal,
      CleanupRemove

\* The row of one run moves as valid_transition says, but for the moves that
\* LifecycleForward names, through a crash at any step and any number of cleanups
\* that start after the run is over.
THEOREM RowOnlyForward ==
  ASSUME CleanupWhen # "any"
  PROVE  Spec => LifecycleForward
<1>1. IInv /\ [Next]_vars => [Allowed]_journal
  BY RowForward
<1> QED
  BY <1>1, Inductive, PTL DEF Spec, LifecycleForward, Allowed
============================================================================
