------------------------------ MODULE Sandbox -------------------------------
(***************************************************************************)
(* The sandbox of one job in crates/executor-docker/src/lib.rs: the        *)
(* containers and the network that run and run_workflow create and remove, *)
(* every early return between, the lifecycle row they keep in the journal, *)
(* and the cleanup command, which works on the same Docker resources and   *)
(* the same journal from another process.  What a workflow executes in its *)
(* container is module Workflow.                                           *)
(*                                                                         *)
(* Container 0 is the job's own, 1..ServiceCount are its services.  Docker *)
(* is external: a force removal takes a container in any state, a network  *)
(* is not removed while a running container is attached to it.             *)
(***************************************************************************)
EXTENDS Naturals, FiniteSets

CONSTANTS
  Kinds,         \* the kinds of job explored: "command", "workflow"
  ServiceCount,  \* workflow.services.len()
  DockerFaults,  \* may a Docker call that changes something fail or be lost?
  JournalFaults, \* may a journal write fail?
  CleanupWhen,   \* cleanup runs "never", when the job is over ("quiet"), "any" time
  MaxCleanups    \* bound: runs of the cleanup command

ASSUME SandboxConstants ==
  /\ Kinds \subseteq {"command", "workflow"}
  /\ ServiceCount \in Nat /\ MaxCleanups \in Nat
  /\ DockerFaults \in BOOLEAN /\ JournalFaults \in BOOLEAN
  /\ CleanupWhen \in {"never", "quiet", "any"}

Containers == 0..ServiceCount
Network    == ServiceCount + 1  \* its name among the resources in `refused`
Jobs == [kind : Kinds, network : {"bridge", "none"},
         publish_mode : {"disabled", "if_changed", "required"}]
Statuses == {"completed", "failed", "cancelled", "timed_out"}
Finished == Statuses \cup {"destroyed"}

VARIABLES
  job,       \* what the spec asks for
  pc,        \* the next thing run / run_workflow does
  next,      \* the service being started
  victims,   \* containers still to be removed on the way out
  stop,      \* cancellation_requested / timeout_requested
  status,    \* final_status
  pushed,    \* what git push brought to the remote: "none", "nothing", "commit"
  outcome,   \* how the call ended: "ok", "err", or "dead" with its process
  ctr,       \* Docker: container states; "failed": exited with another code than 0
  code,      \* the exit code that inspect_container gave: 0 or 1
  net,       \* Docker: is the job's network up?
  refused,   \* history: removals that Docker refused to run / run_workflow
  journal,   \* state of the job's row in `jobs`
  cancellation, expired,
  cut,       \* did the log stream end while the container was running?
  cleaner,   \* the next thing cleanup does
  listed,    \* containers it listed as not running and has yet to remove
  active,    \* active_resources
  incomplete,\* cleanup_error.is_some()
  cleanups   \* runs of cleanup so far

jobVars     == <<job, pc, next, victims, stop, status, pushed, outcome>>
dockerVars  == <<ctr, code, net, refused>>
signalVars  == <<cancellation, expired, cut>>
cleanerVars == <<cleaner, listed, active, incomplete, cleanups>>
vars == <<jobVars, dockerVars, journal, signalVars, cleanerVars>>

Init ==
  /\ job \in Jobs /\ pc = "validate" /\ next = 1 /\ victims = {}
  /\ stop = "none" /\ status = "none" /\ pushed = "none" /\ outcome = "none"
  /\ ctr = [c \in Containers |-> "gone"] /\ code = 0 /\ net = "gone"
  /\ refused = {}
  /\ journal = "none"
  /\ cancellation = FALSE /\ expired = FALSE /\ cut = FALSE
  /\ cleaner = "idle" /\ listed = {} /\ active = FALSE /\ incomplete = FALSE
  /\ cleanups = 0

IsCommand == job.kind = "command"
Services  == IF IsCommand THEN {} ELSE 1..ServiceCount
NothingLeft == net = "gone" /\ \A c \in Containers : ctr[c] = "gone"

-----------------------------------------------------------------------------
(* Docker and the world around (external). *)

Cancel == /\ ~cancellation /\ outcome = "none" /\ cancellation' = TRUE
          /\ UNCHANGED <<jobVars, dockerVars, journal, expired, cut, cleanerVars>>

Expire == /\ ~expired /\ outcome = "none" /\ expired' = TRUE
          /\ UNCHANGED <<jobVars, dockerVars, journal, cancellation, cut, cleanerVars>>

\* The connection that follows the logs ends before the container does.
StreamCut == /\ pc = "work" /\ IsCommand /\ ctr[0] = "running" /\ ~cut
             /\ cut' = TRUE
             /\ UNCHANGED <<jobVars, dockerVars, journal, cancellation, expired,
                            cleanerVars>>

\* The command of a container ends, well or badly; only a command's code is read.
ContainerExits(c) ==
  /\ ctr[c] = "running"
  /\ \E end \in IF c = 0 /\ IsCommand THEN {"exited", "failed"} ELSE {"exited"} :
       ctr' = [ctr EXCEPT ![c] = end]
  /\ UNCHANGED <<jobVars, code, net, refused, journal, signalVars, cleanerVars>>

\* The runner's process dies with what it remembers; Docker, the remote and the
\* journal stay as they are.
Crash ==
  /\ outcome = "none" /\ outcome' = "dead" /\ pc' = "ended"
  /\ next' = 1 /\ victims' = {} /\ stop' = "none" /\ status' = "none"
  /\ code' = 0 /\ cancellation' = FALSE /\ expired' = FALSE
  /\ UNCHANGED <<job, pushed, ctr, net, refused, journal, cut, cleanerVars>>

\* stop_container is best effort; a stopped command may exit with any code.
StopMain ==
  \/ /\ ctr[0] = "running"
     /\ \E end \in {"exited", "failed"} : ctr' = [ctr EXCEPT ![0] = end]
  \/ (DockerFaults \/ ctr[0] # "running") /\ UNCHANGED ctr

Removable == \A c \in Containers : ctr[c] # "running"

-----------------------------------------------------------------------------
(* Leaving run and run_workflow. *)

\* `?` or return Err: whatever exists is left behind.
ReturnErr == pc' = "ended" /\ outcome' = "err"

\* An error arm that removes containers and the network first.
Unwind(set) == pc' = "unwind" /\ victims' = set

-----------------------------------------------------------------------------
(* The steps that only pass or fail: policy::validate, workspace::prepare,    *)
(* pull, environment_for_job, the feedback file, the artifact export.         *)

PassedTo ==
  [validate |-> "received", workspace |-> "pull", pull |-> "network",
   environment |-> IF IsCommand THEN "create" ELSE "services",
   feedback |-> "running", export |-> "final"]

\* pull looks at the token and the deadline first.
Pass ==
  /\ pc \in DOMAIN PassedTo
  /\ pc = "pull" => ~cancellation /\ ~expired
  /\ pc' = PassedTo[pc]
  /\ UNCHANGED <<job, next, victims, stop, status, pushed, outcome, dockerVars,
                 journal, signalVars, cleanerVars>>

Fail ==
  /\ pc \in DOMAIN PassedTo
  /\ ReturnErr
  /\ UNCHANGED <<job, next, victims, stop, status, pushed, dockerVars, journal,
                 signalVars, cleanerVars>>

-----------------------------------------------------------------------------
(* Journal::transition: what each writes and what follows. *)

\* valid_transition of runner-core, which no caller consults.
valid_transition ==
  {<<"received", "preparing">>, <<"preparing", "running">>, <<"preparing", "failed">>,
   <<"running", "collecting">>, <<"running", "cancelled">>, <<"running", "timed_out">>,
   <<"running", "failed">>, <<"collecting", "completed">>, <<"collecting", "failed">>,
   <<"destroying", "destroyed">>}
    \cup {<<s, "destroying">> : s \in Statuses}

Written == [received |-> "received", preparing |-> "preparing",
            running |-> "running", collecting |-> "collecting", final |-> status,
            destroying |-> "destroying", destroyed |-> "destroyed"]

WrittenThen ==
  [received |-> "preparing", preparing |-> "workspace",
   running |-> IF IsCommand THEN "start" ELSE "work",
   collecting |-> IF IsCommand THEN "verdict" ELSE "export",
   final |-> "destroying", destroying |-> "remove", destroyed |-> "ended"]

Transition ==
  /\ pc \in DOMAIN Written
  /\ journal' = Written[pc] /\ pc' = WrittenThen[pc]
  /\ outcome' = IF pc = "destroyed" THEN "ok" ELSE outcome
  /\ victims' = IF pc = "destroying" THEN {0} \cup Services ELSE victims
  /\ UNCHANGED <<job, next, stop, status, pushed, dockerVars, signalVars, cleanerVars>>

\* The row is upserted before the event is inserted; either can fail.
TransitionFails ==
  /\ JournalFaults /\ pc \in DOMAIN Written
  /\ journal' \in {journal, Written[pc]}
  /\ ReturnErr
  /\ UNCHANGED <<job, next, victims, stop, status, pushed, dockerVars, signalVars,
                 cleanerVars>>

-----------------------------------------------------------------------------
(* Creating the network and the containers. *)

CreateNetwork ==
  /\ pc = "network"
  /\ net' = IF job.network = "bridge" THEN "up" ELSE "gone"
  /\ pc' = "environment"
  /\ UNCHANGED <<job, next, victims, stop, status, pushed, outcome, ctr, code, refused,
                 journal, signalVars, cleanerVars>>

\* The answer may be lost after the network was made.
CreateNetworkFails ==
  /\ pc = "network" /\ job.network = "bridge"
  /\ net' \in IF DockerFaults THEN {"gone", "up"} ELSE {"gone"}
  /\ ReturnErr
  /\ UNCHANGED <<job, next, victims, stop, status, pushed, ctr, code, refused, journal,
                 signalVars, cleanerVars>>

\* Services without a bridge network are refused.
ServicesRefused ==
  /\ pc = "services" /\ Services # {} /\ job.network = "none"
  /\ ReturnErr
  /\ UNCHANGED <<job, next, victims, stop, status, pushed, dockerVars, journal,
                 signalVars, cleanerVars>>

\* start_services pulls, creates and starts one service after the other.
CreateService ==
  /\ pc = "services" /\ next \in Services /\ job.network = "bridge"
  /\ \/ /\ ctr' = [ctr EXCEPT ![next] = "created"]
        /\ pc' = "start_service" /\ UNCHANGED victims
     \/ /\ Unwind(1..(next - 1))
        /\ \/ UNCHANGED ctr
           \/ DockerFaults /\ ctr' = [ctr EXCEPT ![next] = "created"]
  /\ UNCHANGED <<job, next, stop, status, pushed, outcome, code, net, refused, journal,
                 signalVars, cleanerVars>>

\* The container may have been removed since it was created; a start that
\* fails for the runner may have happened.
Starts(c) == /\ ctr[c] = "created"
             /\ ctr' = [ctr EXCEPT ![c] = "running"]
StartFails(c) == UNCHANGED ctr \/ (DockerFaults /\ Starts(c))

\* Mutant: the error arm removes one service too many.
StartServiceOneMore ==
  /\ pc = "start_service"
  /\ \/ /\ Starts(next)
        /\ pc' = "services" /\ next' = next + 1 /\ UNCHANGED victims
     \/ Unwind(1..(next + 1)) /\ StartFails(next) /\ UNCHANGED next
  /\ UNCHANGED <<job, stop, status, pushed, outcome, code, net, refused, journal,
                 signalVars, cleanerVars>>

StartService ==
  /\ pc = "start_service"
  /\ \/ /\ Starts(next)
        /\ pc' = "services" /\ next' = next + 1 /\ UNCHANGED victims
     \/ Unwind(1..next) /\ StartFails(next) /\ UNCHANGED next
  /\ UNCHANGED <<job, stop, status, pushed, outcome, code, net, refused, journal,
                 signalVars, cleanerVars>>

\* The health checks pass; fail or are stopped, and the services are removed;
\* or cannot be executed, and only the network's removal is tried.
ServicesHealthy ==
  /\ pc = "services" /\ next \notin Services
  /\ \/ pc' = "create" /\ UNCHANGED victims
     \/ Services # {} /\ \E set \in {{}, Services} : Unwind(set)
  /\ UNCHANGED <<job, next, stop, status, pushed, outcome, dockerVars, journal,
                 signalVars, cleanerVars>>

CreateContainer ==
  /\ pc = "create"
  /\ \/ /\ ctr' = [ctr EXCEPT ![0] = "created"]
        /\ pc' = (IF IsCommand THEN "running" ELSE "start") /\ UNCHANGED victims
     \/ /\ Unwind(Services)
        /\ \/ UNCHANGED ctr
           \/ DockerFaults /\ ctr' = [ctr EXCEPT ![0] = "created"]
  /\ UNCHANGED <<job, next, stop, status, pushed, outcome, code, net, refused, journal,
                 signalVars, cleanerVars>>

StartContainer ==
  /\ pc = "start"
  /\ \/ /\ Starts(0)
        /\ pc' = (IF IsCommand THEN "work" ELSE "feedback") /\ UNCHANGED victims
     \/ Unwind({0} \cup Services) /\ StartFails(0)
  /\ UNCHANGED <<job, next, stop, status, pushed, outcome, code, net, refused, journal,
                 signalVars, cleanerVars>>

-----------------------------------------------------------------------------
(* The command: its log stream, its exit code, the verdict, git publish. *)

\* The log stream is over, because the container is or because it was cut.
Logs ==
  /\ pc = "work" /\ IsCommand /\ (ctr[0] # "running" \/ cut)
  /\ pc' = "inspect"
  /\ UNCHANGED <<job, next, victims, stop, status, pushed, outcome, dockerVars,
                 journal, signalVars, cleanerVars>>

\* Mutant: the log stream does not watch the deadline.
LogsStoppedByTokenOnly ==
  /\ pc = "work" /\ IsCommand
  /\ cancellation /\ stop' = "cancelled"
  /\ StopMain /\ pc' = "inspect"
  /\ UNCHANGED <<job, next, victims, status, pushed, outcome, code, net, refused,
                 journal, signalVars, cleanerVars>>

\* The token or the deadline ends the stream and stops the container.
LogsStopped ==
  /\ pc = "work" /\ IsCommand
  /\ \/ cancellation /\ stop' = "cancelled"
     \/ expired /\ stop' = "timed_out"
  /\ StopMain /\ pc' = "inspect"
  /\ UNCHANGED <<job, next, victims, status, pushed, outcome, code, net, refused,
                 journal, signalVars, cleanerVars>>

\* A container that is still running reports exit code 0.
Inspect ==
  /\ pc = "inspect"
  /\ \/ /\ ctr[0] # "gone"
        /\ code' = IF ctr[0] = "failed" THEN 1 ELSE 0
        /\ pc' = "collecting" /\ UNCHANGED victims
     \/ Unwind({0}) /\ UNCHANGED code
  /\ UNCHANGED <<job, next, stop, status, pushed, outcome, ctr, net, refused, journal,
                 signalVars, cleanerVars>>

\* Mutant: the exit code is judged before the token and the deadline.
VerdictByCode ==
  /\ pc = "verdict"
  /\ status' = IF code = 0 THEN "completed"
               ELSE IF stop = "cancelled" \/ cancellation THEN "cancelled"
               ELSE IF stop = "timed_out" \/ expired THEN "timed_out" ELSE "failed"
  /\ pc' = IF status' = "completed" THEN "publish" ELSE "export"
  /\ UNCHANGED <<job, next, victims, stop, pushed, outcome, dockerVars, journal,
                 signalVars, cleanerVars>>

Verdict ==
  /\ pc = "verdict"
  /\ status' = IF stop = "cancelled" \/ cancellation THEN "cancelled"
               ELSE IF stop = "timed_out" \/ expired THEN "timed_out"
               ELSE IF code = 0 THEN "completed" ELSE "failed"
  /\ pc' = IF status' = "completed" THEN "publish" ELSE "export"
  /\ UNCHANGED <<job, next, victims, stop, pushed, outcome, dockerVars, journal,
                 signalVars, cleanerVars>>

\* publish_git.  A clean tree is no error where changes are not required.  The
\* commit is made on whatever branch is checked out: if that is another one, the
\* push of the job's branch succeeds with nothing to bring.  A workspace that
\* is not a git workspace behaves like "disabled".
PublishGit ==
  /\ pc = "publish" /\ pc' = "export"
  /\ pushed' \in CASE job.publish_mode = "disabled"   -> {"none"}
                   [] job.publish_mode = "if_changed" -> {"none", "nothing", "commit"}
                   [] OTHER                           -> {"nothing", "commit"}
  /\ UNCHANGED <<job, next, victims, stop, status, outcome, dockerVars, journal,
                 signalVars, cleanerVars>>

\* A clean tree, a failed or stopped git command; the push may have arrived.
PublishGitFails ==
  /\ pc = "publish" /\ pc' = "export"
  /\ job.publish_mode # "disabled"
  /\ status' = "failed"
  /\ pushed' \in {"none", "nothing", "commit"}
  /\ UNCHANGED <<job, next, victims, stop, outcome, dockerVars, journal, signalVars,
                 cleanerVars>>

-----------------------------------------------------------------------------
(* A workflow's verdict, as Workflow!Settle gives it; git is not published.   *)

WorkflowSettles ==
  /\ pc = "work" /\ ~IsCommand
  /\ \/ ~cancellation /\ ~expired /\ status' \in {"completed", "failed"}
        /\ UNCHANGED dockerVars
     \/ /\ \/ cancellation /\ status' = "cancelled"
           \/ expired /\ status' = "timed_out"
        /\ StopMain /\ UNCHANGED <<code, net, refused>>
  /\ pc' = "collecting"
  /\ UNCHANGED <<job, next, victims, stop, pushed, outcome, journal, signalVars,
                 cleanerVars>>

\* The log stream, an exec or a feedback write fails: `?`.
WorkError ==
  /\ pc = "work"
  /\ ReturnErr
  /\ UNCHANGED <<job, next, victims, stop, status, pushed, dockerVars, journal,
                 signalVars, cleanerVars>>

-----------------------------------------------------------------------------
(* Removal, on an error arm or at the end; its failures are ignored. *)

\* Mutant: a refused removal ends the removals.
RemoveGivesUp(c) ==
  /\ pc \in {"unwind", "remove"} /\ c \in victims
  /\ \/ /\ ctr' = [ctr EXCEPT ![c] = "gone"] /\ UNCHANGED refused
        /\ victims' = victims \ {c}
     \/ /\ DockerFaults /\ refused' = refused \cup {c} /\ UNCHANGED ctr
        /\ victims' = {}
  /\ UNCHANGED <<job, pc, next, stop, status, pushed, outcome, code, net, journal,
                 signalVars, cleanerVars>>

Remove(c) ==
  /\ pc \in {"unwind", "remove"} /\ c \in victims
  /\ victims' = victims \ {c}
  /\ \/ ctr' = [ctr EXCEPT ![c] = "gone"] /\ UNCHANGED refused
     \/ DockerFaults /\ refused' = refused \cup {c} /\ UNCHANGED ctr
  /\ UNCHANGED <<job, pc, next, stop, status, pushed, outcome, code, net, journal,
                 signalVars, cleanerVars>>

RemoveNetwork ==
  /\ pc \in {"unwind", "remove"} /\ victims = {}
  /\ \/ net' = (IF Removable THEN "gone" ELSE net) /\ UNCHANGED refused
     \/ DockerFaults /\ refused' = refused \cup {Network} /\ UNCHANGED net
  /\ IF pc = "unwind" THEN ReturnErr ELSE pc' = "destroyed" /\ UNCHANGED outcome
  /\ UNCHANGED <<job, next, victims, stop, status, pushed, ctr, code, journal,
                 signalVars, cleanerVars>>

Step == \/ Pass \/ Fail \/ Transition \/ TransitionFails
        \/ CreateNetwork \/ CreateNetworkFails
        \/ ServicesRefused \/ CreateService \/ StartService \/ ServicesHealthy
        \/ CreateContainer \/ StartContainer
        \/ Logs \/ LogsStopped \/ Inspect \/ Verdict \/ PublishGit \/ PublishGitFails
        \/ WorkflowSettles \/ RemoveNetwork \/ \E c \in Containers : Remove(c)

-----------------------------------------------------------------------------
(* cleanup, in a process of its own but with the same runner id: both filter   *)
(* Docker's resources by the label that carries it.                            *)

\* list_containers: the states it works with are those of this moment.
CleanupList ==
  /\ cleaner \in {"idle", "done", "failed"} /\ cleanups < MaxCleanups
  /\ CleanupWhen = "any" \/ (CleanupWhen = "quiet" /\ outcome # "none")
  /\ listed' = {c \in Containers : ctr[c] \notin {"gone", "running"}}
  /\ active' = \E c \in Containers : ctr[c] = "running"
  /\ incomplete' = FALSE /\ cleanups' = cleanups + 1
  /\ cleaner' = "containers"
  /\ UNCHANGED <<jobVars, dockerVars, journal, signalVars>>

\* Mutant: a failed removal is logged and forgotten.
CleanupRemoveSwallows(c) ==
  /\ cleaner = "containers" /\ c \in listed
  /\ listed' = listed \ {c}
  /\ \/ ctr' = [ctr EXCEPT ![c] = "gone"]
     \/ DockerFaults /\ UNCHANGED ctr
  /\ UNCHANGED <<jobVars, code, net, refused, journal, signalVars, cleaner, active,
                 incomplete, cleanups>>

\* A container that is gone by now is an error as well.
CleanupRemove(c) ==
  /\ cleaner = "containers" /\ c \in listed
  /\ listed' = listed \ {c}
  /\ \/ /\ ctr' = [ctr EXCEPT ![c] = "gone"]
        /\ incomplete' = (incomplete \/ ctr[c] = "gone")
     \/ DockerFaults /\ incomplete' = TRUE /\ UNCHANGED ctr
  /\ UNCHANGED <<jobVars, code, net, refused, journal, signalVars, cleaner, active,
                 cleanups>>

\* list_networks; the answer may or may not name the attached containers.
CleanupListNetworks ==
  /\ cleaner = "containers" /\ listed = {}
  /\ \/ net = "gone" /\ cleaner' = "journal" /\ UNCHANGED active
     \/ /\ net = "up"
        /\ \/ ~Removable /\ cleaner' = "journal" /\ active' = TRUE
           \/ cleaner' = "network" /\ UNCHANGED active
     \/ DockerFaults /\ cleaner' = "failed" /\ UNCHANGED active
  /\ UNCHANGED <<jobVars, dockerVars, journal, signalVars, listed, incomplete, cleanups>>

CleanupRemoveNetwork ==
  /\ cleaner = "network" /\ cleaner' = "journal"
  /\ \/ net = "up" /\ Removable /\ net' = "gone" /\ UNCHANGED incomplete
     \/ /\ DockerFaults \/ net = "gone" \/ ~Removable
        /\ incomplete' = TRUE /\ UNCHANGED net
  /\ UNCHANGED <<jobVars, ctr, code, refused, journal, signalVars, listed, active,
                 cleanups>>

\* Mutant: rows are closed although a container is still active.
CleanupJournalIgnoresActive ==
  /\ cleaner = "journal"
  /\ cleaner' = IF incomplete THEN "failed"
                ELSE IF journal \in Finished \cup {"none"} THEN "done" ELSE "mark"
  /\ UNCHANGED <<jobVars, dockerVars, journal, signalVars, listed, active, incomplete,
                 cleanups>>

\* Mutant: every row with a state is taken for an unfinished one.
CleanupJournalReopens ==
  /\ cleaner = "journal"
  /\ cleaner' = IF incomplete THEN "failed"
                ELSE IF active \/ journal = "none" THEN "done" ELSE "mark"
  /\ UNCHANGED <<jobVars, dockerVars, journal, signalVars, listed, active, incomplete,
                 cleanups>>

\* bail on an error; otherwise unfinished rows, if nothing was seen active.
CleanupJournal ==
  /\ cleaner = "journal"
  /\ \/ cleaner' = IF incomplete THEN "failed"
                   ELSE IF active \/ journal \in Finished \cup {"none"} THEN "done"
                   ELSE "mark"
     \/ JournalFaults /\ cleaner' = "failed"
  /\ UNCHANGED <<jobVars, dockerVars, journal, signalVars, listed, active, incomplete,
                 cleanups>>

\* The row goes through Destroying to Destroyed.
CleanupMark ==
  /\ \/ cleaner = "mark" /\ journal' = "destroying" /\ cleaner' = "marked"
     \/ cleaner = "marked" /\ journal' = "destroyed" /\ cleaner' = "done"
     \/ /\ JournalFaults /\ cleaner \in {"mark", "marked"} /\ cleaner' = "failed"
        /\ journal' \in {journal, IF cleaner = "mark" THEN "destroying" ELSE "destroyed"}
  /\ UNCHANGED <<jobVars, dockerVars, signalVars, listed, active, incomplete, cleanups>>

Cleanup == \/ CleanupList \/ CleanupListNetworks \/ CleanupRemoveNetwork
           \/ CleanupJournal \/ CleanupMark
           \/ \E c \in Containers : CleanupRemove(c)

\* The call has returned and no cleanup is left to run.
Over == outcome # "none" /\ UNCHANGED vars

Next == \/ Cancel \/ Expire \/ StreamCut \/ Crash \/ Step \/ WorkError \/ Cleanup \/ Over
        \/ \E c \in Containers : ContainerExits(c)

Spec == Init /\ [][Next]_vars

\* The runtime polls the job, calls to Docker return, time passes; the command
\* in the container need not end and its log stream need neither end nor fail.
FairSpec == Spec /\ WF_vars(Step) /\ WF_vars(Expire)

-----------------------------------------------------------------------------
(* Properties *)

\* Every variable stays in its type.
TypeOK ==
  /\ job \in Jobs /\ next \in Nat /\ victims \subseteq Containers
  /\ pc \in DOMAIN PassedTo \cup DOMAIN Written \cup
            {"network", "services", "start_service", "create", "start", "work",
             "inspect", "verdict", "publish", "unwind", "remove", "ended"}
  /\ stop \in {"none", "cancelled", "timed_out"}
  /\ status \in Statuses \cup {"none"} /\ pushed \in {"none", "nothing", "commit"}
  /\ outcome \in {"none", "ok", "err", "dead"}
  /\ ctr \in [Containers -> {"gone", "created", "running", "exited", "failed"}]
  /\ code \in {0, 1} /\ net \in {"gone", "up"}
  /\ refused \subseteq Containers \cup {Network}
  /\ journal \in Finished \cup {"none", "received", "preparing", "running",
                                "collecting", "destroying"}
  /\ cancellation \in BOOLEAN /\ expired \in BOOLEAN /\ cut \in BOOLEAN
  /\ cleaner \in {"idle", "containers", "network", "journal", "mark", "marked",
                  "done", "failed"}
  /\ listed \subseteq Containers /\ active \in BOOLEAN /\ incomplete \in BOOLEAN
  /\ cleanups \in 0..MaxCleanups

\* What exists is what Docker refused to remove when it was asked; a network
\* also stays for a container that was not removed.
OnlyRefusedLeft == /\ \A c \in Containers : ctr[c] # "gone" => c \in refused
                   /\ net = "up" => refused # {}

\* A run that returns a result has asked for the removal of every container,
\* service and network it made, also when an earlier removal was refused.
OkLeavesNothing == outcome = "ok" => OnlyRefusedLeft

\* A row that says destroyed belongs to a job whose resources are gone or were
\* refused, whether the run or a cleanup after a crash wrote it.
DestroyedIsGone == journal = "destroyed" => OnlyRefusedLeft

\* A cleanup that succeeds and saw nothing active leaves no resource and no
\* unfinished row, in whatever state the run died or returned.
CleanupDoneIsClean ==
  (cleaner = "done" /\ ~active)
    => NothingLeft /\ journal \in Finished \cup {"none"}

\* A command is published or taken for completed only if nobody stopped it and
\* its container exited by itself with code 0, unless the log stream was cut: a
\* container that still runs is inspected as exit code 0.  A result that says
\* completed comes with a successful git push where publishing is required,
\* although that push may have had nothing to bring.
CompletedIsEarned ==
  /\ (pushed # "none" \/ (IsCommand /\ status = "completed"))
       => stop = "none" /\ (cut \/ ctr[0] \in {"exited", "gone"})
  /\ (outcome = "ok" /\ status = "completed" /\ IsCommand
       /\ job.publish_mode = "required") => pushed # "none"

\* README: "a clean `required` workspace fails explicitly".
RequiredIsPublished ==
  (outcome = "ok" /\ status = "completed" /\ job.publish_mode = "required")
    => pushed # "none"

\* The row of one run moves as the state machine of the repository allows.  Of the
\* moves valid_transition does not list, only these are made: the first write, a
\* command or workflow found cancelled or late after Collecting, and a cleanup
\* that closes the unfinished row of a run that is over.  A cleanup beside the
\* run, or a second run of the same attempt, is not covered.
LifecycleForward ==
  [][\/ journal = "none" /\ journal' = "received"
     \/ <<journal, journal'>> \in valid_transition
     \/ journal = "collecting" /\ journal' \in {"cancelled", "timed_out"}
     \/ /\ outcome # "none" /\ journal \notin Finished \cup {"none"}
        /\ journal' = "destroying"]_journal

\* cleanup: "Manual cleanup must not interrupt a currently leased job."
CleanupSparesLeased ==
  [][(cleaner = "containers" /\ listed' # listed /\ outcome = "none") => UNCHANGED ctr]_vars

\* Every run ends, at the latest some time after its deadline.
RunEnds == <>(outcome # "none")
============================================================================
