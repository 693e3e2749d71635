------------------------------ MODULE Workflow ------------------------------
(***************************************************************************)
(* The agent-and-verifier loop of crates/executor-docker/src/lib.rs:       *)
(* run_workflow from its first setup command to its verdict, with          *)
(* exec_command.  Preparing and removing the sandbox is module Sandbox.    *)
(*                                                                         *)
(* A command is named by its phase and its index in that phase.  What a    *)
(* command prints is left out; its exit code is success or failure.        *)
(***************************************************************************)
EXTENDS Naturals, FiniteSets

CONSTANTS
  SetupCount,     \* workflow.setup.len()
  HasInitialize,  \* workflow.initialize.is_some()
  MaxIterations,  \* workflow.max_iterations, 1..20 by validate
  VerifierCount,  \* workflow.verifiers.len()
  Required,       \* the indices of the verifiers with required = true
  MandatoryCount, \* config.security.mandatory_verifiers.len()
  HasPublish      \* workflow.publish.is_some()

ASSUME WorkflowConstants ==
  /\ SetupCount \in Nat /\ VerifierCount \in Nat /\ MandatoryCount \in Nat
  /\ MaxIterations \in Nat \ {0}
  /\ Required \subseteq 1..VerifierCount
  /\ HasInitialize \in BOOLEAN /\ HasPublish \in BOOLEAN

Terminations == {"cancelled", "timed_out"}
Phases == {"setup", "initialize", "agent", "verifier", "publish"}

Prepares  == ({"setup"} \X (1..SetupCount)) \cup {<<"initialize", 1>>}
Iterates  == {<<"agent", 1>>} \cup ({"verifier"} \X (1..VerifierCount))
               \cup ({"mandatory"} \X (1..MandatoryCount)) \cup {<<"publish", 1>>}
Commands  == Prepares \cup Iterates

VARIABLES
  pc,           \* where run_workflow is
  next,         \* index of the next command of the list it is walking
  iteration,    \* the loop variable, 0 before the loop
  setup_ok, all_passed, failed_phase, termination, final_status,
  feedback,     \* what feedback_file holds: its writer and the iteration
  cancellation, \* is the job's token cancelled?
  expired,      \* has the deadline passed?
  passed,       \* history: commands that exited 0, of the preparation and of
  failed,       \* ... the current iteration, and those that did not
  publications  \* history: successful runs of the publish command

verdictVars == <<setup_ok, all_passed, failed_phase, termination, final_status>>
signalVars  == <<cancellation, expired>>
historyVars == <<passed, failed, publications>>
vars == <<pc, next, iteration, verdictVars, feedback, signalVars, historyVars>>

Init ==
  /\ pc = "setup" /\ next = 1 /\ iteration = 0
  /\ setup_ok = TRUE /\ all_passed = FALSE /\ failed_phase = "none"
  /\ termination = "none" /\ final_status = "failed"
  /\ feedback = <<"runner", 0>>
  /\ cancellation = FALSE /\ expired = FALSE
  /\ passed = {} /\ failed = {} /\ publications = 0

-----------------------------------------------------------------------------
(* The token is cancelled by the heartbeat task or by Ctrl-C; time passes. *)

Cancel == /\ ~cancellation /\ cancellation' = TRUE
          /\ UNCHANGED <<pc, next, iteration, verdictVars, feedback, expired, historyVars>>

Expire == /\ ~expired /\ expired' = TRUE
          /\ UNCHANGED <<pc, next, iteration, verdictVars, feedback, cancellation, historyVars>>

-----------------------------------------------------------------------------
(* exec_command.  Each of its three select!s takes any branch that is ready,  *)
(* so a command may still finish after the token is cancelled.                *)

\* The command exits; `base` is what the history keeps of earlier commands.
Exits(command, ok, base) ==
  /\ passed' = (passed \cap base) \cup (IF ok THEN {command} ELSE {})
  /\ failed' = (failed \cap base) \cup (IF ok THEN {} ELSE {command})
  /\ publications' = publications + (IF ok /\ command = <<"publish", 1>> THEN 1 ELSE 0)
  /\ UNCHANGED termination

\* The container is stopped and the reason returned.
Terminates(reason) ==
  /\ reason = "cancelled" => cancellation
  /\ reason = "timed_out" => expired
  /\ termination' = reason
  /\ UNCHANGED historyVars

\* Result of the whole call to Docker is an error: `?` leaves run_workflow.
ExecError ==
  /\ \/ pc = "setup" /\ next <= SetupCount
     \/ pc = "initialize" /\ HasInitialize /\ setup_ok /\ termination = "none"
     \/ pc = "iterate" /\ setup_ok /\ termination = "none"
     \/ pc = "verifier" /\ next <= VerifierCount
     \/ pc = "mandatory" /\ next <= MandatoryCount /\ termination = "none"
     \/ pc = "publish" /\ HasPublish /\ all_passed /\ termination = "none"
  /\ pc' = "error"
  /\ UNCHANGED <<next, iteration, verdictVars, feedback, signalVars, historyVars>>

-----------------------------------------------------------------------------
(* Setup and initialization. *)

\* Checked before every setup command; cancellation wins over the deadline.
SetupStops ==
  /\ pc = "setup" /\ next <= SetupCount
  /\ cancellation \/ expired
  /\ termination' = IF cancellation THEN "cancelled" ELSE "timed_out"
  /\ failed_phase' = "setup" /\ pc' = "initialize"
  /\ UNCHANGED <<next, iteration, setup_ok, all_passed, final_status, feedback,
                 signalVars, historyVars>>

\* A failed setup command does not stop the ones after it.
SetupExec ==
  /\ pc = "setup" /\ next <= SetupCount
  /\ \/ \E ok \in BOOLEAN :
          /\ Exits(<<"setup", next>>, ok, Commands)
          /\ setup_ok' = (setup_ok /\ ok)
          /\ failed_phase' = IF ok THEN failed_phase ELSE "setup"
          /\ next' = next + 1 /\ UNCHANGED pc
     \/ \E reason \in Terminations :
          /\ Terminates(reason)
          /\ failed_phase' = "setup" /\ pc' = "initialize"
          /\ UNCHANGED <<setup_ok, next>>
  /\ UNCHANGED <<iteration, all_passed, final_status, feedback, signalVars>>

\* The feedback file is written when a setup command failed.
SetupDone ==
  /\ pc = "setup" /\ next > SetupCount
  /\ \/ /\ feedback' = IF setup_ok THEN feedback ELSE <<"setup", 0>>
        /\ pc' = "initialize"
     \/ ~setup_ok /\ pc' = "error" /\ UNCHANGED feedback
  /\ UNCHANGED <<next, iteration, verdictVars, signalVars, historyVars>>

\* The token may be cancelled between the check of it and the command.
Initializes == termination = "none" /\ setup_ok /\ HasInitialize

Initialize ==
  /\ pc = "initialize" /\ Initializes
  /\ \/ /\ Exits(<<"initialize", 1>>, TRUE, Commands)
        /\ pc' = "iterate" /\ UNCHANGED <<setup_ok, failed_phase, feedback>>
     \/ /\ Exits(<<"initialize", 1>>, FALSE, Commands)
        /\ setup_ok' = FALSE /\ failed_phase' = "initialize"
        /\ \/ feedback' = <<"initialize", 0>> /\ pc' = "iterate"
           \/ UNCHANGED feedback /\ pc' = "error"
     \/ \E reason \in Terminations :
          /\ Terminates(reason) /\ failed_phase' = "initialize"
          /\ pc' = "iterate" /\ UNCHANGED <<setup_ok, feedback>>
  /\ UNCHANGED <<next, iteration, all_passed, final_status, signalVars>>

InitializeSkip ==
  /\ pc = "initialize" /\ (~Initializes \/ cancellation)
  /\ pc' = "iterate"
  /\ UNCHANGED <<next, iteration, verdictVars, feedback, signalVars, historyVars>>

-----------------------------------------------------------------------------
(* The iterations. *)

LoopBreak ==
  /\ pc = "iterate" /\ (~setup_ok \/ cancellation \/ termination # "none")
  /\ pc' = "settle"
  /\ UNCHANGED <<next, iteration, verdictVars, feedback, signalVars, historyVars>>

\* Mutant: a failed agent leaves failed_phase as it was.
AgentUnblamed ==
  /\ pc = "iterate" /\ setup_ok /\ termination = "none"
  /\ iteration' = iteration + 1 /\ next' = 1
  /\ \/ \E ok \in BOOLEAN :
          /\ Exits(<<"agent", 1>>, ok, Prepares)
          /\ all_passed' = ok /\ UNCHANGED failed_phase
          /\ pc' = "verifier"
     \/ \E reason \in Terminations :
          /\ Terminates(reason) /\ failed_phase' = "agent"
          /\ pc' = "settle" /\ UNCHANGED all_passed
  /\ UNCHANGED <<setup_ok, final_status, feedback, signalVars>>

\* Mutant: an iteration is not counted.
AgentUncounted ==
  /\ pc = "iterate" /\ setup_ok /\ termination = "none"
  /\ next' = 1
  /\ \/ \E ok \in BOOLEAN :
          /\ Exits(<<"agent", 1>>, ok, Prepares)
          /\ all_passed' = ok
          /\ failed_phase' = IF ok THEN failed_phase ELSE "agent"
          /\ pc' = "verifier"
     \/ \E reason \in Terminations :
          /\ Terminates(reason) /\ failed_phase' = "agent"
          /\ pc' = "settle" /\ UNCHANGED all_passed
  /\ UNCHANGED <<iteration, setup_ok, final_status, feedback, signalVars>>

\* The history forgets the commands of the iteration before.
Agent ==
  /\ pc = "iterate" /\ setup_ok /\ termination = "none"
  /\ iteration' = iteration + 1 /\ next' = 1
  /\ \/ \E ok \in BOOLEAN :
          /\ Exits(<<"agent", 1>>, ok, Prepares)
          /\ all_passed' = ok
          /\ failed_phase' = IF ok THEN failed_phase ELSE "agent"
          /\ pc' = "verifier"
     \/ \E reason \in Terminations :
          /\ Terminates(reason) /\ failed_phase' = "agent"
          /\ pc' = "settle" /\ UNCHANGED all_passed
  /\ UNCHANGED <<setup_ok, final_status, feedback, signalVars>>

\* Mutant: the last verifier overwrites the verdict of the ones before.
VerifyLastDecides(command, decisive) ==
  /\ \/ \E ok \in BOOLEAN :
          /\ Exits(command, ok, Commands)
          /\ all_passed' = (ok \/ ~decisive)
          /\ failed_phase' = IF ok \/ ~decisive THEN failed_phase ELSE "verifier"
          /\ next' = next + 1 /\ UNCHANGED pc
     \/ \E reason \in Terminations :
          /\ Terminates(reason) /\ failed_phase' = "verifier"
          /\ pc' = "mandatory" /\ next' = 1 /\ UNCHANGED all_passed
  /\ UNCHANGED <<iteration, setup_ok, final_status, feedback, signalVars>>

\* One verifier of either list; a failure counts only if `decisive`.
Verify(command, decisive) ==
  /\ \/ \E ok \in BOOLEAN :
          /\ Exits(command, ok, Commands)
          /\ all_passed' = (all_passed /\ (ok \/ ~decisive))
          /\ failed_phase' = IF ok \/ ~decisive THEN failed_phase ELSE "verifier"
          /\ next' = next + 1 /\ UNCHANGED pc
     \/ \E reason \in Terminations :
          /\ Terminates(reason) /\ failed_phase' = "verifier"
          /\ pc' = "mandatory" /\ next' = 1 /\ UNCHANGED all_passed
  /\ UNCHANGED <<iteration, setup_ok, final_status, feedback, signalVars>>

Verifier == /\ pc = "verifier" /\ next <= VerifierCount
            /\ Verify(<<"verifier", next>>, next \in Required)

VerifiersDone ==
  /\ pc = "verifier" /\ next > VerifierCount
  /\ pc' = "mandatory" /\ next' = 1
  /\ UNCHANGED <<iteration, verdictVars, feedback, signalVars, historyVars>>

Mandatory == /\ pc = "mandatory" /\ next <= MandatoryCount /\ termination = "none"
             /\ Verify(<<"mandatory", next>>, TRUE)

MandatoryDone ==
  /\ pc = "mandatory" /\ (next > MandatoryCount \/ termination # "none")
  /\ pc' = "publish"
  /\ UNCHANGED <<next, iteration, verdictVars, feedback, signalVars, historyVars>>

Publishes == termination = "none" /\ all_passed /\ HasPublish

\* Mutant: a publish command that fails is only reported.
PublishFailureIgnored ==
  /\ pc = "publish" /\ Publishes
  /\ \/ \E ok \in BOOLEAN :
          /\ Exits(<<"publish", 1>>, ok, Commands)
          /\ failed_phase' = IF ok THEN failed_phase ELSE "publish"
          /\ UNCHANGED all_passed
     \/ \E reason \in Terminations :
          /\ Terminates(reason) /\ failed_phase' = "publish"
          /\ UNCHANGED all_passed
  /\ pc' = "decide"
  /\ UNCHANGED <<next, iteration, setup_ok, final_status, feedback, signalVars>>

Publish ==
  /\ pc = "publish" /\ Publishes
  /\ \/ \E ok \in BOOLEAN :
          /\ Exits(<<"publish", 1>>, ok, Commands)
          /\ all_passed' = ok
          /\ failed_phase' = IF ok THEN failed_phase ELSE "publish"
     \/ \E reason \in Terminations :
          /\ Terminates(reason) /\ failed_phase' = "publish"
          /\ UNCHANGED all_passed
  /\ pc' = "decide"
  /\ UNCHANGED <<next, iteration, setup_ok, final_status, feedback, signalVars>>

PublishSkip ==
  /\ pc = "publish" /\ ~Publishes
  /\ pc' = "decide"
  /\ UNCHANGED <<next, iteration, verdictVars, feedback, signalVars, historyVars>>

\* Mutant: the loop is not left when everything passed.
CompletedGoesOn ==
  /\ pc = "decide" /\ termination = "none" /\ all_passed
  /\ final_status' = "completed"
  /\ pc' = IF iteration = MaxIterations THEN "settle" ELSE "iterate"
  /\ UNCHANGED <<next, iteration, setup_ok, all_passed, failed_phase, termination,
                 feedback, signalVars, historyVars>>

Completed ==
  /\ pc = "decide" /\ termination = "none" /\ all_passed
  /\ final_status' = "completed" /\ pc' = "settle"
  /\ UNCHANGED <<next, iteration, setup_ok, all_passed, failed_phase, termination,
                 feedback, signalVars, historyVars>>

\* Mutant: the loop runs once more than max_iterations.
RetryOneMore ==
  /\ pc = "decide" /\ ~(termination = "none" /\ all_passed)
  /\ \/ /\ feedback' = <<"report", iteration>>
        /\ pc' = IF iteration > MaxIterations THEN "settle" ELSE "iterate"
     \/ UNCHANGED feedback /\ pc' = "error"
  /\ UNCHANGED <<next, iteration, verdictVars, signalVars, historyVars>>

\* Mutant: the report of the iteration is not written.
RetrySilent ==
  /\ pc = "decide" /\ ~(termination = "none" /\ all_passed)
  /\ pc' = IF iteration = MaxIterations THEN "settle" ELSE "iterate"
  /\ UNCHANGED <<next, iteration, verdictVars, feedback, signalVars, historyVars>>

\* The report of the iteration becomes the feedback of the next one.
Retry ==
  /\ pc = "decide" /\ ~(termination = "none" /\ all_passed)
  /\ \/ /\ feedback' = <<"report", iteration>>
        /\ pc' = IF iteration = MaxIterations THEN "settle" ELSE "iterate"
     \/ UNCHANGED feedback /\ pc' = "error"
  /\ UNCHANGED <<next, iteration, verdictVars, signalVars, historyVars>>

-----------------------------------------------------------------------------
\* Mutant: the token and the deadline are not looked at after the loop.
SettleEarly ==
  /\ pc = "settle" /\ pc' = "over"
  /\ final_status' = IF termination = "none" THEN final_status ELSE termination
  /\ failed_phase' = IF termination = "none" THEN failed_phase ELSE termination
  /\ UNCHANGED <<next, iteration, setup_ok, all_passed, termination, feedback,
                 signalVars, historyVars>>

\* After the loop: a cancellation or a deadline that came late still decides.
Settle ==
  /\ pc = "settle" /\ pc' = "over"
  /\ LET reason == IF termination # "none" THEN termination
                   ELSE IF cancellation THEN "cancelled"
                   ELSE IF expired THEN "timed_out" ELSE "none"
     IN /\ termination' = reason
        /\ final_status' = IF reason = "none" THEN final_status ELSE reason
        /\ failed_phase' = IF reason = "none" THEN failed_phase ELSE reason
  /\ UNCHANGED <<next, iteration, setup_ok, all_passed, feedback, signalVars,
                 historyVars>>

Over == pc \in {"over", "error"} /\ UNCHANGED vars

Step == \/ ExecError
        \/ SetupStops \/ SetupExec \/ SetupDone
        \/ Initialize \/ InitializeSkip
        \/ LoopBreak \/ Agent \/ Verifier \/ VerifiersDone
        \/ Mandatory \/ MandatoryDone \/ Publish \/ PublishSkip
        \/ Completed \/ Retry \/ Settle

Next == Cancel \/ Expire \/ Step \/ Over

Spec == Init /\ [][Next]_vars

\* Every command ends, at the latest at the deadline, and the task is polled.
FairSpec == Spec /\ WF_vars(Step)

-----------------------------------------------------------------------------
(* Properties *)

\* Every variable stays in its type.
TypeOK ==
  /\ pc \in {"setup", "initialize", "iterate", "verifier", "mandatory",
             "publish", "decide", "settle", "over", "error"}
  /\ next \in Nat /\ iteration \in 0..MaxIterations
  /\ setup_ok \in BOOLEAN /\ all_passed \in BOOLEAN
  /\ failed_phase \in Phases \cup Terminations \cup {"none"}
  /\ termination \in Terminations \cup {"none"}
  /\ final_status \in {"completed", "failed"} \cup Terminations
  /\ feedback \in {"runner", "setup", "initialize", "report"} \X (0..MaxIterations)
  /\ cancellation \in BOOLEAN /\ expired \in BOOLEAN
  /\ passed \subseteq Commands /\ failed \subseteq Commands
  /\ publications \in Nat

\* The commands that must exit 0 in one and the same iteration.
Checks == {<<"agent", 1>>} \cup ({"verifier"} \X Required)
            \cup ({"mandatory"} \X (1..MandatoryCount))

\* The publish command runs only after the agent, every required verifier and
\* every mandatory verifier of the runner succeeded in the same iteration.
PublishesOnlyVerified ==
  [][publications' # publications => Checks \subseteq passed]_vars

\* "completed" is reported only for a workspace that passed every check of its
\* last iteration and was published if the job asks for it.
CompletedIsVerified ==
  (pc = "over" /\ final_status = "completed")
    => /\ Checks \subseteq passed
       /\ HasPublish => publications = 1

\* No command runs after a successful publication, which no iteration may change
\* or repeat, nor in the container that the token or the deadline has stopped.
NothingAfterTheEnd ==
  [][(publications > 0 \/ termination # "none") => UNCHANGED historyVars]_vars

\* A failed job names a phase that did fail in its last iteration (or while
\* preparing), not one left over from an iteration before.
FailedPhaseTrue ==
  (pc = "over" /\ final_status = "failed") =>
    \E c \in failed : \/ failed_phase = c[1]
                      \/ failed_phase = "verifier" /\ c[1] = "mandatory"

\* From the second iteration on the agent starts with the report of the
\* iteration right before it.
FeedbackCurrent ==
  [][(iteration' # iteration /\ iteration > 0)
       => feedback = <<"report", iteration>>]_vars

\* "cancelled" or "timed_out" is reported exactly when the token was cancelled
\* or the deadline had passed by the time of the verdict, even if every check
\* had passed by then, and the reason reported is one that happened.
TerminationReported ==
  [][pc = "settle" =>
       /\ final_status' \in Terminations <=> (cancellation \/ expired)
       /\ final_status' = "cancelled" => cancellation
       /\ final_status' = "timed_out" => expired]_pc

\* Every workflow reaches its verdict or an error.
WorkflowEnds == <>(pc \in {"over", "error"})
============================================================================
