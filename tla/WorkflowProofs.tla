--------------------------- MODULE WorkflowProofs ---------------------------
(***************************************************************************)
(* Proofs about Workflow, for every number of setup commands, verifiers,   *)
(* mandatory verifiers and iterations.                                     *)
(***************************************************************************)
EXTENDS Workflow, TLAPS

InIteration == {"verifier", "mandatory", "publish", "decide"}

\* Where the loop is and what that says of its counters and its feedback.
Place ==
  /\ next > 0
  /\ pc \in {"setup", "initialize"} => iteration = 0
  /\ pc = "iterate" => /\ iteration < MaxIterations
                       /\ iteration > 0 => feedback = <<"report", iteration>>
  /\ pc \in InIteration => setup_ok

\* A termination has its cause, and after it no command is waited for.
Terminated ==
  /\ termination = "cancelled" => cancellation
  /\ termination = "timed_out" => expired
  /\ termination # "none" => pc \notin {"setup", "verifier"}
  /\ pc # "over" => final_status \in {"completed", "failed"}

JobChecks == {<<"agent", 1>>} \cup ({"verifier"} \X Required)

\* all_passed means that every check walked over so far has passed.
SoFar ==
  /\ (pc = "verifier" /\ all_passed) =>
        /\ <<"agent", 1>> \in passed
        /\ \A j \in Required : j < next => <<"verifier", j>> \in passed
  /\ (pc = "mandatory" /\ all_passed /\ termination = "none") =>
        /\ JobChecks \subseteq passed
        /\ \A j \in 1..MandatoryCount : j < next => <<"mandatory", j>> \in passed
  /\ (pc \in {"publish", "decide"} /\ all_passed /\ termination = "none")
        => Checks \subseteq passed
  /\ (pc = "decide" /\ all_passed /\ termination = "none" /\ HasPublish)
        => publications = 1
  /\ final_status = "completed" =>
        /\ pc \in {"settle", "over"} /\ Checks \subseteq passed
        /\ HasPublish => publications = 1

\* After a successful publication only the verdict is left.
Published ==
  publications > 0 =>
    /\ publications = 1 /\ pc \in {"decide", "settle", "over"}
    /\ pc = "decide" => all_passed /\ termination = "none"

\* failed_phase names the phase of a command that failed.
Blame == \E c \in failed : \/ failed_phase = c[1]
                           \/ failed_phase = "verifier" /\ c[1] = "mandatory"

\* Whenever a failure would be reported from here, there is one to blame.
Blamed ==
  /\ (~setup_ok /\ termination = "none" /\ pc \in {"setup", "initialize", "iterate"})
        => Blame
  /\ (pc = "iterate" /\ iteration > 0 /\ termination = "none") => Blame
  /\ (pc \in InIteration /\ ~all_passed /\ termination = "none") => Blame
  /\ (pc = "settle" /\ final_status = "failed" /\ termination = "none"
        /\ ~cancellation) => Blame
  /\ (pc = "over" /\ final_status = "failed") => Blame

IInv == TypeOK /\ Place /\ Terminated /\ SoFar /\ Published /\ Blamed

-----------------------------------------------------------------------------
(* The invariant holds initially and is preserved by every step. *)

\* Before the first setup command.
LEMMA InitIInv == Init => IInv
<1> SUFFICES ASSUME Init PROVE IInv
  OBVIOUS
<1> USE WorkflowConstants DEF Init
<1>1. TypeOK
  <2>1. /\ setup_ok \in BOOLEAN /\ all_passed \in BOOLEAN
        /\ cancellation \in BOOLEAN /\ expired \in BOOLEAN
    OBVIOUS
  <2> QED
    BY <2>1 DEF TypeOK
<1>2. Place /\ Terminated /\ SoFar /\ Published /\ Blamed
  BY DEF Place, Terminated, SoFar, Published, Blamed, InIteration
<1> QED
  BY <1>1, <1>2 DEF IInv

\* The commands of each phase.
LEMMA CommandFacts ==
  /\ Prepares \subseteq Commands /\ Iterates \subseteq Commands
  /\ \A j \in 1..SetupCount : <<"setup", j>> \in Prepares
  /\ <<"initialize", 1>> \in Prepares
  /\ <<"agent", 1>> \in Commands /\ <<"publish", 1>> \in Commands
  /\ \A j \in 1..VerifierCount : <<"verifier", j>> \in Commands
  /\ \A j \in 1..MandatoryCount : <<"mandatory", j>> \in Commands
  BY DEF Commands, Prepares, Iterates

\* What the history keeps when a command exits.
LEMMA ExitFacts ==
  ASSUME TypeOK, NEW c \in Commands, NEW ok \in BOOLEAN, NEW base \in SUBSET Commands,
         Exits(c, ok, base)
  PROVE  /\ passed' \subseteq Commands /\ failed' \subseteq Commands
         /\ publications' \in Nat
         /\ ok => c \in passed'
         /\ ~ok => c \in failed'
         /\ base = Commands => passed \subseteq passed' /\ failed \subseteq failed'
         /\ ~(ok /\ c = <<"publish", 1>>) => publications' = publications
         /\ (ok /\ c = <<"publish", 1>>) => publications' = publications + 1
  BY DEF TypeOK, Exits

\* A termination leaves the history alone.
LEMMA TerminateFacts ==
  ASSUME TypeOK, NEW reason \in Terminations, Terminates(reason)
  PROVE  /\ passed' \subseteq Commands /\ failed' \subseteq Commands
         /\ publications' \in Nat /\ termination' = reason
         /\ reason # "none" /\ UNCHANGED historyVars
  BY DEF TypeOK, Terminates, Terminations, historyVars

\* One case per action of the workflow.
LEMMA NextIInv == IInv /\ [Next]_vars => IInv'
<1> SUFFICES ASSUME IInv, [Next]_vars PROVE IInv'
  OBVIOUS
<1> USE WorkflowConstants
    DEF IInv, verdictVars, signalVars, historyVars, InIteration, Terminations
<1>1. CASE Cancel
  <2>1. TypeOK'
    BY <1>1 DEF Cancel, TypeOK, Phases
  <2>2. Place'
    BY <1>1 DEF Cancel, TypeOK, Place
  <2>3. Terminated'
    BY <1>1 DEF Cancel, TypeOK, Terminated
  <2>4. SoFar'
    BY <1>1
    DEF Cancel, TypeOK, Place, Terminated, SoFar, Published, Checks, JobChecks
  <2>5. Published'
    BY <1>1 DEF Cancel, TypeOK, Terminated, SoFar, Published
  <2>6. Blamed'
    BY <1>1 DEF Cancel, TypeOK, Place, Blamed, Blame
  <2> QED
    BY <2>1, <2>2, <2>3, <2>4, <2>5, <2>6
<1>2. CASE Expire
  <2>1. TypeOK'
    BY <1>2 DEF Expire, TypeOK, Phases
  <2>2. Place'
    BY <1>2 DEF Expire, TypeOK, Place
  <2>3. Terminated'
    BY <1>2 DEF Expire, TypeOK, Terminated
  <2>4. SoFar'
    BY <1>2
    DEF Expire, TypeOK, Place, Terminated, SoFar, Published, Checks, JobChecks
  <2>5. Published'
    BY <1>2 DEF Expire, TypeOK, Terminated, SoFar, Published
  <2>6. Blamed'
    BY <1>2 DEF Expire, TypeOK, Place, Blamed, Blame
  <2> QED
    BY <2>1, <2>2, <2>3, <2>4, <2>5, <2>6
<1>3. CASE ExecError
  <2>1. TypeOK'
    BY <1>3 DEF ExecError, TypeOK, Phases
  <2>2. Place'
    BY <1>3 DEF ExecError, TypeOK, Place
  <2>3. Terminated'
    BY <1>3 DEF ExecError, TypeOK, Terminated
  <2>4. SoFar'
    BY <1>3
    DEF ExecError, TypeOK, Place, Terminated, SoFar, Published, Checks,
        JobChecks
  <2>5. Published'
    BY <1>3 DEF ExecError, TypeOK, Terminated, SoFar, Published
  <2>6. Blamed'
    BY <1>3 DEF ExecError, TypeOK, Place, Blamed, Blame
  <2> QED
    BY <2>1, <2>2, <2>3, <2>4, <2>5, <2>6
<1>4. CASE SetupStops
  <2>1. TypeOK'
    BY <1>4 DEF SetupStops, TypeOK, Phases
  <2>2. Place'
    BY <1>4 DEF SetupStops, TypeOK, Place
  <2>3. Terminated'
    BY <1>4 DEF SetupStops, TypeOK, Terminated
  <2>4. SoFar'
    BY <1>4
    DEF SetupStops, TypeOK, Place, Terminated, SoFar, Published, Checks,
        JobChecks
  <2>5. Published'
    BY <1>4 DEF SetupStops, TypeOK, Terminated, SoFar, Published
  <2>6. Blamed'
    BY <1>4 DEF SetupStops, TypeOK, Place, Blamed, Blame
  <2> QED
    BY <2>1, <2>2, <2>3, <2>4, <2>5, <2>6
<1>5. CASE SetupExec
  <2>1. TypeOK'
    <3>1. <<"setup", next>> \in Commands
      BY <1>5, CommandFacts DEF SetupExec, TypeOK, Place
    <3>2. /\ passed' \subseteq Commands /\ failed' \subseteq Commands
          /\ publications' \in Nat
      BY <1>5, <3>1, CommandFacts, ExitFacts, TerminateFacts DEF SetupExec
    <3>3. setup_ok' \in BOOLEAN /\ all_passed' \in BOOLEAN
      BY <1>5 DEF SetupExec, TypeOK
    <3>4. cancellation' \in BOOLEAN /\ expired' \in BOOLEAN
      BY <1>5 DEF SetupExec, TypeOK
    <3>5. termination' \in Terminations \cup {"none"}
      BY <1>5 DEF SetupExec, TypeOK, Exits, Terminates
    <3>6. failed_phase' \in Phases \cup Terminations \cup {"none"}
      BY <1>5 DEF SetupExec, TypeOK, Phases
    <3>7. /\ pc' \in {"setup", "initialize", "iterate", "verifier", "mandatory",
                     "publish", "decide", "settle", "over", "error"}
          /\ next' \in Nat /\ iteration' \in 0..MaxIterations
          /\ final_status' \in {"completed", "failed"} \cup Terminations
      BY <1>5 DEF SetupExec, TypeOK, Place
    <3>8. feedback' \in {"runner", "setup", "initialize", "report"} \X (0..MaxIterations)
      BY <1>5 DEF SetupExec, TypeOK
    <3> QED
      BY <3>2, <3>3, <3>4, <3>5, <3>6, <3>7, <3>8 DEF TypeOK
  <2>2. Place'
    BY <1>5 DEF SetupExec, Exits, Terminates, TypeOK, Place
  <2>3. Terminated'
    BY <1>5 DEF SetupExec, Exits, Terminates, TypeOK, Terminated
  <2>4. SoFar'
    BY <1>5
    DEF SetupExec, Exits, Terminates, TypeOK, Place, Terminated, SoFar,
        Published, Checks, JobChecks
  <2>5. Published'
    BY <1>5
    DEF SetupExec, Exits, Terminates, TypeOK, Terminated, SoFar, Published
  <2>6. Blamed'
    <3>1. (termination' = "none" /\ ~setup_ok')
            => \/ <<"setup", next>> \in failed' /\ failed_phase' = "setup"
               \/ ~setup_ok /\ failed \subseteq failed' /\ failed_phase' = failed_phase
      BY <1>5 DEF SetupExec, TypeOK, Exits, Terminates
    <3>2. ASSUME <<"setup", next>> \in failed', failed_phase' = "setup"
          PROVE  Blame'
      BY <3>2 DEF Blame
    <3>3. ASSUME ~setup_ok, failed \subseteq failed', failed_phase' = failed_phase,
                 termination = "none"
          PROVE  Blame'
      <4>1. Blame
        BY <1>5, <3>3 DEF SetupExec, Blamed
      <4> QED
        BY <3>3, <4>1 DEF Blame
    <3>4. termination' = "none" => termination = "none"
      BY <1>5 DEF SetupExec, TypeOK, Exits, Terminates
    <3>5. (termination' = "none" /\ ~setup_ok') => Blame'
      BY <3>1, <3>2, <3>3, <3>4
    <3> QED
      BY <1>5, <3>5
      DEF SetupExec, TypeOK, Place, Terminates, Terminated, Blamed
  <2> QED
    BY <2>1, <2>2, <2>3, <2>4, <2>5, <2>6
<1>6. CASE SetupDone
  <2>1. TypeOK'
    BY <1>6 DEF SetupDone, TypeOK, Phases
  <2>2. Place'
    BY <1>6 DEF SetupDone, TypeOK, Place
  <2>3. Terminated'
    BY <1>6 DEF SetupDone, TypeOK, Terminated
  <2>4. SoFar'
    BY <1>6
    DEF SetupDone, TypeOK, Place, Terminated, SoFar, Published, Checks,
        JobChecks
  <2>5. Published'
    BY <1>6 DEF SetupDone, TypeOK, Terminated, SoFar, Published
  <2>6. Blamed'
    BY <1>6 DEF SetupDone, TypeOK, Place, Blamed, Blame
  <2> QED
    BY <2>1, <2>2, <2>3, <2>4, <2>5, <2>6
<1>7. CASE Initialize
  <2>1. TypeOK'
    <3>1. <<"initialize", 1>> \in Commands
      BY <1>7, CommandFacts DEF Initialize, Initializes, TypeOK, Place
    <3>2. /\ passed' \subseteq Commands /\ failed' \subseteq Commands
          /\ publications' \in Nat
      BY <1>7, <3>1, CommandFacts, ExitFacts, TerminateFacts
      DEF Initialize, Initializes
    <3>3. setup_ok' \in BOOLEAN /\ all_passed' \in BOOLEAN
      BY <1>7 DEF Initialize, Initializes, TypeOK
    <3>4. cancellation' \in BOOLEAN /\ expired' \in BOOLEAN
      BY <1>7 DEF Initialize, Initializes, TypeOK
    <3>5. termination' \in Terminations \cup {"none"}
      BY <1>7 DEF Initialize, Initializes, TypeOK, Exits, Terminates
    <3>6. failed_phase' \in Phases \cup Terminations \cup {"none"}
      BY <1>7 DEF Initialize, Initializes, TypeOK, Phases
    <3>7. /\ pc' \in {"setup", "initialize", "iterate", "verifier", "mandatory",
                     "publish", "decide", "settle", "over", "error"}
          /\ next' \in Nat /\ iteration' \in 0..MaxIterations
          /\ final_status' \in {"completed", "failed"} \cup Terminations
      BY <1>7 DEF Initialize, Initializes, TypeOK, Place
    <3>8. feedback' \in {"runner", "setup", "initialize", "report"} \X (0..MaxIterations)
      <4>1. feedback' = feedback \/ feedback' = <<"initialize", 0>>
        BY <1>7 DEF Initialize
      <4> QED
        BY <4>1 DEF TypeOK
    <3> QED
      BY <3>2, <3>3, <3>4, <3>5, <3>6, <3>7, <3>8 DEF TypeOK
  <2>2. Place'
    <3>1. pc' \in {"iterate", "error"} /\ iteration = 0
      BY <1>7 DEF Initialize, Place
    <3>2. UNCHANGED <<next, iteration, all_passed, final_status>>
      BY <1>7 DEF Initialize
    <3> QED
      BY <3>1, <3>2 DEF Place, TypeOK
  <2>3. Terminated'
    BY <1>7 DEF Initialize, Initializes, Exits, Terminates, TypeOK, Terminated
  <2>4. SoFar'
    <3>1. pc' \in {"iterate", "error"} /\ iteration = 0
      BY <1>7 DEF Initialize, Place
    <3>2. UNCHANGED <<next, iteration, all_passed, final_status>>
      BY <1>7 DEF Initialize
    <3> QED
      BY <1>7, <3>1, <3>2 DEF Initialize, SoFar
  <2>5. Published'
    <3>1. publications = 0
      BY <1>7 DEF Initialize, TypeOK, Published
    <3>2. publications' = publications
      <4>1. <<"initialize", 1>> # <<"publish", 1>>
        OBVIOUS
      <4>2. ASSUME NEW ok \in BOOLEAN, Exits(<<"initialize", 1>>, ok, Commands)
            PROVE  publications' = publications
        BY <4>1, <4>2, ExitFacts, CommandFacts
      <4> QED
        BY <1>7, <4>2, TerminateFacts DEF Initialize
    <3> QED
      BY <3>1, <3>2 DEF Published
  <2>6. Blamed'
    <3>1. (termination' = "none" /\ ~setup_ok')
            => <<"initialize", 1>> \in failed' /\ failed_phase' = "initialize"
      BY <1>7 DEF Initialize, Initializes, TypeOK, Exits, Terminates
    <3>2. ASSUME <<"initialize", 1>> \in failed', failed_phase' = "initialize"
          PROVE  Blame'
      BY <3>2 DEF Blame
    <3>4. termination' = "none" => termination = "none"
      BY <1>7 DEF Initialize, Initializes, TypeOK, Exits, Terminates
    <3>5. (termination' = "none" /\ ~setup_ok') => Blame'
      BY <3>1, <3>2, <3>4
    <3>6. pc' \in {"iterate", "error"} /\ iteration' = 0
      BY <1>7 DEF Initialize, Place
    <3> QED
      BY <3>5, <3>6 DEF Blamed
  <2> QED
    BY <2>1, <2>2, <2>3, <2>4, <2>5, <2>6
<1>8. CASE InitializeSkip
  <2>1. TypeOK'
    BY <1>8, CommandFacts DEF InitializeSkip, Initializes, TypeOK, Phases
  <2>2. Place'
    BY <1>8 DEF InitializeSkip, Initializes, TypeOK, Place
  <2>3. Terminated'
    BY <1>8 DEF InitializeSkip, Initializes, TypeOK, Terminated
  <2>4. SoFar'
    BY <1>8
    DEF InitializeSkip, Initializes, TypeOK, Place, Terminated, SoFar,
        Published, Checks, JobChecks
  <2>5. Published'
    BY <1>8
    DEF InitializeSkip, Initializes, TypeOK, Terminated, SoFar, Published
  <2>6. Blamed'
    BY <1>8 DEF InitializeSkip, Initializes, TypeOK, Place, Blamed, Blame
  <2> QED
    BY <2>1, <2>2, <2>3, <2>4, <2>5, <2>6
<1>9. CASE LoopBreak
  <2>1. TypeOK'
    BY <1>9 DEF LoopBreak, TypeOK, Phases
  <2>2. Place'
    BY <1>9 DEF LoopBreak, TypeOK, Place
  <2>3. Terminated'
    BY <1>9 DEF LoopBreak, TypeOK, Terminated
  <2>4. SoFar'
    BY <1>9
    DEF LoopBreak, TypeOK, Place, Terminated, SoFar, Published, Checks,
        JobChecks
  <2>5. Published'
    BY <1>9 DEF LoopBreak, TypeOK, Terminated, SoFar, Published
  <2>6. Blamed'
    BY <1>9 DEF LoopBreak, TypeOK, Place, Blamed, Blame
  <2> QED
    BY <2>1, <2>2, <2>3, <2>4, <2>5, <2>6
<1>10. CASE Agent
  <2>1. TypeOK'
    <3>1. <<"agent", 1>> \in Commands
      BY <1>10, CommandFacts DEF Agent, TypeOK, Place
    <3>2. /\ passed' \subseteq Commands /\ failed' \subseteq Commands
          /\ publications' \in Nat
      BY <1>10, <3>1, CommandFacts, ExitFacts, TerminateFacts DEF Agent
    <3>3. setup_ok' \in BOOLEAN /\ all_passed' \in BOOLEAN
      BY <1>10 DEF Agent, TypeOK
    <3>4. cancellation' \in BOOLEAN /\ expired' \in BOOLEAN
      BY <1>10 DEF Agent, TypeOK
    <3>5. termination' \in Terminations \cup {"none"}
      BY <1>10 DEF Agent, TypeOK, Exits, Terminates
    <3>6. failed_phase' \in Phases \cup Terminations \cup {"none"}
      BY <1>10 DEF Agent, TypeOK, Phases
    <3>7. /\ pc' \in {"setup", "initialize", "iterate", "verifier", "mandatory",
                     "publish", "decide", "settle", "over", "error"}
          /\ next' \in Nat /\ iteration' \in 0..MaxIterations
          /\ final_status' \in {"completed", "failed"} \cup Terminations
      BY <1>10 DEF Agent, TypeOK, Place
    <3>8. feedback' \in {"runner", "setup", "initialize", "report"} \X (0..MaxIterations)
      BY <1>10 DEF Agent, TypeOK
    <3> QED
      BY <3>2, <3>3, <3>4, <3>5, <3>6, <3>7, <3>8 DEF TypeOK
  <2>2. Place'
    BY <1>10 DEF Agent, Exits, Terminates, TypeOK, Place
  <2>3. Terminated'
    BY <1>10 DEF Agent, Exits, Terminates, TypeOK, Terminated
  <2>4. SoFar'
    BY <1>10
    DEF Agent, Exits, Terminates, TypeOK, Place, Terminated, SoFar, Published,
        Checks, JobChecks
  <2>5. Published'
    BY <1>10 DEF Agent, Exits, Terminates, TypeOK, Terminated, SoFar, Published
  <2>6. Blamed'
    <3>1. (termination' = "none" /\ ~all_passed')
            => <<"agent", 1>> \in failed' /\ failed_phase' = "agent"
      BY <1>10 DEF Agent, TypeOK, Exits, Terminates
    <3>2. ASSUME <<"agent", 1>> \in failed', failed_phase' = "agent"
          PROVE  Blame'
      BY <3>2 DEF Blame
    <3>4. termination' = "none" => termination = "none"
      BY <1>10 DEF Agent, TypeOK, Exits, Terminates
    <3>5. (termination' = "none" /\ ~all_passed') => Blame'
      BY <3>1, <3>2, <3>4
    <3> QED
      BY <1>10, <3>5 DEF Agent, TypeOK, Place, Terminates, Terminated, Blamed
  <2> QED
    BY <2>1, <2>2, <2>3, <2>4, <2>5, <2>6
<1>11. CASE Verifier
  <2>1. TypeOK'
    <3>1. <<"verifier", next>> \in Commands
      BY <1>11, CommandFacts DEF Verifier, Verify, TypeOK, Place
    <3>2. /\ passed' \subseteq Commands /\ failed' \subseteq Commands
          /\ publications' \in Nat
      BY <1>11, <3>1, CommandFacts, ExitFacts, TerminateFacts
      DEF Verifier, Verify
    <3>3. setup_ok' \in BOOLEAN /\ all_passed' \in BOOLEAN
      BY <1>11 DEF Verifier, Verify, TypeOK
    <3>4. cancellation' \in BOOLEAN /\ expired' \in BOOLEAN
      BY <1>11 DEF Verifier, Verify, TypeOK
    <3>5. termination' \in Terminations \cup {"none"}
      BY <1>11 DEF Verifier, Verify, TypeOK, Exits, Terminates
    <3>6. failed_phase' \in Phases \cup Terminations \cup {"none"}
      BY <1>11 DEF Verifier, Verify, TypeOK, Phases
    <3>7. /\ pc' \in {"setup", "initialize", "iterate", "verifier", "mandatory",
                     "publish", "decide", "settle", "over", "error"}
          /\ next' \in Nat /\ iteration' \in 0..MaxIterations
          /\ final_status' \in {"completed", "failed"} \cup Terminations
      BY <1>11 DEF Verifier, Verify, TypeOK, Place
    <3>8. feedback' \in {"runner", "setup", "initialize", "report"} \X (0..MaxIterations)
      BY <1>11 DEF Verifier, Verify, TypeOK
    <3> QED
      BY <3>2, <3>3, <3>4, <3>5, <3>6, <3>7, <3>8 DEF TypeOK
  <2>2. Place'
    BY <1>11 DEF Verifier, Verify, Exits, Terminates, TypeOK, Place
  <2>3. Terminated'
    BY <1>11 DEF Verifier, Verify, Exits, Terminates, TypeOK, Terminated
  <2>4. SoFar'
    BY <1>11
    DEF Verifier, Verify, Exits, Terminates, TypeOK, Place, Terminated, SoFar,
        Published, Checks, JobChecks
  <2>5. Published'
    BY <1>11
    DEF Verifier, Verify, Exits, Terminates, TypeOK, Terminated, SoFar,
        Published
  <2>6. Blamed'
    <3>1. (termination' = "none" /\ ~all_passed')
            => \/ <<"verifier", next>> \in failed' /\ failed_phase' = "verifier"
               \/ ~all_passed /\ failed \subseteq failed' /\ failed_phase' = failed_phase
      BY <1>11 DEF Verifier, Verify, TypeOK, Exits, Terminates
    <3>2. ASSUME <<"verifier", next>> \in failed', failed_phase' = "verifier"
          PROVE  Blame'
      BY <3>2 DEF Blame
    <3>3. ASSUME ~all_passed, failed \subseteq failed', failed_phase' = failed_phase,
                 termination = "none"
          PROVE  Blame'
      <4>1. Blame
        BY <1>11, <3>3 DEF Verifier, Verify, Blamed
      <4> QED
        BY <3>3, <4>1 DEF Blame
    <3>4. termination' = "none" => termination = "none"
      BY <1>11 DEF Verifier, Verify, TypeOK, Exits, Terminates
    <3>5. (termination' = "none" /\ ~all_passed') => Blame'
      BY <3>1, <3>2, <3>3, <3>4
    <3> QED
      BY <1>11, <3>5
      DEF Verifier, Verify, TypeOK, Place, Terminates, Terminated, Blamed
  <2> QED
    BY <2>1, <2>2, <2>3, <2>4, <2>5, <2>6
<1>12. CASE VerifiersDone
  <2>1. TypeOK'
    BY <1>12 DEF VerifiersDone, TypeOK, Phases
  <2>2. Place'
    BY <1>12 DEF VerifiersDone, TypeOK, Place
  <2>3. Terminated'
    BY <1>12 DEF VerifiersDone, TypeOK, Terminated
  <2>4. SoFar'
    <3>1. all_passed => JobChecks \subseteq passed
      <4>1. \A j \in Required : j < next
        BY <1>12 DEF VerifiersDone, TypeOK
      <4>2. \A x \in {"verifier"} \X Required : x[2] \in Required /\ x = <<"verifier", x[2]>>
        OBVIOUS
      <4> QED
        BY <1>12, <4>1, <4>2 DEF VerifiersDone, SoFar, JobChecks
    <3> QED
      BY <1>12, <3>1 DEF VerifiersDone, TypeOK, SoFar
  <2>5. Published'
    BY <1>12 DEF VerifiersDone, TypeOK, Terminated, SoFar, Published
  <2>6. Blamed'
    BY <1>12 DEF VerifiersDone, TypeOK, Place, Blamed, Blame
  <2> QED
    BY <2>1, <2>2, <2>3, <2>4, <2>5, <2>6
<1>13. CASE Mandatory
  <2>1. TypeOK'
    <3>1. <<"mandatory", next>> \in Commands
      BY <1>13, CommandFacts DEF Mandatory, Verify, TypeOK, Place
    <3>2. /\ passed' \subseteq Commands /\ failed' \subseteq Commands
          /\ publications' \in Nat
      BY <1>13, <3>1, CommandFacts, ExitFacts, TerminateFacts
      DEF Mandatory, Verify
    <3>3. setup_ok' \in BOOLEAN /\ all_passed' \in BOOLEAN
      BY <1>13 DEF Mandatory, Verify, TypeOK
    <3>4. cancellation' \in BOOLEAN /\ expired' \in BOOLEAN
      BY <1>13 DEF Mandatory, Verify, TypeOK
    <3>5. termination' \in Terminations \cup {"none"}
      BY <1>13 DEF Mandatory, Verify, TypeOK, Exits, Terminates
    <3>6. failed_phase' \in Phases \cup Terminations \cup {"none"}
      BY <1>13 DEF Mandatory, Verify, TypeOK, Phases
    <3>7. /\ pc' \in {"setup", "initialize", "iterate", "verifier", "mandatory",
                     "publish", "decide", "settle", "over", "error"}
          /\ next' \in Nat /\ iteration' \in 0..MaxIterations
          /\ final_status' \in {"completed", "failed"} \cup Terminations
      BY <1>13 DEF Mandatory, Verify, TypeOK, Place
    <3>8. feedback' \in {"runner", "setup", "initialize", "report"} \X (0..MaxIterations)
      BY <1>13 DEF Mandatory, Verify, TypeOK
    <3> QED
      BY <3>2, <3>3, <3>4, <3>5, <3>6, <3>7, <3>8 DEF TypeOK
  <2>2. Place'
    BY <1>13 DEF Mandatory, Verify, Exits, Terminates, TypeOK, Place
  <2>3. Terminated'
    BY <1>13 DEF Mandatory, Verify, Exits, Terminates, TypeOK, Terminated
  <2>4. SoFar'
    BY <1>13
    DEF Mandatory, Verify, Exits, Terminates, TypeOK, Place, Terminated, SoFar,
        Published, Checks, JobChecks
  <2>5. Published'
    BY <1>13
    DEF Mandatory, Verify, Exits, Terminates, TypeOK, Terminated, SoFar,
        Published
  <2>6. Blamed'
    <3>1. (termination' = "none" /\ ~all_passed')
            => \/ <<"mandatory", next>> \in failed' /\ failed_phase' = "verifier"
               \/ ~all_passed /\ failed \subseteq failed' /\ failed_phase' = failed_phase
      BY <1>13 DEF Mandatory, Verify, TypeOK, Exits, Terminates
    <3>2. ASSUME <<"mandatory", next>> \in failed', failed_phase' = "verifier"
          PROVE  Blame'
      BY <3>2 DEF Blame
    <3>3. ASSUME ~all_passed, failed \subseteq failed', failed_phase' = failed_phase,
                 termination = "none"
          PROVE  Blame'
      <4>1. Blame
        BY <1>13, <3>3 DEF Mandatory, Verify, Blamed
      <4> QED
        BY <3>3, <4>1 DEF Blame
    <3>4. termination' = "none" => termination = "none"
      BY <1>13 DEF Mandatory, Verify, TypeOK, Exits, Terminates
    <3>5. (termination' = "none" /\ ~all_passed') => Blame'
      BY <3>1, <3>2, <3>3, <3>4
    <3> QED
      BY <1>13, <3>5
      DEF Mandatory, Verify, TypeOK, Place, Terminates, Terminated, Blamed
  <2> QED
    BY <2>1, <2>2, <2>3, <2>4, <2>5, <2>6
<1>14. CASE MandatoryDone
  <2>1. TypeOK'
    BY <1>14 DEF MandatoryDone, TypeOK, Phases
  <2>2. Place'
    BY <1>14 DEF MandatoryDone, TypeOK, Place
  <2>3. Terminated'
    BY <1>14 DEF MandatoryDone, TypeOK, Terminated
  <2>4. SoFar'
    BY <1>14
    DEF MandatoryDone, TypeOK, Place, Terminated, SoFar, Published, Checks,
        JobChecks
  <2>5. Published'
    BY <1>14 DEF MandatoryDone, TypeOK, Terminated, SoFar, Published
  <2>6. Blamed'
    BY <1>14 DEF MandatoryDone, TypeOK, Place, Blamed, Blame
  <2> QED
    BY <2>1, <2>2, <2>3, <2>4, <2>5, <2>6
<1>15. CASE Publish
  <2>1. TypeOK'
    <3>1. <<"publish", 1>> \in Commands
      BY <1>15, CommandFacts DEF Publish, Publishes, TypeOK, Place
    <3>2. /\ passed' \subseteq Commands /\ failed' \subseteq Commands
          /\ publications' \in Nat
      BY <1>15, <3>1, CommandFacts, ExitFacts, TerminateFacts
      DEF Publish, Publishes
    <3>3. setup_ok' \in BOOLEAN /\ all_passed' \in BOOLEAN
      BY <1>15 DEF Publish, Publishes, TypeOK
    <3>4. cancellation' \in BOOLEAN /\ expired' \in BOOLEAN
      BY <1>15 DEF Publish, Publishes, TypeOK
    <3>5. termination' \in Terminations \cup {"none"}
      BY <1>15 DEF Publish, Publishes, TypeOK, Exits, Terminates
    <3>6. failed_phase' \in Phases \cup Terminations \cup {"none"}
      BY <1>15 DEF Publish, Publishes, TypeOK, Phases
    <3>7. /\ pc' \in {"setup", "initialize", "iterate", "verifier", "mandatory",
                     "publish", "decide", "settle", "over", "error"}
          /\ next' \in Nat /\ iteration' \in 0..MaxIterations
          /\ final_status' \in {"completed", "failed"} \cup Terminations
      BY <1>15 DEF Publish, Publishes, TypeOK, Place
    <3>8. feedback' \in {"runner", "setup", "initialize", "report"} \X (0..MaxIterations)
      BY <1>15 DEF Publish, Publishes, TypeOK
    <3> QED
      BY <3>2, <3>3, <3>4, <3>5, <3>6, <3>7, <3>8 DEF TypeOK
  <2>2. Place'
    BY <1>15 DEF Publish, Publishes, Exits, Terminates, TypeOK, Place
  <2>3. Terminated'
    BY <1>15 DEF Publish, Publishes, Exits, Terminates, TypeOK, Terminated
  <2>4. SoFar'
    <3>1. Checks \subseteq passed /\ passed \subseteq passed'
      BY <1>15, CommandFacts, ExitFacts, TerminateFacts
      DEF Publish, Publishes, SoFar
    <3>2. publications = 0
      BY <1>15 DEF Publish, TypeOK, Published
    <3>3. \/ UNCHANGED publications /\ termination' # "none"
          \/ /\ termination' = "none" /\ all_passed' \in BOOLEAN
             /\ publications' = IF all_passed' THEN 1 ELSE 0
      <4>1. ASSUME NEW ok \in BOOLEAN, Exits(<<"publish", 1>>, ok, Commands),
                   all_passed' = ok
            PROVE  /\ termination' = "none" /\ all_passed' \in BOOLEAN
                   /\ publications' = IF all_passed' THEN 1 ELSE 0
        BY <1>15, <3>2, <4>1, ExitFacts, CommandFacts
        DEF Publish, Publishes, Exits
      <4>2. ASSUME NEW reason \in Terminations, Terminates(reason)
            PROVE  UNCHANGED publications /\ termination' # "none"
        BY <4>2, TerminateFacts
      <4> QED
        BY <1>15, <4>1, <4>2 DEF Publish
    <3> QED
      BY <1>15, <3>1, <3>3 DEF Publish, SoFar
  <2>5. Published'
    <3>1. publications = 0
      BY <1>15 DEF Publish, TypeOK, Published
    <3>2. \/ UNCHANGED publications /\ termination' # "none"
          \/ /\ termination' = "none" /\ all_passed' \in BOOLEAN
             /\ publications' = IF all_passed' THEN 1 ELSE 0
      <4>1. ASSUME NEW ok \in BOOLEAN, Exits(<<"publish", 1>>, ok, Commands),
                   all_passed' = ok
            PROVE  /\ termination' = "none" /\ all_passed' \in BOOLEAN
                   /\ publications' = IF all_passed' THEN 1 ELSE 0
        BY <1>15, <3>1, <4>1, ExitFacts, CommandFacts
        DEF Publish, Publishes, Exits
      <4>2. ASSUME NEW reason \in Terminations, Terminates(reason)
            PROVE  UNCHANGED publications /\ termination' # "none"
        BY <4>2, TerminateFacts
      <4> QED
        BY <1>15, <4>1, <4>2 DEF Publish
    <3> QED
      BY <1>15, <3>2 DEF Publish, Published
  <2>6. Blamed'
    <3>1. (termination' = "none" /\ ~all_passed')
            => <<"publish", 1>> \in failed' /\ failed_phase' = "publish"
      BY <1>15 DEF Publish, Publishes, TypeOK, Exits, Terminates
    <3>2. ASSUME <<"publish", 1>> \in failed', failed_phase' = "publish"
          PROVE  Blame'
      BY <3>2 DEF Blame
    <3>4. termination' = "none" => termination = "none"
      BY <1>15 DEF Publish, Publishes, TypeOK, Exits, Terminates
    <3>5. (termination' = "none" /\ ~all_passed') => Blame'
      BY <3>1, <3>2, <3>4
    <3> QED
      BY <1>15, <3>5
      DEF Publish, Publishes, TypeOK, Place, Terminates, Terminated, Blamed
  <2> QED
    BY <2>1, <2>2, <2>3, <2>4, <2>5, <2>6
<1>16. CASE PublishSkip
  <2>1. TypeOK'
    BY <1>16, CommandFacts DEF PublishSkip, Publishes, TypeOK, Phases
  <2>2. Place'
    BY <1>16 DEF PublishSkip, Publishes, TypeOK, Place
  <2>3. Terminated'
    BY <1>16 DEF PublishSkip, Publishes, TypeOK, Terminated
  <2>4. SoFar'
    BY <1>16
    DEF PublishSkip, Publishes, TypeOK, Place, Terminated, SoFar, Published,
        Checks, JobChecks
  <2>5. Published'
    BY <1>16 DEF PublishSkip, Publishes, TypeOK, Terminated, SoFar, Published
  <2>6. Blamed'
    BY <1>16 DEF PublishSkip, Publishes, TypeOK, Place, Blamed, Blame
  <2> QED
    BY <2>1, <2>2, <2>3, <2>4, <2>5, <2>6
<1>17. CASE Completed
  <2>1. TypeOK'
    BY <1>17 DEF Completed, TypeOK, Phases
  <2>2. Place'
    BY <1>17 DEF Completed, TypeOK, Place
  <2>3. Terminated'
    BY <1>17 DEF Completed, TypeOK, Terminated
  <2>4. SoFar'
    BY <1>17
    DEF Completed, TypeOK, Place, Terminated, SoFar, Published, Checks,
        JobChecks
  <2>5. Published'
    BY <1>17 DEF Completed, TypeOK, Terminated, SoFar, Published
  <2>6. Blamed'
    BY <1>17 DEF Completed, TypeOK, Place, Blamed, Blame
  <2> QED
    BY <2>1, <2>2, <2>3, <2>4, <2>5, <2>6
<1>18. CASE Retry
  <2>1. TypeOK'
    BY <1>18 DEF Retry, TypeOK, Phases
  <2>2. Place'
    BY <1>18 DEF Retry, TypeOK, Place
  <2>3. Terminated'
    BY <1>18 DEF Retry, TypeOK, Terminated
  <2>4. SoFar'
    BY <1>18
    DEF Retry, TypeOK, Place, Terminated, SoFar, Published, Checks, JobChecks
  <2>5. Published'
    BY <1>18 DEF Retry, TypeOK, Terminated, SoFar, Published
  <2>6. Blamed'
    BY <1>18 DEF Retry, TypeOK, Place, Blamed, Blame
  <2> QED
    BY <2>1, <2>2, <2>3, <2>4, <2>5, <2>6
<1>19. CASE Settle
  <2>1. TypeOK'
    BY <1>19 DEF Settle, TypeOK, Phases
  <2>2. Place'
    BY <1>19 DEF Settle, TypeOK, Place
  <2>3. Terminated'
    BY <1>19 DEF Settle, TypeOK, Terminated
  <2>4. SoFar'
    BY <1>19
    DEF Settle, TypeOK, Place, Terminated, SoFar, Published, Checks, JobChecks
  <2>5. Published'
    BY <1>19 DEF Settle, TypeOK, Terminated, SoFar, Published
  <2>6. Blamed'
    BY <1>19 DEF Settle, TypeOK, Place, Blamed, Blame
  <2> QED
    BY <2>1, <2>2, <2>3, <2>4, <2>5, <2>6
<1>20. CASE Over \/ UNCHANGED vars
  BY <1>20
  DEF Over, vars, TypeOK, Place, Terminated, SoFar, Published, Blamed, Blame
<1> QED
  BY <1>1, <1>2, <1>3, <1>4, <1>5, <1>6, <1>7, <1>8, <1>9, <1>10, <1>11, <1>12,
     <1>13, <1>14, <1>15, <1>16, <1>17, <1>18, <1>19, <1>20
  DEF Next, Step
-----------------------------------------------------------------------------
(* The theorems. *)

\* The conjunction above is an inductive invariant of the workflow.
THEOREM Inductive == Spec => []IInv
  BY InitIInv, NextIInv, PTL DEF Spec

\* Every variable of the workflow keeps its type.
THEOREM TypeCorrect == Spec => []TypeOK
<1>1. IInv => TypeOK
  BY DEF IInv
<1> QED
  BY <1>1, Inductive, PTL

\* A completed job passed every required and every mandatory check in its last
\* iteration and was published.
THEOREM CompletedVerified == Spec => []CompletedIsVerified
<1>1. IInv => CompletedIsVerified
  BY DEF IInv, SoFar, CompletedIsVerified
<1> QED
  BY <1>1, Inductive, PTL

\* A failed job names a phase that failed.
THEOREM FailureNamed == Spec => []FailedPhaseTrue
<1>1. IInv => FailedPhaseTrue
  BY DEF IInv, Blamed, Blame, FailedPhaseTrue
<1> QED
  BY <1>1, Inductive, PTL

\* Which step can change the history of publications: one run of publish.
LEMMA OnlyPublishPublishes ==
  ASSUME IInv, [Next]_vars, publications' # publications
  PROVE  pc = "publish" /\ termination = "none" /\ all_passed
<1> USE DEF verdictVars, signalVars, historyVars
<1>0. /\ \A j : <<"setup", j>> # <<"publish", 1>>
      /\ <<"initialize", 1>> # <<"publish", 1>> /\ <<"agent", 1>> # <<"publish", 1>>
      /\ \A j : <<"verifier", j>> # <<"publish", 1>>
      /\ \A j : <<"mandatory", j>> # <<"publish", 1>>
  OBVIOUS
<1>1. ASSUME NEW c, NEW ok \in BOOLEAN, NEW base, c # <<"publish", 1>>,
             Exits(c, ok, base)
      PROVE  publications' = publications
  BY <1>1 DEF Exits, IInv, TypeOK
<1>2. CASE SetupExec \/ Initialize \/ Agent
  BY <1>0, <1>1, <1>2 DEF SetupExec, Initialize, Agent, Terminates
<1>3. CASE Verifier \/ Mandatory
  BY <1>0, <1>1, <1>3 DEF Verifier, Mandatory, Verify, Terminates
<1>4. CASE Publish
  BY <1>4 DEF Publish, Publishes
<1>5. CASE Cancel \/ Expire \/ Over \/ UNCHANGED vars
  BY <1>5 DEF Cancel, Expire, Over, vars
<1>6. CASE \/ ExecError \/ SetupStops \/ SetupDone \/ InitializeSkip \/ LoopBreak
           \/ VerifiersDone \/ MandatoryDone \/ PublishSkip \/ Completed \/ Retry
           \/ Settle
  BY <1>6 DEF ExecError, SetupStops, SetupDone, InitializeSkip, LoopBreak,
              VerifiersDone, MandatoryDone, PublishSkip, Completed, Retry, Settle
<1> QED
  BY <1>2, <1>3, <1>4, <1>5, <1>6 DEF Next, Step

\* Nothing unverified is published.
THEOREM OnlyVerifiedPublished == Spec => PublishesOnlyVerified
<1>1. IInv /\ [Next]_vars
        => [publications' # publications => Checks \subseteq passed]_vars
  <2> SUFFICES ASSUME IInv, [Next]_vars, publications' # publications
               PROVE  Checks \subseteq passed
    OBVIOUS
  <2> QED
    BY OnlyPublishPublishes DEF IInv, SoFar
<1> QED
  BY <1>1, Inductive, PTL DEF Spec, PublishesOnlyVerified

\* No command follows a successful publication, and none a termination.
THEOREM NoCommandAfterTheEnd == Spec => NothingAfterTheEnd
<1>1. ASSUME IInv, [Next]_vars, pc \in {"decide", "settle", "over"}
                                  \/ termination # "none"
      PROVE  UNCHANGED historyVars
  <2> USE DEF verdictVars, signalVars, historyVars
  <2>1. ~(SetupExec \/ Initialize \/ Agent \/ Verifier \/ Mandatory \/ Publish)
    BY <1>1
    DEF IInv, Terminated, SetupExec, Initialize, Initializes, Agent, Verifier,
                Mandatory, Publish, Publishes
  <2>2. CASE Cancel \/ Expire \/ Over \/ UNCHANGED vars
    BY <2>2 DEF Cancel, Expire, Over, vars
  <2>3. CASE \/ ExecError \/ SetupStops \/ SetupDone \/ InitializeSkip \/ LoopBreak
             \/ VerifiersDone \/ MandatoryDone \/ PublishSkip \/ Completed \/ Retry
             \/ Settle
    BY <2>3 DEF ExecError, SetupStops, SetupDone, InitializeSkip, LoopBreak,
                VerifiersDone, MandatoryDone, PublishSkip, Completed, Retry, Settle
  <2> QED
    BY <1>1, <2>1, <2>2, <2>3 DEF Next, Step
<1>2. IInv /\ [Next]_vars
        => [(publications > 0 \/ termination # "none") => UNCHANGED historyVars]_vars
  BY <1>1 DEF IInv, Published
<1> QED
  BY <1>2, Inductive, PTL DEF Spec, NothingAfterTheEnd

\* The reported termination is exactly a cancellation or a deadline that came
\* before the verdict.
THEOREM TerminationExact == Spec => TerminationReported
<1>1. IInv /\ [Next]_vars =>
        [pc = "settle" =>
           /\ final_status' \in Terminations <=> (cancellation \/ expired)
           /\ final_status' = "cancelled" => cancellation
           /\ final_status' = "timed_out" => expired]_pc
  <2> SUFFICES ASSUME IInv, [Next]_vars, pc' # pc, pc = "settle"
               PROVE  /\ final_status' \in Terminations <=> (cancellation \/ expired)
                      /\ final_status' = "cancelled" => cancellation
                      /\ final_status' = "timed_out" => expired
    OBVIOUS
  <2>1. Settle
    BY
    DEF Next, Step, vars, Cancel, Expire, Over, ExecError, SetupStops,
        SetupExec,
           SetupDone, Initialize, InitializeSkip, LoopBreak, Agent, Verifier,
           VerifiersDone, Mandatory, MandatoryDone, Publish, PublishSkip, Completed,
           Retry
  <2>2. /\ final_status \notin Terminations
        /\ termination \in Terminations \cup {"none"}
        /\ termination = "cancelled" => cancellation
        /\ termination = "timed_out" => expired
    BY DEF IInv, TypeOK, Terminated, Terminations
  <2> QED
    BY <2>1, <2>2 DEF Settle, Terminations
<1> QED
  BY <1>1, Inductive, PTL DEF Spec, TerminationReported

\* Every iteration but the first starts from the report of the one before.
THEOREM FeedbackFresh == Spec => FeedbackCurrent
<1>1. IInv /\ [Next]_vars =>
        [(iteration' # iteration /\ iteration > 0)
           => feedback = <<"report", iteration>>]_vars
  <2> SUFFICES ASSUME IInv, [Next]_vars, iteration' # iteration, iteration > 0
               PROVE  feedback = <<"report", iteration>>
    OBVIOUS
  <2>1. Agent
    BY
    DEF Next, Step, vars, Cancel, Expire, Over, ExecError, SetupStops,
        SetupExec,
           SetupDone, Initialize, InitializeSkip, LoopBreak, Verifier, Verify,
           VerifiersDone, Mandatory, MandatoryDone, Publish, PublishSkip, Completed,
           Retry, Settle
  <2> QED
    BY <2>1 DEF Agent, IInv, Place
<1> QED
  BY <1>1, Inductive, PTL DEF Spec, FeedbackCurrent

-----------------------------------------------------------------------------
(* The verdict in Sandbox, which knows the loop as one step. *)

\* The sandbox of a workflow while its commands run, without services, in which
\* stopping the container works; Sandbox itself also lets it fail.
InSandbox == INSTANCE Sandbox WITH
  Kinds <- {"workflow"}, ServiceCount <- 0, DockerFaults <- FALSE,
  JournalFaults <- FALSE, CleanupWhen <- "never", MaxCleanups <- 0,
  job <- [kind |-> "workflow", network |-> "none", publish_mode |-> "disabled"],
  pc <- IF pc = "over" THEN "collecting" ELSE IF pc = "error" THEN "ended" ELSE "work",
  status <- IF pc = "over" THEN final_status ELSE "none",
  outcome <- IF pc = "error" THEN "err" ELSE "none",
  ctr <- [c \in {0} |-> IF pc = "over" /\ termination # "none" THEN "exited" ELSE "running"],
  next <- 1, victims <- {}, stop <- "none", pushed <- "none", code <- 0, net <- "gone",
  cut <- FALSE, refused <- {}, journal <- "running", cleaner <- "idle", listed <- {}, active <- FALSE,
  incomplete <- FALSE, cleanups <- 0

\* Whatever the loop does reaches the sandbox as one verdict or as one error, and a
\* container is stopped exactly with a verdict of the token or of the deadline.
SettlesSandbox ==
  [][InSandbox!WorkflowSettles \/ InSandbox!WorkError]_
      <<InSandbox!jobVars, InSandbox!dockerVars>>

\* run_workflow's loop implements the step that Sandbox has for it, for every number
\* of commands and iterations: Sandbox leaves out no way in which the loop ends.
THEOREM SandboxVerdict == Spec => SettlesSandbox
<1>1. IInv /\ [Next]_vars
        => [InSandbox!WorkflowSettles \/ InSandbox!WorkError]_
             <<InSandbox!jobVars, InSandbox!dockerVars>>
  <2> SUFFICES ASSUME IInv, [Next]_vars
               PROVE  \/ InSandbox!WorkflowSettles \/ InSandbox!WorkError
                      \/ UNCHANGED <<InSandbox!jobVars, InSandbox!dockerVars>>
    OBVIOUS
  <2> USE DEF InSandbox!jobVars, InSandbox!dockerVars, InSandbox!signalVars,
              InSandbox!cleanerVars, InSandbox!IsCommand
  <2>1. CASE Settle
    <3> DEFINE reason == IF termination # "none" THEN termination
                         ELSE IF cancellation THEN "cancelled"
                         ELSE IF expired THEN "timed_out" ELSE "none"
    <3>1. /\ pc = "settle" /\ pc' = "over"
          /\ termination' = reason /\ UNCHANGED signalVars
          /\ final_status' = IF reason = "none" THEN final_status ELSE reason
      BY <2>1 DEF Settle
    <3>2. /\ final_status \in {"completed", "failed"}
          /\ reason = "none" => ~cancellation /\ ~expired
          /\ reason # "none" => \/ reason = "cancelled" /\ cancellation
                                \/ reason = "timed_out" /\ expired
      BY <3>1 DEF IInv, TypeOK, Terminated, Terminations
    <3> HIDE DEF reason
    <3>3. CASE reason = "none"
      BY <3>1, <3>2, <3>3 DEF InSandbox!WorkflowSettles, signalVars
    <3>4. CASE reason # "none"
      BY <3>1, <3>2, <3>4 DEF InSandbox!WorkflowSettles, InSandbox!StopMain, signalVars
    <3> QED
      BY <3>3, <3>4
  <2>2. CASE pc # "error" /\ pc' = "error"
    <3>1. pc # "over" /\ UNCHANGED signalVars
      BY <2>2
      DEF Next, Step, vars, Cancel, Expire, Over, ExecError, SetupStops, SetupExec,
          SetupDone, Initialize, InitializeSkip, LoopBreak, Agent, Verifier, Verify,
          VerifiersDone, Mandatory, MandatoryDone, Publish, PublishSkip, Completed, Retry,
          Settle, signalVars
    <3> QED
      BY <2>2, <3>1 DEF InSandbox!WorkError, InSandbox!ReturnErr, signalVars
  <2>3. CASE ~Settle /\ (pc = "error" \/ pc' # "error")
    <3>1. /\ pc = "over" <=> pc' = "over"
          /\ pc = "error" <=> pc' = "error"
          /\ pc = "over" => UNCHANGED <<final_status, termination>>
      BY <2>3
      DEF Next, Step, vars, Cancel, Expire, Over, ExecError, SetupStops, SetupExec,
          SetupDone, Initialize, InitializeSkip, LoopBreak, Agent, Verifier, Verify,
          VerifiersDone, Mandatory, MandatoryDone, Publish, PublishSkip, Completed, Retry,
          verdictVars
    <3> QED
      BY <3>1
  <2> QED
    BY <2>1, <2>2, <2>3
<1> QED
  BY <1>1, Inductive, PTL DEF Spec, SettlesSandbox
============================================================================
