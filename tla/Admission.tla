----------------------------- MODULE Admission ------------------------------
(***************************************************************************)
(* What a job document must pass before anything is done for it, as pure   *)
(* operators: JobSpec::from_json and JobSpec::validate of runner-protocol, *)
(* ExecutorFactory::select_for and policy::validate of runner-core.        *)
(*                                                                         *)
(* A document is a record: names and images are abstract values, text that *)
(* only has to be well formed is a Boolean.  `given` marks an Option.      *)
(***************************************************************************)
EXTENDS Integers, Sequences, Functions

CONSTANTS
  AllowNetwork,        \* security.allow_network
  AllowedEnvironment,  \* security.allowed_environment
  MaxMemory, MaxTimeout  \* limits.max_memory_mb, limits.max_timeout_seconds

ASSUME AdmissionConstants ==
  /\ AllowNetwork \in BOOLEAN
  /\ MaxMemory \in Int /\ MaxTimeout \in Nat

\* The registry of the command line holds one executor, with these capabilities.
Registered == {"docker"}
Capabilities == {"artifacts", "cancellation", "network", "streaming_logs"}

\* What clamp raises a resource to, however low the limit (memory_mb, seconds).
MinMemory  == 16
MinTimeout == 1

\* What deserializes: the types of JobSpec and of its parts.  workspace says whether
\* a local path lies inside work_dir; form, which fields of a secret are present.
JobSpecs ==
  [api_version : STRING, executor : STRING, attempt : Nat,
   execution : [given : BOOLEAN, isolation : STRING, capabilities : Seq(STRING)],
   command : Seq(STRING),
   workflow : [given : BOOLEAN, well_formed : BOOLEAN, max_iterations : Nat,
               services : Seq([name : STRING, image : STRING])],
   image : STRING, network : STRING, artifacts : BOOLEAN,
   environment_from_runner : Seq(STRING),
   secrets : Seq([name : STRING, form : STRING]),
   workspace : {"git", "local", "outside"},
   publish_mode : {"disabled", "if_changed", "required"},
   resources : [memory_mb : Int, timeout_seconds : Nat]]

Distinct(seq) == IsInjective(seq)
NamesOf(secrets) == [i \in DOMAIN secrets |-> secrets[i].name]

-----------------------------------------------------------------------------
\* JobSpec::from_json: which documents decode.  v1beta1 has no executor field
\* and must state its execution requirements.
decodes(doc) == \/ doc.api_version = "v1alpha1"
                \/ doc.api_version = "v1beta1" /\ doc.execution.given

from_json(doc) ==
  IF doc.api_version = "v1beta1" THEN [doc EXCEPT !.executor = "docker"] ELSE doc

-----------------------------------------------------------------------------
(* JobSpec::validate *)

validate_execution(execution) ==
  execution.given => /\ Len(execution.capabilities) <= 32
                     /\ "malformed" \notin Range(execution.capabilities)
                     /\ Distinct(execution.capabilities)

\* The names, images, aliases, health checks and the feedback path of a workflow
\* are well formed or not.
validate_workflow(workflow, daemon) ==
  workflow.given => /\ workflow.well_formed
                    /\ workflow.max_iterations \in 1..20
                    /\ Len(workflow.services) <= 16
                    /\ Distinct(NamesOf(workflow.services))
                    /\ daemon => \A s \in Range(workflow.services) : s.image = "digest"

validate_secrets(secrets) ==
  /\ Len(secrets) <= 32
  /\ \A s \in Range(secrets) : s.form \in {"value", "ref"}

validate_spec(spec, daemon) ==
  /\ spec.executor = "docker"
  /\ spec.api_version = "v1beta1" => spec.execution.given
  /\ validate_execution(spec.execution)
  /\ ~spec.workflow.given => Len(spec.command) > 0
  /\ validate_workflow(spec.workflow, daemon)
  /\ spec.image # "malformed"
  /\ daemon => spec.image = "digest"
  /\ spec.network \in {"bridge", "none"}
  /\ validate_secrets(spec.secrets)

-----------------------------------------------------------------------------
(* ExecutorFactory *)

\* Asking for a container is asking for nothing in particular.
satisfies(requirements) ==
  /\ requirements.isolation = "container"
  /\ Range(requirements.capabilities) \subseteq Capabilities

select_for(spec) ==
  /\ spec.executor \in Registered
  /\ spec.execution.given => satisfies(spec.execution)

-----------------------------------------------------------------------------
(* policy *)

within(n, limit, floor) ==
  LET least == IF n < limit THEN n ELSE limit
  IN  IF least < floor THEN floor ELSE least

\* cpu and pids are bounded in the same way.
clamp(resources) ==
  [memory_mb |-> within(resources.memory_mb, MaxMemory, MinMemory),
   timeout_seconds |-> within(resources.timeout_seconds, MaxTimeout, MinTimeout)]

\* Mutant: names are compared within each of the two lists, not across them.
validate_environment_perList(spec) ==
  /\ Range(spec.environment_from_runner) \subseteq AllowedEnvironment
  /\ Range(NamesOf(spec.secrets)) \subseteq AllowedEnvironment
  /\ \A s \in Range(spec.secrets) : s.form # "ref"
  /\ Distinct(spec.environment_from_runner) /\ Distinct(NamesOf(spec.secrets))

validate_environment(spec) ==
  /\ Range(spec.environment_from_runner) \subseteq AllowedEnvironment
  /\ Range(NamesOf(spec.secrets)) \subseteq AllowedEnvironment
  /\ \A s \in Range(spec.secrets) : s.form # "ref"
  /\ Distinct(spec.environment_from_runner \o NamesOf(spec.secrets))

\* policy::validate; a local path must lie inside work_dir.
validate(spec, daemon) ==
  /\ validate_spec(spec, daemon)
  /\ AllowNetwork \/ spec.network # "bridge"
  /\ validate_environment(spec)
  /\ spec.workspace # "outside"

\* environment_for_job: the names that are put into the container, in order.
environment_for_job(spec) == spec.environment_from_runner \o NamesOf(spec.secrets)
============================================================================
