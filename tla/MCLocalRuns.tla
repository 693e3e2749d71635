---------------------------- MODULE MCLocalRuns -----------------------------
EXTENDS LocalRuns

CONSTANTS r1, r2
MCRuns == {r1, r2}
RunSymmetry == Permutations(MCRuns)
MCEarlier == {{}, {2}}

MCAllowed == {"KEY"}
Service(n) == [name |-> n, image |-> "tag"]

Plain ==
  [api_version |-> "v1alpha1", executor |-> "docker", attempt |-> 0,
   execution |-> [given |-> FALSE, isolation |-> "container", capabilities |-> <<>>],
   command |-> <<"make">>,
   workflow |-> [given |-> FALSE, well_formed |-> TRUE, max_iterations |-> 1,
                 services |-> <<>>],
   image |-> "tag", network |-> "none", artifacts |-> TRUE,
   environment_from_runner |-> <<>>, secrets |-> <<>>,
   workspace |-> "git", publish_mode |-> "if_changed",
   resources |-> [memory_mb |-> 32, timeout_seconds |-> 0]]

Needs(isolation, capabilities) ==
  [given |-> TRUE, isolation |-> isolation, capabilities |-> capabilities]
Secret(n, f) == [name |-> n, form |-> f]
Flow == [Plain.workflow EXCEPT !.given = TRUE]

\* Documents that run.
Runnable ==
  {[Plain EXCEPT !.publish_mode = m] : m \in {"if_changed", "required", "disabled"}}
  \cup {[Plain EXCEPT !.workspace = "local", !.artifacts = FALSE],
        [Plain EXCEPT !.attempt = 2, !.publish_mode = "disabled"],
        [Plain EXCEPT !.api_version = "v1beta1", !.executor = "",
                      !.execution = Needs("container", <<"network">>),
                      !.workspace = "local", !.environment_from_runner = <<"KEY">>,
                      !.resources = [memory_mb |-> -1, timeout_seconds |-> 90]]}

\* Documents that one of the checks refuses, one per check.
Refused ==
  {[Plain EXCEPT !.api_version = v] : v \in {"v2", "v1beta1"}}
  \cup {[Plain EXCEPT !.execution = e] :
          e \in {Needs("sandboxed", <<>>), Needs("container", <<"gpu">>),
                 Needs("container", <<"network", "network">>),
                 Needs("container", <<"malformed">>)}}
  \cup {[Plain EXCEPT !.workflow = f] :
          f \in {[Flow EXCEPT !.max_iterations = 0], [Flow EXCEPT !.max_iterations = 21],
                 [Flow EXCEPT !.well_formed = FALSE],
                 [Flow EXCEPT !.services = <<Service("db"), Service("db")>>]}}
  \cup {[Plain EXCEPT !.secrets = s] :
          s \in {<<Secret("KEY", "ref")>>, <<Secret("KEY", "both")>>,
                 <<Secret("OTHER", "value")>>,
                 <<Secret("KEY", "value"), Secret("KEY", "value")>>}}
  \cup {[Plain EXCEPT !.environment_from_runner = <<"KEY">>,
                      !.secrets = <<Secret("KEY", "value")>>],
        [Plain EXCEPT !.environment_from_runner = <<"OTHER">>],
        [Plain EXCEPT !.executor = "podman"], [Plain EXCEPT !.command = <<>>],
        [Plain EXCEPT !.image = "malformed"], [Plain EXCEPT !.network = "bridge"],
        [Plain EXCEPT !.network = "host"], [Plain EXCEPT !.workspace = "outside"]}

MCDocuments == Runnable \cup Refused
============================================================================
