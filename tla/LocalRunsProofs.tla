--------------------------- MODULE LocalRunsProofs ---------------------------
(***************************************************************************)
(* Safety of LocalRuns for any number of processes and any documents, and  *)
(* of the checks of Admission for any document that deserializes.          *)
(***************************************************************************)
EXTENDS LocalRuns, FiniteSetTheorems, SequenceTheorems, TLAPS

\* A run that has not passed its checks has left nothing.
Early == {"start", "allocate", "admit"}
Running == {"receive", "prepare", "work", "configure", "add", "diff", "commit", "push",
            "export"}
Untraced ==
  \A r \in Runs : pc[r] \in Early =>
    r \notin recorded /\ \A a \in Attempts : r \notin exported[a]

\* A run that goes on, or left a trace, was admitted with these resources.
Passed(r) ==
  /\ select_for(from_json(job)) /\ validate(from_json(job), FALSE)
  /\ resources[r] = clamp(from_json(job).resources)
Admitted ==
  \A r \in Runs :
    (pc[r] \in Running \/ r \in recorded \/ \E a \in Attempts : r \in exported[a])
      => Passed(r)

\* A run's number is larger than that of every run whose row was there when it
\* asked, and it writes only into the directory with its number.
Numbered ==
  /\ \A r \in Runs : pc[r] \in Running \cup {"admit"} => attempt[r] \in Attempts
  /\ \A r \in recorded : attempt[r] \in rows
  /\ \A r \in Runs : pc[r] \in {"start", "allocate"} => before[r] = {}
  /\ \A r \in Runs : \A q \in before[r] : q \in recorded /\ attempt[q] < attempt[r]
  /\ \A a \in Attempts : \A r \in exported[a] : attempt[r] = a

\* publish_git has written the patterns by the time it adds files, so neither a tree
\* nor a history has a derived file that it added, unless a negation took one back.
Clean(history) ==
  \A i \in DOMAIN history :
    (history[i].author = "runner" /\ history[i].patterns # "negated")
      => history[i].files \subseteq {"source"}
Excluded ==
  /\ \A r \in Runs :
       /\ pc[r] = "add" => tree[r].patterns # "lost"
       /\ pc[r] \notin {"diff", "commit"} => tree[r].added = {}
       /\ tree[r].patterns # "negated" => tree[r].added \subseteq {"source"}
       /\ Clean(tree[r].branch)
  /\ Clean(remote)

\* What a clone has that the run did not commit itself, the remote has at the same
\* place.
Made(c, r) == c.author # "other" /\ c.by = r
Cloned ==
  \A r \in Runs : \A i \in DOMAIN tree[r].branch :
    ~Made(tree[r].branch[i], r) => i \in DOMAIN remote /\ remote[i] = tree[r].branch[i]

\* A change that is due is committed on the branch, and from the push on it is on
\* the remote.
Published(history, r) ==
  \E i \in DOMAIN history :
    /\ history[i].author = "runner" /\ history[i].by = r
    /\ \A j \in DOMAIN history :
         (history[j].author = "agent" /\ history[j].by = r) => j < i
Delivered ==
  \A r \in due :
    /\ pc[r] \in {"commit", "push", "export"} \cup Final
    /\ pc[r] = "commit" => tree[r].on_branch
    /\ pc[r] = "push" => Published(tree[r].branch, r)
    /\ (pc[r] \in {"export", "over"} /\ status[r] = "completed") => Published(remote, r)

IInv == /\ TypeOK /\ Untraced /\ Admitted /\ Numbered
        /\ Excluded /\ Cloned /\ Delivered
-----------------------------------------------------------------------------
\* A non-empty set of small enough numbers has a largest one, and Max finds it.
LEMMA MaxOf ==
  ASSUME NEW n \in Nat, NEW S \in SUBSET (0..n), S # {}
  PROVE  Max(S) \in S /\ \A y \in S : y <= Max(S)
<1> DEFINE T == {m \in 0..n : n - m \in S}
<1>1. T \subseteq Nat /\ T # {}
  <2> PICK x \in S : TRUE
    OBVIOUS
  <2>1. n - x \in 0..n /\ n - (n - x) = x
    OBVIOUS
  <2>2. n - x \in T
    BY <2>1
  <2>3. T \subseteq Nat
    OBVIOUS
  <2> HIDE DEF T
  <2> QED
    BY <2>2, <2>3
<1>2. PICK x \in T : \A y \in T : ~(<<y, x>> \in OpToRel(<, Nat))
  BY <1>1, NatLessThanWellFounded, WFMin
<1>3. ASSUME NEW y \in T PROVE x <= y
  <2>1. <<y, x>> \in Nat \X Nat /\ x \in Nat /\ y \in Nat
    BY <1>1
  <2>2. y < x => <<y, x>> \in OpToRel(<, Nat)
    BY <2>1 DEF OpToRel
  <2>3. ~(y < x)
    BY <1>2, <2>2
  <2> QED
    BY <2>1, <2>3
<1>4. n - x \in S /\ \A y \in S : y <= n - x
  <2>1. n - x \in S
    OBVIOUS
  <2>2. ASSUME NEW y \in S PROVE y <= n - x
    <3>1. n - y \in T
      OBVIOUS
    <3> QED
      BY <3>1, <1>3
  <2> QED
    BY <2>1, <2>2
<1> QED
  BY <1>4 DEF Max

\* A list without repetitions has as many values as places.
LEMMA DistinctCounts ==
  ASSUME NEW S, NEW s \in Seq(S), IsInjective(s)
  PROVE  Cardinality(Range(s)) = Len(s)
<1>1. s \in Injection(1..Len(s), Range(s))
  BY DEF Injection, IsInjective, Range
<1>2. s \in Bijection(1..Len(s), Range(s))
  BY <1>1 DEF Bijection, Surjection, Range
<1>3. ExistsBijection(1..Len(s), Range(s))
  BY <1>2 DEF ExistsBijection
<1> QED
  BY <1>3, FS_CountingElements

\* Max of two numbers.
LEMMA MaxOfTwo ==
  ASSUME NEW m \in Int, NEW n \in Int
  PROVE  Max({m, n}) = IF m >= n THEN m ELSE n
<1> DEFINE x == IF m >= n THEN m ELSE n
<1>1. x \in {m, n} /\ \A y \in {m, n} : x >= y
  OBVIOUS
<1>2. ASSUME NEW z \in {m, n}, \A y \in {m, n} : z >= y PROVE z = x
  BY <1>2
<1> QED
  BY <1>1, <1>2 DEF Max

\* clamp yields resources within the limits, or at the floor where a limit is below
\* it, whatever a document asks for: also for a negative memory_mb.
LEMMA Clamped ==
  ASSUME NEW res \in [memory_mb : Int, timeout_seconds : Nat]
  PROVE  /\ clamp(res) \in [memory_mb : Nat, timeout_seconds : Nat]
         /\ clamp(res).memory_mb \in MinMemory..Max({MaxMemory, MinMemory})
         /\ clamp(res).timeout_seconds \in MinTimeout..Max({MaxTimeout, MinTimeout})
<1> USE AdmissionConstants DEF MinMemory, MinTimeout
<1>1. ASSUME NEW n \in Int, NEW limit \in Int, NEW floor \in Nat
      PROVE  /\ within(n, limit, floor) \in Nat
             /\ within(n, limit, floor) \in floor..Max({limit, floor})
  BY MaxOfTwo DEF within
<1>2. res.memory_mb \in Int /\ res.timeout_seconds \in Int
  OBVIOUS
<1> QED
  BY <1>1, <1>2 DEF clamp

\* What the checks rely on in the type of a document.
Typed(spec) ==
  /\ spec.environment_from_runner \in Seq(STRING)
  /\ spec.secrets \in Seq([name : STRING, form : STRING])
  /\ spec.execution.capabilities \in Seq(STRING)
  /\ spec.resources \in [memory_mb : Int, timeout_seconds : Nat]

\* from_json fills in the executor and nothing else.
LEMMA Decoded ==
  ASSUME NEW doc \in JobSpecs
  PROVE  Typed(doc) /\ Typed(from_json(doc))
<1>1. Typed(doc)
  BY DEF JobSpecs, Typed
<1>2. LET spec == [doc EXCEPT !.executor = "docker"]
      IN  /\ spec.environment_from_runner = doc.environment_from_runner
          /\ spec.secrets = doc.secrets /\ spec.execution = doc.execution
          /\ spec.resources = doc.resources
  BY DEF JobSpecs
<1> QED
  BY <1>1, <1>2 DEF from_json, Typed

\* The names of a list of secrets are a list of names.
LEMMA NamesTyped ==
  ASSUME NEW secrets \in Seq([name : STRING, form : STRING])
  PROVE  NamesOf(secrets) \in Seq(STRING)
<1> DEFINE names == NamesOf(secrets)
<1>1. Len(secrets) \in Nat /\ DOMAIN secrets = 1..Len(secrets)
  BY LenProperties
<1>2. \A i \in 1..Len(secrets) : secrets[i] \in [name : STRING, form : STRING]
  BY ElementOfSeq
<1>3. names \in [1..Len(secrets) -> STRING]
  BY <1>1, <1>2 DEF NamesOf
<1> HIDE DEF names
<1> QED
  BY <1>1, <1>3, SeqDef DEF names

\* policy::validate in the daemon's context implies it in the local one: an executor
\* may validate a leased job again as a local one.
THEOREM DaemonIsStricter ==
  ASSUME NEW spec, validate(spec, TRUE)
  PROVE  validate(spec, FALSE)
BY DEF validate, validate_spec, validate_workflow

\* What select_for and policy::validate let through is acceptable: among others, the
\* two lists of the environment are compared with each other.
LEMMA ChecksSuffice ==
  ASSUME NEW spec, Typed(spec), select_for(spec), validate(spec, FALSE)
  PROVE  Acceptable(spec)
<1>1. /\ spec.environment_from_runner \in Seq(STRING)
      /\ spec.secrets \in Seq([name : STRING, form : STRING])
      /\ spec.execution.capabilities \in Seq(STRING)
  BY DEF Typed
<1> DEFINE names == NamesOf(spec.secrets)
           env == environment_for_job(spec)
<1>2. names \in Seq(STRING)
  BY <1>1, NamesTyped
<1>3. env \in Seq(STRING) /\ env = spec.environment_from_runner \o names
  BY <1>1, <1>2 DEF environment_for_job
<1>4. \A i \in DOMAIN env : env[i] \in AllowedEnvironment
  <2>1. /\ Range(spec.environment_from_runner) \subseteq AllowedEnvironment
        /\ Range(names) \subseteq AllowedEnvironment
    BY DEF validate, validate_environment
  <2>2. /\ \A i \in 1..Len(names) : names[i] \in AllowedEnvironment
        /\ \A i \in 1..Len(spec.environment_from_runner) :
             spec.environment_from_runner[i] \in AllowedEnvironment
    BY <2>1, <1>1, <1>2 DEF Range
  <2> HIDE DEF names, env
  <2> QED
    BY <2>2, <1>1, <1>2, <1>3
<1>5. Cardinality(Range(env)) = Len(env)
  <2>1. IsInjective(env)
    BY <1>3 DEF validate, validate_environment, Distinct
  <2> HIDE DEF env
  <2> QED
    BY <2>1, <1>3, DistinctCounts
<1>6. spec.execution.given =>
        /\ spec.execution.isolation = "container"
        /\ \A i \in DOMAIN spec.execution.capabilities :
             spec.execution.capabilities[i] \in Capabilities
  BY <1>1 DEF select_for, satisfies, Range
<1>7. /\ spec.executor = "docker" /\ spec.workspace # "outside"
      /\ spec.network = "none" \/ (AllowNetwork /\ spec.network = "bridge")
  BY DEF validate, validate_spec
<1> QED
  BY <1>4, <1>5, <1>6, <1>7 DEF Acceptable

\* Only acceptable jobs pass select_for and policy::validate, for every document
\* that deserializes.
THEOREM AdmissionSound ==
  ASSUME NEW doc \in JobSpecs,
         select_for(from_json(doc)), validate(from_json(doc), FALSE)
  PROVE  Acceptable(from_json(doc))
BY Decoded, ChecksSuffice
-----------------------------------------------------------------------------
\* The type of `tree`.
Trees == [branch : Seq(Commits), on_branch : BOOLEAN, edited : SUBSET FileKinds,
          staged : SUBSET FileKinds, added : SUBSET FileKinds, patterns : Patterns]

\* The commits of a run, and an empty tree, have their types.
LEMMA Typing ==
  /\ NoTree \in Trees /\ <<>> \in Seq(Commits)
  /\ [author |-> "other"] \in Commits
  /\ \A r \in Runs :
       /\ [by |-> r, author |-> "agent"] \in Commits
       /\ \A files \in SUBSET FileKinds, patterns \in Patterns :
            [by |-> r, author |-> "runner", files |-> files, patterns |-> patterns]
              \in Commits
<1>1. <<>> \in Seq(Commits)
  BY EmptySeq
<1>2. NoTree \in Trees
  BY <1>1 DEF NoTree, Trees, Patterns
<1> QED
  BY <1>1, <1>2 DEF Commits

\* A step of one run is about that run; the document stays.
LEMMA OthersKept ==
  ASSUME TypeOK, NEW r \in Runs, Run(r)
  PROVE  /\ job' = job
         /\ \A q \in Runs \ {r} :
              /\ pc'[q] = pc[q] /\ attempt'[q] = attempt[q] /\ resources'[q] = resources[q]
              /\ tree'[q] = tree[q] /\ status'[q] = status[q] /\ before'[q] = before[q]
<1> USE DEF TypeOK, Goto, sharedVars, historyVars
<1>1. CASE Decode(r) \/ Allocate(r) \/ Admit(r) \/ Receive(r)
  BY <1>1 DEF Decode, Allocate, Admit, Receive
<1>2. CASE Prepare(r)
  BY <1>2 DEF Prepare
<1>3. CASE Work(r)
  BY <1>3 DEF Work
<1>4. CASE WorkUnpublished(r)
  BY <1>4 DEF WorkUnpublished
<1>5. CASE Configure(r)
  BY <1>5 DEF Configure
<1>6. CASE Add(r)
  BY <1>6 DEF Add
<1>7. CASE Diff(r) \/ Push(r)
  BY <1>7 DEF Diff, Push
<1>8. CASE Commit(r)
  BY <1>8 DEF Commit
<1>9. CASE Export(r) \/ Stops(r) \/ PublishFails(r)
  BY <1>9 DEF Export, Stops, PublishFails
<1> QED
  BY <1>1, <1>2, <1>3, <1>4, <1>5, <1>6, <1>7, <1>8, <1>9 DEF Run, PublishGit

\* What a step of a run may make of its branch: the state of the remote, or one more
\* commit of its own, with the files that publish_git added.
BranchMoves(r) ==
  \/ tree'[r].branch \in {tree[r].branch, remote, <<>>}
  \/ \E c \in Commits : /\ tree'[r].branch = Append(tree[r].branch, c) /\ Made(c, r)
                        /\ c.author = "runner" =>
                             c.files = tree[r].added /\ c.patterns = tree[r].patterns

\* And of the files that are added: none but those that Add selects, which stay until
\* they are committed.
AddedMoves(r) ==
  \/ tree'[r].added = {}
  \/ pc[r] \notin {"diff", "commit"} /\ tree'[r].added = tree[r].added
  \/ /\ pc[r] = "diff" /\ pc'[r] = "commit"
     /\ tree'[r].added = tree[r].added /\ tree'[r].patterns = tree[r].patterns
  \/ /\ pc[r] = "add" /\ pc'[r] = "diff" /\ tree'[r].patterns = tree[r].patterns
     /\ tree'[r].added \subseteq
          {k \in FileKinds : k = "derived" => tree[r].patterns # "kept"}

\* Every step of a run makes such a tree, and goes to add only with the patterns
\* written.
LEMMA TreeStep ==
  ASSUME TypeOK, NEW r \in Runs, Run(r)
  PROVE  /\ tree'[r] \in Trees /\ BranchMoves(r) /\ AddedMoves(r)
         /\ pc'[r] = "add" => tree'[r].patterns # "lost"
<1>0. tree \in [Runs -> Trees] /\ tree[r] \in Trees
  BY DEF TypeOK, Trees
<1>a. remote \in Seq(Commits)
  BY DEF TypeOK
<1>1. CASE \/ Decode(r) \/ Allocate(r) \/ Admit(r) \/ Receive(r)
           \/ Diff(r) \/ Push(r)
  <2>1. tree' = tree /\ pc'[r] # "add"
    BY <1>1 DEF TypeOK, Goto, Decode, Allocate, Admit, Receive, Diff, Push
  <2>2. \/ pc[r] \notin {"diff", "commit"} \/ tree[r].added = {}
        \/ pc[r] = "diff" /\ pc'[r] = "commit"
    BY <1>1 DEF TypeOK, Goto, Decode, Allocate, Admit, Receive, Diff, Push
  <2> QED
    BY <1>0, <2>1, <2>2 DEF BranchMoves, AddedMoves
<1>2. CASE WorkUnpublished(r) \/ PublishFails(r) \/ Export(r) \/ Stops(r)
  <2>1. tree'[r] = NoTree /\ pc'[r] # "add"
    BY <1>2, <1>0 DEF TypeOK, Goto, WorkUnpublished, PublishFails, Export, Stops
  <2> QED
    BY <2>1, Typing DEF BranchMoves, AddedMoves, NoTree
<1>3. CASE Prepare(r)
  <2>1. /\ tree'[r] = [tree[r] EXCEPT
                !.branch = IF job.workspace = "git" THEN remote ELSE <<>>,
                !.patterns = "kept"]
        /\ pc[r] = "prepare" /\ pc'[r] # "add"
    BY <1>3, <1>0 DEF TypeOK, Goto, Prepare
  <2> QED
    BY <1>0, <1>a, <2>1, Typing DEF BranchMoves, AddedMoves, Trees, Patterns
<1>4. CASE Work(r)
  <2>1. PICK edited \in SUBSET FileKinds : \E staged \in SUBSET edited :
               \E commits, stays \in BOOLEAN : \E patterns \in Patterns :
                 tree'[r] = Worked(r, edited, staged, commits, stays, patterns)
    BY <1>4, <1>0 DEF Work
  <2>2. PICK staged \in SUBSET edited, commits \in BOOLEAN, stays \in BOOLEAN,
             patterns \in Patterns :
               tree'[r] = Worked(r, edited, staged, commits, stays, patterns)
    BY <2>1
  <2> DEFINE c == [by |-> r, author |-> "agent"]
  <2>3. /\ pc[r] = "work" /\ pc'[r] # "add" /\ c \in Commits /\ c.by = r /\ c.author = "agent"
        /\ Append(tree[r].branch, c) \in Seq(Commits)
    BY <1>4, <1>0, Typing, AppendProperties DEF Work, TypeOK, Goto, Trees
  <2>4. /\ tree'[r].branch = IF commits /\ stays THEN Append(tree[r].branch, c)
                             ELSE tree[r].branch
        /\ tree'[r].added = tree[r].added
    BY <1>0, <2>2 DEF Worked, Trees
  <2>5. tree'[r] \in Trees
    BY <1>0, <2>2, <2>3 DEF Worked, Trees
  <2> HIDE DEF c
  <2> QED
    BY <2>3, <2>4, <2>5 DEF BranchMoves, AddedMoves, Made
<1>5. CASE Configure(r)
  <2>1. /\ tree'[r] = [tree[r] EXCEPT !.patterns =
                         IF tree[r].patterns = "lost" THEN "kept" ELSE tree[r].patterns]
        /\ pc[r] = "configure"
    BY <1>5, <1>0 DEF Configure
  <2> QED
    BY <1>0, <2>1 DEF BranchMoves, AddedMoves, Trees, Patterns
<1>6. CASE Add(r)
  <2> DEFINE added == {k \in tree[r].edited \ tree[r].staged :
                         k = "derived" => tree[r].patterns # "kept"}
  <2>1. /\ tree'[r] = [tree[r] EXCEPT !.added = added, !.edited = {}]
        /\ pc[r] = "add" /\ pc'[r] = "diff"
    BY <1>6, <1>0 DEF TypeOK, Goto, Add
  <2>2. /\ added \in SUBSET FileKinds
        /\ added \subseteq {k \in FileKinds : k = "derived" => tree[r].patterns # "kept"}
    BY <1>0 DEF Trees
  <2> HIDE DEF added
  <2>3. /\ tree'[r] \in Trees /\ tree'[r].branch = tree[r].branch
        /\ tree'[r].added = added /\ tree'[r].patterns = tree[r].patterns
    BY <1>0, <2>1, <2>2 DEF Trees
  <2> QED
    BY <2>1, <2>2, <2>3 DEF BranchMoves, AddedMoves
<1>7. CASE Commit(r)
  <2> DEFINE c == [by |-> r, author |-> "runner", files |-> tree[r].added,
                   patterns |-> tree[r].patterns]
  <2>1. /\ tree'[r] = [tree[r] EXCEPT
                !.branch = IF tree[r].on_branch THEN Append(tree[r].branch, c)
                           ELSE tree[r].branch,
                !.added = {}, !.staged = {}]
        /\ pc'[r] # "add"
    BY <1>7, <1>0 DEF TypeOK, Goto, Commit
  <2>2. /\ c \in Commits /\ c.by = r /\ c.author = "runner" /\ c.files = tree[r].added
        /\ c.patterns = tree[r].patterns
        /\ Append(tree[r].branch, c) \in Seq(Commits)
    BY <1>0, Typing, AppendProperties DEF Trees
  <2> HIDE DEF c
  <2> QED
    BY <1>0, <2>1, <2>2 DEF BranchMoves, AddedMoves, Made, Trees
<1> QED
  BY <1>1, <1>2, <1>3, <1>4, <1>5, <1>6, <1>7 DEF Run, PublishGit

\* What IsPrefix says of sequences, element by element.
LEMMA PrefixFacts ==
  ASSUME NEW S, NEW s \in Seq(S), NEW t \in Seq(S)
  PROVE  /\ IsPrefix(s, s)
         /\ \A c \in S : IsPrefix(s, Append(s, c))
         /\ IsPrefix(s, t) => Len(s) <= Len(t) /\ \A i \in 1..Len(s) : t[i] = s[i]
<1>0. /\ Len(s) \in Nat /\ DOMAIN s = 1..Len(s) /\ \A i \in 1..Len(s) : s[i] \in S
      /\ Len(t) \in Nat /\ DOMAIN t = 1..Len(t) /\ \A i \in 1..Len(t) : t[i] \in S
  BY LenProperties, ElementOfSeq
<1>1. SubSeq(s, 1, Len(s)) = s
  BY SubSeqFull
<1>2. IsPrefix(s, s)
  BY <1>0, <1>1 DEF IsPrefix
<1>3. ASSUME NEW c \in S PROVE IsPrefix(s, Append(s, c))
  <2> DEFINE u == Append(s, c)
  <2>1. u \in Seq(S) /\ Len(u) = Len(s) + 1 /\ \A i \in 1..Len(s) : u[i] = s[i]
    BY <1>0, AppendProperties
  <2> HIDE DEF u
  <2>2. /\ SubSeq(u, 1, Len(s)) \in Seq(S) /\ Len(SubSeq(u, 1, Len(s))) = Len(s)
        /\ \A i \in 1..Len(s) : SubSeq(u, 1, Len(s))[i] = u[i]
    BY <1>0, <2>1, SubSeqProperties
  <2>3. SubSeq(u, 1, Len(s)) = s
    BY <1>0, <2>1, <2>2, SeqEqual
  <2> QED
    BY <1>0, <1>1, <2>1, <2>3 DEF IsPrefix, u
<1>4. ASSUME IsPrefix(s, t) PROVE Len(s) <= Len(t) /\ \A i \in 1..Len(s) : t[i] = s[i]
  <2>1. Len(s) <= Len(t) /\ SubSeq(t, 1, Len(s)) = s
    BY <1>1, <1>4 DEF IsPrefix
  <2>2. \A i \in 1..Len(s) : SubSeq(t, 1, Len(s))[i] = t[i]
    BY <1>0, <2>1, SubSeqProperties
  <2> QED
    BY <2>1, <2>2
<1> QED
  BY <1>2, <1>3, <1>4

\* A step of a run leaves the remote as it is, or replaces it by its branch where
\* that extends it.
LEMMA RemoteMoves ==
  ASSUME TypeOK, NEW r \in Runs, Run(r)
  PROVE  \/ remote' = remote
         \/ /\ pc[r] = "push" /\ IsPrefix(remote, tree[r].branch)
            /\ remote' = tree[r].branch
BY DEF Run, PublishGit, Decode, Allocate, Admit, Receive, Prepare, Work, WorkUnpublished,
       Configure, Add, Diff, Commit, Push, PublishFails, Export, Stops, sharedVars

\* Every step extends the remote.
LEMMA RemoteGrows ==
  ASSUME TypeOK, [Next]_vars
  PROVE  /\ remote' \in Seq(Commits) /\ IsPrefix(remote, remote')
         /\ Len(remote) <= Len(remote') /\ Len(remote) \in Nat /\ Len(remote') \in Nat
         /\ DOMAIN remote = 1..Len(remote) /\ DOMAIN remote' = 1..Len(remote')
         /\ \A i \in DOMAIN remote : i \in DOMAIN remote' /\ remote'[i] = remote[i]
<1>0. remote \in Seq(Commits) /\ tree \in [Runs -> Trees]
  BY DEF TypeOK, Trees
<1>1. remote' \in Seq(Commits) /\ IsPrefix(remote, remote')
  <2>1. CASE remote' = remote
    BY <1>0, <2>1, PrefixFacts
  <2>2. CASE OtherPushes
    <3>1. remote' = Append(remote, [author |-> "other"])
      BY <2>2 DEF OtherPushes
    <3> QED
      BY <1>0, <3>1, PrefixFacts, AppendProperties, Typing
  <2>3. CASE \E r \in Runs : Run(r)
    <3> PICK r \in Runs : Run(r)
      BY <2>3
    <3>1. tree[r].branch \in Seq(Commits)
      BY <1>0 DEF Trees
    <3> QED
      BY <2>1, <3>1, RemoteMoves
  <2> QED
    BY <2>1, <2>2, <2>3 DEF Next, Over, vars, sharedVars
<1>2. /\ Len(remote) \in Nat /\ Len(remote') \in Nat
      /\ DOMAIN remote = 1..Len(remote) /\ DOMAIN remote' = 1..Len(remote')
  BY <1>0, <1>1, LenProperties
<1>3. Len(remote) <= Len(remote') /\ \A i \in 1..Len(remote) : remote'[i] = remote[i]
  BY <1>0, <1>1, PrefixFacts
<1> QED
  BY <1>1, <1>2, <1>3
-----------------------------------------------------------------------------
\* The places of a run.
Places == {"start", "allocate", "admit", "receive", "prepare", "work", "configure", "add",
           "diff", "commit", "push", "export"} \cup Final

\* An allocated number is larger than every number in the journal.
LEMMA Allocated ==
  ASSUME TypeOK
  PROVE  next_attempt \in Nat \ {0} /\ \A a \in rows : a < next_attempt
<1>1. rows \cup {0} \in SUBSET (0..MaxAttempt) /\ MaxAttempt \in Nat
  BY LocalRunsConstants DEF TypeOK, Attempts
<1> DEFINE m == Max(rows \cup {0})
<1>2. m \in rows \cup {0} /\ \A y \in rows \cup {0} : y <= m
  BY <1>1, MaxOf
<1>3. next_attempt = m + 1
  BY DEF next_attempt
<1> HIDE DEF m
<1>4. m \in Nat /\ \A a \in rows : a \in Nat /\ a <= m
  BY <1>1, <1>2
<1> QED
  BY <1>3, <1>4

\* What a step of a run leaves behind, and where: its row, its artifacts.
LEMMA TraceMoves ==
  ASSUME NEW r \in Runs, Run(r)
  PROVE  /\ \/ rows' = rows /\ recorded' = recorded
            \/ /\ pc[r] = "receive"
               /\ rows' = rows \cup {attempt[r]} /\ recorded' = recorded \cup {r}
         /\ \/ exported' = exported
            \/ /\ pc[r] = "export"
               /\ exported' = [exported EXCEPT ![attempt[r]] = @ \cup {r}]
         /\ \/ attempt' = attempt /\ before' = before
            \/ /\ pc[r] = "start" /\ job.attempt # 0 /\ before' = before
               /\ attempt' = [attempt EXCEPT ![r] = job.attempt]
            \/ Allocate(r)
         /\ resources' = resources \/ Admit(r)
BY DEF Run, PublishGit, Decode, Allocate, Admit, Receive, Prepare, Work, WorkUnpublished,
       Configure, Add, Diff, Commit, Push, PublishFails, Export, Stops, sharedVars,
       historyVars

\* Every step of a run keeps the types.
LEMMA TypeRun ==
  ASSUME TypeOK, Numbered, NEW r \in Runs, Run(r)
  PROVE  TypeOK'
<1>0. job' = job /\ job \in Documents
  BY OthersKept DEF TypeOK
<1>1. tree' \in [Runs -> Trees]
  <2>1. /\ tree' = [tree EXCEPT ![r] = tree'[r]] /\ tree \in [Runs -> Trees]
    BY DEF TypeOK, Trees, Run, PublishGit, Decode, Allocate, Admit, Receive, Prepare,
           Work, WorkUnpublished, Configure, Add, Diff, Commit, Push, PublishFails,
           Export, Stops
  <2> QED
    BY <2>1, TreeStep
<1>2. remote' \in Seq(Commits)
  BY RemoteGrows DEF Next
<1>3. pc' \in [Runs -> Places]
  BY DEF TypeOK, Places, Final, Goto, Run, PublishGit, Decode, Allocate, Admit, Receive,
         Prepare, Work, WorkUnpublished, Configure, Add, Diff, Commit, Push,
         PublishFails, Export, Stops
<1>4. attempt' \in [Runs -> 0..MaxAttempt]
  <2>1. job.attempt \in 0..MaxAttempt
    BY <1>0, LocalRunsConstants DEF JobSpecs
  <2>2. Allocate(r) => next_attempt \in 0..MaxAttempt
    BY Allocated, LocalRunsConstants DEF Allocate
  <2> QED
    BY <2>1, <2>2
    DEF TypeOK, Run, PublishGit, Decode, Allocate, Admit, Receive, Prepare, Work,
        WorkUnpublished, Configure, Add, Diff, Commit, Push, PublishFails, Export, Stops
<1>5. resources' \in [Runs -> [memory_mb : Nat, timeout_seconds : Nat]]
  <2>1. clamp(from_json(job).resources) \in [memory_mb : Nat, timeout_seconds : Nat]
    BY <1>0, LocalRunsConstants, Decoded, Clamped DEF Typed
  <2> QED
    BY <2>1
    DEF TypeOK, Run, PublishGit, Decode, Allocate, Admit, Receive, Prepare, Work,
        WorkUnpublished, Configure, Add, Diff, Commit, Push, PublishFails, Export, Stops
<1>6. status' \in [Runs -> {"none", "completed", "failed"}]
  BY DEF TypeOK, Run, PublishGit, Decode, Allocate, Admit, Receive, Prepare, Work,
         WorkUnpublished, Configure, Add, Diff, Commit, Push, PublishFails, Export, Stops
<1>7. rows' \subseteq Attempts /\ exported' \in [Attempts -> SUBSET Runs]
  <2>1. pc[r] \in {"receive", "export"} => attempt[r] \in Attempts
    BY DEF Numbered, Running
  <2>2. rows' \subseteq Attempts
    BY <2>1, TraceMoves DEF TypeOK
  <2>3. CASE exported' = exported
    BY <2>2, <2>3 DEF TypeOK
  <2>4. CASE exported' = [exported EXCEPT ![attempt[r]] = @ \cup {r}]
    BY <2>2, <2>4 DEF TypeOK
  <2> QED
    BY <2>3, <2>4, TraceMoves
<1>8. /\ recorded' \subseteq Runs /\ before' \in [Runs -> SUBSET Runs]
      /\ due' \subseteq Runs
  BY DEF TypeOK, Run, PublishGit, Decode, Allocate, Admit, Receive, Prepare, Work,
         WorkUnpublished, Configure, Add, Diff, Commit, Push, PublishFails, Export,
         Stops, historyVars
<1> QED
  BY <1>0, <1>1, <1>2, <1>3, <1>4, <1>5, <1>6, <1>7, <1>8 DEF TypeOK, Trees, Places

\* The order of a run's places.
LEMMA PlaceMoves ==
  ASSUME TypeOK, NEW r \in Runs, Run(r)
  PROVE  /\ pc'[r] \in Early => pc[r] \in Early
         /\ pc'[r] \in {"start", "allocate"} => pc[r] = "start" /\ attempt' = attempt
         /\ pc'[r] = "admit" =>
              \/ Allocate(r)
              \/ /\ job.attempt # 0 /\ pc[r] = "start" /\ before' = before
                 /\ attempt' = [attempt EXCEPT ![r] = job.attempt]
         /\ pc'[r] \in Running =>
              \/ pc[r] \in Running /\ attempt' = attempt /\ resources' = resources
              \/ pc[r] = "admit" /\ pc'[r] = "receive" /\ Admit(r)
BY DEF TypeOK, Early, Running, Final, Goto, Run, PublishGit, Decode, Allocate, Admit,
       Receive, Prepare, Work, WorkUnpublished, Configure, Add, Diff, Commit, Push,
       PublishFails, Export, Stops, historyVars

\* Only the run itself is added to a directory, to the one with its number.
LEMMA ExportMoves ==
  ASSUME TypeOK, NEW r \in Runs, Run(r), NEW a \in Attempts, NEW q \in exported'[a]
  PROVE  q \in exported[a] \/ (q = r /\ pc[r] = "export" /\ attempt[r] = a)
<1>1. CASE exported' = exported
  BY <1>1
<1>2. CASE pc[r] = "export" /\ exported' = [exported EXCEPT ![attempt[r]] = @ \cup {r}]
  <2>1. CASE a = attempt[r]
    BY <1>2, <2>1 DEF TypeOK
  <2>2. CASE a # attempt[r]
    BY <1>2, <2>2 DEF TypeOK
  <2> QED
    BY <2>1, <2>2
<1> QED
  BY <1>1, <1>2, TraceMoves

\* A run leaves its row at receive and its artifacts at export, never before.
LEMMA UntracedRun ==
  ASSUME TypeOK, Untraced, Numbered, NEW r \in Runs, Run(r)
  PROVE  Untraced'
<1> SUFFICES ASSUME NEW q \in Runs, pc'[q] \in Early
             PROVE  q \notin recorded' /\ \A a \in Attempts : q \notin exported'[a]
  BY DEF Untraced, Early, Attempts
<1>1. pc[q] \in Early
  BY OthersKept, PlaceMoves
<1>2. q \notin recorded /\ \A a \in Attempts : q \notin exported[a]
  BY <1>1 DEF Untraced
<1>3. q = r => recorded' = recorded /\ exported' = exported
  BY <1>1, TraceMoves DEF Early
<1>4. q # r => q \notin recorded' /\ \A a \in Attempts : q \notin exported'[a]
  BY <1>2, TraceMoves, ExportMoves
<1> QED
  BY <1>2, <1>3, <1>4

\* A run goes on behind Admit only if it passed, and its resources stay what clamp
\* returned.
LEMMA AdmittedRun ==
  ASSUME TypeOK, Untraced, Admitted, NEW r \in Runs, Run(r)
  PROVE  Admitted'
<1> SUFFICES ASSUME NEW q \in Runs,
                    \/ pc'[q] \in Running \/ q \in recorded'
                    \/ \E a \in Attempts : q \in exported'[a]
             PROVE  Passed(q)'
  BY DEF Admitted, Running, Attempts
<1>0. job' = job
  BY OthersKept
<1>1. CASE q # r
  <2>1. pc'[q] = pc[q] /\ resources'[q] = resources[q]
    BY <1>1, OthersKept
  <2>2. q \in recorded' => q \in recorded
    BY <1>1, TraceMoves
  <2>3. \A a \in Attempts : q \in exported'[a] => q \in exported[a]
    BY <1>1, ExportMoves
  <2>4. Passed(q)
    BY <2>1, <2>2, <2>3 DEF Admitted
  <2> QED
    BY <1>0, <2>1, <2>4 DEF Passed
<1>2. CASE q = r
  <2>1. CASE pc[r] \in Running
    <3>1. resources' = resources
      BY <2>1, TraceMoves DEF Admit, Running
    <3> QED
      BY <1>0, <1>2, <2>1, <3>1 DEF Admitted, Passed
  <2>2. CASE pc[r] \notin Running /\ (r \in recorded' \/ \E a \in Attempts : r \in exported'[a])
    <3>1. recorded' = recorded /\ exported' = exported
      BY <2>2, TraceMoves DEF Running
    <3>2. pc[r] # "admit"
      BY <2>2, <3>1 DEF Untraced, Early
    <3>3. resources' = resources
      BY <3>2, TraceMoves DEF Admit
    <3> QED
      BY <1>0, <1>2, <2>2, <3>1, <3>3 DEF Admitted, Passed
  <2>3. CASE pc[r] \notin Running /\ pc'[r] \in Running
    <3>1. Admit(r) /\ pc'[r] = "receive"
      BY <2>3, PlaceMoves
    <3>2. /\ select_for(from_json(job)) /\ validate(from_json(job), FALSE)
          /\ resources' = [resources EXCEPT ![r] = clamp(from_json(job).resources)]
      BY <3>1 DEF Admit, Goto, TypeOK
    <3> QED
      BY <1>0, <1>2, <3>2 DEF Passed, TypeOK
  <2> QED
    BY <1>2, <2>1, <2>2, <2>3
<1> QED
  BY <1>1, <1>2

\* Numbers only grow: a run that asks after another's row was written gets a larger
\* one, and keeps it.
LEMMA NumberedRun ==
  ASSUME TypeOK, Untraced, Numbered, NEW r \in Runs, Run(r)
  PROVE  Numbered'
<1> USE LocalRunsConstants
<1>a. ASSUME NEW p \in Runs, pc[p] \notin {"start", "allocate"}
      PROVE  attempt'[p] = attempt[p] /\ before'[p] = before[p]
  BY <1>a, OthersKept, TraceMoves DEF Allocate
<1>b. recorded \subseteq recorded' /\ rows \subseteq rows'
  BY TraceMoves
<1>c. \A p \in recorded : p \in Runs /\ pc[p] \notin {"start", "allocate"}
  BY DEF Untraced, TypeOK, Early
<1>d. Allocate(r) => /\ attempt'[r] = next_attempt /\ next_attempt \in Attempts
                     /\ before'[r] = recorded
  BY Allocated DEF Allocate, TypeOK, Attempts
<1>1. ASSUME NEW p \in Runs, pc'[p] \in Running \cup {"admit"} PROVE attempt'[p] \in Attempts
  <2>1. CASE p # r
    BY <1>1, <2>1, OthersKept DEF Numbered
  <2>2. CASE p = r /\ pc'[r] = "admit"
    <3>0. job \in Documents
      BY DEF TypeOK
    <3>1. job.attempt # 0 => job.attempt \in Attempts
      BY <3>0 DEF JobSpecs, Attempts
    <3> QED
      BY <1>d, <2>2, <3>1, PlaceMoves DEF TypeOK
  <2>3. CASE p = r /\ pc'[r] \in Running
    <3>1. pc[r] \in Running \cup {"admit"}
      BY <2>3, PlaceMoves
    <3> QED
      BY <1>a, <2>3, <3>1 DEF Numbered, Running
  <2> QED
    BY <1>1, <2>1, <2>2, <2>3
<1>2. ASSUME NEW p \in recorded' PROVE attempt'[p] \in rows'
  <2>1. CASE p \in recorded
    BY <1>a, <1>b, <1>c, <2>1 DEF Numbered
  <2>2. CASE p \notin recorded
    <3>1. p = r /\ pc[r] = "receive" /\ attempt[r] \in rows'
      BY <1>2, <2>2, TraceMoves
    <3> QED
      BY <1>a, <3>1
  <2> QED
    BY <2>1, <2>2
<1>3. ASSUME NEW p \in Runs, pc'[p] \in {"start", "allocate"} PROVE before'[p] = {}
  <2>1. pc[p] \in {"start", "allocate"} /\ (p = r => ~Allocate(r))
    BY <1>3, OthersKept, PlaceMoves DEF Allocate
  <2>2. before'[p] = before[p]
    BY <2>1, OthersKept, TraceMoves
  <2> QED
    BY <2>1, <2>2 DEF Numbered
<1>4. ASSUME NEW p \in Runs, NEW q \in before'[p]
      PROVE  q \in recorded' /\ attempt'[q] < attempt'[p]
  <2>1. CASE p = r /\ Allocate(r)
    <3>1. q \in recorded /\ attempt[q] \in rows
      BY <1>d, <1>4, <2>1 DEF Numbered
    <3>2. attempt'[q] = attempt[q] /\ attempt[q] < next_attempt
      BY <1>a, <1>c, <3>1, Allocated
    <3> QED
      BY <1>b, <1>d, <2>1, <3>1, <3>2
  <2>2. CASE ~(p = r /\ Allocate(r))
    <3>1. before'[p] = before[p]
      BY <2>2, OthersKept, TraceMoves
    <3>2. q \in recorded /\ attempt[q] < attempt[p] /\ pc[p] \notin {"start", "allocate"}
      BY <1>4, <3>1 DEF Numbered
    <3> QED
      BY <1>a, <1>b, <1>c, <3>2
  <2> QED
    BY <2>1, <2>2
<1>5. ASSUME NEW a \in Attempts, NEW p \in exported'[a] PROVE attempt'[p] = a
  <2>1. CASE p \in exported[a]
    <3>1. p \in Runs /\ pc[p] \notin {"start", "allocate"}
      BY <2>1 DEF Untraced, Early, TypeOK
    <3> QED
      BY <1>a, <2>1, <3>1 DEF Numbered
  <2>2. CASE p = r /\ pc[r] = "export" /\ attempt[r] = a
    BY <1>a, <2>2
  <2> QED
    BY <2>1, <2>2, ExportMoves
<1> QED
  BY <1>1, <1>2, <1>3, <1>4, <1>5 DEF Numbered, Attempts, Running
-----------------------------------------------------------------------------
\* A history with one commit more.
LEMMA OneMore ==
  ASSUME NEW h \in Seq(Commits), NEW c \in Commits
  PROVE  /\ Len(h) \in Nat /\ DOMAIN h = 1..Len(h)
         /\ DOMAIN Append(h, c) = 1..(Len(h) + 1)
         /\ \A i \in 1..Len(h) : Append(h, c)[i] = h[i]
         /\ Append(h, c)[Len(h) + 1] = c
<1> DEFINE t == Append(h, c)
<1>1. t \in Seq(Commits) /\ Len(t) = Len(h) + 1 /\ t[Len(h) + 1] = c
  BY AppendProperties
<1>2. \A i \in 1..Len(h) : t[i] = h[i]
  BY AppendProperties
<1>3. Len(h) \in Nat /\ DOMAIN h = 1..Len(h)
  BY LenProperties
<1> HIDE DEF t
<1>4. DOMAIN t = 1..Len(t)
  BY <1>1, LenProperties
<1> QED
  BY <1>1, <1>2, <1>3, <1>4 DEF t

\* The trees and histories of a run have their types.
LEMMA TreeTypes ==
  ASSUME TypeOK, NEW r \in Runs
  PROVE  /\ tree[r] \in Trees /\ tree[r].branch \in Seq(Commits)
         /\ DOMAIN tree[r].branch = 1..Len(tree[r].branch) /\ Len(tree[r].branch) \in Nat
         /\ remote \in Seq(Commits)
         /\ DOMAIN remote = 1..Len(remote) /\ Len(remote) \in Nat
<1>1. tree[r] \in Trees /\ tree[r].branch \in Seq(Commits) /\ remote \in Seq(Commits)
  BY DEF TypeOK, Trees
<1> QED
  BY <1>1, LenProperties

\* publish_git adds no derived file, unless a negation took its pattern back.
LEMMA ExcludedRun ==
  ASSUME TypeOK, Excluded, NEW r \in Runs, Run(r)
  PROVE  Excluded'
<1>1. Clean(remote')
  BY RemoteMoves DEF Excluded
<1>2. /\ pc'[r] \notin {"diff", "commit"} => tree'[r].added = {}
      /\ tree'[r].patterns # "negated" => tree'[r].added \subseteq {"source"}
  <2>0. /\ pc[r] = "add" => tree[r].patterns # "lost"
        /\ pc[r] \notin {"diff", "commit"} => tree[r].added = {}
        /\ tree[r].patterns # "negated" => tree[r].added \subseteq {"source"}
        /\ tree[r].patterns \in Patterns
    BY TreeTypes DEF Excluded, Trees
  <2> QED
    BY <2>0, TreeStep DEF AddedMoves, FileKinds, Patterns
<1>3. Clean(tree'[r].branch)
  <2>1. CASE tree'[r].branch \in {tree[r].branch, remote}
    BY <2>1 DEF Excluded
  <2>2. CASE tree'[r].branch = <<>>
    BY <2>2 DEF Clean
  <2>3. CASE \E c \in Commits :
               /\ tree'[r].branch = Append(tree[r].branch, c)
               /\ c.author = "runner" =>
                    c.files = tree[r].added /\ c.patterns = tree[r].patterns
    <3> PICK c \in Commits :
          /\ tree'[r].branch = Append(tree[r].branch, c)
          /\ c.author = "runner" =>
               c.files = tree[r].added /\ c.patterns = tree[r].patterns
      BY <2>3
    <3>1. /\ Clean(tree[r].branch)
          /\ (c.author = "runner" /\ c.patterns # "negated")
               => c.files \subseteq {"source"}
      BY DEF Excluded
    <3> DEFINE h == tree[r].branch
               t == Append(h, c)
    <3>2. /\ Len(h) \in Nat /\ DOMAIN h = 1..Len(h) /\ DOMAIN t = 1..(Len(h) + 1)
          /\ \A i \in 1..Len(h) : t[i] = h[i]
          /\ t[Len(h) + 1] = c
      BY OneMore, TreeTypes
    <3>3. Clean(h)
      BY <3>1
    <3> HIDE DEF h, t
    <3>4. Clean(t)
      BY <3>1, <3>2, <3>3 DEF Clean
    <3> QED
      BY <3>4 DEF t, h
  <2> QED
    BY <2>1, <2>2, <2>3, TreeStep DEF BranchMoves
<1>4. ASSUME NEW q \in Runs
      PROVE  /\ pc'[q] = "add" => tree'[q].patterns # "lost"
             /\ pc'[q] \notin {"diff", "commit"} => tree'[q].added = {}
             /\ tree'[q].patterns # "negated" => tree'[q].added \subseteq {"source"}
             /\ Clean(tree'[q].branch)
  <2>1. CASE q = r
    BY <1>2, <1>3, <2>1, TreeStep
  <2>2. CASE q # r
    BY <2>2, OthersKept DEF Excluded
  <2> QED
    BY <2>1, <2>2
<1> QED
  BY <1>1, <1>4 DEF Excluded, Clean

\* A clone keeps agreeing with the remote on what is not the run's own.
LEMMA ClonedRun ==
  ASSUME TypeOK, Cloned, NEW r \in Runs, Run(r)
  PROVE  Cloned'
<1>0. \A i \in DOMAIN remote : i \in DOMAIN remote' /\ remote'[i] = remote[i]
  BY RemoteGrows DEF Next
<1> SUFFICES ASSUME NEW q \in Runs, NEW i \in DOMAIN tree'[q].branch,
                    ~Made(tree'[q].branch[i], q)
             PROVE  i \in DOMAIN remote' /\ remote'[i] = tree'[q].branch[i]
  BY DEF Cloned, Made
<1>1. CASE q # r \/ tree'[r].branch = tree[r].branch
  <2>1. tree'[q].branch = tree[q].branch
    BY <1>1, OthersKept
  <2> QED
    BY <1>0, <2>1 DEF Cloned
<1>2. CASE q = r /\ tree'[r].branch = remote
  BY <1>0, <1>2
<1>3. CASE q = r /\ tree'[r].branch = <<>>
  BY <1>3
<1>4. CASE q = r /\ \E c \in Commits : tree'[r].branch = Append(tree[r].branch, c) /\ Made(c, r)
  <2> PICK c \in Commits : tree'[r].branch = Append(tree[r].branch, c) /\ Made(c, r)
    BY <1>4
  <2> DEFINE h == tree[r].branch
             t == Append(h, c)
  <2>1. /\ Len(h) \in Nat /\ DOMAIN h = 1..Len(h) /\ DOMAIN t = 1..(Len(h) + 1)
        /\ \A j \in 1..Len(h) : t[j] = h[j]
        /\ t[Len(h) + 1] = c
    BY OneMore, TreeTypes
  <2>2. tree'[q].branch = t /\ \A j \in DOMAIN h :
          ~Made(h[j], r) => j \in DOMAIN remote /\ remote[j] = h[j]
    BY <1>4 DEF Cloned
  <2> HIDE DEF h, t
  <2>3. i \in 1..Len(h) /\ t[i] = h[i]
    <3>1. i \in 1..(Len(h) + 1) /\ i # Len(h) + 1
      BY <1>4, <2>1, <2>2
    <3> QED
      BY <2>1, <3>1
  <2> QED
    BY <1>0, <1>4, <2>1, <2>2, <2>3
<1> QED
  BY <1>1, <1>2, <1>3, <1>4, TreeStep DEF BranchMoves

\* What a run published stays published behind its agent's commits: another run's
\* push brings none of them.
LEMMA PublishedKept ==
  ASSUME TypeOK, Cloned, NEW r \in Runs, Run(r), NEW q \in Runs, q # r,
         Published(remote, q)
  PROVE  Published(remote', q)
<1>1. CASE remote' = remote
  BY <1>1
<1>2. CASE remote' = tree[r].branch
  <2>1. PICK i \in DOMAIN remote :
          /\ remote[i].author = "runner" /\ remote[i].by = q
          /\ \A j \in DOMAIN remote :
               (remote[j].author = "agent" /\ remote[j].by = q) => j < i
    BY DEF Published
  <2>2. i \in DOMAIN remote' /\ remote'[i] = remote[i]
    BY RemoteGrows DEF Next
  <2>3. ASSUME NEW j \in DOMAIN remote', remote'[j].author = "agent", remote'[j].by = q
        PROVE  j < i
    <3>1. j \in DOMAIN remote /\ remote[j] = remote'[j]
      BY <1>2, <2>3 DEF Cloned, Made
    <3> QED
      BY <2>1, <2>3, <3>1
  <2> QED
    BY <2>1, <2>2, <2>3 DEF Published
<1> QED
  BY <1>1, <1>2, RemoteMoves

\* A run that found changes on its branch commits them there, pushes, and reports
\* completed only then.
LEMMA DeliveredRun ==
  ASSUME TypeOK, Cloned, Delivered, NEW r \in Runs, Run(r)
  PROVE  Delivered'
<1>0. due \subseteq Runs /\ due' \subseteq due \cup {r}
  BY DEF TypeOK, Run, PublishGit, Decode, Allocate, Admit, Receive, Prepare, Work,
         WorkUnpublished, Configure, Add, Diff, Commit, Push, PublishFails, Export, Stops,
         historyVars
<1> DEFINE D(q) ==
      /\ pc'[q] \in {"commit", "push", "export"} \cup Final
      /\ pc'[q] = "commit" => tree'[q].on_branch
      /\ pc'[q] = "push" => Published(tree'[q].branch, q)
      /\ (pc'[q] \in {"export", "over"} /\ status'[q] = "completed")
           => Published(remote', q)
<1>1. ASSUME NEW q \in due', q # r PROVE D(q)
  <2>1. /\ q \in due /\ q \in Runs
        /\ pc'[q] = pc[q] /\ tree'[q] = tree[q] /\ status'[q] = status[q]
    BY <1>0, <1>1, OthersKept
  <2>2. Published(remote, q) => Published(remote', q)
    BY <1>1, <2>1, PublishedKept
  <2> QED
    BY <2>1, <2>2 DEF Delivered
<1>2. ASSUME r \in due' PROVE D(r)
  <2> USE DEF Goto, TypeOK
  <2>1. CASE Diff(r)
    <3>1. r \notin due
      BY <2>1 DEF Diff, Delivered, Final
    <3>2. pc'[r] = "commit" /\ tree[r].on_branch /\ tree' = tree
      BY <1>2, <2>1, <3>1 DEF Diff
    <3> QED
      BY <3>2
  <2>2. CASE ~Diff(r)
    <3>0. r \in due /\ pc[r] \in {"commit", "push", "export"} \cup Final
      <4>1. due' = due
        BY <2>2
        DEF Run, PublishGit, Decode, Allocate, Admit, Receive, Prepare, Work,
            WorkUnpublished, Configure, Add, Commit, Push, PublishFails, Export, Stops,
            historyVars
      <4> QED
        BY <1>2, <4>1 DEF Delivered
    <3>1. CASE Commit(r)
      <4> DEFINE h == tree[r].branch
                 c == [by |-> r, author |-> "runner", files |-> tree[r].added,
                       patterns |-> tree[r].patterns]
                 t == Append(h, c)
      <4>1. pc'[r] = "push" /\ tree[r].on_branch
        BY <3>0, <3>1 DEF Commit, Delivered
      <4>2. tree'[r].branch = t
        BY <3>1, <4>1 DEF Commit
      <4>3. c \in Commits /\ c.author = "runner" /\ c.by = r
        BY Typing, TreeTypes DEF Trees
      <4>4. /\ Len(h) \in Nat /\ DOMAIN t = 1..(Len(h) + 1) /\ t[Len(h) + 1] = c
        BY <4>3, OneMore, TreeTypes
      <4> HIDE DEF h, c, t
      <4>5. Published(t, r)
        <5>1. Len(h) + 1 \in DOMAIN t
          BY <4>4
        <5>2. \A j \in DOMAIN t :
                (t[j].author = "agent" /\ t[j].by = r) => j < Len(h) + 1
          <6> SUFFICES ASSUME NEW j \in DOMAIN t, t[j].author = "agent"
                       PROVE  j < Len(h) + 1
            OBVIOUS
          <6>1. j # Len(h) + 1
            BY <4>3, <4>4
          <6>2. j \in 1..(Len(h) + 1) /\ Len(h) \in Nat
            BY <4>4
          <6> HIDE DEF TypeOK, Goto
          <6> QED
            BY <6>1, <6>2
        <5> QED
          BY <4>3, <4>4, <5>1, <5>2 DEF Published
      <4> QED
        BY <4>1, <4>2, <4>5
    <3>2. CASE Push(r)
      BY <3>0, <3>2 DEF Push, Delivered
    <3>3. CASE PublishFails(r)
      BY <3>3 DEF PublishFails
    <3>4. CASE Export(r)
      BY <3>0, <3>4 DEF Export, Delivered, Final
    <3>5. CASE Stops(r)
      BY <3>5 DEF Stops, Final
    <3> QED
      BY <2>2, <3>0, <3>1, <3>2, <3>3, <3>4, <3>5
      DEF Run, PublishGit, Decode, Allocate, Admit, Receive, Prepare, Work,
          WorkUnpublished, Configure, Add, Final
  <2> QED
    BY <2>1, <2>2
<1> QED
  BY <1>1, <1>2 DEF Delivered, Final, Published
-----------------------------------------------------------------------------
\* The first state: nothing ran, and the journal holds what earlier runs left.
LEMMA InitIInv == Init => IInv
<1> SUFFICES ASSUME Init PROVE IInv
  OBVIOUS
<1>0. /\ \A r \in Runs : /\ pc[r] = "start" /\ attempt[r] = 0 /\ tree[r] = NoTree
                         /\ before[r] = {}
      /\ \A a \in Attempts : exported[a] = {}
      /\ recorded = {} /\ due = {} /\ remote = <<>>
  BY DEF Init
<1>1. TypeOK
  <2>1. /\ tree \in [Runs -> Trees] /\ remote \in Seq(Commits)
    BY Typing DEF Init
  <2>2. rows \subseteq Attempts
    BY LocalRunsConstants DEF Init, Attempts
  <2>3. attempt \in [Runs -> 0..MaxAttempt]
    BY LocalRunsConstants DEF Init
  <2> QED
    BY <2>1, <2>2, <2>3 DEF Init, TypeOK, Trees
<1>2. Untraced
  BY <1>0 DEF Untraced
<1>3. Admitted
  BY <1>0 DEF Admitted, Running
<1>4. Numbered
  BY <1>0 DEF Numbered, Running
<1>5. DOMAIN remote = {} /\ \A r \in Runs : DOMAIN tree[r].branch = {}
  BY <1>0 DEF NoTree
<1>6. Excluded
  BY <1>0, <1>5 DEF Excluded, Clean, NoTree
<1>7. Cloned
  BY <1>5 DEF Cloned
<1>8. Delivered
  BY <1>0 DEF Delivered
<1> QED
  BY <1>1, <1>2, <1>3, <1>4, <1>6, <1>7, <1>8 DEF IInv

\* Somebody else's push adds a commit of theirs: no run's, and no derived file that
\* publish_git added.
LEMMA OtherIInv ==
  ASSUME IInv, OtherPushes
  PROVE  IInv'
<1> DEFINE c == [author |-> "other"]
<1>0. /\ TypeOK /\ Untraced /\ Admitted /\ Numbered /\ Excluded /\ Cloned /\ Delivered
  BY DEF IInv
<1>1. /\ job' = job /\ pc' = pc /\ attempt' = attempt /\ resources' = resources
      /\ tree' = tree /\ status' = status /\ rows' = rows /\ exported' = exported
      /\ recorded' = recorded /\ before' = before /\ due' = due
  BY DEF OtherPushes, runVars, historyVars
<1>2. /\ remote' \in Seq(Commits)
      /\ \A i \in DOMAIN remote : i \in DOMAIN remote' /\ remote'[i] = remote[i]
  BY <1>0, RemoteGrows DEF Next
<1>3. \A i \in DOMAIN remote' :
        \/ i \in DOMAIN remote /\ remote'[i] = remote[i]
        \/ remote'[i].author = "other"
  <2>1. remote \in Seq(Commits) /\ c \in Commits /\ remote' = Append(remote, c)
    BY <1>0, Typing DEF OtherPushes, TypeOK
  <2>2. c.author = "other"
    OBVIOUS
  <2> HIDE DEF c
  <2>3. /\ Len(remote) \in Nat /\ DOMAIN remote = 1..Len(remote)
        /\ DOMAIN remote' = 1..(Len(remote) + 1) /\ remote'[Len(remote) + 1] = c
    BY <2>1, OneMore
  <2>4. \A i \in 1..(Len(remote) + 1) : i \in 1..Len(remote) \/ i = Len(remote) + 1
    BY <2>3
  <2> QED
    BY <1>2, <2>2, <2>3, <2>4
<1> HIDE DEF c
<1>4. TypeOK'
  BY <1>0, <1>1, <1>2 DEF TypeOK
<1>5. Untraced' /\ Admitted' /\ Numbered'
  <2>1. Untraced'
    BY <1>0, <1>1 DEF Untraced
  <2>2. Admitted'
    BY <1>0, <1>1 DEF Admitted, Passed
  <2>3. Numbered'
    BY <1>0, <1>1 DEF Numbered
  <2> QED
    BY <2>1, <2>2, <2>3
<1>6. Excluded'
  <2>1. Clean(remote')
    BY <1>0, <1>3 DEF Excluded, Clean
  <2> QED
    BY <1>0, <1>1, <2>1 DEF Excluded, Clean
<1>7. Cloned'
  BY <1>0, <1>1, <1>2 DEF Cloned, Made
<1>8. ASSUME NEW r \in Runs, Published(remote, r) PROVE Published(remote', r)
  <2> PICK i \in DOMAIN remote :
        /\ remote[i].author = "runner" /\ remote[i].by = r
        /\ \A j \in DOMAIN remote :
             (remote[j].author = "agent" /\ remote[j].by = r) => j < i
    BY <1>8 DEF Published
  <2>1. i \in DOMAIN remote' /\ remote'[i] = remote[i]
    BY <1>2
  <2>2. \A j \in DOMAIN remote' :
          (remote'[j].author = "agent" /\ remote'[j].by = r) => j < i
    BY <1>3
  <2> QED
    BY <2>1, <2>2 DEF Published
<1>9. Delivered'
  <2>1. \A r \in due : r \in Runs
    BY <1>0 DEF TypeOK
  <2> SUFFICES ASSUME NEW r \in due
               PROVE  /\ pc[r] \in {"commit", "push", "export"} \cup Final
                      /\ pc[r] = "commit" => tree[r].on_branch
                      /\ pc[r] = "push" => Published(tree[r].branch, r)
                      /\ (pc[r] \in {"export", "over"} /\ status[r] = "completed")
                           => Published(remote', r)
    BY <1>1 DEF Delivered, Published, Final
  <2> QED
    BY <1>0, <1>8, <2>1 DEF Delivered
<1> QED
  BY <1>4, <1>5, <1>6, <1>7, <1>9 DEF IInv

\* Every step keeps the invariant.
LEMMA NextIInv ==
  ASSUME IInv, [Next]_vars
  PROVE  IInv'
<1>1. CASE UNCHANGED vars
  <2>1. /\ job' = job /\ pc' = pc /\ attempt' = attempt /\ resources' = resources
        /\ tree' = tree /\ status' = status /\ rows' = rows /\ remote' = remote
        /\ exported' = exported
        /\ recorded' = recorded /\ before' = before /\ due' = due
    BY <1>1 DEF vars, runVars, sharedVars, historyVars
  <2>2. TypeOK'
    BY <2>1 DEF IInv, TypeOK
  <2>3. Untraced' /\ Admitted'
    BY <2>1 DEF IInv, Untraced, Admitted, Passed
  <2>4. Numbered'
    BY <2>1 DEF IInv, Numbered
  <2>5. Excluded' /\ Cloned'
    BY <2>1 DEF IInv, Excluded, Clean, Cloned, Made
  <2>6. Delivered'
    BY <2>1 DEF IInv, Delivered, Published
  <2> QED
    BY <2>2, <2>3, <2>4, <2>5, <2>6 DEF IInv
<1>2. CASE OtherPushes
  BY <1>2, OtherIInv
<1>3. CASE \E r \in Runs : Run(r)
  <2> PICK r \in Runs : Run(r)
    BY <1>3
  <2> QED
    BY TypeRun, UntracedRun, AdmittedRun, NumberedRun, ExcludedRun, ClonedRun,
       DeliveredRun DEF IInv
<1> QED
  BY <1>1, <1>2, <1>3 DEF Next, Over

\* The invariant holds in every reachable state, for any number of processes, any
\* documents that deserialize and any earlier rows.
THEOREM Inductive == Spec => []IInv
BY InitIInv, NextIInv, PTL DEF Spec
-----------------------------------------------------------------------------
\* Every variable stays in its type: an attempt number fits into a u32, and what
\* policy::validate returns is never negative.
THEOREM TypeCorrect == Spec => []TypeOK
<1>1. IInv => TypeOK
  BY DEF IInv
<1> QED
  BY <1>1, Inductive, PTL

\* PublishedIsPushed: a run that reports completed and had changes on its branch
\* has them on the remote.
THEOREM PublicationDelivered == Spec => []PublishedIsPushed
<1>1. IInv => PublishedIsPushed
  BY DEF IInv, Delivered, Published, PublishedIsPushed
<1> QED
  BY <1>1, Inductive, PTL

\* DerivedStaysOut: publish_git adds no untracked file that exclude_runner_files
\* names, unless a line behind the patterns takes one back.
THEOREM DerivedLeftOut == Spec => []DerivedStaysOut
<1>1. IInv => DerivedStaysOut
  BY DEF IInv, Excluded, Clean, DerivedStaysOut
<1> QED
  BY <1>1, Inductive, PTL

\* OwnDirectory: two runs share an artifact directory only if neither had its row in
\* the journal when the other asked for its number.
THEOREM DirectoriesOwn == Spec => []OwnDirectory
<1>1. IInv => OwnDirectory
  <2> SUFFICES ASSUME IInv, NEW a \in Attempts, NEW r \in exported[a],
                      NEW q \in exported[a], q \in before[r]
               PROVE  FALSE
    BY DEF OwnDirectory
  <2>1. r \in Runs /\ a \in Nat
    BY LocalRunsConstants DEF IInv, TypeOK, Attempts
  <2>2. attempt[q] < attempt[r] /\ attempt[q] = a /\ attempt[r] = a
    BY <2>1 DEF IInv, Numbered
  <2> QED
    BY <2>1, <2>2
<1> QED
  BY <1>1, Inductive, PTL

\* TraceIsAdmitted: only an acceptable job leaves a trace, and runs with resources
\* within the limits.
THEOREM TracesAdmitted == Spec => []TraceIsAdmitted
<1>1. IInv => TraceIsAdmitted
  <2> SUFFICES ASSUME IInv, NEW r \in recorded \cup UNION Range(exported)
               PROVE  /\ Acceptable(from_json(job))
                      /\ resources[r].memory_mb \in MinMemory..Max({MaxMemory, MinMemory})
                      /\ resources[r].timeout_seconds
                           \in MinTimeout..Max({MaxTimeout, MinTimeout})
    BY DEF TraceIsAdmitted
  <2>1. r \in Runs /\ (r \in recorded \/ \E a \in Attempts : r \in exported[a])
    BY DEF IInv, TypeOK, Range
  <2>2. Passed(r)
    BY <2>1 DEF IInv, Admitted
  <2>3. job \in JobSpecs
    BY LocalRunsConstants DEF IInv, TypeOK
  <2>4. Acceptable(from_json(job))
    BY <2>2, <2>3, AdmissionSound DEF Passed
  <2>5. from_json(job).resources \in [memory_mb : Int, timeout_seconds : Nat]
    BY <2>3, Decoded DEF Typed
  <2> QED
    BY <2>2, <2>4, <2>5, Clamped DEF Passed
<1> QED
  BY <1>1, Inductive, PTL
============================================================================
