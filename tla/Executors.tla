----------------------------- MODULE Executors ------------------------------
(***************************************************************************)
(* Executors (packages/executors/src): the host reads the repository, runs *)
(* one class of executor in a child process under a timer, judges whatever *)
(* the child says, and builds a draft; the trust store keeps the reviews   *)
(* from which the draft's autonomy is computed; and whether the edge can   *)
(* be verified comes from Evidence.                                        *)
(*                                                                         *)
(* A file's contents are a set of lines, and a path is a file as it is     *)
(* spelt: "plain", "dotted" (a/./b, normalised away) or "escaping" (a ..,  *)
(* which throws).  The child is not trusted: it answers as its class would *)
(* or with any of Rogue.  Of a trust record only the streak is kept; the   *)
(* other counts are read by nothing.                                       *)
(***************************************************************************)
EXTENDS Integers, FiniteSets, FiniteSetsExt, Evidence

CONSTANTS
  File,
  PlaceOf,            \* where a file is: "src", "test", "manifest", "other"
  SensitiveFile,      \* files some glob of SENSITIVE_PATH_GLOBS matches
  TestOf,             \* the test path of a source file's module name
  Start0,             \* the repository at first
  Edits,              \* what other programs may write: <<file, contents>>
  Rogue,              \* proposals a child of each class may make on its own
  Runner,             \* callers of runExecutor
  Asks,               \* what each may ask for: [class, target, promise], where
                      \*   a target is [kind, path, line] and a promise
                      \*   [refs, edge, capable]
  Reviewer,           \* processes that record reviews
  Reviews,            \* what reviews come to: <<class, outcome>>
  PROMOTION_THRESHOLDS,
  MaxChangedLines, MaxChangedFiles,    \* by class; the registry's, scaled
  MAX_FILE_LINES, MAX_SNAPSHOT_FILES,  \* run.ts's limits, scaled
  MaxEdits, MaxReviews                 \* bounds on the model

VARIABLES
  repo,        \* the working tree
  trust,       \* the stored streak of each class
  recording,   \* TrustStore.record of each reviewer: read, not yet written
  run,         \* the run of each caller, from the reading of the streak on
  artifact,    \* the draft the last step returned
  unedited,    \* approvals since the last correction (history)
  uncorrected, \* classes whose stored streak outlived a correction (history)
  outdated,    \* reviewers and runners whose streak did (history)
  edits, reviews

history == <<unedited, uncorrected, outdated>>
executorVars == <<repo, trust, recording, run, artifact, history, edits, reviews>>

-----------------------------------------------------------------------------
(* The registry.                                                           *)

Class == {"tests", "dead-code", "dep-bump"}

TargetKind(c) ==
  CASE c = "tests" -> "source-file"
    [] c = "dead-code" -> "symbol"
    [] c = "dep-bump" -> "dependency"

Readable(c) ==
  CASE c = "tests" -> {"src", "test"}
    [] c = "dead-code" -> {"src"}
    [] c = "dep-bump" -> {"manifest"}

Writable(c) ==
  CASE c = "tests" -> {"test"}
    [] c = "dead-code" -> {"src"}
    [] c = "dep-bump" -> {"manifest"}

RiskClass(c) == IF c = "dep-bump" THEN "supply-chain" ELSE "routine"

Outcome == {"approved", "approved-with-edits", "corrected"}

(* Levels take more approvals the more they let through; a budget is a     *)
(* number, and what a child writes is a finite answer.                     *)
ASSUME ExecutorAssumption ==
  /\ PROMOTION_THRESHOLDS
       \in [{"auto-apply-with-window", "silent-with-receipt"} -> Nat]
  /\ PROMOTION_THRESHOLDS["auto-apply-with-window"]
       <= PROMOTION_THRESHOLDS["silent-with-receipt"]
  /\ MaxChangedFiles \in [Class -> Nat]
  /\ \A c \in Class : \A proposal \in Rogue[c] : IsFiniteSet(proposal)
  /\ Reviewer \cap Runner = {}
  /\ Reviews \subseteq Class \X Outcome
  /\ \A r \in Runner : \A ask \in Asks[r] : ask.class \in Class

-----------------------------------------------------------------------------
(* gradient.ts                                                             *)

AUTONOMY_LEVELS ==
  <<"draft-for-review", "auto-apply-with-window", "silent-with-receipt">>
LevelRank(level) == CHOOSE i \in 1..3 : AUTONOMY_LEVELS[i] = level
MinLevel(a, b) == IF LevelRank(a) <= LevelRank(b) THEN a ELSE b

RISK_CEILING(risk) ==
  CASE risk = "routine" -> "silent-with-receipt"
    [] risk = "supply-chain" -> "auto-apply-with-window"
    [] risk = "sensitive" -> "draft-for-review"

CeilingFor(risk, files) ==
  IF files \cap SensitiveFile # {}
  THEN MinLevel(RISK_CEILING(risk), RISK_CEILING("sensitive"))
  ELSE RISK_CEILING(risk)

LevelFromHistory(streak) ==
  CASE streak >= PROMOTION_THRESHOLDS["silent-with-receipt"] ->
         "silent-with-receipt"
    [] streak < PROMOTION_THRESHOLDS["silent-with-receipt"] /\
       streak >= PROMOTION_THRESHOLDS["auto-apply-with-window"] ->
         "auto-apply-with-window"
    [] OTHER -> "draft-for-review"

(* A definition whose name extends the next one's is a slip in the code    *)
(* that a property is tried against; nothing uses it.                      *)
ApplyOutcomeStandingStill(streak, outcome) ==
  IF outcome = "approved" THEN streak + 1 ELSE streak

ApplyOutcome(streak, outcome) ==
  CASE outcome = "approved" -> streak + 1
    [] outcome = "approved-with-edits" -> streak
    [] outcome = "corrected" -> 0

EffectiveAutonomy(streak, ceiling, edgeVerifiable) ==
  IF edgeVerifiable THEN MinLevel(LevelFromHistory(streak), ceiling)
  ELSE "draft-for-review"

-----------------------------------------------------------------------------
(* capabilities.ts, diff.ts                                                *)

NoFile == {0}

NormalizeWorkspacePath(path) ==
  IF path.spelt = "escaping" THEN {} ELSE {path.file}

(* The file a path names when it may be touched, and nothing otherwise.    *)
AssertPermitted(places, path) ==
  {f \in NormalizeWorkspacePath(path) : PlaceOf[f] \in places}

(* Lines added and lines deleted.                                          *)
UnifiedDiff(before, after) ==
  Cardinality((after \ NoFile) \ before) + Cardinality((before \ NoFile) \ after)

-----------------------------------------------------------------------------
(* workspace.ts and classes/: what an executor proposes for its target,    *)
(* through a workspace that refuses what its capabilities do not name.     *)
(* A proposal is the set of what it writes, NoFile for a deletion.         *)

Write(path, lines) == [path |-> path, lines |-> lines]
Plain(f) == [file |-> f, spelt |-> "plain"]

(* The file an executor may read at a path, if the snapshot has it.        *)
ReadOrNull(c, snapshot, path) ==
  {f \in AssertPermitted(Readable(c), path) : snapshot[f] # NoFile}

(* Line 1 is an exported function; an existing test is left alone.         *)
TestsExecutor(snapshot, target) ==
  {Write(Plain(TestOf[f]), snapshot[f]) :
     f \in {g \in ReadOrNull("tests", snapshot, target.path) :
              1 \in snapshot[g] /\ snapshot[TestOf[g]] = NoFile}}

(* The symbol's line, when no other file the class can read has it.        *)
DeadCodeExecutor(snapshot, target) ==
  {Write(Plain(f), snapshot[f] \ {target.line}) :
     f \in {g \in ReadOrNull("dead-code", snapshot, target.path) :
              /\ target.line \in snapshot[g]
              /\ \A h \in File \ {g} : target.line \notin snapshot[h]}}

(* One version for another, in the one manifest.                           *)
DepBumpExecutor(snapshot, target) ==
  {Write(Plain(f), {target.line}) :
     f \in {g \in ReadOrNull("dep-bump", snapshot, target.path) :
              target.line \notin snapshot[g]}}

RunClass(c, snapshot, target) ==
  CASE c = "tests" -> TestsExecutor(snapshot, target)
    [] c = "dead-code" -> DeadCodeExecutor(snapshot, target)
    [] c = "dep-bump" -> DepBumpExecutor(snapshot, target)

-----------------------------------------------------------------------------
(* sandbox/                                                                *)

NoAnswer == [said |-> "nothing", proposal |-> {}]
Answered(proposal) == [said |-> "ok", proposal |-> proposal]
Refusal == [said |-> "error", proposal |-> {}]

Idle == [stage |-> "idle", class |-> "none"]
NoArtifact == [level |-> "none"]
NotRecording == [class |-> "none"]

(* Only what the read capability admits, and nothing too large.            *)
SnapshotRepo(c) ==
  [f \in File |->
     IF PlaceOf[f] \in Readable(c) /\ Cardinality(repo[f]) <= MAX_FILE_LINES
     THEN repo[f] ELSE NoFile]

ExecutorInit ==
  /\ repo = Start0
  /\ trust = [c \in Class |-> 0]
  /\ recording = [p \in Reviewer |-> NotRecording]
  /\ run = [r \in Runner |-> Idle] /\ artifact = NoArtifact
  /\ unedited = [c \in Class |-> 0] /\ uncorrected = {} /\ outdated = {}
  /\ edits = 0 /\ reviews = 0

(* Who read the streak of a class that had outlived a correction holds one *)
(* that did; who holds one no more does not.                               *)
Reads(who, c) ==
  outdated' = IF c \in uncorrected THEN outdated \cup {who} ELSE outdated

LetsGo(who) == outdated' = outdated \ {who}

(* The caller reads the history of the class it is about to run.           *)
ReadTrust(r) ==
  \E ask \in Asks[r] :
    /\ run[r] = Idle
    /\ run' = [run EXCEPT ![r] = [stage |-> "asked", class |-> ask.class,
                                  streak |-> trust[ask.class]]]
    /\ artifact' = NoArtifact /\ Reads(r, ask.class)
    /\ UNCHANGED <<repo, trust, recording, unedited, uncorrected, edits, reviews>>

(* Asked with that record, and with what the adapters say of the edge,     *)
(* runExecutor refuses a target of the wrong kind, walks the tree and      *)
(* starts the child.                                                       *)
RunExecutor(r) ==
  \E ask \in Asks[r] :
    LET c == ask.class
        snapshot == SnapshotRepo(c) IN
    /\ run[r].stage = "asked" /\ run[r].class = c
    /\ ask.target.kind = TargetKind(c)
    /\ Cardinality({f \in File : snapshot[f] # NoFile}) <= MAX_SNAPSHOT_FILES
    /\ run' = [run EXCEPT ![r] =
                 [stage |-> "waiting", class |-> c, streak |-> run[r].streak,
                  target |-> ask.target, promise |-> ask.promise,
                  snapshot |-> snapshot, child |-> "running", out |-> NoAnswer]]
    /\ artifact' = NoArtifact
    /\ UNCHANGED <<repo, trust, recording, history, edits, reviews>>

(* The child: the class's own answer, an error, or anything it likes.      *)
ChildAnswers(r) ==
  /\ run[r].stage = "waiting" /\ run[r].child = "running" /\ run[r].out = NoAnswer
  /\ \E answer \in {Answered(RunClass(run[r].class, run[r].snapshot, run[r].target)),
                    Refusal}
                    \cup {Answered(proposal) : proposal \in Rogue[run[r].class]} :
       run' = [run EXCEPT ![r].out = answer]
  /\ artifact' = NoArtifact
  /\ UNCHANGED <<repo, trust, recording, history, edits, reviews>>

ChildExits(r) ==
  /\ run[r].stage = "waiting" /\ run[r].child = "running"
  /\ run' = [run EXCEPT ![r].child = "exited"]
  /\ artifact' = NoArtifact
  /\ UNCHANGED <<repo, trust, recording, history, edits, reviews>>

(* The run is over, and its record of trust with it.                       *)
Ends(r) ==
  /\ run' = [run EXCEPT ![r] = Idle] /\ LetsGo(r)
  /\ UNCHANGED <<repo, trust, recording, unedited, uncorrected, edits, reviews>>

(* The child is gone before it has read its request: the write to its      *)
(* stdin fails, nothing listens for that, and the host's process ends.     *)
StdinBreaks(r) ==
  /\ run[r].stage = "waiting" /\ run[r].child = "running" /\ run[r].out = NoAnswer
  /\ artifact' = NoArtifact /\ Ends(r)

(* The budget is over: the child is killed, the promise rejected, and what *)
(* the child may already have said is never looked at.                     *)
Timeout(r) ==
  /\ run[r].stage = "waiting"
  /\ artifact' = NoArtifact /\ Ends(r)

-----------------------------------------------------------------------------
(* What the host makes of the child's proposal.                            *)

(* Every path again, against the class's write capability.                 *)
RevalidatedReadable(c, proposal) ==
  \A w \in proposal : AssertPermitted(Readable(c), w.path) # {}

Revalidated(c, proposal) ==
  \A w \in proposal : AssertPermitted(Writable(c), w.path) # {}

(* A write that changes nothing and a deletion of nothing are passed over. *)
Changes(snapshot, proposal) ==
  {[spelt |-> w.path.spelt, file |-> w.path.file,
    kind |-> IF w.lines = NoFile THEN "deleted"
             ELSE IF snapshot[w.path.file] = NoFile THEN "added"
             ELSE "modified",
    lines |-> UnifiedDiff(snapshot[w.path.file], w.lines)] :
     w \in {v \in proposal :
              IF v.lines = NoFile THEN snapshot[v.path.file] # NoFile
              ELSE UnifiedDiff(snapshot[v.path.file], v.lines) > 0}}

TotalLines(changes) == MapThenSumSet(LAMBDA ch : ch.lines, changes)

WithinBudget(c, changes) ==
  /\ Cardinality(changes) <= MaxChangedFiles[c]
  /\ TotalLines(changes) <= MaxChangedLines[c]

EdgeVerifiable(promise) ==
  IsEdgeVerifiable(promise.edge,
    VerifyCommitment(promise.refs, promise.edge, promise.capable))

Files(changes) == {ch.file : ch \in changes}

(* The level is computed now, from the record read before the run.         *)
Draft(r, changes) ==
  [level |-> EffectiveAutonomy(run[r].streak,
               CeilingFor(RiskClass(run[r].class), Files(changes)),
               EdgeVerifiable(run[r].promise)),
   class |-> run[r].class, changes |-> changes, promise |-> run[r].promise,
   earned |-> unedited[run[r].class], outdated |-> r \in outdated]

(* The child's stdout is closed: no answer, a refusal, a proposal that     *)
(* fails a check (the promise is rejected), nothing to do, or a draft.     *)
Close(r) ==
  /\ run[r].stage = "waiting" /\ run[r].child = "exited"
  /\ LET changes == Changes(run[r].snapshot, run[r].out.proposal) IN
       artifact' =
         IF /\ run[r].out.said = "ok"
            /\ Revalidated(run[r].class, run[r].out.proposal)
            /\ changes # {} /\ WithinBudget(run[r].class, changes)
         THEN Draft(r, changes) ELSE NoArtifact
  /\ Ends(r)

-----------------------------------------------------------------------------
(* TrustStore.record reads, computes and writes back; two processes may    *)
(* do so at once.                                                          *)

GetTrust(p) ==
  \E review \in Reviews :
    /\ recording[p] = NotRecording /\ reviews < MaxReviews
    /\ recording' = [recording EXCEPT
                       ![p] = [class |-> review[1], streak |-> trust[review[1]],
                               outcome |-> review[2]]]
    /\ reviews' = reviews + 1
    /\ artifact' = NoArtifact /\ Reads(p, review[1])
    /\ UNCHANGED <<repo, trust, run, unedited, uncorrected, edits>>

(* Who else holds a streak of the class: reviews and runs under way.       *)
Holders(c) ==
  {q \in Reviewer : recording[q].class = c} \cup {r \in Runner : run[r].class = c}

PutTrust(p) ==
  LET c == recording[p].class
      outcome == recording[p].outcome IN
  /\ recording[p] # NotRecording
  /\ trust' = [trust EXCEPT ![c] = ApplyOutcome(recording[p].streak, outcome)]
  /\ recording' = [recording EXCEPT ![p] = NotRecording]
  /\ unedited' = [unedited EXCEPT
                    ![c] = CASE outcome = "approved" -> @ + 1
                             [] outcome = "corrected" -> 0
                             [] OTHER -> @]
  /\ IF outcome = "corrected"
     THEN /\ uncorrected' = uncorrected \ {c}
          /\ outdated' = (outdated \cup Holders(c)) \ {p}
     ELSE /\ uncorrected' = IF p \in outdated THEN uncorrected \cup {c}
                            ELSE uncorrected
          /\ LetsGo(p)
  /\ artifact' = NoArtifact
  /\ UNCHANGED <<repo, run, edits, reviews>>

(* Somebody works in the repository meanwhile.                             *)
Edit ==
  \E e \in Edits :
    /\ edits < MaxEdits
    /\ repo' = [repo EXCEPT ![e[1]] = e[2]]
    /\ edits' = edits + 1 /\ artifact' = NoArtifact
    /\ UNCHANGED <<trust, recording, run, history, reviews>>

ExecutorNext ==
  \/ \E r \in Runner :
       \/ ReadTrust(r) \/ RunExecutor(r) \/ ChildAnswers(r) \/ ChildExits(r)
       \/ StdinBreaks(r) \/ Timeout(r) \/ Close(r)
  \/ \E p \in Reviewer : GetTrust(p) \/ PutTrust(p)
  \/ Edit

ExecutorSpec == ExecutorInit /\ [][ExecutorNext]_executorVars

-----------------------------------------------------------------------------
(* What a draft may do without review was earned: by unedited approvals of *)
(* this class since its last correction, counted when the draft is made    *)
(* and not when its run began, on an edge somebody can verify, never       *)
(* silently for a dependency, and never with a sensitive file among its    *)
(* changes, however the child spelt it (gradient.ts, run.ts).  Reviews may *)
(* overlap each other and the run.  Two corrections do not reach it:  one  *)
(* recorded while the run holds the streak it began with (the level is     *)
(* computed from options.trust after the child's answer), and one that a   *)
(* review which read the streak before it has overwritten since            *)
(* (TrustStore.record).                                                    *)
AutonomyIsEarned ==
  artifact # NoArtifact /\ artifact.level # "draft-for-review" =>
    /\ artifact.outdated
         \/ artifact.earned >= PROMOTION_THRESHOLDS[artifact.level]
    /\ artifact.level = "silent-with-receipt" => artifact.class # "dep-bump"
    /\ Files(artifact.changes) \cap SensitiveFile = {}
    /\ CollectiveDecompositionValid(artifact.promise.edge)
    /\ artifact.promise.edge.closure_policy = "on-evidence" =>
         \E ref \in artifact.promise.refs :
           ref.wellFormed /\ ref.kind \in artifact.promise.capable \ {"url"}

(* Whatever the child answers, a draft applied to what the host read       *)
(* changes only files its class may write, and no more of them or of their *)
(* lines than the class's budget, under any spelling of their names        *)
(* (run.ts, the host's own validation).                                    *)
ArtifactWithinItsWorld ==
  artifact # NoArtifact =>
    /\ \A f \in Files(artifact.changes) :
         PlaceOf[f] \in Writable(artifact.class)
    /\ Cardinality(artifact.changes) \in 1..MaxChangedFiles[artifact.class]
    /\ TotalLines(artifact.changes) <= MaxChangedLines[artifact.class]
=============================================================================
