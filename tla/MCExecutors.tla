---------------------------- MODULE MCExecutors -----------------------------
(***************************************************************************)
(* Executors for TLC: a source file and its test, a test that is sensitive *)
(* (test/auth/...), the manifest and a CI file.                            *)
(***************************************************************************)
EXTENDS Executors, TLC

CONSTANTS s, t, auth, manifest, ci, r1, r2

MCFile == {s, t, auth, manifest, ci}
MCPlaceOf == s :> "src" @@ t :> "test" @@ auth :> "test"
               @@ manifest :> "manifest" @@ ci :> "other"
MCTestOf == [f \in MCFile |-> t]
MCStart == s :> {1, 2} @@ t :> NoFile @@ auth :> {1} @@ manifest :> {1}
             @@ ci :> {1}

(* A test written by hand, too large to be read.                           *)
MCEdits == {<<t, {1, 2, 3}>>}

Dotted(f) == [file |-> f, spelt |-> "dotted"]

Source(f) == [kind |-> "source-file", path |-> Plain(f), line |-> 2]
Symbol(path) == [kind |-> "symbol", path |-> path, line |-> 2]
Dependency == [kind |-> "dependency", path |-> Plain(manifest), line |-> 2]

MCRogue ==
  "tests" :> {{Write(Plain(s), {1})},
              {Write(Dotted(auth), {1, 2})},
              {Write(Plain(t), {2}), Write(Dotted(t), {1, 2})}}
  @@ "dead-code" :> {{Write(Plain(s), {1}),
                      Write([file |-> s, spelt |-> "escaping"], {2})}}
  @@ "dep-bump" :> {{Write(Plain(manifest), {2, 3})}}

OnAcceptance == [closure_policy |-> "on-acceptance", collective |-> FALSE,
                 coordinator |-> FALSE, children |-> 0, policy |-> "all",
                 k |-> 0]
OnEvidence == [OnAcceptance EXCEPT !.closure_policy = "on-evidence"]
KOfN == [OnAcceptance EXCEPT !.collective = TRUE, !.children = 1,
           !.policy = "k-of-n", !.k = 2]

Ref(kind, found) == [kind |-> kind, wellFormed |-> TRUE, found |-> found]

Accepted == [refs |-> {}, edge |-> OnAcceptance, capable |-> {}]

MCPromises ==
  {[refs |-> {Ref("file", "failing"), Ref("url", "absent")},
    edge |-> OnEvidence, capable |-> {"file"}],
   [refs |-> {Ref("envelope", "absent"), Ref("url", "holding")},
    edge |-> OnEvidence, capable |-> {"envelope"}],
   [refs |-> {Ref("commit", "holding")},
    edge |-> KOfN, capable |-> {"commit"}]}

MCThresholds == "auto-apply-with-window" :> 1 @@ "silent-with-receipt" :> 2
MCMaxChangedLines == "tests" :> 3 @@ "dead-code" :> 1 @@ "dep-bump" :> 2
MCMaxChangedFiles == "tests" :> 2 @@ "dead-code" :> 1 @@ "dep-bump" :> 1

Ask(class, target, promise) ==
  [class |-> class, target |-> target, promise |-> promise]

(* One caller runs every class, tests for every promise, and once a target *)
(* of the wrong kind; the other removes dead code meanwhile.               *)
MCAsks ==
  r1 :> ({Ask("tests", Source(s), promise) : promise \in MCPromises}
         \cup {Ask("tests", Dependency, Accepted),
               Ask("dead-code", Symbol(Plain(s)), Accepted),
               Ask("dep-bump", Dependency, Accepted)})
  @@ r2 :> {Ask("dead-code", Symbol(Dotted(s)), Accepted)}

(* Tests are reviewed with every outcome, the others with fewer.           *)
MCReviews ==
  ({"tests"} \X Outcome) \cup ({"dead-code"} \X {"approved", "corrected"})
    \cup {<<"dep-bump", "approved">>}

(* The reviewers differ in nothing.                                        *)
Symmetry == Permutations(Reviewer)
=============================================================================
