------------------------------ MODULE Evidence ------------------------------
(***************************************************************************)
(* The closure-evidence adapters (packages/adapters/src): what they make   *)
(* of the evidence a commitment names, and when an edge is verifiable.     *)
(*                                                                         *)
(* A reference is its kind, whether its text fits the grammar of refs.ts,  *)
(* and what the world holds where it points: "absent", "unreadable" (not a *)
(* CI check run, no regular file, outside the root), "failing" (a failed   *)
(* run, an unmerged head, another digest) or "holding".                    *)
(***************************************************************************)
EXTENDS Integers

RefKind == {"envelope", "commit", "file", "url"}
Finding == {"absent", "unreadable", "failing", "holding"}
EvidenceRef == [kind : RefKind, wellFormed : BOOLEAN, found : Finding]

(* The three adapters; nothing observes a url.                             *)
OBSERVABLE_REF_KINDS == {"envelope", "commit", "file"}
AdapterFor(kind) == kind \in OBSERVABLE_REF_KINDS

NotVerifiable == [verifiable |-> FALSE, satisfied |-> FALSE]
Observed(satisfied) == [verifiable |-> TRUE, satisfied |-> satisfied]

(* Absent is an observation of a file or a commit, and none of a signal    *)
(* that never arrived.                                                     *)
ObserveCi(ref) ==
  IF ref.found \in {"absent", "unreadable"} THEN NotVerifiable
  ELSE Observed(ref.found = "holding")

ObserveGit(ref) == Observed(ref.found = "holding")

ObserveFile(ref) ==
  IF ref.found = "unreadable" THEN NotVerifiable
  ELSE Observed(ref.found = "holding")

(* capable: the parts of the world the caller gave the adapters.           *)
Observe(ref, capable) ==
  IF ~ref.wellFormed \/ ref.kind \notin capable THEN NotVerifiable
  ELSE CASE ref.kind = "envelope" -> ObserveCi(ref)
         [] ref.kind = "commit" -> ObserveGit(ref)
         [] ref.kind = "file" -> ObserveFile(ref)

(* An edge here is its closure policy and, for a collective one, how it is *)
(* to be fulfilled.                                                        *)
CollectiveDecompositionValid(edge) ==
  edge.collective =>
    \/ edge.coordinator
    \/ /\ edge.children > 0
       /\ edge.policy = "k-of-n" => edge.k > 0 /\ edge.k <= edge.children

(* A reference nothing speaks to is skipped; one observation at least, and *)
(* all observations must hold.                                             *)
VerifyCommitment(refs, edge, capable) ==
  LET observed == {o \in {Observe(ref, capable) :
                            ref \in {r \in refs : AdapterFor(r.kind)}} :
                     o.verifiable}
  IN  IF ~CollectiveDecompositionValid(edge) \/ observed = {}
      THEN NotVerifiable
      ELSE Observed(\A o \in observed : o.satisfied)

IsEdgeVerifiable(edge, outcome) ==
  /\ CollectiveDecompositionValid(edge)
  /\ edge.closure_policy = "on-evidence" => outcome.verifiable
=============================================================================
