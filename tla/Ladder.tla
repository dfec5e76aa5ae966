------------------------------- MODULE Ladder -------------------------------
(***************************************************************************)
(* How far a key is believed (packages/identity/src): org attestations and *)
(* revocations, the domain that anchors an org root and the cache in front *)
(* of it, proofs on an external channel, the ladder that grades them, and  *)
(* the two seedless ways back to a lost persona.                           *)
(*                                                                         *)
(* IdentityVerifier.verify reads the clock and the evidence, then awaits   *)
(* the domain's two sources; the domain changes, other calls finish and    *)
(* time passes in between.  A signature is the key that made it; claims    *)
(* and labels are left out, except whether a name may be shown.            *)
(***************************************************************************)
EXTENDS Integers, FiniteSets, FiniteSetsExt

CONSTANTS
  Subject,          \* the key that is graded
  Lost,             \* the persona Subject recovers
  Org,              \* org roots
  Attestation,      \* the attestations that may be presented
  Revocation,       \* the revocations that may be learned
  Publication,      \* what the org's domain may publish
  Channel,          \* external channels
  Call,             \* concurrent calls of verify
  MAX_ANCHOR_TTL_SECONDS,
  MaxTime

None == "none"
Time == 0..MaxTime

ASSUME LadderAssumption ==
  /\ MaxTime \in Nat /\ MAX_ANCHOR_TTL_SECONDS \in Nat \ {0}
  /\ Attestation \subseteq [org : Org, subject : {Subject, Lost},
                            sig : Org \cup {Subject, Lost},
                            issued_at : Time, expires_at : Nat]
  /\ Revocation \subseteq [org : Org, subject : {Subject, Lost},
                           sig : Org \cup {Subject, Lost}, revoked_at : Time]
  /\ Publication \subseteq
       [wellKnown : Org \cup {None, "malformed"}, wellKnownTtl : Nat,
        txt : SUBSET Org, txtTtl : Nat]
  /\ \A p \in Publication : IsFiniteSet(p.txt)

VARIABLES
  clock,
  domain,      \* what the domain publishes now
  held,        \* attestations and revocations the node holds
  cache,       \* DomainAnchorResolver's entry for the domain
  call,        \* where each verify is
  returned,    \* what the step just taken returned, if it returned anything
  named        \* when the domain last named each root (history)

vars == <<clock, domain, held, cache, call, returned, named>>

(* A definition whose name extends the next one's is that definition with  *)
(* a slip in it; nothing but the checks on the properties uses it.         *)
-----------------------------------------------------------------------------
(* attestation.ts                                                          *)

VerifyRevocation(rev) == rev.sig = rev.org

(* The earliest one this org has issued for this subject governs.          *)
EarliestRevocationLatest(revs, org, subject) ==
  LET own == {r.revoked_at : r \in {r \in revs :
                VerifyRevocation(r) /\ r.org = org /\ r.subject = subject}}
  IN IF own = {} THEN {} ELSE {Max(own)}

EarliestRevocation(revs, org, subject) ==
  LET own == {r.revoked_at : r \in {r \in revs :
                VerifyRevocation(r) /\ r.org = org /\ r.subject = subject}}
  IN IF own = {} THEN {} ELSE {Min(own)}

Live(att, t) == att.issued_at <= t /\ t < att.expires_at

VerifyAttestationNowOnly(att, subject, now, signedAt, revs) ==
  /\ att.subject = subject /\ att.sig = att.org /\ Live(att, now)
  /\ \A t \in EarliestRevocation(revs, att.org, att.subject) : signedAt < t

VerifyAttestation(att, subject, now, signedAt, revs) ==
  /\ att.subject = subject /\ att.sig = att.org
  /\ Live(att, now) /\ Live(att, signedAt)
  /\ \A t \in EarliestRevocation(revs, att.org, att.subject) : signedAt < t

Attesting(subject, now, signedAt, evidence) ==
  {att.org : att \in {a \in evidence.attestations :
     VerifyAttestation(a, subject, now, signedAt, evidence.revocations)}}

(* verify takes the first candidate that holds; any of them may be first.  *)
FirstValid(now, signedAt) ==
  LET valid == Attesting(Subject, now, signedAt, held)
  IN IF valid = {} THEN {{}} ELSE {{o} : o \in valid}

-----------------------------------------------------------------------------
(* anchor.ts                                                               *)

TtlToExpiryUncapped(now, ttl) == IF ttl = 0 THEN {} ELSE {now + ttl}
TtlToExpiry(now, ttl) ==
  IF ttl = 0 THEN {} ELSE {now + Min({ttl, MAX_ANCHOR_TTL_SECONDS})}

(* What each source yields: anchors, and the date its answer is good for.  *)
FoundWellKnown(p) == IF p.wellKnown \in Org THEN {p.wellKnown} ELSE {}
FoundTxt(p) == p.txt

(* The two answers of one resolution, begun at a date.  Sources that       *)
(* disagree anchor nothing; one that gave no lifetime makes the whole      *)
(* uncacheable, and otherwise the shortest governs.                        *)
Anchored(wk, txt) ==
  LET roots == wk.found \cup txt.found IN
  IF Cardinality(roots) = 1 THEN roots ELSE {}

ExpiresAt(start, wk, txt) ==
  LET used == {s \in {wk, txt} : s.found # {}}
      dated == {s \in used : TtlToExpiry(start, s.ttl) # {}}
  IN IF used # dated THEN {}
     ELSE {Min(UNION {TtlToExpiry(start, s.ttl) : s \in dated})}

CacheFresh(now) == \E entry \in cache : entry.expiresAt > now

AnchorsOrgRoot(anchor, org) == org \in anchor

-----------------------------------------------------------------------------
(* binding-proof.ts: found on the channel it names, and signed by the      *)
(* persona it binds.  A channel is what normalizeChannelUrl makes of it;   *)
(* None is a url that is refused.                                          *)

VerifyBindingProof(proof, persona, observed) ==
  /\ proof.persona = persona
  /\ None \notin {proof.channel, observed} /\ proof.channel = observed
  /\ proof.sig = proof.persona

BindingProof == [persona : {Subject, Lost}, channel : Channel \cup {None},
                 sig : {Subject, Lost}]

(* What a caller's proof may come to.                                      *)
ProofVerdict == {VerifyBindingProof(proof, Subject, observed) :
                   proof \in BindingProof, observed \in Channel \cup {None}}

-----------------------------------------------------------------------------
(* ladder.ts                                                               *)

VerificationLevel == {"0", "1", "ext", "2", "3"}

LEVEL_RANK == [l \in VerificationLevel |->
  CASE l = "0" -> 0 [] l = "1" -> 1 [] l = "ext" -> 2
    [] l = "2" -> 3 [] l = "3" -> 4]

Achieved(priors, orgs, anchor, proven) ==
  {"0"}
    \cup (IF priors THEN {"1"} ELSE {})
    \cup (IF orgs # {} THEN {"2"} ELSE {})
    \cup (IF \E o \in orgs : AnchorsOrgRoot(anchor, o) THEN {"3"} ELSE {})
    \cup (IF proven THEN {"ext"} ELSE {})

Highest(levels) ==
  CHOOSE l \in levels : \A k \in levels : LEVEL_RANK[k] <= LEVEL_RANK[l]

(* The attestation that is used is one of the valid ones; the name comes   *)
(* with the level or not at all.                                           *)
Grade(priors, orgs, anchor, proven) ==
  LET level == Highest(Achieved(priors, orgs, anchor, proven)) IN
  [level |-> level, named |-> level \in {"2", "3"} /\ orgs # {}]

-----------------------------------------------------------------------------
(* recovery.ts: what each of the paths is worth.                           *)

VerifyRotation(rot) == rot.old # rot.new /\ rot.sig = rot.old

SeedPath(seed) == IF seed = "yes" THEN {"seed"} ELSE {}

OrgPathAnchored(orgs, anchor) == {"3" : o \in orgs}
OrgPath(orgs, anchor) ==
  {IF AnchorsOrgRoot(anchor, o) THEN "3" ELSE "2" : o \in orgs}

(* The lost key's own rotation to the fresh one, published on the channel  *)
(* the lost key had bound.                                                 *)
ChannelPath(rot, proof, observed, publishedAt) ==
  IF /\ VerifyRotation(rot) /\ rot.old = Lost /\ rot.new = Subject
     /\ VerifyBindingProof(proof, Lost, observed)
     /\ publishedAt = proof.channel
  THEN {"ext"} ELSE {}

(* "unrecoverable" has to be earned: the seed was asked for and denied.    *)
RecoveryReason(paths, seed) ==
  IF paths # {} THEN None
  ELSE IF seed = "no" THEN "unrecoverable-by-design" ELSE "seed-not-established"

RecoveryPaths(orgs, anchor, seed, channelPath) ==
  LET paths == SeedPath(seed) \cup OrgPath(orgs, anchor) \cup channelPath
  IN [paths |-> paths, reason |-> RecoveryReason(paths, seed)]

Rotation == [old : {Subject, Lost}, new : {Subject, Lost}, sig : {Subject, Lost}]

(* What a caller's rotation and proof may come to, with who signed them.   *)
ChannelVerdict ==
  {[path |-> ChannelPath(rot, proof, observed, at),
    lostKeySpoke |-> rot.sig = Lost /\ proof.sig = Lost] :
     rot \in Rotation, proof \in BindingProof,
     observed \in Channel \cup {None}, at \in Channel \cup {None}}

-----------------------------------------------------------------------------
Idle == [at |-> "idle"]
Nothing == [kind |-> None]

(* The dates from which some org of these revokes the key, by what is held *)
(* now (history).                                                          *)
RevokedAt(orgs) ==
  {r.revoked_at : r \in {x \in held.revocations :
     x.org \in orgs /\ x.sig = x.org /\ x.subject = Subject}}

(* The roots the domain names now, noted with the date.                    *)
NamedNow(p, t) ==
  [o \in Org |-> IF o \in FoundWellKnown(p) \cup FoundTxt(p)
                 THEN t ELSE named[o]]

Init ==
  /\ clock = 0 /\ domain \in Publication
  /\ held = [attestations |-> {}, revocations |-> {}]
  /\ cache = {} /\ call = [c \in Call |-> Idle] /\ returned = Nothing
  /\ named = [o \in Org |-> IF o \in FoundWellKnown(domain) \cup FoundTxt(domain)
                            THEN 0 ELSE -(MaxTime + 1)]

Publish ==
  \E p \in Publication \ {domain} :
    /\ domain' = p /\ named' = NamedNow(p, clock) /\ returned' = Nothing
    /\ UNCHANGED <<clock, held, cache, call>>

Learn ==
  /\ \/ \E a \in Attestation : held' = [held EXCEPT !.attestations = @ \cup {a}]
     \/ \E r \in Revocation : held' = [held EXCEPT !.revocations = @ \cup {r}]
  /\ held' # held /\ returned' = Nothing
  /\ UNCHANGED <<clock, domain, cache, call, named>>

Tick ==
  /\ clock < MaxTime /\ clock' = clock + 1
  /\ named' = NamedNow(domain, clock + 1) /\ returned' = Nothing
  /\ UNCHANGED <<domain, held, cache, call>>

(* verify returns, after the proof it was given is looked at.              *)
Return(c, request, anchor) ==
  \E priors \in BOOLEAN, proven \in ProofVerdict :
    /\ returned' = [kind |-> "grade", asOf |-> request.now,
                    signedAt |-> request.signedAt, orgs |-> request.orgs,
                    revoked |-> request.revoked,
                    grade |-> Grade(priors, request.orgs, anchor, proven)]
    /\ call' = [call EXCEPT ![c] = Idle]

(* verify begins: the date, the first attestation that holds, and then the *)
(* anchor, from the cache if it is fresh.                                  *)
Verify(c) ==
  \E signedAt \in 0..clock, anchoring \in BOOLEAN :
    \E orgs \in FirstValid(clock, signedAt) :
      LET request == [at |-> "well-known", now |-> clock,
                      signedAt |-> signedAt, orgs |-> orgs,
                      revoked |-> RevokedAt(orgs)] IN
      /\ call[c] = Idle
      /\ \/ /\ ~anchoring /\ Return(c, request, {}) /\ UNCHANGED cache
         \/ /\ anchoring /\ CacheFresh(clock)
            /\ \E entry \in cache : Return(c, request, {entry.root})
            /\ UNCHANGED cache
         \/ /\ anchoring /\ ~CacheFresh(clock) /\ cache' = {}
            /\ call' = [call EXCEPT ![c] = request]
            /\ returned' = Nothing
  /\ UNCHANGED <<clock, domain, held, named>>

(* The first source answers with what it says now, or not at all.          *)
Answer(found, ttl) == [found |-> found, ttl |-> ttl]
Unreachable == Answer({}, 0)

FetchWellKnown(c) ==
  \E wk \in {Answer(FoundWellKnown(domain), domain.wellKnownTtl), Unreachable} :
    /\ call[c].at = "well-known"
    /\ call' = [call EXCEPT ![c] = [request |-> @, at |-> "txt", wk |-> wk]]
    /\ returned' = Nothing
    /\ UNCHANGED <<clock, domain, held, cache, named>>

(* The second source answers; the two are put together, kept if they may   *)
(* be, and verify returns.                                                 *)
ResolveTxt(c) ==
  \E txt \in {Answer(FoundTxt(domain), domain.txtTtl), Unreachable} :
    /\ call[c].at = "txt"
    /\ LET request == call[c].request
           anchor == Anchored(call[c].wk, txt)
           until == ExpiresAt(request.now, call[c].wk, txt) IN
         /\ Return(c, request, anchor)
         /\ cache' = IF anchor = {} \/ until = {} THEN cache
                     ELSE [root : anchor, expiresAt : until]
    /\ UNCHANGED <<clock, domain, held, named>>

Next ==
  \/ Publish \/ Learn \/ Tick
  \/ \E c \in Call : Verify(c) \/ FetchWellKnown(c) \/ ResolveTxt(c)

Spec == Init /\ [][Next]_vars

-----------------------------------------------------------------------------
Graded == returned.kind = "grade"

(* A key is shown as domain-verified only on a root the domain itself      *)
(* named no longer ago than the ceiling on a cached answer, whatever       *)
(* lifetime the zone asks for, however calls overlap, and though the two   *)
(* sources are read at different moments.                                  *)
AnchorIsRecent ==
  Graded /\ returned.grade.level = "3" =>
    \E o \in returned.orgs : named[o] > returned.asOf - MAX_ANCHOR_TTL_SECONDS

(* A name is shown only with an org behind it, however long ago the        *)
(* verdict on the attestation was reached when the anchor answers: some    *)
(* org itself signed for this key, and the attestation was alive both when *)
(* the evidence was signed and when it was judged.                         *)
NameIsEarned ==
  Graded /\ returned.grade.named =>
    \E a \in held.attestations :
      /\ a.org \in returned.orgs /\ a.sig = a.org /\ a.subject = Subject
      /\ a.issued_at <= returned.signedAt /\ returned.asOf < a.expires_at

(* A revocation the node held when a verification began is never           *)
(* outweighed, however long its sources take to answer and whatever other  *)
(* calls return meanwhile: nothing signed from the date it names on is     *)
(* shown as attested by that org, not even on a newer attestation or after *)
(* a second, later revocation.  One learned while a verification waits for *)
(* its sources does not reach it (IdentityVerifier.verify).                *)
RevokedStaysRevoked ==
  Graded => \A t \in returned.revoked : returned.signedAt < t

(* Recovery promises no more than the evidence is worth: an org path comes *)
(* at the level the ladder gives the fresh key on the same evidence, a     *)
(* channel path only when the lost key itself made both statements, and    *)
(* "unrecoverable" is said only to someone who has no seed and no path.    *)
RecoveryMatchesLadder ==
  \A anchor \in {{}} \cup {{o} : o \in Org}, seed \in {"yes", "no", "unasked"},
     channel \in ChannelVerdict :
    \A orgs \in FirstValid(clock, clock) :
      LET r == RecoveryPaths(orgs, anchor, seed, channel.path)
          g == Grade(FALSE, orgs, anchor, FALSE) IN
      /\ \A l \in r.paths \cap {"2", "3"} : g.level = l
      /\ "ext" \in r.paths => channel.lostKeySpoke
      /\ r.reason = "unrecoverable-by-design" =>
           r.paths = {} /\ seed = "no" /\ ~g.named
=============================================================================
