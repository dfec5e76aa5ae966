---------------------------- MODULE Ladder_proofs ----------------------------
(***************************************************************************)
(* Theorems about the identity ladder, for every set of orgs, attestations *)
(* and revocations, whatever a domain publishes and however many calls of  *)
(* verify overlap.                                                         *)
(***************************************************************************)
EXTENDS Ladder, FiniteSetTheorems, TLAPS

-----------------------------------------------------------------------------
(* Dates.                                                                  *)

(* A set of naturals that is not empty has a least member, and Min is it.  *)
LEMMA MinIsLeast ==
  ASSUME NEW T, T \subseteq Nat, T # {}
  PROVE  Min(T) \in T /\ \A m \in T : Min(T) <= m
<1>1. IsWellFoundedOn(OpToRel(<, Nat), Nat)
  BY NatLessThanWellFounded, Zenon
<1>2. PICK n \in T : \A m \in T : ~(<<m, n>> \in OpToRel(<, Nat))
  BY <1>1, WFMin, Zenon
<1>3. \A m \in T : ~(m < n)
  BY <1>2, Zenon DEF OpToRel
<1>4. \E x \in T : \A y \in T : x <= y
  BY <1>3
<1>5. QED
  BY <1>4 DEF Min

(* ttlToExpiry gives no date, or one within the ceiling.                   *)
LEMMA TtlWithinCeiling ==
  ASSUME NEW start \in Nat, NEW ttl \in Nat
  PROVE  /\ TtlToExpiry(start, ttl) \subseteq Nat
         /\ \A t \in TtlToExpiry(start, ttl) : t <= start + MAX_ANCHOR_TTL_SECONDS
<1>1. {ttl, MAX_ANCHOR_TTL_SECONDS} \subseteq Nat
  BY LadderAssumption
<1>2. /\ Min({ttl, MAX_ANCHOR_TTL_SECONDS}) \in Nat
      /\ Min({ttl, MAX_ANCHOR_TTL_SECONDS}) <= MAX_ANCHOR_TTL_SECONDS
  BY <1>1, MinIsLeast
<1>3. QED
  BY <1>2, LadderAssumption DEF TtlToExpiry

(* An answer of a source: finitely many roots, and for how long.           *)
Source == {s \in [found : SUBSET Org, ttl : Nat] : IsFiniteSet(s.found)}

(* So does a whole resolution that found something.                        *)
LEMMA ExpiryWithinCeiling ==
  ASSUME NEW start \in Nat, NEW wk \in Source, NEW txt \in Source,
         wk.found # {} \/ txt.found # {}
  PROVE  /\ ExpiresAt(start, wk, txt) \subseteq Nat
         /\ \A t \in ExpiresAt(start, wk, txt) : t <= start + MAX_ANCHOR_TTL_SECONDS
         /\ \A t, u \in ExpiresAt(start, wk, txt) : t = u
<1> DEFINE used == {s \in {wk, txt} : s.found # {}}
           dated == {s \in used : TtlToExpiry(start, s.ttl) # {}}
           U == UNION {TtlToExpiry(start, s.ttl) : s \in dated}
<1>1. ExpiresAt(start, wk, txt) = IF used # dated THEN {} ELSE {Min(U)}
  BY DEF ExpiresAt
<1>2. CASE used # dated
  BY <1>1, <1>2
<1>3. CASE used = dated
  <2>1. \A s \in dated : s.ttl \in Nat
    BY DEF Source
  <2>2. U \subseteq Nat /\ \A t \in U : t <= start + MAX_ANCHOR_TTL_SECONDS
    BY <2>1, TtlWithinCeiling
  <2>3. used # {}
    OBVIOUS
  <2>4. U # {}
    BY <1>3, <2>3
  <2>5. Min(U) \in U
    BY <2>2, <2>4, MinIsLeast
  <2>6. QED
    BY <1>1, <1>3, <2>2, <2>5
<1>4. QED
  BY <1>2, <1>3

(* Sources that agree anchor one root, and one of them named it.           *)
LEMMA AnchoredIsFound ==
  ASSUME NEW wk \in Source, NEW txt \in Source
  PROVE  /\ Anchored(wk, txt) \subseteq wk.found \cup txt.found
         /\ \A o, n \in Anchored(wk, txt) : o = n
<1> DEFINE roots == wk.found \cup txt.found
<1>1. CASE Cardinality(roots) = 1
  <2>1. PICK o : roots = {o}
    BY <1>1, FS_Union, FS_Singleton DEF Source
  <2>2. QED
    BY <1>1, <2>1 DEF Anchored
<1>2. CASE Cardinality(roots) # 1
  BY <1>2 DEF Anchored
<1>3. QED
  BY <1>1, <1>2

-----------------------------------------------------------------------------
(* Levels.                                                                 *)

(* The highest of some levels is one of them, and no other outranks it.    *)
LEMMA HighestIsOne ==
  ASSUME NEW levels \in SUBSET VerificationLevel, levels # {}
  PROVE  /\ Highest(levels) \in levels
         /\ \A k \in levels : LEVEL_RANK[k] <= LEVEL_RANK[Highest(levels)]
<1>0. /\ LEVEL_RANK["0"] = 0 /\ LEVEL_RANK["1"] = 1 /\ LEVEL_RANK["ext"] = 2
      /\ LEVEL_RANK["2"] = 3 /\ LEVEL_RANK["3"] = 4
  BY DEF LEVEL_RANK, VerificationLevel
<1>1. \E l \in levels : \A k \in levels : LEVEL_RANK[k] <= LEVEL_RANK[l]
  <2> USE DEF VerificationLevel
  <2>1. CASE "3" \in levels
    BY <1>0, <2>1
  <2>2. CASE "3" \notin levels /\ "2" \in levels
    BY <1>0, <2>2
  <2>3. CASE levels \cap {"2", "3"} = {} /\ "ext" \in levels
    BY <1>0, <2>3
  <2>4. CASE levels \cap {"2", "3", "ext"} = {} /\ "1" \in levels
    BY <1>0, <2>4
  <2>5. CASE levels = {"0"}
    BY <1>0, <2>5
  <2>6. QED
    BY <2>1, <2>2, <2>3, <2>4, <2>5
<1>2. QED
  BY <1>1 DEF Highest

(* What a grade says of the evidence it was given.                         *)
LEMMA GradeFacts ==
  ASSUME NEW priors \in BOOLEAN, NEW orgs, NEW anchor, NEW proven \in BOOLEAN
  PROVE  LET g == Grade(priors, orgs, anchor, proven) IN
         /\ g.level = "3" => orgs \cap anchor # {}
         /\ g.named => orgs # {}
         /\ ~priors /\ ~proven =>
              /\ orgs \cap anchor # {} => g.level = "3"
              /\ orgs \cap anchor = {} /\ orgs # {} => g.level = "2"
<1> DEFINE levels == Achieved(priors, orgs, anchor, proven)
           g == Grade(priors, orgs, anchor, proven)
<1>0. /\ LEVEL_RANK["0"] = 0 /\ LEVEL_RANK["2"] = 3 /\ LEVEL_RANK["3"] = 4
  BY DEF LEVEL_RANK, VerificationLevel
<1>1. levels \in SUBSET VerificationLevel /\ levels # {}
  BY DEF Achieved, VerificationLevel
<1>2. g.level \in levels /\ \A k \in levels : LEVEL_RANK[k] <= LEVEL_RANK[g.level]
  BY <1>1, HighestIsOne DEF Grade
<1>3. g.named => orgs # {}
  BY DEF Grade
<1>4. /\ "3" \in levels <=> orgs \cap anchor # {}
      /\ "2" \in levels <=> orgs # {}
      /\ ~priors /\ ~proven => levels \subseteq {"0", "2", "3"}
  BY DEF Achieved, AnchorsOrgRoot
<1>5. ASSUME ~priors, ~proven, orgs \cap anchor # {} PROVE g.level = "3"
  BY <1>0, <1>2, <1>4, <1>5
<1>6. ASSUME ~priors, ~proven, orgs \cap anchor = {}, orgs # {} PROVE g.level = "2"
  BY <1>0, <1>2, <1>4, <1>6
<1>7. QED
  BY <1>2, <1>3, <1>4, <1>5, <1>6

-----------------------------------------------------------------------------
(* Calls that overlap.                                                     *)

Request == [at : {"well-known"}, now : Nat, signedAt : Nat, orgs : SUBSET Org,
            revoked : SUBSET Nat]
Awaiting == [request : Request, at : {"txt"}, wk : Source]

Types ==
  /\ clock \in Nat /\ domain \in Publication
  /\ held \in [attestations : SUBSET Attestation, revocations : SUBSET Revocation]
  /\ cache \subseteq [root : Org, expiresAt : Nat]
  /\ call \in [Call -> {Idle} \cup Request \cup Awaiting]
  /\ named \in [Org -> Int]

Published(p) == FoundWellKnown(p) \cup FoundTxt(p)

(* What the domain names, it names now.                                    *)
NamedInv ==
  \A o \in Org : named[o] <= clock /\ (o \in Published(domain) => named[o] = clock)

(* The cache holds one answer, which ends within the ceiling of the last   *)
(* moment its root was named.                                              *)
CacheInv ==
  /\ \A e \in cache : e.expiresAt <= named[e.root] + MAX_ANCHOR_TTL_SECONDS
  /\ \A e, f \in cache : e = f

(* The orgs of a call under way had signed for the key when it began, and  *)
(* what they then revoked it from is after the evidence was signed.        *)
Earned(r) ==
  /\ \A o \in r.orgs : \E a \in held.attestations :
       /\ a.org = o /\ a.sig = a.org /\ a.subject = Subject
       /\ a.issued_at <= r.signedAt /\ r.now < a.expires_at
  /\ \A t \in r.revoked : r.signedAt < t

(* What the first source answered was named since the call began.          *)
CallInv ==
  \A c \in Call :
    /\ call[c].at = "well-known" => Earned(call[c]) /\ call[c].now <= clock
    /\ call[c].at = "txt" =>
         /\ Earned(call[c].request) /\ call[c].request.now <= clock
         /\ \A o \in call[c].wk.found : call[c].request.now <= named[o]

LadderInv ==
  /\ Types /\ NamedInv /\ CacheInv /\ CallInv
  /\ AnchorIsRecent /\ NameIsEarned /\ RevokedStaysRevoked

(* A call is in one of three places.                                       *)
LEMMA CallShape ==
  ASSUME Types, NEW c \in Call
  PROVE  /\ call[c].at = "well-known" => call[c] \in Request
         /\ call[c].at = "txt" => call[c] \in Awaiting
         /\ Idle.at = "idle"
BY DEF Types, Request, Awaiting, Idle

(* An org whose attestation holds revoked the key, if ever, only from      *)
(* after the evidence was signed: whichever revocation is held, the        *)
(* earliest is no later.                                                   *)
LEMMA AttestingIsUnrevoked ==
  ASSUME Types, NEW signedAt \in Nat, NEW now,
         NEW r \in held.revocations, r.sig = r.org, r.subject = Subject,
         r.org \in Attesting(Subject, now, signedAt, held)
  PROVE  signedAt < r.revoked_at
<1>1. PICK a \in held.attestations :
        /\ a.org = r.org
        /\ VerifyAttestation(a, Subject, now, signedAt, held.revocations)
  BY DEF Attesting
<1> DEFINE own == {s.revoked_at : s \in {s \in held.revocations :
              VerifyRevocation(s) /\ s.org = a.org /\ s.subject = a.subject}}
<1>2. \A s \in held.revocations : s.revoked_at \in Nat
  BY LadderAssumption DEF Types, Time
<1>3. r.revoked_at \in own /\ own \subseteq Nat
  BY <1>1, <1>2 DEF VerifyRevocation, VerifyAttestation
<1>4. Min(own) \in Nat /\ Min(own) <= r.revoked_at
  <2> HIDE DEF own
  <2>1. QED
    BY <1>3, MinIsLeast
<1>5. Min(own) \in EarliestRevocation(held.revocations, a.org, a.subject)
  BY <1>3 DEF EarliestRevocation
<1>6. signedAt < Min(own)
  BY <1>1, <1>5 DEF VerifyAttestation
<1>7. QED
  BY <1>2, <1>4, <1>6

(* The verdict a call begins with is of orgs that signed for the key, and  *)
(* had not revoked it.                                                     *)
LEMMA FirstValidEarned ==
  ASSUME Types, NEW now \in Nat, NEW signedAt \in Nat,
         NEW orgs \in FirstValid(now, signedAt)
  PROVE  /\ orgs \subseteq Org
         /\ RevokedAt(orgs) \subseteq Nat
         /\ Earned([at |-> "well-known", now |-> now, signedAt |-> signedAt,
                    orgs |-> orgs, revoked |-> RevokedAt(orgs)])
<1>1. orgs \subseteq Attesting(Subject, now, signedAt, held)
  BY DEF FirstValid
<1>2. orgs \subseteq Org
  BY <1>1, LadderAssumption DEF Attesting, Types
<1>3. RevokedAt(orgs) \subseteq Nat
  BY LadderAssumption DEF RevokedAt, Types, Time
<1>4. ASSUME NEW o \in orgs
      PROVE  \E a \in held.attestations :
               /\ a.org = o /\ a.sig = a.org /\ a.subject = Subject
               /\ a.issued_at <= signedAt /\ now < a.expires_at
  <2>1. PICK a \in held.attestations :
          /\ a.org = o
          /\ VerifyAttestation(a, Subject, now, signedAt, held.revocations)
    BY <1>1, <1>4 DEF Attesting
  <2>2. QED
    BY <2>1, LadderAssumption DEF VerifyAttestation, Live, Types
<1>5. ASSUME NEW t \in RevokedAt(orgs) PROVE signedAt < t
  <2>1. PICK r \in held.revocations :
          r.org \in orgs /\ r.sig = r.org /\ r.subject = Subject /\ t = r.revoked_at
    BY <1>5 DEF RevokedAt
  <2>2. QED
    BY <1>1, <2>1, AttestingIsUnrevoked
<1>6. QED
  BY <1>2, <1>3, <1>4, <1>5 DEF Earned

(* A call that returns on earned orgs, with an anchor named recently       *)
(* enough, returns a grade as the properties ask.                          *)
LEMMA ReturnSound ==
  ASSUME Types, NEW c \in Call, NEW r \in Request, Earned(r),
         NEW anchor \in SUBSET Org,
         \A o \in anchor : named[o] > r.now - MAX_ANCHOR_TTL_SECONDS,
         Return(c, r, anchor), held' = held, named' = named
  PROVE  /\ AnchorIsRecent' /\ NameIsEarned' /\ RevokedStaysRevoked'
         /\ call' = [call EXCEPT ![c] = Idle]
<1>1. ASSUME NEW v \in ProofVerdict PROVE v \in BOOLEAN
  <2>1. PICK proof \in BindingProof, observed \in Channel \cup {None} :
          v = VerifyBindingProof(proof, Subject, observed)
    BY DEF ProofVerdict
  <2>2. QED
    BY <2>1, Zenon DEF VerifyBindingProof
<1>2. PICK priors \in BOOLEAN, proven \in BOOLEAN :
        returned' = [kind |-> "grade", asOf |-> r.now,
                     signedAt |-> r.signedAt, orgs |-> r.orgs,
                     revoked |-> r.revoked,
                     grade |-> Grade(priors, r.orgs, anchor, proven)]
  BY <1>1 DEF Return
<1> DEFINE g == Grade(priors, r.orgs, anchor, proven)
<1>3. /\ g.level = "3" => r.orgs \cap anchor # {}
      /\ g.named => r.orgs # {}
  BY GradeFacts
<1>4. /\ returned'.grade = g /\ returned'.orgs = r.orgs
      /\ returned'.asOf = r.now /\ returned'.signedAt = r.signedAt
      /\ returned'.revoked = r.revoked
  BY <1>2
<1> HIDE DEF g
<1>5. AnchorIsRecent'
  BY <1>3, <1>4 DEF AnchorIsRecent
<1>6. NameIsEarned'
  BY <1>3, <1>4 DEF NameIsEarned, Earned
<1>7. RevokedStaysRevoked'
  BY <1>4 DEF RevokedStaysRevoked, Earned
<1>8. QED
  BY <1>5, <1>6, <1>7 DEF Return

(* A step that returns nothing owes nothing.                               *)
LEMMA NothingReturned ==
  ASSUME returned' = Nothing
  PROVE  AnchorIsRecent' /\ NameIsEarned' /\ RevokedStaysRevoked'
BY DEF Nothing, None, Graded, AnchorIsRecent, NameIsEarned, RevokedStaysRevoked

(* The roots found in a publication are org roots, finitely many.          *)
LEMMA AnswersAreSources ==
  ASSUME NEW p \in Publication
  PROVE  /\ Answer(FoundWellKnown(p), p.wellKnownTtl) \in Source
         /\ Answer(FoundTxt(p), p.txtTtl) \in Source
         /\ Unreachable \in Source
         /\ Published(p) \subseteq Org
<1>1. /\ FoundWellKnown(p) \subseteq Org /\ FoundTxt(p) \subseteq Org
      /\ p.wellKnownTtl \in Nat /\ p.txtTtl \in Nat
      /\ IsFiniteSet(FoundTxt(p))
  BY LadderAssumption DEF FoundWellKnown, FoundTxt
<1>2. IsFiniteSet(FoundWellKnown(p)) /\ IsFiniteSet({})
  BY FS_Singleton, FS_EmptySet DEF FoundWellKnown
<1>3. QED
  BY <1>1, <1>2 DEF Source, Answer, Unreachable, Published

(* The domain changes what it publishes, or a day passes: what was named   *)
(* is named no earlier than it was.                                        *)
LEMMA NamedLater ==
  ASSUME Types, NamedInv, CacheInv, CallInv, NEW p \in Publication, NEW t \in Nat,
         clock <= t, clock' = t, domain' = p, named' = NamedNow(p, t),
         held' = held, cache' = cache, call' = call
  PROVE  Types' /\ NamedInv' /\ CacheInv' /\ CallInv'
<1>1. \A o \in Org : named'[o] = IF o \in Published(p) THEN t ELSE named[o]
  BY DEF NamedNow, Published
<1>2. Types'
  BY DEF Types, NamedNow
<1>3. NamedInv'
  BY <1>1, <1>2 DEF NamedInv, Types
<1>4. \A o \in Org : named[o] <= named'[o] /\ named[o] \in Int /\ named'[o] \in Int
  BY <1>1, <1>2 DEF NamedInv, Types
<1>5. CacheInv'
  BY <1>4, LadderAssumption DEF CacheInv, Types
<1>6. CallInv'
  <2>0. SUFFICES ASSUME NEW c \in Call
                 PROVE  /\ call[c].at = "well-known" =>
                             Earned(call[c]) /\ call[c].now <= t
                        /\ call[c].at = "txt" =>
                             /\ Earned(call[c].request) /\ call[c].request.now <= t
                             /\ \A o \in call[c].wk.found :
                                  call[c].request.now <= named'[o]
    BY DEF CallInv, Earned
  <2>1. CASE call[c].at = "well-known"
    BY <2>1, CallShape DEF CallInv, Types, Request
  <2>2. CASE call[c].at = "txt"
    <3>1. /\ call[c].request.now \in Nat /\ call[c].wk.found \subseteq Org
      BY <2>2, CallShape DEF Awaiting, Request, Source
    <3>2. QED
      BY <1>4, <2>2, <3>1 DEF CallInv, Types
  <2>3. QED
    BY <2>1, <2>2
<1>7. QED
  BY <1>2, <1>3, <1>5, <1>6

(* More evidence takes none away.                                          *)
LEMMA LearnKeeps ==
  ASSUME Types, NamedInv, CacheInv, CallInv, Learn
  PROVE  Types' /\ NamedInv' /\ CacheInv' /\ CallInv'
<1>1. /\ clock' = clock /\ domain' = domain /\ cache' = cache /\ call' = call
      /\ named' = named
      /\ held.attestations \subseteq held'.attestations
      /\ held' \in [attestations : SUBSET Attestation,
                    revocations : SUBSET Revocation]
  BY DEF Learn, Types
<1>2. \A r : Earned(r) => Earned(r)'
  BY <1>1 DEF Earned
<1>3. QED
  BY <1>1, <1>2 DEF Types, NamedInv, CacheInv, CallInv, Published

(* verify begins, and returns at once or goes to the domain.               *)
LEMMA VerifyKeeps ==
  ASSUME LadderInv, NEW c \in Call, Verify(c)
  PROVE  LadderInv'
<1>0. /\ Types /\ NamedInv /\ CacheInv /\ CallInv /\ clock \in Nat
      /\ clock' = clock /\ domain' = domain /\ held' = held /\ named' = named
  BY DEF LadderInv, Types, Verify
<1>1. PICK signedAt \in 0..clock, anchoring \in BOOLEAN :
      \E orgs \in FirstValid(clock, signedAt) :
      LET request == [at |-> "well-known", now |-> clock,
                      signedAt |-> signedAt, orgs |-> orgs,
                      revoked |-> RevokedAt(orgs)] IN
      /\ call[c] = Idle
      /\ \/ /\ ~anchoring /\ Return(c, request, {}) /\ UNCHANGED cache
         \/ /\ anchoring /\ CacheFresh(clock)
            /\ \E entry \in cache : Return(c, request, {entry.root})
            /\ UNCHANGED cache
         \/ /\ anchoring /\ ~CacheFresh(clock) /\ cache' = {}
            /\ call' = [call EXCEPT ![c] = request]
            /\ returned' = Nothing
  BY DEF Verify
<1>2. PICK orgs \in FirstValid(clock, signedAt) :
      LET request == [at |-> "well-known", now |-> clock,
                      signedAt |-> signedAt, orgs |-> orgs,
                      revoked |-> RevokedAt(orgs)] IN
      /\ call[c] = Idle
      /\ \/ /\ ~anchoring /\ Return(c, request, {}) /\ UNCHANGED cache
         \/ /\ anchoring /\ CacheFresh(clock)
            /\ \E entry \in cache : Return(c, request, {entry.root})
            /\ UNCHANGED cache
         \/ /\ anchoring /\ ~CacheFresh(clock) /\ cache' = {}
            /\ call' = [call EXCEPT ![c] = request]
            /\ returned' = Nothing
  BY <1>1
<1> DEFINE request == [at |-> "well-known", now |-> clock,
                       signedAt |-> signedAt, orgs |-> orgs,
                       revoked |-> RevokedAt(orgs)]
<1>3. request \in Request /\ Earned(request) /\ request.now = clock
      /\ request.at = "well-known"
  BY <1>0, FirstValidEarned DEF Request
<1> HIDE DEF request
<1>4. CASE cache' = cache /\ Return(c, request, {})
  <2>1. /\ AnchorIsRecent' /\ NameIsEarned' /\ RevokedStaysRevoked'
        /\ call' = [call EXCEPT ![c] = Idle]
    BY <1>0, <1>3, <1>4, ReturnSound
  <2>2. QED
    BY <1>0, <1>4, <2>1
    DEF LadderInv, Types, NamedInv, CacheInv, CallInv, Published, Earned, Idle
<1>5. ASSUME CacheFresh(clock), cache' = cache, NEW entry \in cache,
             Return(c, request, {entry.root})
      PROVE  LadderInv'
  <2>1. entry.expiresAt > clock
    BY <1>0, <1>5 DEF CacheFresh, CacheInv
  <2>2. /\ entry.root \in Org /\ entry.expiresAt \in Nat /\ named[entry.root] \in Int
        /\ entry.expiresAt <= named[entry.root] + MAX_ANCHOR_TTL_SECONDS
    BY <1>0, <1>5 DEF CacheInv, Types
  <2>3. named[entry.root] > request.now - MAX_ANCHOR_TTL_SECONDS
    BY <1>0, <1>3, <2>1, <2>2, LadderAssumption
  <2>4. /\ AnchorIsRecent' /\ NameIsEarned' /\ RevokedStaysRevoked'
        /\ call' = [call EXCEPT ![c] = Idle]
    BY <1>0, <1>3, <1>5, <2>2, <2>3, ReturnSound
  <2>5. QED
    BY <1>0, <1>5, <2>4
    DEF LadderInv, Types, NamedInv, CacheInv, CallInv, Published, Earned, Idle
<1>6. CASE /\ cache' = {} /\ call' = [call EXCEPT ![c] = request]
           /\ returned' = Nothing
  <2>1. Types' /\ NamedInv' /\ CacheInv'
    BY <1>0, <1>3, <1>6 DEF Types, NamedInv, CacheInv, Published
  <2>2. CallInv'
    <3>1. \A r : Earned(r)' <=> Earned(r)
      BY <1>0 DEF Earned
    <3>2. ASSUME NEW d \in Call
          PROVE  /\ call'[d].at = "well-known" =>
                      Earned(call'[d]) /\ call'[d].now <= clock
                 /\ call'[d].at = "txt" =>
                      /\ Earned(call'[d].request) /\ call'[d].request.now <= clock
                      /\ \A o \in call'[d].wk.found :
                           call'[d].request.now <= named[o]
      <4>1. CASE d = c
        BY <1>0, <1>3, <1>6, <4>1 DEF Types
      <4>2. CASE d # c
        BY <1>0, <1>6, <4>2 DEF Types, CallInv
      <4>3. QED
        BY <4>1, <4>2
    <3>3. QED
      BY <1>0, <3>2 DEF CallInv, Earned
  <2>3. QED
    BY <1>6, <2>1, <2>2, NothingReturned DEF LadderInv
<1>7. QED
  BY <1>2, <1>4, <1>5, <1>6 DEF request

(* The first answer arrives.                                               *)
LEMMA FetchKeeps ==
  ASSUME LadderInv, NEW c \in Call, FetchWellKnown(c)
  PROVE  LadderInv'
<1>0. /\ Types /\ NamedInv /\ CacheInv /\ CallInv /\ clock \in Nat
      /\ domain \in Publication
      /\ clock' = clock /\ domain' = domain /\ held' = held /\ named' = named
      /\ cache' = cache /\ returned' = Nothing
  BY DEF LadderInv, Types, FetchWellKnown
<1>1. PICK wk \in {Answer(FoundWellKnown(domain), domain.wellKnownTtl), Unreachable} :
        /\ call[c].at = "well-known"
        /\ call' = [call EXCEPT ![c] = [request |-> call[c], at |-> "txt", wk |-> wk]]
  BY <1>0 DEF FetchWellKnown, Types
<1>2. wk \in Source /\ \A o \in wk.found : o \in Org /\ named[o] = clock
  <2>1. wk \in Source /\ Published(domain) \subseteq Org
    BY <1>0, AnswersAreSources
  <2>2. wk.found \subseteq Published(domain)
    BY DEF Answer, Unreachable, Published
  <2>3. QED
    BY <1>0, <2>1, <2>2 DEF NamedInv
<1>3. /\ call[c] \in Request /\ Earned(call[c]) /\ call[c].now <= clock
      /\ call[c].now \in Nat
  BY <1>0, <1>1, CallShape DEF CallInv, Request
<1>4. Types'
  BY <1>0, <1>1, <1>2, <1>3 DEF Types, Awaiting
<1>5. NamedInv' /\ CacheInv'
  BY <1>0 DEF NamedInv, CacheInv, Published
<1>6. CallInv'
  <2>1. ASSUME NEW d \in Call
        PROVE  /\ call'[d].at = "well-known" =>
                    Earned(call'[d]) /\ call'[d].now <= clock
               /\ call'[d].at = "txt" =>
                    /\ Earned(call'[d].request) /\ call'[d].request.now <= clock
                    /\ \A o \in call'[d].wk.found :
                         call'[d].request.now <= named[o]
    <3>1. CASE d = c
      <4>1. call'[c] = [request |-> call[c], at |-> "txt", wk |-> wk]
        BY <1>0, <1>1 DEF Types
      <4>2. QED
        BY <1>2, <1>3, <3>1, <4>1
    <3>2. CASE d # c
      BY <1>0, <1>1, <3>2 DEF Types, CallInv
    <3>3. QED
      BY <3>1, <3>2
  <2>2. QED
    BY <1>0, <2>1 DEF CallInv, Earned
<1>7. QED
  BY <1>0, <1>4, <1>5, <1>6, NothingReturned DEF LadderInv

(* The second answer arrives, and verify returns.                          *)
LEMMA ResolveKeeps ==
  ASSUME LadderInv, NEW c \in Call, ResolveTxt(c)
  PROVE  LadderInv'
<1>0. /\ Types /\ NamedInv /\ CacheInv /\ CallInv /\ clock \in Nat
      /\ domain \in Publication
      /\ clock' = clock /\ domain' = domain /\ held' = held /\ named' = named
  BY DEF LadderInv, Types, ResolveTxt
<1> DEFINE request == call[c].request
           wk == call[c].wk
<1>1. PICK txt \in {Answer(FoundTxt(domain), domain.txtTtl), Unreachable} :
        /\ call[c].at = "txt"
        /\ Return(c, request, Anchored(wk, txt))
        /\ cache' = IF Anchored(wk, txt) = {} \/ ExpiresAt(request.now, wk, txt) = {}
                    THEN cache
                    ELSE [root : Anchored(wk, txt),
                          expiresAt : ExpiresAt(request.now, wk, txt)]
  BY DEF ResolveTxt
<1>2. txt \in Source /\ \A o \in txt.found : o \in Org /\ named[o] = clock
  <2>1. txt \in Source /\ Published(domain) \subseteq Org
    BY <1>0, AnswersAreSources
  <2>2. txt.found \subseteq Published(domain)
    BY DEF Answer, Unreachable, Published
  <2>3. QED
    BY <1>0, <2>1, <2>2 DEF NamedInv
<1>3. /\ request \in Request /\ wk \in Source /\ Earned(request)
      /\ request.now <= clock /\ request.now \in Nat
      /\ \A o \in wk.found : request.now <= named[o]
  BY <1>0, <1>1, CallShape DEF CallInv, Request, Awaiting
<1> DEFINE anchor == Anchored(wk, txt)
           until == ExpiresAt(request.now, wk, txt)
<1>4. /\ anchor \subseteq Org
      /\ anchor \subseteq wk.found \cup txt.found
      /\ \A o, n \in anchor : o = n
      /\ \A o \in anchor : request.now <= named[o] /\ named[o] \in Int
  BY <1>0, <1>2, <1>3, AnchoredIsFound DEF Source, Types
<1>5. anchor # {} => /\ until \subseteq Nat
                     /\ \A t \in until : t <= request.now + MAX_ANCHOR_TTL_SECONDS
                     /\ \A t, u \in until : t = u
  <2>1. anchor # {} => wk.found # {} \/ txt.found # {}
    BY <1>4
  <2>2. QED
    BY <1>2, <1>3, <2>1, ExpiryWithinCeiling
<1> HIDE DEF request, wk, anchor, until
<1>6. /\ AnchorIsRecent' /\ NameIsEarned' /\ RevokedStaysRevoked'
      /\ call' = [call EXCEPT ![c] = Idle]
  <2>1. \A o \in anchor : named[o] > request.now - MAX_ANCHOR_TTL_SECONDS
    BY <1>3, <1>4, LadderAssumption
  <2>2. QED
    BY <1>0, <1>1, <1>3, <1>4, <2>1, ReturnSound DEF anchor
<1>7. cache' \subseteq [root : Org, expiresAt : Nat] /\ CacheInv'
  <2>1. CASE cache' = cache
    BY <1>0, <2>1 DEF CacheInv, Types
  <2>2. CASE anchor # {} /\ cache' = [root : anchor, expiresAt : until]
    <3>1. cache' \subseteq [root : Org, expiresAt : Nat]
      BY <1>4, <1>5, <2>2
    <3>2. ASSUME NEW e \in cache'
          PROVE  e.expiresAt <= named[e.root] + MAX_ANCHOR_TTL_SECONDS
      BY <1>3, <1>4, <1>5, <2>2, <3>2, LadderAssumption
    <3>3. \A e, f \in cache' : e = f
      BY <1>4, <1>5, <2>2
    <3>4. QED
      BY <1>0, <3>1, <3>2, <3>3 DEF CacheInv
  <2>3. QED
    BY <1>1, <2>1, <2>2 DEF anchor, until
<1>8. Types' /\ NamedInv' /\ CallInv'
  BY <1>0, <1>6, <1>7 DEF Types, NamedInv, CallInv, Published, Earned, Idle
<1>9. QED
  BY <1>6, <1>7, <1>8 DEF LadderInv

(* LadderInv is inductive.                                                 *)
LEMMA LadderInvHolds == Spec => []LadderInv
<1>1. Init => LadderInv
  <2>0. SUFFICES ASSUME Init PROVE LadderInv
    OBVIOUS
  <2>1. Types
    BY <2>0, LadderAssumption DEF Init, Types
  <2>2. NamedInv
    BY <2>0, LadderAssumption DEF Init, NamedInv, Published
  <2>3. CacheInv /\ CallInv
    BY <2>0 DEF Init, CacheInv, CallInv, Idle
  <2>4. AnchorIsRecent /\ NameIsEarned /\ RevokedStaysRevoked
    BY <2>0 DEF Init, Nothing, None, Graded, AnchorIsRecent, NameIsEarned,
                RevokedStaysRevoked
  <2>5. QED
    BY <2>1, <2>2, <2>3, <2>4 DEF LadderInv
<1>2. LadderInv /\ [Next]_vars => LadderInv'
  <2>0. SUFFICES ASSUME LadderInv, [Next]_vars PROVE LadderInv'
    OBVIOUS
  <2>00. Types /\ NamedInv /\ CacheInv /\ CallInv
    BY <2>0 DEF LadderInv
  <2>1. CASE Publish
    <3>1. PICK p \in Publication : domain' = p /\ named' = NamedNow(p, clock)
      BY <2>1 DEF Publish
    <3>2. clock' = clock /\ held' = held /\ cache' = cache /\ call' = call
          /\ clock \in Nat /\ clock <= clock
      BY <2>00, <2>1 DEF Publish, Types
    <3>3. Types' /\ NamedInv' /\ CacheInv' /\ CallInv'
      BY <2>00, <3>1, <3>2, NamedLater
    <3>4. QED
      BY <2>1, <3>3, NothingReturned DEF LadderInv, Publish
  <2>2. CASE Tick
    <3>1. /\ domain \in Publication /\ domain' = domain /\ clock \in Nat
          /\ clock' = clock + 1 /\ clock + 1 \in Nat /\ clock <= clock + 1
          /\ named' = NamedNow(domain, clock + 1)
          /\ held' = held /\ cache' = cache /\ call' = call
      BY <2>00, <2>2 DEF Tick, Types
    <3>2. Types' /\ NamedInv' /\ CacheInv' /\ CallInv'
      BY <2>00, <3>1, NamedLater
    <3>3. QED
      BY <2>2, <3>2, NothingReturned DEF LadderInv, Tick
  <2>3. CASE Learn
    BY <2>00, <2>3, LearnKeeps, NothingReturned DEF LadderInv, Learn
  <2>4. ASSUME NEW c \in Call, Verify(c) PROVE LadderInv'
    BY <2>0, <2>4, VerifyKeeps
  <2>5. ASSUME NEW c \in Call, FetchWellKnown(c) PROVE LadderInv'
    BY <2>0, <2>5, FetchKeeps
  <2>6. ASSUME NEW c \in Call, ResolveTxt(c) PROVE LadderInv'
    BY <2>0, <2>6, ResolveKeeps
  <2>7. CASE UNCHANGED vars
    BY <2>0, <2>7
    DEF vars, LadderInv, Types, NamedInv, CacheInv, CallInv, Earned, Published,
        AnchorIsRecent, NameIsEarned, RevokedStaysRevoked, Graded
  <2>8. QED
    BY <2>0, <2>1, <2>2, <2>3, <2>4, <2>5, <2>6, <2>7 DEF Next
<1>3. QED
  BY <1>1, <1>2, PTL DEF Spec

(* A key is graded domain-verified only on a root its domain named less    *)
(* than the ceiling ago (ttlToExpiry, the cache of DomainAnchorResolver),  *)
(* whatever lifetime the zone asks for and however calls overlap.          *)
THEOREM AnchorsAreRecent == Spec => []AnchorIsRecent
<1>1. LadderInv => AnchorIsRecent
  BY DEF LadderInv
<1>2. QED
  BY <1>1, LadderInvHolds, PTL

(* A name is shown only when an org signed for the key and the attestation *)
(* was alive when the evidence was signed and when it was judged           *)
(* (verifyAttestation, verify), however late the anchor answers.           *)
THEOREM NamesAreEarned == Spec => []NameIsEarned
<1>1. LadderInv => NameIsEarned
  BY DEF LadderInv
<1>2. QED
  BY <1>1, LadderInvHolds, PTL

(* A revocation the node held when a verification began is never           *)
(* outweighed by a newer attestation or a later revocation                 *)
(* (earliestRevocation, verifyAttestation), however long the anchor takes. *)
THEOREM RevocationsStand == Spec => []RevokedStaysRevoked
<1>1. LadderInv => RevokedStaysRevoked
  BY DEF LadderInv
<1>2. QED
  BY <1>1, LadderInvHolds, PTL

(* Recovery offers an org path at the level the ladder gives the fresh key *)
(* on the same evidence, a channel path only on the lost key's own word,   *)
(* and calls a persona unrecoverable only when nothing is left             *)
(* (recoveryPaths, gradeIdentity).                                         *)
THEOREM RecoveryIsGraded == Spec => []RecoveryMatchesLadder
<1>1. RecoveryMatchesLadder
  <2>0. SUFFICES ASSUME NEW anchor \in {{}} \cup {{o} : o \in Org},
                        NEW seed \in {"yes", "no", "unasked"},
                        NEW channel \in ChannelVerdict,
                        NEW orgs \in FirstValid(clock, clock)
                 PROVE  LET r == RecoveryPaths(orgs, anchor, seed, channel.path)
                            g == Grade(FALSE, orgs, anchor, FALSE) IN
                        /\ \A l \in r.paths \cap {"2", "3"} : g.level = l
                        /\ "ext" \in r.paths => channel.lostKeySpoke
                        /\ r.reason = "unrecoverable-by-design" =>
                             r.paths = {} /\ seed = "no" /\ ~g.named
    BY DEF RecoveryMatchesLadder
  <2> DEFINE r == RecoveryPaths(orgs, anchor, seed, channel.path)
             g == Grade(FALSE, orgs, anchor, FALSE)
  <2>1. orgs = {} \/ \E o : orgs = {o}
    BY DEF FirstValid
  <2>2. /\ g.level = "3" => orgs \cap anchor # {}
        /\ g.named => orgs # {}
        /\ orgs \cap anchor # {} => g.level = "3"
        /\ orgs \cap anchor = {} /\ orgs # {} => g.level = "2"
    BY GradeFacts
  <2>3. r.paths = SeedPath(seed) \cup OrgPath(orgs, anchor) \cup channel.path
        /\ r.reason = RecoveryReason(r.paths, seed)
    BY DEF RecoveryPaths
  <2>4. /\ channel.path \subseteq {"ext"}
        /\ "ext" \in channel.path => channel.lostKeySpoke
    <3>1. PICK rot \in Rotation, proof \in BindingProof,
               observed \in Channel \cup {None}, at \in Channel \cup {None} :
            channel = [path |-> ChannelPath(rot, proof, observed, at),
                       lostKeySpoke |-> rot.sig = Lost /\ proof.sig = Lost]
      BY DEF ChannelVerdict
    <3>2. /\ channel.path = ChannelPath(rot, proof, observed, at)
          /\ channel.lostKeySpoke = (rot.sig = Lost /\ proof.sig = Lost)
      BY <3>1
    <3>3. QED
      BY <3>2 DEF ChannelPath, VerifyRotation, VerifyBindingProof
  <2>5. /\ SeedPath(seed) \subseteq {"seed"}
        /\ OrgPath(orgs, anchor) \subseteq {"2", "3"}
        /\ "3" \in OrgPath(orgs, anchor) => orgs \cap anchor # {}
        /\ "2" \in OrgPath(orgs, anchor) => orgs \cap anchor = {} /\ orgs # {}
        /\ orgs # {} => OrgPath(orgs, anchor) # {}
    BY <2>1 DEF SeedPath, OrgPath, AnchorsOrgRoot
  <2> HIDE DEF r, g
  <2>6. \A l \in r.paths \cap {"2", "3"} : g.level = l
    BY <2>2, <2>3, <2>4, <2>5
  <2>7. "ext" \in r.paths => channel.lostKeySpoke
    BY <2>3, <2>4, <2>5
  <2>8. r.reason = "unrecoverable-by-design" =>
          r.paths = {} /\ seed = "no" /\ ~g.named
    BY <2>2, <2>3, <2>5 DEF RecoveryReason, None
  <2>9. QED
    BY <2>6, <2>7, <2>8 DEF r, g
<1>2. QED
  BY <1>1, PTL
=============================================================================
