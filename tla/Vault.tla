------------------------------- MODULE Vault --------------------------------
(***************************************************************************)
(* The vault on disk (packages/vault/src) and the processes that have it   *)
(* open: sealed records in a git working tree, the keyset that wraps their *)
(* one content key (packages/crypto/src/content-key.ts), git's index and   *)
(* last commit.  The node-local store beside it is left out.               *)
(*                                                                         *)
(* One persona with one edge.  A record is the key it is sealed under and, *)
(* for an assertion, who appended it; a wrap is the key inside it and the  *)
(* credential that opens it; the passphrase is always the right one,       *)
(* because a wrong one only throws.  Every mutation writes, stages and     *)
(* commits; other processes, crashes and failing commits fall in between,  *)
(* and inside the seconds that a key takes to derive.  A call that throws  *)
(* before its first write is not a step.                                   *)
(***************************************************************************)
EXTENDS Integers, FiniteSets

CONSTANTS
  Proc,        \* processes that may open the vault
  Device,      \* device key labels
  Profile,     \* the Argon2id parameters somebody may ask for
  MaxKey,      \* bound on the content keys generated
  MaxSeq,      \* bound on the assertions of the chain
  MaxFaults,   \* bound on commits that fail and crashes inside a call
  MaxSteps     \* bound on the steps looked at once the vault is disturbed

ASSUME VaultAssumption ==
  /\ MaxKey \in Nat /\ MaxSeq \in Nat /\ MaxFaults \in Nat /\ MaxSteps \in Nat
  /\ Profile \subseteq [m : Nat, t : Nat, p : Nat]

VARIABLES
  stage,       \* how far Vault.create has come
  tree,        \* the sealed records of the working tree
  keyset,      \* keyset.json
  index,       \* what git has staged
  head,        \* the last commit
  handle,      \* the content key each process unwrapped
  op,          \* the call each process is in
  generated,   \* content keys generated so far
  faults,      \* commits that failed and crashes inside a call so far
  acked,       \* appends that returned their number (history)
  wrapped,     \* the keys each device was ever wrapped (history)
  revoked,     \* devices a finished re-key left out (history)
  disturbed    \* steps since calls ran that nothing keeps apart (history)

disk == <<stage, tree, keyset, index, head>>
history == <<generated, acked, wrapped, revoked>>
vars == <<disk, handle, op, history, faults, disturbed>>

-----------------------------------------------------------------------------
(* content-key.ts                                                          *)

NoKey == -1
ContentKey == 0..MaxKey

ARGON2ID_DESKTOP == [m |-> 1048576, t |-> 2, p |-> 4]
ARGON2ID_CONSTRAINED == [m |-> 65536, t |-> 3, p |-> 1]

Work(kdf) == kdf.m * kdf.t * kdf.p

MAX_UNWRAP_MEMORY_KIB == 2 * ARGON2ID_DESKTOP.m
MAX_UNWRAP_WORK == 2 * Work(ARGON2ID_DESKTOP)

(* A definition whose name extends the next one's is a slip in the code    *)
(* that a property is tried against; nothing uses it.                      *)
ConformingProfileFloorOnly(kdf) ==
  kdf.m >= ARGON2ID_CONSTRAINED.m /\ Work(kdf) >= Work(ARGON2ID_CONSTRAINED)

ConformingProfile(kdf) ==
  /\ kdf.m >= ARGON2ID_CONSTRAINED.m
  /\ Work(kdf) >= Work(ARGON2ID_CONSTRAINED)
  /\ kdf.m <= MAX_UNWRAP_MEMORY_KIB
  /\ Work(kdf) <= MAX_UNWRAP_WORK

Spendable(kdf) ==
  /\ kdf.m >= 1 /\ kdf.t >= 1 /\ kdf.p >= 1
  /\ kdf.m <= MAX_UNWRAP_MEMORY_KIB
  /\ Work(kdf) <= MAX_UNWRAP_WORK

WrapForPassphrase(key, kdf) ==
  [kind |-> "passphrase", label |-> "passphrase", key |-> key, kdf |-> kdf]

WrapForDevice(key, d) ==
  [kind |-> "device", label |-> d, key |-> key, kdf |-> ARGON2ID_DESKTOP]

(* M-16: a passphrase wrap that could be opened.                           *)
CustodyShared(wraps) == \E w \in wraps : w.kind = "passphrase"

(* What a credential gets out of a keyset: at most one content key.        *)
UnwrapWithPassphrase(wraps) ==
  {w.key : w \in {v \in wraps : v.kind = "passphrase" /\ Spendable(v.kdf)}}

UnwrapWithDevice(wraps, d) ==
  {w.key : w \in {v \in wraps : v.kind = "device" /\ v.label = d}}

RewrapPassphrase(wraps, kdf) ==
  {IF w.kind = "passphrase" THEN WrapForPassphrase(w.key, kdf) ELSE w :
     w \in wraps}

(* The weakest passphrase wrap, by work; and the profile a re-key makes    *)
(* its new one at.                                                         *)
KdfProfileOf(wraps) ==
  LET kdfs == {w.kdf : w \in {v \in wraps : v.kind = "passphrase"}} IN
  CHOOSE k \in kdfs : \A other \in kdfs : Work(k) <= Work(other)

ProfileOf(wraps) ==
  IF CustodyShared(wraps) THEN KdfProfileOf(wraps) ELSE ARGON2ID_DESKTOP

-----------------------------------------------------------------------------
(* store.ts: records, absent or sealed.                                    *)

(* A path is a kind and a number; only assertions are numbered.  One path  *)
(* stands for every record that is written whole, whatever was there.      *)
Seq0 == 0..(MaxSeq - 1)
AssertionPath(n) == <<"assertion", n>>
EdgePath == <<"edge", 0>>
CommitmentPath == <<"commitment", 0>>
WholePath == <<"whole", 0>>
Named == {EdgePath, CommitmentPath, WholePath}
Path == Named \cup {AssertionPath(n) : n \in Seq0}

Absent == [key |-> NoKey, by |-> "nobody"]
SealRecord(key, by) == [key |-> key, by |-> by]

Present(t) == {x \in Path : t[x] # Absent}
Reads(key, record) == record # Absent => record.key = key

WriteSealed(x, key, by) == tree' = [tree EXCEPT ![x] = SealRecord(key, by)]

(* The link fails when the name is taken.                                  *)
WriteSealedExclusiveRenamed(x, key, by) == WriteSealed(x, key, by)
WriteSealedExclusive(x, key, by) ==
  tree[x] = Absent /\ WriteSealed(x, key, by)

NoCommit == [tree |-> [x \in Path |-> Absent], keyset |-> {}]

Idle == [call |-> "none"]
Committing(then) == [call |-> "commit", then |-> then]

Step(p, next) == op' = [op EXCEPT ![p] = next]
Fault == faults < MaxFaults /\ faults' = faults + 1

(* A process with the vault open and nothing under way.                    *)
Free(p) == handle[p] # NoKey /\ op[p] = Idle

(* keyset.json is written whole, over whatever is there.                   *)
WriteKeyset(wraps) ==
  /\ keyset' = wraps
  /\ wrapped' = [d \in Device |-> wrapped[d] \cup UnwrapWithDevice(wraps, d)]

-----------------------------------------------------------------------------
(* Vault.create: looks for a marker, generates and wraps a key, and writes *)
(* marker, keyset and policy, repository, first commit.                    *)

Init ==
  /\ stage = "none" /\ tree = [x \in Path |-> Absent] /\ keyset = {}
  /\ index = NoCommit /\ head = NoCommit
  /\ handle = [p \in Proc |-> NoKey] /\ op = [p \in Proc |-> Idle]
  /\ generated = 0 /\ faults = 0 /\ acked = {} /\ wrapped = [d \in Device |-> {}]
  /\ revoked = {} /\ disturbed = 0

Create(p) ==
  /\ stage = "none" /\ handle[p] = NoKey /\ op[p] = Idle
  /\ Step(p, [call |-> "create", next |-> "marker"])
  /\ UNCHANGED <<disk, handle, history>>

CreateMarker(p) ==
  /\ op[p].call = "create" /\ op[p].next = "marker"
  /\ stage' = IF stage = "none" THEN "marker" ELSE stage
  /\ Step(p, [call |-> "create", next |-> "keyset"])
  /\ UNCHANGED <<tree, keyset, index, head, handle, history>>

CreateKeyset(p) ==
  /\ op[p].call = "create" /\ op[p].next = "keyset" /\ generated <= MaxKey
  /\ \E kdf \in {k \in Profile : ConformingProfile(k)}, ds \in SUBSET Device :
       WriteKeyset({WrapForPassphrase(generated, kdf)}
                     \cup {WrapForDevice(generated, d) : d \in ds})
  /\ generated' = generated + 1
  /\ Step(p, [call |-> "create", next |-> "repo", key |-> generated])
  /\ UNCHANGED <<stage, tree, index, head, handle, acked, revoked>>

InitVaultRepo(p) ==
  /\ op[p].call = "create" /\ op[p].next = "repo"
  /\ stage' = "repo"
  /\ handle' = [handle EXCEPT ![p] = op[p].key]
  /\ Step(p, Committing(Idle))
  /\ UNCHANGED <<tree, keyset, index, head, history>>

(* What an open asks of the directory: the marker at the root of its own   *)
(* repository, a descriptor this build speaks, a keyset that is there.     *)
(* The descriptor is written once and the keyset always whole, so neither  *)
(* is ever found damaged.                                                  *)
AssertVaultRepo == stage = "repo"
AssertSupportedVersion == stage # "none"
ReadKeyset == keyset # {}

Unopened(p) ==
  /\ handle[p] = NoKey /\ op[p] = Idle
  /\ AssertVaultRepo /\ AssertSupportedVersion /\ ReadKeyset
  /\ CustodyShared(keyset)

Unwrapped(p, key) ==
  handle' = [handle EXCEPT ![p] = key] /\ UNCHANGED <<disk, op, history>>

(* A wrap nobody may spend the cost of is refused before the passphrase is *)
(* tried.                                                                  *)
UnwrapPassphraseOrExplain(p) ==
  \E key \in UnwrapWithPassphrase(keyset) : Unwrapped(p, key)

OpenWithDeviceKey(p) ==
  \E d \in Device, key \in ContentKey :
    key \in UnwrapWithDevice(keyset, d) /\ Unwrapped(p, key)

Open(p) ==
  Unopened(p) /\ (UnwrapPassphraseOrExplain(p) \/ OpenWithDeviceKey(p))

-----------------------------------------------------------------------------
(* commitAll: git add -A stages the whole working tree, whoever wrote it,  *)
(* and git commit commits what is staged by then; nothing staged is        *)
(* nothing to commit.  What the call still has to do comes after.          *)

AddAll(p) ==
  /\ op[p].call = "commit" /\ AssertVaultRepo
  /\ index' = [tree |-> tree, keyset |-> keyset]
  /\ Step(p, [call |-> "staged", then |-> op[p].then])
  /\ UNCHANGED <<stage, tree, keyset, head, handle, history>>

Commit(p) ==
  /\ op[p].call = "staged"
  /\ head' = index
  /\ LET then == op[p].then IN
       /\ Step(p, IF then.call = "meta" THEN then ELSE Idle)
       /\ handle' = IF then.call = "adopt"
                    THEN [handle EXCEPT ![p] = then.key] ELSE handle
       /\ acked' = IF then.call = "return"
                   THEN acked \cup {<<then.seq, p>>} ELSE acked
       /\ revoked' = IF then.call = "adopt" THEN Device \ then.keep ELSE revoked
  /\ UNCHANGED <<stage, tree, keyset, index, generated, wrapped>>

(* git refuses (another process holds the index, the disk is full, HEAD is *)
(* detached), before it staged or after: the call throws, and what it      *)
(* wrote and staged stays.                                                 *)
CommitFails(p) ==
  /\ op[p].call \in {"commit", "staged"}
  /\ Step(p, Idle)
  /\ Fault
  /\ UNCHANGED <<disk, handle, history>>

(* The process ends, between calls or inside one.                          *)
Exit(p) ==
  /\ handle[p] # NoKey \/ op[p] # Idle
  /\ handle' = [handle EXCEPT ![p] = NoKey]
  /\ Step(p, Idle)
  /\ IF op[p] = Idle THEN UNCHANGED faults ELSE Fault
  /\ UNCHANGED <<disk, history>>

-----------------------------------------------------------------------------
(* Records.                                                                *)

PutEdge(p) ==
  /\ Free(p) /\ tree[EdgePath] = Absent
  /\ WriteSealed(EdgePath, handle[p], "node")
  /\ Step(p, Committing(Idle))
  /\ UNCHANGED <<stage, keyset, index, head, handle, history>>

PutCommitment(p) ==
  /\ Free(p) /\ tree[EdgePath] = Absent
  /\ WriteSealed(CommitmentPath, handle[p], "node")
  /\ Step(p, Committing(Idle))
  /\ UNCHANGED <<stage, keyset, index, head, handle, history>>

PutWhole(p) ==
  /\ Free(p)
  /\ WriteSealed(WholePath, handle[p], "node")
  /\ Step(p, Committing(Idle))
  /\ UNCHANGED <<stage, keyset, index, head, handle, history>>

PutPersona(p) == PutWhole(p)
PutExpectation(p) == PutWhole(p)

(* Only of an edge this vault holds and can read.                          *)
PutPublish(p) ==
  tree[EdgePath] # Absent /\ Reads(handle[p], tree[EdgePath]) /\ PutWhole(p)

(* Rotations, attestations, revocations, anchors.                          *)
PutIdentityRecord(p) == PutWhole(p)
PutOutbox(p) == PutWhole(p)

(* Read, changed and written back; no record, no write.                    *)
RecordOutboxDelivery(p) ==
  tree[WholePath] # Absent /\ Reads(handle[p], tree[WholePath]) /\ PutWhole(p)

(* The one record that is not sealed.                                      *)
SetRetentionPolicy(p) ==
  /\ Free(p)
  /\ Step(p, Committing(Idle))
  /\ UNCHANGED <<disk, handle, history>>

(* appendAssertion counts the files ...                                    *)
CountAssertions(p) ==
  LET seq == Cardinality(Present(tree) \ Named) IN
  /\ Free(p) /\ tree[EdgePath] # Absent /\ seq < MaxSeq
  /\ Step(p, [call |-> "append", seq |-> seq])
  /\ UNCHANGED <<disk, handle, history>>

(* ... and creates the next; or finds that somebody else has, and throws.  *)
AppendAssertion(p) ==
  /\ op[p].call = "append"
  /\ WriteSealedExclusive(AssertionPath(op[p].seq), handle[p], p)
  /\ Step(p, Committing([call |-> "return", seq |-> op[p].seq]))
  /\ UNCHANGED <<stage, keyset, index, head, handle, history>>

AppendRefused(p) ==
  /\ op[p].call = "append"
  /\ tree[AssertionPath(op[p].seq)] # Absent
  /\ Step(p, Idle)
  /\ UNCHANGED <<disk, handle, history>>

(* runRetention on a terminal edge past its window: the plaintext goes,    *)
(* the chain stays, and the edge's meta says when.  The parent commit      *)
(* still has the sealed text.                                              *)
DeleteCommitmentPlaintext(p) ==
  /\ tree[CommitmentPath] # Absent
  /\ tree' = [tree EXCEPT ![CommitmentPath] = Absent]
  /\ Step(p, Committing([call |-> "meta"]))

RunRetention(p) ==
  /\ Free(p) /\ tree[EdgePath] # Absent /\ tree[EdgePath].key = handle[p]
  /\ DeleteCommitmentPlaintext(p)
  /\ UNCHANGED <<stage, keyset, index, head, handle, history>>

PutEdgeMeta(p) ==
  /\ op[p].call = "meta"
  /\ WriteSealed(WholePath, handle[p], "node")
  /\ Step(p, Committing(Idle))
  /\ UNCHANGED <<stage, keyset, index, head, handle, history>>

-----------------------------------------------------------------------------
(* Custody.                                                                *)

(* Both read the keyset, derive a key for a while, and write back what     *)
(* they read, changed.                                                     *)
AddDeviceKey(p) ==
  \E d \in Device :
    /\ Free(p)
    /\ \A w \in keyset : w.label # d
    /\ CustodyShared(keyset)
    /\ Step(p, [call |-> "custody",
                wraps |-> keyset \cup {WrapForDevice(handle[p], d)}, for |-> {d}])
    /\ UNCHANGED <<disk, handle, history>>

UpgradeKdf(p) ==
  \E kdf \in Profile :
    /\ Free(p)
    /\ UnwrapWithPassphrase(keyset) # {} /\ ConformingProfile(kdf)
    /\ Step(p, [call |-> "custody", wraps |-> RewrapPassphrase(keyset, kdf), for |-> {}])
    /\ UNCHANGED <<disk, handle, history>>

WriteCustody(p) ==
  /\ op[p].call = "custody"
  /\ WriteKeyset(op[p].wraps)
  /\ revoked' = revoked \ op[p].for
  /\ Step(p, Committing(Idle))
  /\ UNCHANGED <<stage, tree, index, head, handle, generated, acked>>

NewKeyReused(p) == handle[p]
NewKey(p) == generated

(* rekey: the passphrase is checked and everything decrypted before        *)
(* anything is written; then the records as they were read, one by one,    *)
(* the keyset, and one commit.                                             *)
SealedRecordPaths == Present(tree)

Rekey(p) ==
  /\ Free(p) /\ generated <= MaxKey
  /\ UnwrapWithPassphrase(keyset) # {}
  /\ \A x \in Path : Reads(handle[p], tree[x])
  /\ generated' = generated + 1
  /\ \E keep \in SUBSET Device :
       Step(p, [call |-> "rekey", key |-> NewKey(p), kdf |-> ProfileOf(keyset),
                keep |-> keep,
                left |-> {<<x, tree[x].by>> : x \in SealedRecordPaths}])
  /\ UNCHANGED <<disk, handle, acked, wrapped, revoked>>

Reseal(p) ==
  /\ op[p].call = "rekey" /\ op[p].left # {}
  /\ LET r == CHOOSE r \in op[p].left : TRUE IN
       /\ WriteSealed(r[1], op[p].key, r[2])
       /\ op' = [op EXCEPT ![p].left = @ \ {r}]
  /\ UNCHANGED <<stage, keyset, index, head, handle, history>>

RekeyKeyset(p) ==
  LET now == op[p] IN
  /\ now.call = "rekey" /\ now.left = {}
  /\ WriteKeyset({WrapForPassphrase(now.key, now.kdf)}
                   \cup {WrapForDevice(now.key, d) : d \in now.keep})
  /\ revoked' = revoked \ now.keep
  /\ Step(p, Committing([call |-> "adopt", key |-> now.key, keep |-> now.keep]))
  /\ UNCHANGED <<stage, tree, index, head, handle, generated, acked>>

(* Is p in a re-key, its commit included?                                  *)
Rekeying(p) ==
  \/ op[p].call = "rekey"
  \/ op[p].call \in {"commit", "staged"} /\ op[p].then.call = "adopt"

(* The owner's git checkout ., while no re-key runs: what is staged comes  *)
(* back, what never was stays.                                             *)
Restore ==
  /\ index # NoCommit /\ \A p \in Proc : ~Rekeying(p)
  /\ tree' = [x \in Path |->
                IF index.tree[x] # Absent THEN index.tree[x] ELSE tree[x]]
  /\ keyset' = index.keyset
  /\ UNCHANGED <<stage, index, head, handle, op, history, faults>>

Call(p) ==
  \/ Create(p) \/ CreateMarker(p) \/ CreateKeyset(p) \/ InitVaultRepo(p) \/ Open(p)
  \/ AddAll(p) \/ Commit(p)
  \/ PutEdge(p) \/ PutCommitment(p) \/ PutPersona(p) \/ PutExpectation(p)
  \/ PutPublish(p) \/ PutIdentityRecord(p) \/ PutOutbox(p)
  \/ RecordOutboxDelivery(p) \/ SetRetentionPolicy(p)
  \/ CountAssertions(p) \/ AppendAssertion(p) \/ AppendRefused(p)
  \/ RunRetention(p) \/ PutEdgeMeta(p)
  \/ AddDeviceKey(p) \/ UpgradeKdf(p) \/ WriteCustody(p)
  \/ Rekey(p) \/ Reseal(p) \/ RekeyKeyset(p)

(* What nothing in the code keeps apart: two creates of one vault; a call  *)
(* of one process while another re-keys; and any call on a vault that is   *)
(* not sealed throughout under the caller's key, as a finished re-key      *)
(* leaves it for a process that had it open, one that stopped half way for *)
(* everybody, one whose commit failed for the process that ran it, and     *)
(* git checkout . when a record was never committed.                       *)
Creating(p) == op[p].call = "create"
AtWork(p) == op[p] # Idle /\ ~Rekeying(p) /\ ~Creating(p)
AllUnder(key) ==
  (\A w \in keyset : w.key = key) /\ \A x \in Path : Reads(key, tree[x])

Disturbing ==
  \/ \E p, q \in Proc : p # q /\ Creating(p) /\ Creating(q)
  \/ \E p, q \in Proc : p # q /\ Rekeying(p) /\ op[q] # Idle
  \/ \E p \in Proc : AtWork(p) /\ ~AllUnder(handle[p])

Next ==
  /\ \/ Restore \/ \E p \in Proc : CommitFails(p) \/ Exit(p)
     \/ (\E p \in Proc : Call(p)) /\ UNCHANGED faults
  /\ disturbed < MaxSteps
  /\ disturbed' = IF disturbed = 0 /\ ~Disturbing' THEN 0 ELSE disturbed + 1

Spec == Init /\ [][Next]_vars

-----------------------------------------------------------------------------
Stage == {"none", "marker", "repo"}
Record == [key : ContentKey \cup {NoKey}, by : Proc \cup {"node", "nobody"}]
Wrap == [kind : {"passphrase", "device"}, label : Device \cup {"passphrase"},
         key : ContentKey, kdf : Profile \cup {ARGON2ID_DESKTOP}]
Snapshot == [tree : [Path -> Record], keyset : SUBSET Wrap]
After == [call : {"none", "meta"}] \cup [call : {"return"}, seq : Seq0]
           \cup [call : {"adopt"}, key : ContentKey, keep : SUBSET Device]
Op == [call : {"none", "meta"}] \cup [call : {"append"}, seq : Seq0]
        \cup [call : {"create"}, next : {"marker", "keyset"}]
        \cup [call : {"create"}, next : {"repo"}, key : ContentKey]
        \cup [call : {"commit", "staged"}, then : After]
        \cup [call : {"custody"}, wraps : SUBSET Wrap, for : SUBSET Device]
        \cup [call : {"rekey"}, key : ContentKey, kdf : Profile \cup {ARGON2ID_DESKTOP},
              keep : SUBSET Device, left : SUBSET (Path \X (Proc \cup {"node", "nobody"}))]

TypeOK ==
  /\ stage \in Stage
  /\ tree \in [Path -> Record] /\ keyset \subseteq Wrap
  /\ index \in Snapshot /\ head \in Snapshot
  /\ handle \in [Proc -> ContentKey \cup {NoKey}]
  /\ op \in [Proc -> Op]
  /\ generated \in 0..MaxKey + 1 /\ faults \in 0..MaxFaults
  /\ acked \subseteq (Seq0 \X Proc)
  /\ wrapped \in [Device -> SUBSET ContentKey]
  /\ revoked \subseteq Device /\ disturbed \in 0..MaxSteps

(* An append that returned its number is at that number of the last commit *)
(* for good, whoever works on the vault and whatever is re-keyed or        *)
(* restored: two processes that counted the same files never both succeed  *)
(* (appendAssertion's exclusive create), and nothing takes it out again.   *)
AcknowledgedAppendKept ==
  \A a \in acked : head.tree[AssertionPath(a[1])].by = a[2]

(* Until the vault was disturbed, the last commit can be opened with the   *)
(* passphrase and read whole, through crashes, commits that fail before or *)
(* after staging, restores, re-keys, and custody changes of two processes  *)
(* at once: its records are sealed under the one key its keyset wraps, at  *)
(* a cost an open will spend.                                              *)
CommittedVaultOpens ==
  disturbed = 0 /\ head # NoCommit =>
    \E key \in ContentKey :
      /\ UnwrapWithPassphrase(head.keyset) = {key}
      /\ \A x \in Path : Reads(key, head.tree[x])

(* rekey's forward boundary: until the vault was disturbed, a device that  *)
(* a finished re-key left out was never wrapped the key any record of the  *)
(* last commit is sealed under, in a keyset committed or not, unless it is *)
(* being let in again.                                                     *)
RevokedReadsNothingNew ==
  disturbed = 0 =>
    \A d \in revoked : \A x \in Present(head.tree) : head.tree[x].key \notin wrapped[d]
=============================================================================
