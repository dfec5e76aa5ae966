---------------------------- MODULE Vault_proofs ----------------------------
(***************************************************************************)
(* Theorems about the vault on disk, for any number of processes and       *)
(* devices, every set of profiles and every bound.                         *)
(***************************************************************************)
EXTENDS Vault, FiniteSetTheorems, TLAPS

-----------------------------------------------------------------------------
(* Types.                                                                  *)

(* A keyset that the passphrase opens: its passphrase wraps are at one     *)
(* cost, which an open will spend.                                         *)
Sound(wraps) ==
  /\ CustodyShared(wraps)
  /\ \E c \in Profile \cup {ARGON2ID_DESKTOP} :
       Spendable(c) /\ \A w \in wraps : w.kind = "passphrase" => w.kdf = c

(* Every keyset that an open may read, or a call will write, is sound; and *)
(* a process in a call has the key to seal with, which it has of a vault.  *)
CallReady(p) ==
  /\ handle[p] # NoKey => stage = "repo"
  /\ op[p].call = "create" /\ op[p].next = "repo" => Sound(keyset)
  /\ op[p].call = "custody" => Sound(op[p].wraps)
  /\ op[p].call = "rekey" => Spendable(op[p].kdf)
  /\ op[p].call \notin {"none", "create"} => handle[p] # NoKey

CustodyInv ==
  /\ keyset = {} \/ Sound(keyset)
  /\ stage = "repo" => Sound(keyset)
  /\ index # NoCommit => Sound(index.keyset)
  /\ head # NoCommit => Sound(head.keyset)
  /\ \A p \in Proc : CallReady(p)

TypeInv == TypeOK /\ CustodyInv

(* The paths of a vault are its named records and its assertions, and an   *)
(* assertion's path is not that of any other record.                       *)
LEMMA Paths ==
  /\ {EdgePath, CommitmentPath, WholePath} \subseteq Named /\ Named \subseteq Path
  /\ \A n \in Seq0 : AssertionPath(n) \in Path
  /\ \A m, n \in Seq0 : AssertionPath(m) = AssertionPath(n) => m = n
  /\ \A n \in Seq0 : AssertionPath(n) \notin Named
BY DEF Path, Named, EdgePath, CommitmentPath, WholePath, AssertionPath

(* No record, and no commit, are of their types.                           *)
LEMMA AbsentType ==
  /\ Absent \in Record
  /\ NoCommit \in Snapshot
BY DEF Absent, Record, NoKey, NoCommit, Snapshot

(* A sealed record is a record.                                            *)
LEMMA SealType ==
  ASSUME NEW k \in ContentKey \cup {NoKey}, NEW b \in Proc \cup {"node", "nobody"}
  PROVE  SealRecord(k, b) \in Record
BY DEF SealRecord, Record

(* The wraps that are made are wraps.                                      *)
LEMMA WrapType ==
  ASSUME NEW k \in ContentKey
  PROVE  /\ \A c \in Profile \cup {ARGON2ID_DESKTOP} :
              WrapForPassphrase(k, c) \in Wrap
         /\ \A d \in Device : WrapForDevice(k, d) \in Wrap
BY DEF WrapForPassphrase, WrapForDevice, Wrap

(* A profile a keyset may be made at is one an open will spend.            *)
LEMMA ConformingIsSpendable ==
  ASSUME NEW c \in Profile, ConformingProfile(c)
  PROVE  Spendable(c)
<1>1. c.m \in Nat /\ c.t \in Nat /\ c.p \in Nat
  BY VaultAssumption
<1>2. Work(c) >= 196608 /\ c.m >= 65536
  BY DEF ConformingProfile, Work, ARGON2ID_CONSTRAINED
<1>3. c.t # 0
  <2>1. c.t = 0 => c.m * c.t = 0
    BY <1>1
  <2>2. c.m * c.t = 0 => Work(c) = 0
    BY <1>1 DEF Work
  <2>3. QED
    BY <1>2, <2>1, <2>2
<1>4. c.p # 0
  <2>1. c.m * c.t \in Nat
    BY <1>1
  <2>2. c.p = 0 => Work(c) = 0
    BY <1>1, <2>1 DEF Work
  <2>3. QED
    BY <1>2, <2>2
<1>5. QED
  BY <1>1, <1>2, <1>3, <1>4 DEF ConformingProfile, Spendable

(* A re-key makes its new wrap at the cost the passphrase wraps were at.   *)
LEMMA ProfileOfSound ==
  ASSUME NEW wraps \in SUBSET Wrap, Sound(wraps)
  PROVE  ProfileOf(wraps) \in Profile \cup {ARGON2ID_DESKTOP} /\ Spendable(ProfileOf(wraps))
<1> DEFINE kdfs == {w.kdf : w \in {v \in wraps : v.kind = "passphrase"}}
<1>1. PICK c \in Profile \cup {ARGON2ID_DESKTOP} :
        Spendable(c) /\ \A w \in wraps : w.kind = "passphrase" => w.kdf = c
  BY DEF Sound
<1>2. kdfs = {c}
  BY <1>1 DEF Sound, CustodyShared
<1>3. Work(c) \in Nat
  BY VaultAssumption DEF Work, ARGON2ID_DESKTOP
<1>4. \E k \in kdfs : \A other \in kdfs : Work(k) <= Work(other)
  BY <1>2, <1>3
<1>5. KdfProfileOf(wraps) \in kdfs
  BY <1>4 DEF KdfProfileOf
<1>6. QED
  BY <1>1, <1>2, <1>5 DEF ProfileOf, Sound

(* The keysets the calls make are sound again.                             *)
LEMMA SoundMade ==
  /\ \A k, D : \A c \in Profile \cup {ARGON2ID_DESKTOP} : Spendable(c) =>
       Sound({WrapForPassphrase(k, c)} \cup {WrapForDevice(k, d) : d \in D})
  /\ \A wraps, k, d : Sound(wraps) => Sound(wraps \cup {WrapForDevice(k, d)})
  /\ \A wraps : \A c \in Profile : Sound(wraps) /\ Spendable(c) =>
       Sound(RewrapPassphrase(wraps, c))
  /\ \A wraps : Sound(wraps) => wraps # {}
<1> USE DEF Sound, CustodyShared, WrapForPassphrase, WrapForDevice
<1>1. ASSUME NEW k, NEW D, NEW c \in Profile \cup {ARGON2ID_DESKTOP}, Spendable(c)
      PROVE  Sound({WrapForPassphrase(k, c)} \cup {WrapForDevice(k, d) : d \in D})
  <2> DEFINE R == {WrapForPassphrase(k, c)} \cup {WrapForDevice(k, d) : d \in D}
  <2>1. \A r \in R : r.kind = "passphrase" => r.kdf = c
    OBVIOUS
  <2>2. WrapForPassphrase(k, c) \in R /\ WrapForPassphrase(k, c).kind = "passphrase"
    OBVIOUS
  <2>3. QED
    BY <1>1, <2>1, <2>2
<1>2. ASSUME NEW wraps, NEW k, NEW d, Sound(wraps)
      PROVE  Sound(wraps \cup {WrapForDevice(k, d)})
  BY <1>2
<1>3. ASSUME NEW wraps, NEW c \in Profile, Sound(wraps), Spendable(c)
      PROVE  Sound(RewrapPassphrase(wraps, c))
  <2> DEFINE R == RewrapPassphrase(wraps, c)
  <2>1. ASSUME NEW r \in R
        PROVE  r.kind = "passphrase" => r.kdf = c
    <3>1. PICK w \in wraps :
            r = IF w.kind = "passphrase" THEN WrapForPassphrase(w.key, c) ELSE w
      BY DEF RewrapPassphrase
    <3>2. QED
      BY <1>3, <3>1
  <2>2. CustodyShared(R)
    <3>1. PICK w \in wraps : w.kind = "passphrase"
      BY <1>3
    <3>2. WrapForPassphrase(w.key, c) \in R
      BY <3>1 DEF RewrapPassphrase
    <3>3. QED
      BY <3>2
  <2>3. QED
    BY <1>3, <2>1, <2>2
<1>4. \A wraps : Sound(wraps) => wraps # {}
  OBVIOUS
<1>5. QED
  BY <1>1, <1>2, <1>3, <1>4

(* The types of what the calls leave in op.                                *)
LEMMA OpType ==
  /\ Idle \in Op /\ [call |-> "meta"] \in Op
  /\ [call |-> "create", next |-> "marker"] \in Op
  /\ [call |-> "create", next |-> "keyset"] \in Op
  /\ \A k \in ContentKey : [call |-> "create", next |-> "repo", key |-> k] \in Op
  /\ Committing(Idle) \in Op /\ Committing([call |-> "meta"]) \in Op
  /\ \A n \in Seq0 : /\ [call |-> "append", seq |-> n] \in Op
                     /\ Committing([call |-> "return", seq |-> n]) \in Op
  /\ \A k \in ContentKey, d \in SUBSET Device :
       Committing([call |-> "adopt", key |-> k, keep |-> d]) \in Op
  /\ \A w \in SUBSET Wrap, d \in SUBSET Device :
       [call |-> "custody", wraps |-> w, for |-> d] \in Op
  /\ \A k \in ContentKey, c \in Profile \cup {ARGON2ID_DESKTOP}, d \in SUBSET Device,
       l \in SUBSET (Path \X (Proc \cup {"node", "nobody"})) :
       [call |-> "rekey", key |-> k, kdf |-> c, keep |-> d, left |-> l] \in Op
BY DEF Idle, Committing, Op, After

(* What is left to do after a commit.                                      *)
LEMMA AfterShape ==
  ASSUME NEW t \in After
  PROVE  /\ t.call \in {"none", "meta", "return", "adopt"}
         /\ t.call = "none" => t = Idle
         /\ t.call = "meta" => t = [call |-> "meta"]
         /\ t.call = "return" => t.seq \in Seq0
         /\ t.call = "adopt" => t.key \in ContentKey /\ t.keep \in SUBSET Device
<1>1. CASE t \in [call : {"none", "meta"}]
  BY <1>1 DEF Idle
<1>2. CASE t \in [call : {"return"}, seq : Seq0]
  BY <1>2
<1>3. CASE t \in [call : {"adopt"}, key : ContentKey, keep : SUBSET Device]
  BY <1>3
<1>4. QED
  BY <1>1, <1>2, <1>3 DEF After

(* What a call in op carries, by its name.                                 *)
LEMMA OpShape ==
  ASSUME NEW o \in Op
  PROVE  /\ o.call \in {"none", "create", "meta", "append", "commit", "staged",
                        "custody", "rekey"}
         /\ o.call = "none" => o = Idle
         /\ o.call = "create" /\ o.next = "repo" => o.key \in ContentKey
         /\ o.call = "append" => o.seq \in Seq0
         /\ o.call \in {"commit", "staged"} =>
              /\ o.then \in After
              /\ [call |-> "staged", then |-> o.then] \in Op
         /\ o.call = "custody" => o.wraps \in SUBSET Wrap /\ o.for \in SUBSET Device
         /\ o.call = "rekey" =>
              /\ o.key \in ContentKey /\ o.keep \in SUBSET Device
              /\ o.kdf \in Profile \cup {ARGON2ID_DESKTOP}
              /\ o.left \in SUBSET (Path \X (Proc \cup {"node", "nobody"}))
              /\ \A r : [o EXCEPT !.left = @ \ {r}] \in Op
<1>1. CASE o \in [call : {"none", "meta"}]
  BY <1>1 DEF Idle
<1>2. CASE o \in [call : {"append"}, seq : Seq0]
  BY <1>2
<1>3. CASE o \in [call : {"create"}, next : {"marker", "keyset"}]
  BY <1>3
<1>4. CASE o \in [call : {"create"}, next : {"repo"}, key : ContentKey]
  BY <1>4
<1>5. CASE o \in [call : {"commit", "staged"}, then : After]
  BY <1>5 DEF Op
<1>6. CASE o \in [call : {"custody"}, wraps : SUBSET Wrap, for : SUBSET Device]
  BY <1>6
<1>7. CASE o \in [call : {"rekey"}, key : ContentKey,
                  kdf : Profile \cup {ARGON2ID_DESKTOP}, keep : SUBSET Device,
                  left : SUBSET (Path \X (Proc \cup {"node", "nobody"}))]
  <2>1. \A r : o.left \ {r} \in SUBSET (Path \X (Proc \cup {"node", "nobody"}))
    BY <1>7
  <2>2. QED
    BY <1>7, <2>1 DEF Op
<1>8. QED
  BY <1>1, <1>2, <1>3, <1>4, <1>5, <1>6, <1>7 DEF Op

(* The files that are counted are finitely many, so their number is one.   *)
LEMMA CountIsNatural == Cardinality(Present(tree) \ Named) \in Nat
<1>1. IsFiniteSet(Seq0)
  BY FS_Interval, VaultAssumption DEF Seq0
<1>2. IsFiniteSet({AssertionPath(n) : n \in Seq0})
  <2> DEFINE T == {AssertionPath(n) : n \in Seq0}
             f == [n \in Seq0 |-> AssertionPath(n)]
  <2>1. f \in Surjection(Seq0, T)
    BY DEF Surjection
  <2>2. QED
    BY <1>1, <2>1, FS_Surjection
<1>3. Present(tree) \ Named \subseteq {AssertionPath(n) : n \in Seq0}
  BY DEF Present, Path
<1>4. QED
  BY <1>2, <1>3, FS_Subset, FS_CardinalityType

-----------------------------------------------------------------------------
(* Steps.  Those that only begin, refuse or end a call, and those that     *)
(* write one record under the caller's key or take the plaintext out, are  *)
(* two kinds; every other step is a kind of its own.                       *)

Act(p) == Call(p) \/ CommitFails(p) \/ Exit(p)

Aside(p) ==
  /\ UNCHANGED <<disk, history>>
  /\ \E o \in Op :
       /\ op' = [op EXCEPT ![p] = o]
       /\ o.call \in {"none", "append"} \/ o = Committing(Idle)
       /\ \/ handle' = handle /\ (o = Idle \/ handle[p] # NoKey)
          \/ handle' = [handle EXCEPT ![p] = NoKey] /\ o = Idle
       /\ handle[p] # NoKey \/ op[p] # Idle

Writes(p) ==
  /\ handle[p] # NoKey /\ op[p].call \in {"none", "append", "meta"}
  /\ UNCHANGED <<stage, keyset, index, head, handle, history>>
  /\ \E x \in Path, r \in Record, o \in Op :
       /\ tree' = [tree EXCEPT ![x] = r] /\ op' = [op EXCEPT ![p] = o]
       /\ r # Absent => r.key = handle[p]
       /\ \/ x \in Named /\ o \in {Committing(Idle), Committing([call |-> "meta"])}
          \/ /\ op[p].call = "append" /\ x = AssertionPath(op[p].seq)
             /\ tree[x] = Absent /\ r = SealRecord(handle[p], p)
             /\ o = Committing([call |-> "return", seq |-> op[p].seq])

(* A record written by name is a step of the second kind.                  *)
LEMMA NamedWrite ==
  ASSUME TypeInv, NEW p \in Proc, NEW x \in Named, handle[p] # NoKey,
         op[p].call \in {"none", "meta"}, WriteSealed(x, handle[p], "node"),
         op' = [op EXCEPT ![p] = Committing(Idle)],
         UNCHANGED <<stage, keyset, index, head, handle, history>>
  PROVE  Writes(p)
<1>1. SealRecord(handle[p], "node") \in Record
  BY SealType DEF TypeInv, TypeOK
<1>2. SealRecord(handle[p], "node").key = handle[p]
  BY DEF SealRecord
<1>3. QED
  BY <1>1, <1>2, Paths, OpType DEF Writes, WriteSealed

LEMMA Kinds ==
  ASSUME TypeInv, NEW p \in Proc, Act(p)
  PROVE  \/ Aside(p) \/ Writes(p)
         \/ Create(p) \/ CreateMarker(p) \/ CreateKeyset(p) \/ InitVaultRepo(p)
         \/ Open(p) \/ AddAll(p) \/ Commit(p)
         \/ AddDeviceKey(p) \/ UpgradeKdf(p) \/ WriteCustody(p)
         \/ Rekey(p) \/ Reseal(p) \/ RekeyKeyset(p)
<1>0. /\ op[p] \in Op /\ handle[p] \in ContentKey \cup {NoKey} /\ Idle.call = "none"
      /\ op[p].call \notin {"none", "create"} => handle[p] # NoKey
  BY DEF TypeInv, TypeOK, CustodyInv, CallReady, Idle
<1>1. CASE CommitFails(p)
  BY <1>1, <1>0, OpType DEF CommitFails, Step, Aside
<1>2. CASE Exit(p)
  BY <1>2, <1>0, OpType DEF Exit, Step, Aside
<1>3. CASE SetRetentionPolicy(p)
  BY <1>3, <1>0, OpType DEF SetRetentionPolicy, Free, Step, Aside
<1>4. CASE CountAssertions(p)
  <2>1. PICK seq : /\ seq < MaxSeq /\ seq = Cardinality(Present(tree) \ Named)
                   /\ op' = [op EXCEPT ![p] = [call |-> "append", seq |-> seq]]
    BY <1>4 DEF CountAssertions, Step
  <2>2. seq \in Seq0
    BY <2>1, CountIsNatural, VaultAssumption DEF Seq0
  <2>3. [call |-> "append", seq |-> seq] \in Op
    BY <2>2, OpType
  <2>4. QED
    BY <1>4, <2>1, <2>3 DEF CountAssertions, Free, Aside
<1>5. CASE AppendRefused(p)
  BY <1>5, <1>0, OpType DEF AppendRefused, Step, Aside
<1>6. CASE PutEdge(p) \/ PutCommitment(p) \/ PutWhole(p) \/ PutEdgeMeta(p)
  BY <1>6, <1>0, NamedWrite, Paths
  DEF PutEdge, PutCommitment, PutWhole, PutEdgeMeta, Free, Step
<1>7. CASE RunRetention(p)
  BY <1>7, <1>0, Paths, OpType, AbsentType
  DEF RunRetention, DeleteCommitmentPlaintext, Free, Step, Writes
<1>8. CASE AppendAssertion(p)
  <2>1. op[p].call = "append" /\ op[p].seq \in Seq0 /\ handle[p] # NoKey
    BY <1>0, <1>8, OpShape DEF AppendAssertion
  <2>2. SealRecord(handle[p], p) \in Record /\ SealRecord(handle[p], p).key = handle[p]
    BY <1>0, SealType DEF SealRecord
  <2>3. Committing([call |-> "return", seq |-> op[p].seq]) \in Op
    BY <2>1, OpType
  <2>4. QED
    BY <1>8, <2>1, <2>2, <2>3, Paths
    DEF AppendAssertion, WriteSealedExclusive, WriteSealed, Step, Writes
<1>9. QED
  BY <1>1, <1>2, <1>3, <1>4, <1>5, <1>6, <1>7, <1>8
  DEF Act, Call, PutPersona, PutExpectation, PutPublish, PutIdentityRecord,
      PutOutbox, RecordOutboxDelivery

(* No step changes the call or the handle of another process.              *)
LEMMA OthersKept ==
  ASSUME TypeInv, NEW p \in Proc, Act(p), NEW q \in Proc, q # p
  PROVE  op'[q] = op[q] /\ handle'[q] = handle[q]
<1> USE DEF Step, TypeInv, TypeOK
<1>1. CASE Aside(p) \/ Writes(p)
  BY <1>1 DEF Aside, Writes
<1>2. CASE Create(p) \/ CreateMarker(p) \/ CreateKeyset(p) \/ InitVaultRepo(p)
  BY <1>2 DEF Create, CreateMarker, CreateKeyset, InitVaultRepo
<1>3. CASE Open(p)
  BY <1>3 DEF Open, UnwrapPassphraseOrExplain, OpenWithDeviceKey, Unwrapped
<1>4. CASE AddAll(p) \/ Commit(p)
  BY <1>4 DEF AddAll, Commit
<1>5. CASE AddDeviceKey(p) \/ UpgradeKdf(p) \/ WriteCustody(p)
  BY <1>5 DEF AddDeviceKey, UpgradeKdf, WriteCustody
<1>6. CASE Rekey(p) \/ Reseal(p) \/ RekeyKeyset(p)
  BY <1>6 DEF Rekey, Reseal, RekeyKeyset
<1>7. QED
  BY Kinds, <1>1, <1>2, <1>3, <1>4, <1>5, <1>6

(* A keyset written, of the right type, leaves the devices' keys so.       *)
LEMMA KeysetType ==
  ASSUME TypeOK, NEW wraps \in SUBSET Wrap, WriteKeyset(wraps)
  PROVE  keyset' \subseteq Wrap /\ wrapped' \in [Device -> SUBSET ContentKey]
<1>1. \A d \in Device : UnwrapWithDevice(wraps, d) \subseteq ContentKey
  BY DEF UnwrapWithDevice, Wrap
<1>2. QED
  BY <1>1 DEF WriteKeyset, TypeOK

(* The parts of TypeOK that calls touch; faults and disturbed belong to    *)
(* the step as a whole.                                                    *)
StateOK ==
  /\ stage \in Stage
  /\ tree \in [Path -> Record] /\ keyset \subseteq Wrap
  /\ index \in Snapshot /\ head \in Snapshot
  /\ handle \in [Proc -> ContentKey \cup {NoKey}]
  /\ op \in [Proc -> Op]
  /\ generated \in 0..MaxKey + 1
  /\ acked \subseteq (Seq0 \X Proc)
  /\ wrapped \in [Device -> SUBSET ContentKey]
  /\ revoked \subseteq Device

(* Each step keeps the types.                                              *)
LEMMA ActType ==
  ASSUME TypeInv, NEW p \in Proc, Act(p)
  PROVE  StateOK'
<1> USE DEF Step, StateOK
<1>0. /\ TypeOK /\ StateOK /\ op[p] \in Op /\ handle[p] \in ContentKey \cup {NoKey}
      /\ (generated <= MaxKey => generated \in ContentKey /\ generated + 1 \in 0..MaxKey + 1)
  BY VaultAssumption DEF TypeInv, TypeOK, ContentKey
<1>1. CASE Aside(p)
  BY <1>0, <1>1 DEF Aside, disk, history
<1>2. CASE Writes(p)
  BY <1>0, <1>2 DEF Writes, history
<1>3. CASE Create(p) \/ CreateMarker(p)
  BY <1>0, <1>3, OpType DEF Create, CreateMarker, disk, history, Stage
<1>4. CASE CreateKeyset(p)
  <2>1. PICK kdf \in Profile, ds \in SUBSET Device :
          WriteKeyset({WrapForPassphrase(generated, kdf)}
                        \cup {WrapForDevice(generated, d) : d \in ds})
    BY <1>4 DEF CreateKeyset
  <2>2. keyset' \subseteq Wrap /\ wrapped' \in [Device -> SUBSET ContentKey]
    BY <1>0, <1>4, <2>1, WrapType, KeysetType DEF CreateKeyset
  <2>3. QED
    BY <1>0, <1>4, <2>2, OpType DEF CreateKeyset
<1>5. CASE InitVaultRepo(p)
  BY <1>0, <1>5, OpShape, OpType DEF InitVaultRepo, Stage, history
<1>6. CASE Open(p)
  <2>1. \A key \in UnwrapWithPassphrase(keyset) : key \in ContentKey
    BY <1>0 DEF UnwrapWithPassphrase, Wrap
  <2>2. PICK key \in ContentKey : Unwrapped(p, key)
    BY <1>6, <2>1 DEF Open, UnwrapPassphraseOrExplain, OpenWithDeviceKey
  <2>3. QED
    BY <1>0, <2>2 DEF Unwrapped, disk, history
<1>7. CASE AddAll(p)
  <2>1. [tree |-> tree, keyset |-> keyset] \in Snapshot
    BY <1>0 DEF Snapshot
  <2>2. QED
    BY <1>0, <1>7, <2>1, OpShape DEF AddAll, history
<1>8. CASE Commit(p)
  <2> DEFINE then == op[p].then
  <2>1. then \in After
    BY <1>0, <1>8, OpShape DEF Commit
  <2>2. op' \in [Proc -> Op] /\ handle' \in [Proc -> ContentKey \cup {NoKey}]
    BY <1>0, <1>8, <2>1, AfterShape, OpType DEF Commit
  <2>3. acked' \subseteq (Seq0 \X Proc) /\ revoked' \subseteq Device
    BY <1>0, <1>8, <2>1, AfterShape DEF Commit
  <2>4. QED
    BY <1>0, <1>8, <2>2, <2>3 DEF Commit
<1>9. CASE AddDeviceKey(p)
  <2>1. PICK d \in Device :
          /\ handle[p] # NoKey
          /\ op' = [op EXCEPT ![p] =
               [call |-> "custody", for |-> {d},
                wraps |-> keyset \cup {WrapForDevice(handle[p], d)}]]
    BY <1>9 DEF AddDeviceKey, Free
  <2>2. keyset \cup {WrapForDevice(handle[p], d)} \in SUBSET Wrap
    BY <1>0, <2>1, WrapType
  <2>3. QED
    BY <1>0, <1>9, <2>1, <2>2, OpType DEF AddDeviceKey, disk, history
<1>10. CASE UpgradeKdf(p)
  <2>1. PICK kdf \in Profile :
          op' = [op EXCEPT ![p] =
                  [call |-> "custody", wraps |-> RewrapPassphrase(keyset, kdf), for |-> {}]]
    BY <1>10 DEF UpgradeKdf
  <2>2. RewrapPassphrase(keyset, kdf) \in SUBSET Wrap
    <3>1. ASSUME NEW w \in keyset
          PROVE  (IF w.kind = "passphrase" THEN WrapForPassphrase(w.key, kdf) ELSE w)
                   \in Wrap
      BY <1>0, WrapType DEF Wrap
    <3>2. QED
      BY <3>1 DEF RewrapPassphrase
  <2>3. QED
    BY <1>0, <1>10, <2>1, <2>2, OpType DEF UpgradeKdf, disk, history
<1>11. CASE WriteCustody(p)
  BY <1>0, <1>11, OpShape, OpType, KeysetType DEF WriteCustody
<1>12. CASE Rekey(p)
  <2>1. generated \in ContentKey /\ generated' = generated + 1
    BY <1>0, <1>12 DEF Rekey
  <2>2. Sound(keyset)
    BY <1>12 DEF Rekey, UnwrapWithPassphrase, TypeInv, CustodyInv
  <2>3. ProfileOf(keyset) \in Profile \cup {ARGON2ID_DESKTOP}
    BY <1>0, <2>2, ProfileOfSound
  <2>4. {<<x, tree[x].by>> : x \in SealedRecordPaths}
          \in SUBSET (Path \X (Proc \cup {"node", "nobody"}))
    BY <1>0 DEF SealedRecordPaths, Present, Record
  <2>5. op' \in [Proc -> Op]
    <3>1. PICK keep \in SUBSET Device :
            op' = [op EXCEPT ![p] =
                     [call |-> "rekey", key |-> generated, kdf |-> ProfileOf(keyset),
                      keep |-> keep,
                      left |-> {<<x, tree[x].by>> : x \in SealedRecordPaths}]]
      BY <1>12 DEF Rekey, NewKey
    <3>2. op'[p] \in Op
      BY <1>0, <2>1, <2>3, <2>4, <3>1, OpType
    <3>3. QED
      BY <1>0, <3>1, <3>2
  <2>6. QED
    BY <1>0, <1>12, <2>1, <2>5 DEF Rekey, disk
<1>13. CASE Reseal(p)
  <2>1. PICK r \in op[p].left :
          /\ tree' = [tree EXCEPT ![r[1]] = SealRecord(op[p].key, r[2])]
          /\ op' = [op EXCEPT ![p].left = @ \ {r}]
    BY <1>13 DEF Reseal, WriteSealed
  <2>2. /\ op[p].key \in ContentKey /\ r \in Path \X (Proc \cup {"node", "nobody"})
        /\ [op[p] EXCEPT !.left = op[p].left \ {r}] \in Op
    BY <1>0, <1>13, OpShape DEF Reseal
  <2>3. tree' \in [Path -> Record]
    BY <1>0, <2>1, <2>2, SealType
  <2>4. op' \in [Proc -> Op]
    BY <1>0, <2>1, <2>2
  <2>5. QED
    BY <1>0, <1>13, <2>3, <2>4 DEF Reseal, history
<1>14. CASE RekeyKeyset(p)
  <2> DEFINE wraps == {WrapForPassphrase(op[p].key, op[p].kdf)}
                        \cup {WrapForDevice(op[p].key, d) : d \in op[p].keep}
  <2>1. /\ op[p].key \in ContentKey /\ op[p].keep \in SUBSET Device
        /\ op[p].kdf \in Profile \cup {ARGON2ID_DESKTOP}
    BY <1>0, <1>14, OpShape DEF RekeyKeyset
  <2>2. wraps \in SUBSET Wrap /\ WriteKeyset(wraps)
    BY <1>14, <2>1, WrapType DEF RekeyKeyset
  <2>3. keyset' \subseteq Wrap /\ wrapped' \in [Device -> SUBSET ContentKey]
    BY <1>0, <2>2, KeysetType
  <2>4. QED
    BY <1>0, <1>14, <2>1, <2>3, OpType DEF RekeyKeyset
<1>15. QED
  BY Kinds, <1>1, <1>2, <1>3, <1>4, <1>5, <1>6, <1>7, <1>8, <1>9, <1>10, <1>11,
     <1>12, <1>13, <1>14

(* Each step keeps the keysets sound.  What another process is about to    *)
(* write it holds already, so only the caller's own readiness changes.     *)
LEMMA ActCustody ==
  ASSUME TypeInv, NEW p \in Proc, Act(p)
  PROVE  CustodyInv'
<1> USE DEF Step
<1>0. /\ TypeOK /\ CustodyInv /\ CallReady(p) /\ op[p] \in Op /\ op \in [Proc -> Op]
      /\ handle \in [Proc -> ContentKey \cup {NoKey}] /\ NoKey \notin ContentKey
      /\ Idle.call = "none" /\ keyset \in SUBSET Wrap
  BY DEF TypeInv, TypeOK, CustodyInv, Idle, NoKey, ContentKey
<1>1. ASSUME Sound(keyset) => Sound(keyset'), keyset' = keyset \/ Sound(keyset'),
             stage' = "repo" => stage = "repo" \/ Sound(keyset'),
             stage = "repo" => stage' = "repo",
             index' = index \/ Sound(index'.keyset),
             head' = head \/ head' = index,
             CallReady(p)'
      PROVE  CustodyInv'
  <2>1. ASSUME NEW q \in Proc, q # p PROVE CallReady(q)'
    <3>1. op'[q] = op[q] /\ handle'[q] = handle[q] /\ CallReady(q)
      BY <1>0, <2>1, OthersKept DEF CustodyInv
    <3>2. QED
      BY <1>1, <3>1 DEF CallReady
  <2>2. QED
    BY <1>0, <1>1, <2>1 DEF CustodyInv
<1>2. CASE Aside(p)
  BY <1>0, <1>1, <1>2 DEF Aside, disk, Committing, CallReady
<1>3. CASE Writes(p)
  BY <1>0, <1>1, <1>3 DEF Writes, Committing, CallReady
<1>4. CASE Create(p) \/ CreateMarker(p)
  BY <1>0, <1>1, <1>4 DEF Create, CreateMarker, disk, CallReady
<1>5. CASE CreateKeyset(p)
  <2>1. Sound(keyset')
    BY <1>5, ConformingIsSpendable, SoundMade DEF CreateKeyset, WriteKeyset
  <2>2. CallReady(p)'
    BY <1>0, <1>5, <2>1 DEF CreateKeyset, CallReady
  <2>3. QED
    BY <1>1, <1>5, <2>1, <2>2 DEF CreateKeyset
<1>6. CASE InitVaultRepo(p)
  <2>1. Sound(keyset) /\ keyset' = keyset /\ op[p].key \in ContentKey
    BY <1>0, <1>6, OpShape DEF InitVaultRepo, CallReady
  <2>2. CallReady(p)'
    BY <1>0, <1>6, <2>1 DEF InitVaultRepo, CallReady, Committing
  <2>3. QED
    BY <1>1, <1>6, <2>1, <2>2 DEF InitVaultRepo
<1>7. CASE Open(p)
  <2>1. disk' = disk /\ op' = op /\ op[p] = Idle
    BY <1>7 DEF Open, UnwrapPassphraseOrExplain, OpenWithDeviceKey, Unwrapped, Unopened
  <2>2. QED
    BY <1>0, <1>1, <1>7, <2>1 DEF disk, CallReady, Open, Unopened, AssertVaultRepo
<1>8. CASE AddAll(p)
  <2>1. Sound(keyset) /\ index'.keyset = keyset
    BY <1>0, <1>8 DEF AddAll, AssertVaultRepo, CustodyInv
  <2>2. CallReady(p)'
    BY <1>0, <1>8 DEF AddAll, CallReady
  <2>3. QED
    BY <1>1, <1>8, <2>1, <2>2 DEF AddAll
<1>9. CASE Commit(p)
  <2>1. op[p].then \in After /\ op[p].call = "staged" /\ handle[p] # NoKey
    BY <1>0, <1>9, OpShape DEF Commit, CallReady
  <2>2. CallReady(p)'
    BY <1>0, <1>9, <2>1, AfterShape DEF Commit, CallReady
  <2>3. QED
    BY <1>1, <1>9, <2>2 DEF Commit
<1>10. CASE AddDeviceKey(p)
  <2>1. PICK d \in Device :
          /\ handle[p] # NoKey /\ CustodyShared(keyset)
          /\ op' = [op EXCEPT ![p] =
               [call |-> "custody", for |-> {d},
                wraps |-> keyset \cup {WrapForDevice(handle[p], d)}]]
    BY <1>10 DEF AddDeviceKey, Free
  <2>2. Sound(keyset \cup {WrapForDevice(handle[p], d)})
    BY <1>0, <2>1, SoundMade DEF CustodyShared, CustodyInv
  <2>3. CallReady(p)'
    BY <1>0, <1>10, <2>1, <2>2 DEF AddDeviceKey, CallReady, disk
  <2>4. QED
    BY <1>1, <1>10, <2>3 DEF AddDeviceKey, disk
<1>11. CASE UpgradeKdf(p)
  <2>1. PICK kdf \in Profile :
          /\ handle[p] # NoKey /\ UnwrapWithPassphrase(keyset) # {} /\ ConformingProfile(kdf)
          /\ op' = [op EXCEPT ![p] =
                  [call |-> "custody", wraps |-> RewrapPassphrase(keyset, kdf), for |-> {}]]
    BY <1>11 DEF UpgradeKdf, Free
  <2>2. Sound(RewrapPassphrase(keyset, kdf))
    BY <1>0, <2>1, ConformingIsSpendable, SoundMade DEF UnwrapWithPassphrase, CustodyInv
  <2>3. CallReady(p)'
    BY <1>0, <1>11, <2>1, <2>2 DEF UpgradeKdf, CallReady, disk
  <2>4. QED
    BY <1>1, <1>11, <2>3 DEF UpgradeKdf, disk
<1>12. CASE WriteCustody(p)
  <2>1. Sound(keyset') /\ handle[p] # NoKey
    BY <1>0, <1>12 DEF WriteCustody, WriteKeyset, CallReady
  <2>2. CallReady(p)'
    BY <1>0, <1>12, <2>1 DEF WriteCustody, CallReady, Committing
  <2>3. QED
    BY <1>1, <1>12, <2>1, <2>2 DEF WriteCustody
<1>13. CASE Rekey(p)
  <2>1. Sound(keyset)
    BY <1>0, <1>13 DEF Rekey, UnwrapWithPassphrase, CustodyInv
  <2>2. Spendable(ProfileOf(keyset)) /\ handle[p] # NoKey
    BY <1>0, <1>13, <2>1, ProfileOfSound DEF Rekey, Free
  <2>3. CallReady(p)'
    BY <1>0, <1>13, <2>2 DEF Rekey, CallReady, disk
  <2>4. QED
    BY <1>1, <1>13, <2>3 DEF Rekey, disk
<1>14. CASE Reseal(p)
  <2>1. PICK r : op' = [op EXCEPT ![p].left = @ \ {r}]
    BY <1>14 DEF Reseal
  <2>2. op'[p] = [op[p] EXCEPT !.left = @ \ {r}] /\ op[p].call = "rekey"
    BY <1>0, <1>14, <2>1 DEF Reseal
  <2>3. op'[p].call = "rekey" /\ op'[p].kdf = op[p].kdf
    BY <1>0, <2>2, OpShape
  <2>4. CallReady(p)'
    BY <1>0, <1>14, <2>2, <2>3 DEF Reseal, CallReady
  <2>5. QED
    BY <1>1, <1>14, <2>4 DEF Reseal
<1>15. CASE RekeyKeyset(p)
  <2>1. op[p].kdf \in Profile \cup {ARGON2ID_DESKTOP} /\ Spendable(op[p].kdf)
        /\ handle[p] # NoKey
    BY <1>0, <1>15, OpShape DEF RekeyKeyset, CallReady
  <2>2. Sound(keyset')
    BY <1>15, <2>1, SoundMade DEF RekeyKeyset, WriteKeyset
  <2>3. CallReady(p)'
    BY <1>0, <1>15, <2>1 DEF RekeyKeyset, CallReady, Committing
  <2>4. QED
    BY <1>1, <1>15, <2>2, <2>3 DEF RekeyKeyset
<1>16. QED
  BY Kinds, <1>2, <1>3, <1>4, <1>5, <1>6, <1>7, <1>8, <1>9, <1>10, <1>11, <1>12,
     <1>13, <1>14, <1>15

(* Restoring keeps both.                                                   *)
LEMMA RestoreType ==
  ASSUME TypeInv, Restore
  PROVE  StateOK' /\ CustodyInv'
<1>1. tree' \in [Path -> Record] /\ keyset' \subseteq Wrap
  BY DEF Restore, TypeInv, TypeOK, Snapshot
<1>2. Sound(keyset')
  BY DEF Restore, TypeInv, CustodyInv
<1>3. StateOK'
  BY <1>1 DEF Restore, TypeInv, TypeOK, StateOK, history
<1>4. CustodyInv'
  BY <1>2 DEF Restore, TypeInv, CustodyInv, CallReady
<1>5. QED
  BY <1>3, <1>4

(* The vault begins with its types.                                        *)
LEMMA TypesAtFirst == Init => TypeInv
<1>0. SUFFICES ASSUME Init PROVE TypeInv
  OBVIOUS
<1>1. TypeOK
  <2>1. /\ [x \in Path |-> Absent] \in [Path -> Record]
        /\ [p \in Proc |-> NoKey] \in [Proc -> ContentKey \cup {NoKey}]
        /\ [p \in Proc |-> Idle] \in [Proc -> Op]
        /\ [d \in Device |-> {}] \in [Device -> SUBSET ContentKey]
        /\ 0 \in 0..MaxKey + 1 /\ 0 \in 0..MaxFaults /\ 0 \in 0..MaxSteps
    BY AbsentType, OpType, VaultAssumption
  <2>2. QED
    BY <1>0, <2>1, AbsentType DEF Init, TypeOK, Stage
<1>2. CustodyInv
  BY <1>0 DEF Init, CustodyInv, CallReady, Idle
<1>3. QED
  BY <1>1, <1>2 DEF TypeInv

(* The vault keeps its types, for every number of processes and devices,   *)
(* every set of profiles and all bounds, and every keyset it stores, has   *)
(* staged or committed, or is about to write can be opened with the        *)
(* passphrase at a cost an open will spend (sealContentKey,                *)
(* rewrapPassphrase, unwrapPassphraseOrExplain).                           *)
THEOREM VaultTypes == Spec => []TypeInv
<1>1. TypeInv /\ [Next]_vars => TypeInv'
  <2>0. SUFFICES ASSUME TypeInv, [Next]_vars PROVE TypeInv'
    OBVIOUS
  <2>1. CASE Next
    <3>1. disturbed' \in 0..MaxSteps
      BY <2>0, <2>1, VaultAssumption DEF Next, TypeInv, TypeOK
    <3>2. CASE Restore
      <4>1. faults' = faults
        BY <3>2 DEF Restore
      <4>2. QED
        BY <2>0, <3>1, <3>2, <4>1, RestoreType DEF TypeInv, TypeOK, StateOK
    <3>3. ASSUME NEW p \in Proc,
                 CommitFails(p) \/ Exit(p) \/ (Call(p) /\ UNCHANGED faults)
          PROVE  TypeInv'
      <4>1. faults' \in 0..MaxFaults
        BY <2>0, <3>3, VaultAssumption
        DEF CommitFails, Exit, Fault, TypeInv, TypeOK
      <4>2. Act(p)
        BY <3>3 DEF Act
      <4>3. QED
        BY <2>0, <3>1, <4>1, <4>2, ActType, ActCustody DEF TypeInv, TypeOK, StateOK
    <3>4. QED
      BY <2>1, <3>2, <3>3 DEF Next
  <2>2. CASE UNCHANGED vars
    BY <2>0, <2>2 DEF vars, disk, history, TypeInv, TypeOK, CustodyInv, CallReady
  <2>3. QED
    BY <2>0, <2>1, <2>2
<1>2. QED
  BY TypesAtFirst, <1>1, PTL DEF Spec

-----------------------------------------------------------------------------
(* Appends.                                                                *)

Appended(t, n, p) ==
  t[AssertionPath(n)] # Absent /\ t[AssertionPath(n)].by = p

(* A tree that still has the assertions of another, from the same hands.   *)
HoldsChain(t, u) == \A n \in Seq0 : \A b : Appended(t, n, b) => Appended(u, n, b)

(* What a process will be told it appended is its own; what it will reseal *)
(* it will leave to whoever appended it.                                   *)
Keeps(p) ==
  /\ op[p].call = "commit" /\ op[p].then.call = "return" =>
       Appended(tree, op[p].then.seq, p)
  /\ op[p].call = "staged" /\ op[p].then.call = "return" =>
       Appended(index.tree, op[p].then.seq, p)
  /\ op[p].call = "rekey" =>
       \A r \in op[p].left : \A n \in Seq0 :
         r[1] = AssertionPath(n) => Appended(tree, n, r[2])

(* What the appends stand on: no assertion that was staged leaves the      *)
(* working tree, and none that was committed leaves the index.             *)
AppendInv ==
  /\ HoldsChain(head.tree, index.tree) /\ HoldsChain(index.tree, tree)
  /\ \A p \in Proc : Keeps(p)
  /\ \A a \in acked : Appended(head.tree, a[1], a[2])

(* No call takes an assertion out of the working tree or changes whose it  *)
(* is: the other records have other names, a new assertion takes a free    *)
(* one, and a re-key changes only the key.                                 *)
LEMMA ChainKept ==
  ASSUME TypeInv, AppendInv, NEW p \in Proc, Act(p)
  PROVE  HoldsChain(tree, tree')
<1> USE DEF HoldsChain, Appended
<1>0. tree \in [Path -> Record] /\ op[p] \in Op
  BY DEF TypeInv, TypeOK
<1>1. CASE tree' = tree
  BY <1>1
<1>2. CASE Writes(p)
  <2>1. PICK x \in Path, r \in Record :
          /\ tree' = [tree EXCEPT ![x] = r]
          /\ x \in Named \/ tree[x] = Absent
    BY <1>2 DEF Writes
  <2>2. QED
    BY <1>0, <2>1, Paths
<1>3. CASE Reseal(p)
  <2>1. PICK r \in op[p].left : tree' = [tree EXCEPT ![r[1]] = SealRecord(op[p].key, r[2])]
    BY <1>3 DEF Reseal, WriteSealed
  <2>2. op[p].call = "rekey" /\ op[p].key # NoKey /\ r[1] \in Path
    <3>1. op[p].call = "rekey"
      BY <1>3 DEF Reseal
    <3>2. /\ op[p].key \in ContentKey
          /\ op[p].left \in SUBSET (Path \X (Proc \cup {"node", "nobody"}))
      BY <1>0, <3>1, OpShape
    <3>3. QED
      BY <3>1, <3>2, VaultAssumption DEF ContentKey, NoKey
  <2>3. SealRecord(op[p].key, r[2]) # Absent /\ SealRecord(op[p].key, r[2]).by = r[2]
    BY <2>2 DEF SealRecord, Absent
  <2>4. ASSUME NEW n \in Seq0, NEW b, Appended(tree, n, b) PROVE Appended(tree', n, b)
    <3>1. CASE r[1] = AssertionPath(n)
      <4>1. Appended(tree, n, r[2])
        BY <2>1, <2>2, <3>1 DEF AppendInv, Keeps
      <4>2. QED
        BY <1>0, <2>1, <2>2, <2>3, <2>4, <3>1, <4>1
    <3>2. CASE r[1] # AssertionPath(n)
      BY <1>0, <2>1, <2>4, <3>2, Paths
    <3>3. QED
      BY <3>1, <3>2
  <2>5. QED
    BY <2>4
<1>4. QED
  BY Kinds, <1>1, <1>2, <1>3
  DEF Aside, Create, CreateMarker, CreateKeyset, InitVaultRepo, Open,
      UnwrapPassphraseOrExplain, OpenWithDeviceKey, Unwrapped, AddAll, Commit,
      AddDeviceKey, UpgradeKdf, WriteCustody, Rekey, RekeyKeyset, disk

(* What a process was promised stays so while the trees only gain.         *)
LEMMA PromiseKept ==
  ASSUME TypeInv, NEW q \in Proc, Keeps(q), op'[q] = op[q],
         HoldsChain(tree, tree'), HoldsChain(index.tree, index'.tree)
  PROVE  Keeps(q)'
<1>1. op[q] \in Op
  BY DEF TypeInv, TypeOK
<1>2. op[q].call \in {"commit", "staged"} /\ op[q].then.call = "return" =>
        op[q].then.seq \in Seq0
  BY <1>1, OpShape, AfterShape
<1>3. QED
  BY <1>2 DEF Keeps, HoldsChain

(* Each call keeps AppendInv.                                              *)
LEMMA AppendAct ==
  ASSUME TypeInv, AppendInv, NEW p \in Proc, Act(p)
  PROVE  AppendInv'
<1> USE DEF Step
<1>0. /\ HoldsChain(tree, tree') /\ HoldsChain(head.tree, index.tree)
      /\ HoldsChain(index.tree, tree) /\ Keeps(p)
      /\ op \in [Proc -> Op] /\ op[p] \in Op /\ Idle.call = "none"
  BY ChainKept DEF AppendInv, TypeInv, TypeOK, Idle
<1>1. ASSUME index' = index \/ (index'.tree = tree /\ tree' = tree),
             head' = head \/ (head' = index /\ index' = index),
             acked' = acked \/ \E n \in Seq0 :
               /\ acked' = acked \cup {<<n, p>>} /\ head' = index
               /\ Appended(index.tree, n, p),
             Keeps(p)'
      PROVE  AppendInv'
  <2>1. HoldsChain(index.tree, index'.tree) /\ HoldsChain(head.tree, head'.tree)
    BY <1>0, <1>1 DEF HoldsChain
  <2>2. HoldsChain(head'.tree, index'.tree) /\ HoldsChain(index'.tree, tree')
    BY <1>0, <1>1, <2>1 DEF HoldsChain
  <2>3. ASSUME NEW q \in Proc PROVE Keeps(q)'
    BY <1>0, <1>1, <2>1, OthersKept, PromiseKept DEF AppendInv
  <2>4. ASSUME NEW a \in acked' PROVE Appended(head'.tree, a[1], a[2])
    <3>1. CASE a \in acked
      <4>1. a[1] \in Seq0 /\ Appended(head.tree, a[1], a[2])
        BY <3>1 DEF TypeInv, TypeOK, AppendInv
      <4>2. QED
        BY <2>1, <4>1 DEF HoldsChain
    <3>2. CASE a \notin acked
      BY <1>1, <2>4, <3>2
    <3>3. QED
      BY <3>1, <3>2
  <2>5. QED
    BY <2>2, <2>3, <2>4 DEF AppendInv
<1>2. CASE op'[p].call \notin {"commit", "staged", "rekey"} /\ disk' = disk /\ history' = history
  BY <1>1, <1>2 DEF Keeps, disk, history
<1>3. CASE Aside(p)
  <2>1. op'[p].call \in {"none", "append"} \/ op'[p] = Committing(Idle)
    BY <1>0, <1>3 DEF Aside
  <2>2. Keeps(p)'
    BY <1>0, <2>1 DEF Keeps, Committing
  <2>3. QED
    BY <1>1, <1>3, <2>2 DEF Aside, disk, history
<1>4. CASE Writes(p)
  <2>0. index' = index /\ head' = head /\ acked' = acked
    BY <1>4 DEF Writes, history
  <2>1. PICK x \in Path, r \in Record, o \in Op :
       /\ tree' = [tree EXCEPT ![x] = r] /\ op' = [op EXCEPT ![p] = o]
       /\ \/ x \in Named /\ o \in {Committing(Idle), Committing([call |-> "meta"])}
          \/ /\ op[p].call = "append" /\ x = AssertionPath(op[p].seq)
             /\ tree[x] = Absent /\ r = SealRecord(handle[p], p)
             /\ o = Committing([call |-> "return", seq |-> op[p].seq])
    BY <1>4 DEF Writes
  <2>2. CASE o \in {Committing(Idle), Committing([call |-> "meta"])}
    <3>1. Keeps(p)'
      BY <1>0, <2>1, <2>2 DEF Keeps, Committing
    <3>2. QED
      BY <1>1, <2>0, <3>1
  <2>3. CASE /\ x = AssertionPath(op[p].seq) /\ r = SealRecord(handle[p], p)
             /\ o = Committing([call |-> "return", seq |-> op[p].seq])
    <3>1. handle[p] # NoKey /\ tree'[x] = r
      BY <1>4, <2>1 DEF Writes, TypeInv, TypeOK
    <3>2. r # Absent /\ r.by = p
      BY <2>3, <3>1 DEF SealRecord, Absent
    <3>3. Keeps(p)'
      BY <1>0, <2>1, <2>3, <3>1, <3>2 DEF Keeps, Committing, Appended
    <3>4. QED
      BY <1>1, <2>0, <3>3
  <2>4. QED
    BY <2>1, <2>2, <2>3
<1>5. CASE Create(p) \/ CreateMarker(p) \/ CreateKeyset(p)
  <2>1. Keeps(p)'
    BY <1>0, <1>5 DEF Create, CreateMarker, CreateKeyset, Keeps
  <2>2. QED
    BY <1>1, <1>5, <2>1 DEF Create, CreateMarker, CreateKeyset, disk, history
<1>6. CASE InitVaultRepo(p)
  <2>1. Keeps(p)'
    BY <1>0, <1>6 DEF InitVaultRepo, Keeps, Committing
  <2>2. QED
    BY <1>1, <1>6, <2>1 DEF InitVaultRepo, history
<1>7. CASE Open(p)
  <2>1. disk' = disk /\ history' = history /\ op' = op /\ op[p] = Idle
    BY <1>7 DEF Open, UnwrapPassphraseOrExplain, OpenWithDeviceKey, Unwrapped, Unopened
  <2>2. QED
    BY <1>0, <1>2, <2>1
<1>8. CASE AddAll(p)
  <2>1. Keeps(p)'
    BY <1>0, <1>8 DEF AddAll, Keeps
  <2>2. QED
    <3>1. index'.tree = tree /\ tree' = tree /\ head' = head /\ acked' = acked
      BY <1>8 DEF AddAll, history
    <3>2. QED
      BY <1>1, <2>1, <3>1
<1>9. CASE Commit(p)
  <2> DEFINE then == op[p].then
  <2>1. then \in After /\ op[p].call = "staged"
    BY <1>0, <1>9, OpShape DEF Commit
  <2>2. Keeps(p)'
    BY <1>0, <1>9, <2>1 DEF Commit, Keeps
  <2>3. CASE then.call = "return"
    <3>1. then.seq \in Seq0 /\ Appended(index.tree, then.seq, p)
      BY <1>0, <2>1, <2>3, AfterShape DEF Keeps
    <3>2. QED
      BY <1>1, <1>9, <2>2, <2>3, <3>1 DEF Commit
  <2>4. CASE then.call # "return"
    BY <1>1, <1>9, <2>2, <2>4 DEF Commit
  <2>5. QED
    BY <2>3, <2>4
<1>10. CASE AddDeviceKey(p) \/ UpgradeKdf(p)
  <2>1. op'[p].call = "custody"
    BY <1>0, <1>10 DEF AddDeviceKey, UpgradeKdf
  <2>2. QED
    BY <1>2, <1>10, <2>1 DEF AddDeviceKey, UpgradeKdf
<1>11. CASE WriteCustody(p)
  <2>1. Keeps(p)'
    BY <1>0, <1>11 DEF WriteCustody, Keeps, Committing
  <2>2. QED
    BY <1>1, <1>11, <2>1 DEF WriteCustody
<1>12. CASE Rekey(p)
  <2>1. tree' = tree /\ op'[p].call = "rekey"
        /\ op'[p].left = {<<x, tree[x].by>> : x \in SealedRecordPaths}
    BY <1>0, <1>12 DEF Rekey, disk
  <2>2. Keeps(p)'
    BY <2>1 DEF Keeps, Appended, SealedRecordPaths, Present
  <2>3. QED
    BY <1>1, <1>12, <2>2 DEF Rekey, disk
<1>13. CASE Reseal(p)
  <2>1. PICK r : op'[p] = [op[p] EXCEPT !.left = @ \ {r}] /\ op[p].call = "rekey"
    BY <1>0, <1>13 DEF Reseal
  <2>2. op'[p].call = "rekey" /\ op'[p].left \subseteq op[p].left
    BY <1>0, <2>1, OpShape
  <2>3. Keeps(p)'
    BY <1>0, <2>1, <2>2 DEF Keeps, HoldsChain
  <2>4. QED
    <3>1. index' = index /\ head' = head /\ acked' = acked
      BY <1>13 DEF Reseal, history
    <3>2. QED
      BY <1>1, <2>3, <3>1
<1>14. CASE RekeyKeyset(p)
  <2>1. Keeps(p)'
    BY <1>0, <1>14 DEF RekeyKeyset, Keeps, Committing
  <2>2. QED
    BY <1>1, <1>14, <2>1 DEF RekeyKeyset
<1>15. QED
  BY Kinds, <1>3, <1>4, <1>5, <1>6, <1>7, <1>8, <1>9, <1>10, <1>11, <1>12, <1>13,
     <1>14

(* Restoring puts back what was staged and takes nothing away.             *)
LEMMA AppendRestore ==
  ASSUME TypeInv, AppendInv, Restore
  PROVE  AppendInv'
<1>1. /\ head' = head /\ index' = index /\ acked' = acked /\ op' = op
      /\ \A x \in Path : tree'[x] = IF index.tree[x] # Absent THEN index.tree[x]
                                    ELSE tree[x]
  BY DEF Restore, history
<1>2. HoldsChain(index.tree, tree')
  BY <1>1, Paths DEF HoldsChain, Appended
<1>3. HoldsChain(tree, tree')
  <2>1. SUFFICES ASSUME NEW n \in Seq0, NEW b, Appended(tree, n, b),
                        index.tree[AssertionPath(n)] # Absent
                 PROVE  Appended(tree', n, b)
    BY <1>1, Paths DEF HoldsChain, Appended
  <2>2. Appended(index.tree, n, index.tree[AssertionPath(n)].by)
    BY <2>1 DEF Appended
  <2>3. Appended(tree, n, index.tree[AssertionPath(n)].by)
    BY <2>2 DEF AppendInv, HoldsChain
  <2>4. QED
    BY <1>2, <2>1, <2>2, <2>3 DEF Appended, HoldsChain
<1>4. ASSUME NEW q \in Proc PROVE Keeps(q)'
  BY <1>1, <1>3, PromiseKept DEF AppendInv, HoldsChain
<1>5. QED
  BY <1>1, <1>2, <1>4 DEF AppendInv, HoldsChain

(* What the appends stand on always holds.                                 *)
LEMMA AppendsHold == Spec => []AppendInv
<1>1. Init => AppendInv
  BY DEF Init, AppendInv, HoldsChain, Appended, Keeps, NoCommit, Idle
<1>2. TypeInv /\ AppendInv /\ [Next]_vars => AppendInv'
  <2>0. SUFFICES ASSUME TypeInv, AppendInv, [Next]_vars PROVE AppendInv'
    OBVIOUS
  <2>1. CASE Restore
    BY <2>0, <2>1, AppendRestore
  <2>2. ASSUME NEW p \in Proc, Act(p) PROVE AppendInv'
    BY <2>0, <2>2, AppendAct
  <2>3. CASE UNCHANGED vars
    BY <2>0, <2>3
    DEF vars, disk, history, AppendInv, HoldsChain, Appended, Keeps
  <2>4. QED
    BY <2>0, <2>1, <2>2, <2>3 DEF Next, Act
<1>3. QED
  BY <1>1, <1>2, VaultTypes, PTL DEF Spec

(* An append that returned its number is at that number of the last commit *)
(* for good (appendAssertion's exclusive create, commitAll), whatever the  *)
(* other processes count, write, stage, commit, re-key, restore or leave   *)
(* half done.                                                              *)
THEOREM AppendsAreKept == Spec => []AcknowledgedAppendKept
<1>1. AppendInv => AcknowledgedAppendKept
  BY DEF AppendInv, Appended, AcknowledgedAppendKept
<1>2. QED
  BY <1>1, AppendsHold, PTL

-----------------------------------------------------------------------------
(* Keys.                                                                   *)

(* Every key in play was generated.                                        *)
Made(wraps) == \A w \in wraps : w.key < generated

CallMade(p) ==
  /\ op[p].call = "create" /\ op[p].next = "repo" => op[p].key < generated
  /\ op[p].call = "custody" => Made(op[p].wraps)
  /\ op[p].call = "rekey" => op[p].key < generated
  /\ op[p].call \in {"commit", "staged"} /\ op[p].then.call = "adopt" =>
       op[p].then.key < generated

MadeInv ==
  /\ Made(keyset) /\ Made(index.keyset)
  /\ \A p \in Proc : handle[p] < generated /\ CallMade(p)
  /\ \A d \in Device : \A k \in wrapped[d] : k < generated

(* A vault nobody has marked is nobody's.                                  *)
Unmarked ==
  stage = "none" =>
    /\ revoked = {}
    /\ \A p \in Proc : /\ handle[p] = NoKey
                       /\ op[p] = Idle \/ (Creating(p) /\ op[p].next = "marker")

(* A keyset of made keys leaves the devices made keys.                     *)
LEMMA MadeWritten ==
  ASSUME TypeInv, MadeInv, NEW wraps \in SUBSET Wrap, WriteKeyset(wraps),
         \A w \in wraps : w.key < generated', generated' \in Int, generated <= generated'
  PROVE  /\ Made(keyset)'
         /\ \A d \in Device : \A k \in wrapped'[d] : k < generated'
<1>1. ASSUME NEW d \in Device, NEW k \in wrapped'[d] PROVE k < generated'
  <2>1. k \in wrapped[d] \/ \E w \in wraps : w.key = k
    BY <1>1 DEF WriteKeyset, UnwrapWithDevice
  <2>2. CASE k \in wrapped[d]
    BY <2>2 DEF MadeInv, TypeInv, TypeOK, ContentKey
  <2>3. QED
    BY <2>1, <2>2
<1>2. QED
  BY <1>1 DEF Made, WriteKeyset

LEMMA MadeAct ==
  ASSUME TypeInv, MadeInv, NEW p \in Proc, Act(p)
  PROVE  MadeInv'
<1> USE DEF Step
<1>0. /\ generated \in Int /\ NoKey < 0 /\ NoKey \in Int /\ ContentKey \subseteq Int
      /\ op \in [Proc -> Op] /\ op[p] \in Op
      /\ handle \in [Proc -> ContentKey \cup {NoKey}] /\ handle[p] < generated /\ 0 <= generated
      /\ handle[p] \in Int
      /\ CallMade(p) /\ Idle.call = "none" /\ keyset \in SUBSET Wrap
      /\ index.keyset \in SUBSET Wrap /\ \A w \in Wrap : w.key \in Int
  BY DEF TypeInv, TypeOK, MadeInv, Idle, NoKey, ContentKey, Snapshot, Wrap
<1>1. ASSUME generated' \in Int, generated <= generated',
             keyset' = keyset \/ Made(keyset)',
             index'.keyset = index.keyset \/ (index'.keyset = keyset /\ generated' = generated),
             handle'[p] < generated', CallMade(p)',
             \/ wrapped' = wrapped
             \/ \A d \in Device : \A k \in wrapped'[d] : k < generated'
      PROVE  MadeInv'
  <2>1. ASSUME NEW q \in Proc, q # p PROVE handle'[q] < generated' /\ CallMade(q)'
    <3>1. /\ op'[q] = op[q] /\ handle'[q] = handle[q] /\ CallMade(q)
          /\ handle[q] < generated /\ handle[q] \in Int /\ op[q] \in Op
      BY <1>0, <2>1, OthersKept DEF MadeInv
    <3>2. /\ op[q].call = "create" /\ op[q].next = "repo" => op[q].key \in Int
          /\ op[q].call = "custody" => op[q].wraps \in SUBSET Wrap
          /\ op[q].call = "rekey" => op[q].key \in Int
          /\ op[q].call \in {"commit", "staged"} /\ op[q].then.call = "adopt" =>
               op[q].then.key \in Int
      BY <1>0, <3>1, OpShape, AfterShape
    <3>3. CallMade(q)'
      BY <1>0, <1>1, <3>1, <3>2 DEF CallMade, Made
    <3>4. QED
      BY <1>0, <1>1, <3>1, <3>3
  <2>2. Made(keyset)' /\ Made(index.keyset)'
    BY <1>0, <1>1 DEF MadeInv, Made
  <2>3. ASSUME NEW d \in Device, NEW k \in wrapped'[d] PROVE k < generated'
    <3>1. CASE wrapped' = wrapped
      BY <1>0, <1>1, <2>3, <3>1 DEF MadeInv, TypeInv, TypeOK
    <3>2. QED
      BY <1>1, <2>3, <3>1
  <2>4. QED
    BY <1>1, <2>1, <2>2, <2>3 DEF MadeInv
<1>2. CASE Aside(p)
  <2>1. op'[p].call \in {"none", "append"} \/ op'[p] = Committing(Idle)
    BY <1>0, <1>2 DEF Aside
  <2>2. CallMade(p)'
    BY <1>0, <2>1 DEF CallMade, Committing
  <2>3. handle'[p] < generated
    BY <1>0, <1>2 DEF Aside
  <2>4. QED
    BY <1>0, <1>1, <1>2, <2>2, <2>3 DEF Aside, disk, history
<1>3. CASE Writes(p)
  <2>1. op'[p].call = "commit" /\ op'[p].then.call # "adopt"
    BY <1>0, <1>3 DEF Writes, Committing
  <2>2. QED
    BY <1>0, <1>1, <1>3, <2>1 DEF Writes, history, CallMade
<1>4. CASE Create(p) \/ CreateMarker(p)
  <2>1. CallMade(p)'
    BY <1>0, <1>4 DEF Create, CreateMarker, CallMade
  <2>2. QED
    BY <1>0, <1>1, <1>4, <2>1 DEF Create, CreateMarker, disk, history
<1>5. CASE CreateKeyset(p)
  <2>1. PICK kdf \in Profile, ds \in SUBSET Device :
          WriteKeyset({WrapForPassphrase(generated, kdf)}
                        \cup {WrapForDevice(generated, d) : d \in ds})
    BY <1>5 DEF CreateKeyset
  <2> DEFINE wraps == {WrapForPassphrase(generated, kdf)}
                        \cup {WrapForDevice(generated, d) : d \in ds}
  <2>2. generated \in ContentKey /\ generated' = generated + 1
    BY <1>0, <1>5, VaultAssumption DEF CreateKeyset, ContentKey
  <2>3. wraps \in SUBSET Wrap /\ \A w \in wraps : w.key < generated'
    BY <1>0, <2>2, WrapType DEF WrapForPassphrase, WrapForDevice
  <2>4. /\ Made(keyset)' /\ \A d \in Device : \A k \in wrapped'[d] : k < generated'
    BY <1>0, <2>1, <2>2, <2>3, MadeWritten
  <2>5. CallMade(p)' /\ handle'[p] < generated'
    <3>1. op'[p] = [call |-> "create", next |-> "repo", key |-> generated]
          /\ handle' = handle
      BY <1>0, <1>5 DEF CreateKeyset
    <3>2. QED
      BY <1>0, <2>2, <3>1 DEF CallMade
  <2>6. QED
    BY <1>0, <1>1, <1>5, <2>2, <2>4, <2>5 DEF CreateKeyset
<1>6. CASE InitVaultRepo(p)
  <2>1. CallMade(p)' /\ handle'[p] < generated'
    BY <1>0, <1>6 DEF InitVaultRepo, CallMade, Committing, history
  <2>2. QED
    BY <1>0, <1>1, <1>6, <2>1 DEF InitVaultRepo, history
<1>7. CASE Open(p)
  <2>1. PICK key : Unwrapped(p, key) /\ \E w \in keyset : key = w.key
    BY <1>7 DEF Open, UnwrapPassphraseOrExplain, OpenWithDeviceKey,
                UnwrapWithPassphrase, UnwrapWithDevice
  <2>2. CallMade(p)' /\ handle'[p] < generated'
    BY <1>0, <1>7, <2>1 DEF Unwrapped, MadeInv, Made, CallMade, history
  <2>3. QED
    BY <1>0, <1>1, <2>1, <2>2 DEF Unwrapped, disk, history
<1>8. CASE AddAll(p)
  <2>1. CallMade(p)'
    BY <1>0, <1>8 DEF AddAll, CallMade, history
  <2>2. index'.keyset = keyset
    BY <1>8 DEF AddAll
  <2>3. QED
    BY <1>0, <1>1, <1>8, <2>1, <2>2 DEF AddAll, history
<1>9. CASE Commit(p)
  <2>1. op[p].then \in After /\ op[p].call = "staged"
    BY <1>0, <1>9, OpShape DEF Commit
  <2>2. CallMade(p)' /\ handle'[p] < generated'
    BY <1>0, <1>9, <2>1, AfterShape DEF Commit, CallMade
  <2>3. QED
    BY <1>0, <1>1, <1>9, <2>2 DEF Commit
<1>10. CASE AddDeviceKey(p)
  <2>1. PICK d \in Device :
          op' = [op EXCEPT ![p] =
               [call |-> "custody", for |-> {d},
                wraps |-> keyset \cup {WrapForDevice(handle[p], d)}]]
    BY <1>10 DEF AddDeviceKey
  <2>2. Made(keyset \cup {WrapForDevice(handle[p], d)})
    BY <1>0 DEF MadeInv, Made, WrapForDevice
  <2>3. CallMade(p)'
    BY <1>0, <1>10, <2>1, <2>2 DEF AddDeviceKey, CallMade, Made, history
  <2>4. QED
    BY <1>0, <1>1, <1>10, <2>3 DEF AddDeviceKey, disk, history
<1>11. CASE UpgradeKdf(p)
  <2>1. PICK kdf \in Profile :
          op' = [op EXCEPT ![p] =
                  [call |-> "custody", wraps |-> RewrapPassphrase(keyset, kdf), for |-> {}]]
    BY <1>11 DEF UpgradeKdf
  <2>2. Made(RewrapPassphrase(keyset, kdf))
    BY DEF MadeInv, Made, RewrapPassphrase, WrapForPassphrase
  <2>3. CallMade(p)'
    BY <1>0, <1>11, <2>1, <2>2 DEF UpgradeKdf, CallMade, Made, history
  <2>4. QED
    BY <1>0, <1>1, <1>11, <2>3 DEF UpgradeKdf, disk, history
<1>12. CASE WriteCustody(p)
  <2>1. op[p].wraps \in SUBSET Wrap /\ Made(op[p].wraps) /\ generated' = generated
    BY <1>0, <1>12, OpShape DEF WriteCustody, CallMade
  <2>2. /\ Made(keyset)' /\ \A d \in Device : \A k \in wrapped'[d] : k < generated'
    BY <1>0, <1>12, <2>1, MadeWritten DEF WriteCustody, Made
  <2>3. CallMade(p)'
    BY <1>0, <1>12 DEF WriteCustody, CallMade, Committing
  <2>4. QED
    BY <1>0, <1>1, <1>12, <2>2, <2>3 DEF WriteCustody
<1>13. CASE Rekey(p)
  <2>1. /\ generated' = generated + 1 /\ op'[p].call = "rekey" /\ op'[p].key = generated
    BY <1>0, <1>13 DEF Rekey, NewKey
  <2>2. CallMade(p)'
    BY <1>0, <2>1 DEF CallMade
  <2>3. QED
    <3>1. keyset' = keyset /\ index' = index /\ handle' = handle /\ wrapped' = wrapped
      BY <1>13 DEF Rekey, disk
    <3>2. QED
      BY <1>0, <1>1, <2>1, <2>2, <3>1
<1>14. CASE Reseal(p)
  <2>1. PICK r : op'[p] = [op[p] EXCEPT !.left = @ \ {r}] /\ op[p].call = "rekey"
    BY <1>0, <1>14 DEF Reseal
  <2>2. op'[p].call = "rekey" /\ op'[p].key = op[p].key
    BY <1>0, <2>1, OpShape
  <2>3. CallMade(p)'
    BY <1>0, <1>14, <2>1, <2>2 DEF CallMade, Reseal, history
  <2>4. QED
    BY <1>0, <1>1, <1>14, <2>3 DEF Reseal, history
<1>15. CASE RekeyKeyset(p)
  <2> DEFINE wraps == {WrapForPassphrase(op[p].key, op[p].kdf)}
                        \cup {WrapForDevice(op[p].key, d) : d \in op[p].keep}
  <2>1. /\ op[p].key \in ContentKey /\ op[p].keep \in SUBSET Device
        /\ op[p].kdf \in Profile \cup {ARGON2ID_DESKTOP} /\ op[p].key < generated
        /\ generated' = generated /\ WriteKeyset(wraps)
    BY <1>0, <1>15, OpShape DEF RekeyKeyset, CallMade
  <2>2. wraps \in SUBSET Wrap /\ \A w \in wraps : w.key < generated
    BY <2>1, WrapType DEF WrapForPassphrase, WrapForDevice
  <2>3. /\ Made(keyset)' /\ \A d \in Device : \A k \in wrapped'[d] : k < generated'
    BY <1>0, <2>1, <2>2, MadeWritten
  <2>4. CallMade(p)'
    BY <1>0, <1>15, <2>1 DEF RekeyKeyset, CallMade, Committing
  <2>5. QED
    BY <1>0, <1>1, <1>15, <2>1, <2>3, <2>4 DEF RekeyKeyset
<1>16. QED
  BY Kinds, <1>2, <1>3, <1>4, <1>5, <1>6, <1>7, <1>8, <1>9, <1>10, <1>11, <1>12,
     <1>13, <1>14, <1>15

(* What marks the vault is the second step of a creation; until then there *)
(* are only creations.                                                     *)
LEMMA UnmarkedAct ==
  ASSUME TypeInv, Unmarked, NEW p \in Proc, Act(p)
  PROVE  Unmarked'
<1> USE DEF Step
<1>0. /\ op \in [Proc -> Op] /\ Idle.call = "none"
      /\ handle \in [Proc -> ContentKey \cup {NoKey}]
  BY DEF TypeInv, TypeOK, Idle
<1>1. CASE stage = "none"
  <2>1. /\ revoked = {} /\ handle[p] = NoKey
        /\ op[p] = Idle \/ (Creating(p) /\ op[p].next = "marker")
    BY <1>1 DEF Unmarked
  <2>2. CASE Create(p)
    BY <1>0, <1>1, <2>2 DEF Create, Unmarked, Creating, disk, history
  <2>3. CASE CreateMarker(p)
    BY <1>1, <2>3 DEF CreateMarker, Unmarked
  <2>4. CASE Exit(p)
    BY <1>0, <1>1, <2>4 DEF Exit, Unmarked, Creating, disk, history
  <2>5. CASE Aside(p)
    BY <1>0, <1>1, <2>1, <2>5 DEF Aside, Unmarked, Creating, disk, history
  <2>6. ~Writes(p) /\ ~CreateKeyset(p) /\ ~InitVaultRepo(p) /\ ~AddAll(p) /\ ~Commit(p)
    BY <1>0, <2>1 DEF Writes, CreateKeyset, InitVaultRepo, AddAll, Commit, Creating
  <2>7. ~Open(p)
    BY <1>1 DEF Open, Unopened, AssertVaultRepo
  <2>8. ~AddDeviceKey(p) /\ ~UpgradeKdf(p) /\ ~WriteCustody(p) /\ ~Rekey(p)
        /\ ~Reseal(p) /\ ~RekeyKeyset(p)
    BY <1>0, <2>1 DEF AddDeviceKey, UpgradeKdf, WriteCustody, Rekey, Reseal,
                      RekeyKeyset, Free, Creating
  <2>9. QED
    BY Kinds, <2>2, <2>3, <2>4, <2>5, <2>6, <2>7, <2>8
<1>2. CASE stage # "none"
  <2>1. stage' # "none"
    BY Kinds, <1>2
    DEF Aside, Writes, Create, CreateMarker, CreateKeyset, InitVaultRepo, Open,
        UnwrapPassphraseOrExplain, OpenWithDeviceKey, Unwrapped, AddAll, Commit,
        AddDeviceKey, UpgradeKdf, WriteCustody, Rekey, Reseal, RekeyKeyset, disk
  <2>2. QED
    BY <2>1 DEF Unmarked
<1>3. QED
  BY <1>1, <1>2

(* Sealed and wrapped throughout under one key.                            *)
AllIn(s, k) ==
  (\A w \in s.keyset : w.key = k) /\ \A x \in Path : Reads(k, s.tree[x])

Adopting(p) == op[p].call \in {"commit", "staged"} /\ op[p].then.call = "adopt"

(* What a re-key has not resealed yet it still has to.                     *)
HalfSealed(p) ==
  \A x \in Path :
    tree[x] = Absent \/ tree[x].key = op[p].key \/ <<x, tree[x].by>> \in op[p].left

CallSealed(p) ==
  /\ Creating(p) =>
       /\ stage # "repo" /\ revoked = {}
       /\ \A q \in Proc : handle[q] = NoKey /\ (q # p => op[q] = Idle)
  /\ op[p].call = "rekey" => HalfSealed(p)
  /\ Adopting(p) => /\ AllUnder(op[p].then.key)
                    /\ op[p].call = "staged" => AllIn(index, op[p].then.key)

(* While nothing disturbs the vault, what is staged and what is committed  *)
(* are each under one key.                                                 *)
KeyInv ==
  /\ ~Disturbing
  /\ \E k \in ContentKey : AllIn(index, k)
  /\ \E k \in ContentKey : AllIn(head, k)
  /\ \A p \in Proc : CallSealed(p)

(* Whoever creates does so alone, and while somebody re-keys the others    *)
(* only open the vault, or close it.                                       *)
LEMMA Alone ==
  ASSUME TypeInv, KeyInv, NEW p \in Proc, Act(p), ~Disturbing', NEW q \in Proc, q # p
  PROVE  /\ ~Creating(q) /\ ~Creating(q)'
         /\ Rekeying(q) => UNCHANGED <<disk, history>>
         /\ Rekeying(p) \/ Creating(p) => op[q] = Idle
<1> USE DEF Step
<1>0. /\ op'[q] = op[q] /\ handle'[q] = handle[q] /\ op \in [Proc -> Op]
      /\ handle \in [Proc -> ContentKey \cup {NoKey}] /\ CallSealed(q) /\ CallSealed(p)
      /\ NoKey \notin ContentKey /\ Idle.call = "none"
  BY OthersKept DEF TypeInv, TypeOK, KeyInv, ContentKey, NoKey, Idle
<1>1. Rekeying(p) \/ Creating(p) => op[q] = Idle
  BY <1>0 DEF KeyInv, Disturbing, CallSealed
<1>2. Rekeying(q) => op[p] = Idle /\ op'[p] = Idle
  BY <1>0 DEF KeyInv, Disturbing, Rekeying
<1>3. ASSUME op[p] = Idle, op'[p] = Idle PROVE UNCHANGED <<disk, history>>
  <2>1. ~Writes(p)
    BY <1>0, <1>3 DEF Writes, Committing
  <2>2. ~Create(p) /\ ~CreateMarker(p) /\ ~CreateKeyset(p) /\ ~InitVaultRepo(p)
        /\ ~AddAll(p) /\ ~Commit(p) /\ ~WriteCustody(p) /\ ~Reseal(p) /\ ~RekeyKeyset(p)
    BY <1>0, <1>3 DEF Create, CreateMarker, CreateKeyset, InitVaultRepo, AddAll, Commit,
                      WriteCustody, Reseal, RekeyKeyset
  <2>3. ~AddDeviceKey(p) /\ ~UpgradeKdf(p) /\ ~Rekey(p)
    BY <1>0, <1>3 DEF AddDeviceKey, UpgradeKdf, Rekey
  <2>4. Aside(p) \/ Open(p)
    BY Kinds, <2>1, <2>2, <2>3
  <2>5. QED
    BY <2>4 DEF Aside, Open, UnwrapPassphraseOrExplain, OpenWithDeviceKey, Unwrapped
<1>4. ~Creating(q)
  <2>1. CASE Create(p)
    <3>1. Creating(p)' /\ op'[p] # Idle
      BY <1>0, <2>1 DEF Create, Creating
    <3>2. QED
      BY <1>0, <3>1 DEF Disturbing, Creating
  <2>2. CASE Open(p)
    BY <1>0, <2>2 DEF Open, Unopened, AssertVaultRepo, CallSealed
  <2>3. CASE handle[p] # NoKey \/ op[p] # Idle
    BY <1>0, <2>3 DEF CallSealed
  <2>4. Create(p) \/ Open(p) \/ handle[p] # NoKey \/ op[p] # Idle
    <3>1. Aside(p) \/ Writes(p) => handle[p] # NoKey \/ op[p] # Idle
      BY DEF Aside, Writes
    <3>2. CreateMarker(p) \/ CreateKeyset(p) \/ InitVaultRepo(p) \/ AddAll(p) \/ Commit(p)
            \/ WriteCustody(p) \/ Reseal(p) \/ RekeyKeyset(p) => op[p] # Idle
      BY <1>0 DEF CreateMarker, CreateKeyset, InitVaultRepo, AddAll, Commit, WriteCustody,
             Reseal, RekeyKeyset
    <3>3. AddDeviceKey(p) \/ UpgradeKdf(p) \/ Rekey(p) => handle[p] # NoKey
      BY DEF AddDeviceKey, UpgradeKdf, Rekey, Free
    <3>4. QED
      BY Kinds, <3>1, <3>2, <3>3
  <2>5. QED
    BY <2>1, <2>2, <2>3, <2>4
<1>5. QED
  BY <1>0, <1>1, <1>2, <1>3, <1>4 DEF Creating

(* A commit begun by another call is of a vault under the caller's key.    *)
LEMMA StagesOneKey ==
  ASSUME TypeInv, KeyInv, NEW p \in Proc, AddAll(p)
  PROVE  \E k \in ContentKey : AllIn(index', k)
<1>0. op[p] \in Op /\ handle[p] \in ContentKey /\ op[p].call = "commit" /\ op[p] # Idle
      /\ index' = [tree |-> tree, keyset |-> keyset]
  BY DEF AddAll, TypeInv, TypeOK, CustodyInv, CallReady, Idle
<1>1. CASE Rekeying(p)
  <2>1. op[p].then.key \in ContentKey /\ AllUnder(op[p].then.key)
    BY <1>0, <1>1, OpShape, AfterShape DEF Rekeying, KeyInv, CallSealed, Adopting
  <2>2. QED
    BY <1>0, <2>1 DEF AllUnder, AllIn
<1>2. CASE ~Rekeying(p)
  <2>1. AllUnder(handle[p])
    BY <1>0, <1>2 DEF KeyInv, Disturbing, AtWork, Creating
  <2>2. QED
    BY <1>0, <2>1 DEF AllUnder, AllIn
<1>3. QED
  BY <1>1, <1>2

LEMMA KeyAct ==
  ASSUME TypeInv, Unmarked, KeyInv, NEW p \in Proc, Act(p), ~Disturbing'
  PROVE  KeyInv'
<1> USE DEF Step
<1>0. /\ op \in [Proc -> Op] /\ op[p] \in Op /\ Idle.call = "none" /\ CallSealed(p)
      /\ tree \in [Path -> Record] /\ handle \in [Proc -> ContentKey \cup {NoKey}]
  BY DEF TypeInv, TypeOK, KeyInv, Idle
<1>1. ASSUME index' = index \/ AddAll(p), head' = head \/ head' = index, CallSealed(p)'
      PROVE  KeyInv'
  <2>1. \E k \in ContentKey : AllIn(index', k)
    BY <1>1, StagesOneKey DEF KeyInv
  <2>2. \E k \in ContentKey : AllIn(head', k)
    BY <1>1 DEF KeyInv
  <2>3. ASSUME NEW q \in Proc, q # p PROVE CallSealed(q)'
    <3>1. op'[q] = op[q] /\ ~Creating(q)' /\ (Rekeying(q) => disk' = disk) /\ CallSealed(q)
      BY <2>3, Alone, OthersKept DEF KeyInv
    <3>2. CASE Rekeying(q)
      BY <3>1, <3>2 DEF CallSealed, HalfSealed, Adopting, AllUnder, Creating, disk
    <3>3. CASE ~Rekeying(q)
      BY <3>1, <3>3 DEF CallSealed, Rekeying, Adopting, Creating
    <3>4. QED
      BY <3>2, <3>3
  <2>4. QED
    BY <1>1, <2>1, <2>2, <2>3 DEF KeyInv
<1>2. ASSUME op'[p].call \notin {"create", "rekey"},
             op'[p].call \in {"commit", "staged"} => op'[p].then.call # "adopt"
      PROVE  CallSealed(p)'
  BY <1>2 DEF CallSealed, Creating, Adopting
<1>3. CASE Aside(p)
  <2>1. op'[p].call \in {"none", "append"} \/ op'[p] = Committing(Idle)
    BY <1>0, <1>3 DEF Aside
  <2>2. CallSealed(p)'
    BY <1>0, <1>2, <2>1 DEF Committing
  <2>3. QED
    BY <1>1, <1>3, <2>2 DEF Aside, disk
<1>4. CASE Writes(p)
  <2>1. op'[p].call = "commit" /\ op'[p].then.call # "adopt"
    BY <1>0, <1>4 DEF Writes, Committing
  <2>2. CallSealed(p)'
    BY <1>2, <2>1
  <2>3. QED
    BY <1>1, <1>4, <2>2 DEF Writes
<1>5. CASE Create(p)
  <2>1. /\ stage' # "repo" /\ revoked' = {}
        /\ \A q \in Proc : handle'[q] = NoKey /\ (q # p => op'[q] = Idle)
    <3>1. /\ stage = "none" /\ stage' = stage /\ revoked' = revoked /\ handle' = handle
      BY <1>5 DEF Create, disk, history
    <3>2. ASSUME NEW q \in Proc PROVE handle[q] = NoKey /\ (q # p => op'[q] = Idle)
      BY <3>1, <3>2, Alone, OthersKept DEF Unmarked
    <3>3. QED
      BY <3>1, <3>2 DEF Unmarked
  <2>2. op'[p].call = "create"
    BY <1>0, <1>5 DEF Create
  <2>3. CallSealed(p)'
    BY <2>1, <2>2 DEF CallSealed, Creating, Adopting
  <2>4. QED
    BY <1>1, <1>5, <2>3 DEF Create, disk
<1>6. CASE CreateMarker(p) \/ CreateKeyset(p)
  <2>1. Creating(p) /\ stage' # "repo" /\ revoked' = revoked /\ handle' = handle
        /\ op'[p].call = "create" /\ \A q \in Proc : q # p => op'[q] = op[q]
    BY <1>0, <1>6 DEF CreateMarker, CreateKeyset, Creating, CallSealed, history
  <2>2. CallSealed(p)'
    BY <1>0, <2>1 DEF CallSealed, Creating, Adopting
  <2>3. QED
    BY <1>1, <1>6, <2>2 DEF CreateMarker, CreateKeyset
<1>7. CASE InitVaultRepo(p)
  <2>1. CallSealed(p)'
    BY <1>0, <1>2, <1>7 DEF InitVaultRepo, Committing
  <2>2. QED
    BY <1>1, <1>7, <2>1 DEF InitVaultRepo
<1>8. CASE Open(p)
  <2>1. disk' = disk /\ op'[p] = Idle
    BY <1>0, <1>8 DEF Open, UnwrapPassphraseOrExplain, OpenWithDeviceKey, Unwrapped,
                      Unopened
  <2>2. QED
    BY <1>0, <1>1, <1>2, <2>1 DEF disk
<1>9. CASE AddAll(p)
  <2>1. op'[p] = [call |-> "staged", then |-> op[p].then] /\ tree' = tree
        /\ keyset' = keyset /\ index' = [tree |-> tree, keyset |-> keyset]
        /\ op[p].call = "commit"
    BY <1>0, <1>9 DEF AddAll
  <2>2. CallSealed(p)'
    BY <1>0, <2>1 DEF CallSealed, Creating, Adopting, AllUnder, AllIn
  <2>3. QED
    BY <1>1, <1>9, <2>2 DEF AddAll
<1>10. CASE Commit(p)
  <2>1. op[p].then \in After /\ op[p].call = "staged"
    BY <1>0, <1>10, OpShape DEF Commit
  <2>2. op'[p].call \in {"none", "meta"}
    BY <1>0, <1>10, <2>1 DEF Commit
  <2>3. QED
    BY <1>1, <1>2, <1>10, <2>2 DEF Commit
<1>11. CASE AddDeviceKey(p) \/ UpgradeKdf(p)
  <2>1. op'[p].call = "custody" /\ index' = index /\ head' = head
    BY <1>0, <1>11 DEF AddDeviceKey, UpgradeKdf, disk
  <2>2. QED
    BY <1>1, <1>2, <2>1
<1>12. CASE WriteCustody(p)
  <2>1. op'[p] = Committing(Idle)
    BY <1>0, <1>12 DEF WriteCustody
  <2>2. QED
    BY <1>0, <1>1, <1>2, <1>12, <2>1 DEF WriteCustody, Committing
<1>13. CASE Rekey(p)
  <2>1. op'[p].call = "rekey" /\ tree' = tree
        /\ op'[p].left = {<<x, tree[x].by>> : x \in SealedRecordPaths}
    BY <1>0, <1>13 DEF Rekey, disk
  <2>2. HalfSealed(p)'
    BY <2>1 DEF HalfSealed, SealedRecordPaths, Present
  <2>3. CallSealed(p)'
    BY <2>1, <2>2 DEF CallSealed, Creating, Adopting
  <2>4. QED
    BY <1>1, <1>13, <2>3 DEF Rekey, disk
<1>14. CASE Reseal(p)
  <2>1. PICK r \in op[p].left :
          /\ tree' = [tree EXCEPT ![r[1]] = SealRecord(op[p].key, r[2])]
          /\ op'[p] = [op[p] EXCEPT !.left = @ \ {r}] /\ op[p].call = "rekey"
    BY <1>0, <1>14 DEF Reseal, WriteSealed
  <2>2. /\ op'[p].call = "rekey" /\ op'[p].key = op[p].key
        /\ op'[p].left = op[p].left \ {r}
    BY <1>0, <2>1, OpShape
  <2>3. ASSUME NEW x \in Path
        PROVE  \/ tree'[x] = Absent \/ tree'[x].key = op[p].key
               \/ <<x, tree'[x].by>> \in op[p].left \ {r}
    <3>1. CASE x = r[1]
      BY <1>0, <2>1, <3>1 DEF SealRecord
    <3>2. CASE x # r[1]
      <4>1. tree'[x] = tree[x] /\ <<x, tree[x].by>> # r
        BY <1>0, <2>1, <3>2
      <4>2. QED
        BY <1>0, <2>1, <4>1 DEF CallSealed, HalfSealed
    <3>3. QED
      BY <3>1, <3>2
  <2>4. CallSealed(p)'
    BY <2>2, <2>3 DEF CallSealed, HalfSealed, Creating, Adopting
  <2>5. QED
    BY <1>1, <1>14, <2>4 DEF Reseal
<1>15. CASE RekeyKeyset(p)
  <2>1. PICK key, keep :
          /\ keyset' = {WrapForPassphrase(key, op[p].kdf)}
                         \cup {WrapForDevice(key, d) : d \in keep}
          /\ tree' = tree /\ op[p].call = "rekey" /\ op[p].left = {} /\ op[p].key = key
          /\ op'[p] = Committing([call |-> "adopt", key |-> key, keep |-> keep])
    BY <1>0, <1>15 DEF RekeyKeyset, WriteKeyset
  <2>2. \A w \in keyset' : w.key = key
    BY <2>1 DEF WrapForPassphrase, WrapForDevice
  <2>3. \A x \in Path : Reads(key, tree'[x])
    BY <1>0, <2>1 DEF CallSealed, HalfSealed, Reads
  <2>4. /\ op'[p].call = "commit" /\ op'[p].then.key = key
    BY <2>1 DEF Committing
  <2>5. CallSealed(p)'
    BY <2>2, <2>3, <2>4 DEF CallSealed, Creating, Adopting, AllUnder
  <2>6. QED
    BY <1>1, <1>15, <2>5 DEF RekeyKeyset
<1>16. QED
  BY Kinds, <1>3, <1>4, <1>5, <1>6, <1>7, <1>8, <1>9, <1>10, <1>11, <1>12, <1>13,
     <1>14, <1>15

(* Restoring, while no re-key runs, stages and commits nothing.            *)
LEMMA KeyRestore ==
  ASSUME TypeInv, KeyInv, Restore, ~Disturbing'
  PROVE  KeyInv'
<1>1. /\ stage' = stage /\ index' = index /\ head' = head /\ handle' = handle
      /\ op' = op /\ revoked' = revoked /\ \A p \in Proc : ~Rekeying(p)
  BY DEF Restore, history
<1>2. ASSUME NEW p \in Proc PROVE CallSealed(p)'
  BY <1>1 DEF KeyInv, CallSealed, Creating, Rekeying, Adopting
<1>3. QED
  BY <1>1, <1>2 DEF KeyInv

(* What a device that was ever wrapped the keys in seen gets nothing from. *)
NoWrap(d, wraps) == \A w \in wraps : ~(w.kind = "device" /\ w.label = d)
Shut(d, seen, wraps) == NoWrap(d, wraps) /\ \A w \in wraps : w.key \notin seen
Hidden(seen, t) == \A x \in Path : t[x] # Absent => t[x].key \notin seen

(* A revoked device saw no key that is in use, or that can come back.      *)
Out(d) ==
  /\ Shut(d, wrapped[d], keyset) /\ Shut(d, wrapped[d], index.keyset)
  /\ Hidden(wrapped[d], tree) /\ Hidden(wrapped[d], index.tree)
  /\ Hidden(wrapped[d], head.tree)

(* Nor will it by the call a process is in, unless that lets it in again.  *)
CallShut(p) ==
  /\ op[p].call = "custody" =>
       \A d \in revoked \ op[p].for : Shut(d, wrapped[d], op[p].wraps)
  /\ op[p].call = "rekey" => \A d \in Device : op[p].key \notin wrapped[d]
  /\ Adopting(p) =>
       \A d \in Device \ op[p].then.keep :
         /\ op[p].then.key \notin wrapped[d] /\ NoWrap(d, keyset)
         /\ op[p].call = "staged" => NoWrap(d, index.keyset)

RevokedInv == (\A d \in revoked : Out(d)) /\ \A p \in Proc : CallShut(p)

(* A keyset without a wrap for a device shows it no key.                   *)
LEMMA NothingShown ==
  ASSUME TypeInv, NEW wraps, WriteKeyset(wraps), NEW d \in Device, NoWrap(d, wraps)
  PROVE  wrapped'[d] = wrapped[d]
<1>1. UnwrapWithDevice(wraps, d) = {}
  BY DEF UnwrapWithDevice, NoWrap
<1>2. QED
  BY <1>1 DEF WriteKeyset

(* The key of a call that nothing disturbs is one no revoked device saw:   *)
(* the keyset wraps it.                                                    *)
LEMMA KeyUnseen ==
  ASSUME TypeInv, RevokedInv, NEW p \in Proc, NEW d \in revoked, handle[p] # NoKey,
         handle' = handle, keyset' = keyset, AtWork(p)', ~Disturbing'
  PROVE  handle[p] \notin wrapped[d]
<1>1. Sound(keyset)
  BY DEF TypeInv, CustodyInv, CallReady
<1>2. PICK w \in keyset : TRUE
  BY <1>1, SoundMade
<1>3. w.key = handle[p]
  BY <1>2 DEF Disturbing, AllUnder
<1>4. QED
  BY <1>2, <1>3 DEF RevokedInv, Out, Shut

LEMMA RevokedAct ==
  ASSUME TypeInv, MadeInv, KeyInv, RevokedInv, NEW p \in Proc, Act(p), ~Disturbing'
  PROVE  RevokedInv'
<1> USE DEF Step
<1>0. /\ op \in [Proc -> Op] /\ op[p] \in Op /\ Idle.call = "none" /\ CallSealed(p)
      /\ CallShut(p) /\ tree \in [Path -> Record]
      /\ handle \in [Proc -> ContentKey \cup {NoKey}]
      /\ revoked \subseteq Device /\ \A d \in Device : NoKey \notin wrapped[d]
      /\ op[p].call \notin {"none", "create"} => handle[p] # NoKey
  BY DEF TypeInv, TypeOK, CustodyInv, CallReady, KeyInv, RevokedInv, Idle, ContentKey,
         NoKey
<1>1. ASSUME \A d \in revoked' : Out(d)', CallShut(p)',
             \/ Rekeying(p) \/ Creating(p)
             \/ \A d \in revoked' : d \in revoked /\ wrapped'[d] = wrapped[d]
      PROVE  RevokedInv'
  <2>1. ASSUME NEW q \in Proc, q # p PROVE CallShut(q)'
    <3>1. op'[q] = op[q] /\ CallShut(q) /\ (Rekeying(q) => UNCHANGED <<disk, history>>)
      BY <2>1, OthersKept, Alone DEF RevokedInv
    <3>5. CASE Rekeying(q)
      BY <3>1, <3>5 DEF CallShut, Adopting, disk, history
    <3>2. CASE Rekeying(p) \/ Creating(p)
      <4>1. op[q] = Idle
        BY <2>1, <3>2, Alone
      <4>2. QED
        BY <1>0, <3>1, <4>1 DEF CallShut, Adopting
    <3>3. CASE ~Rekeying(q) /\ \A d \in revoked' : d \in revoked /\ wrapped'[d] = wrapped[d]
      BY <3>1, <3>3 DEF CallShut, Rekeying, Adopting
    <3>4. QED
      BY <1>1, <3>2, <3>3, <3>5
  <2>2. QED
    BY <1>1, <2>1 DEF RevokedInv
<1>2. ASSUME revoked' = revoked, wrapped' = wrapped, CallShut(p)',
             \A d \in revoked :
               /\ keyset' = keyset \/ Shut(d, wrapped[d], keyset')
               /\ index' = index \/ (index'.tree = tree /\ index'.keyset = keyset)
               /\ tree' = tree \/ Hidden(wrapped[d], tree')
               /\ head' = head \/ head' = index
      PROVE  RevokedInv'
  <2>1. ASSUME NEW d \in revoked PROVE Out(d)'
    <3>1. Out(d) /\ d \in Device
      BY <1>0, <2>1 DEF RevokedInv
    <3>2. QED
      BY <1>2, <2>1, <3>1 DEF Out
  <2>2. QED
    BY <1>1, <1>2, <2>1
<1>3. ASSUME op'[p].call \notin {"custody", "rekey"},
             op'[p].call \in {"commit", "staged"} => op'[p].then.call # "adopt"
      PROVE  CallShut(p)'
  BY <1>3 DEF CallShut, Adopting
<1>4. ASSUME revoked = {}, revoked' = {}, CallShut(p)', Creating(p)
      PROVE  RevokedInv'
  BY <1>1, <1>4
<1>5. \A d \in revoked : Out(d) /\ d \in Device
  BY <1>0 DEF RevokedInv
<1>6. CASE Aside(p)
  <2>1. op'[p].call \in {"none", "append"} \/ op'[p] = Committing(Idle)
    BY <1>0, <1>6 DEF Aside
  <2>2. CallShut(p)'
    BY <1>0, <1>3, <2>1 DEF Committing
  <2>3. QED
    BY <1>0, <1>2, <1>5, <1>6, <2>2 DEF Aside, disk, history
<1>7. CASE Writes(p)
  <2>1. op'[p].call = "commit" /\ op'[p].then.call # "adopt"
    BY <1>0, <1>7 DEF Writes, Committing
  <2>2. CallShut(p)'
    BY <1>3, <2>1
  <2>3. ASSUME NEW d \in revoked PROVE Hidden(wrapped[d], tree')
    <3>1. AtWork(p)' /\ handle[p] # NoKey /\ handle' = handle /\ keyset' = keyset
      BY <1>0, <1>7, <2>1 DEF AtWork, Rekeying, Creating, Writes
    <3>2. handle[p] \notin wrapped[d]
      BY <2>3, <3>1, KeyUnseen
    <3>3. QED
      BY <1>0, <1>5, <1>7, <2>3, <3>2 DEF Writes, Hidden, Out
  <2>4. QED
    BY <1>2, <1>5, <1>7, <2>2, <2>3 DEF Writes, history
<1>8. CASE Create(p) \/ CreateMarker(p)
  <2>1. CallShut(p)'
    BY <1>0, <1>3, <1>8 DEF Create, CreateMarker
  <2>2. /\ keyset' = keyset /\ index' = index /\ tree' = tree /\ head' = head
        /\ handle' = handle /\ revoked' = revoked /\ wrapped' = wrapped
    BY <1>8 DEF Create, CreateMarker, disk, history
  <2>3. QED
    BY <1>2, <1>5, <2>1, <2>2
<1>9. CASE CreateKeyset(p) \/ InitVaultRepo(p)
  <2>1. Creating(p) /\ revoked = {} /\ revoked' = {}
    BY <1>0, <1>9 DEF CreateKeyset, InitVaultRepo, Creating, CallSealed, history
  <2>2. CallShut(p)'
    BY <1>0, <1>3, <1>9 DEF CreateKeyset, InitVaultRepo, Committing
  <2>3. QED
    BY <1>4, <2>1, <2>2
<1>10. CASE Open(p)
  <2>1. PICK key : Unwrapped(p, key) /\ \E w \in keyset : key = w.key
    BY <1>10 DEF Open, UnwrapPassphraseOrExplain, OpenWithDeviceKey,
                 UnwrapWithPassphrase, UnwrapWithDevice
  <2>2. op'[p] = Idle /\ handle'[p] = key
    BY <1>0, <1>10, <2>1 DEF Open, Unopened, Unwrapped
  <2>3. CallShut(p)'
    BY <1>0, <1>3, <2>2
  <2>4. QED
    BY <1>2, <1>5, <2>1, <2>2, <2>3 DEF Unwrapped, disk, history
<1>11. CASE AddAll(p)
  <2>1. /\ op'[p] = [call |-> "staged", then |-> op[p].then] /\ op[p].call = "commit"
        /\ keyset' = keyset /\ tree' = tree /\ head' = head /\ handle' = handle
        /\ index' = [tree |-> tree, keyset |-> keyset]
        /\ revoked' = revoked /\ wrapped' = wrapped
    BY <1>0, <1>11 DEF AddAll, history
  <2>2. CallShut(p)'
    BY <1>0, <2>1 DEF CallShut, Adopting
  <2>3. QED
    BY <1>2, <1>5, <2>1, <2>2
<1>12. CASE Commit(p)
  <2> DEFINE then == op[p].then
  <2>1. then \in After /\ op[p].call = "staged"
    BY <1>0, <1>12, OpShape DEF Commit
  <2>2. op'[p].call \in {"none", "meta"}
    BY <1>0, <1>12, <2>1 DEF Commit
  <2>3. CallShut(p)'
    BY <1>3, <2>2
  <2>4. CASE then.call # "adopt"
    <3>1. /\ keyset' = keyset /\ tree' = tree /\ head' = index /\ handle' = handle
          /\ index' = index /\ revoked' = revoked /\ wrapped' = wrapped
      BY <1>12, <2>4 DEF Commit
    <3>2. QED
      BY <1>2, <1>5, <2>3, <3>1
  <2>5. CASE then.call = "adopt"
    <3>1. /\ keyset' = keyset /\ tree' = tree /\ head' = index
          /\ handle' = [handle EXCEPT ![p] = then.key]
          /\ index' = index /\ revoked' = Device \ then.keep /\ wrapped' = wrapped
      BY <1>12, <2>5 DEF Commit
    <3>2. AllUnder(then.key) /\ AllIn(index, then.key) /\ Rekeying(p)
      BY <1>0, <2>1, <2>5 DEF CallSealed, Adopting, Rekeying
    <3>3. ASSUME NEW d \in Device \ then.keep PROVE Out(d)'
      <4>1. /\ then.key \notin wrapped[d] /\ NoWrap(d, keyset) /\ NoWrap(d, index.keyset)
        BY <1>0, <2>1, <2>5, <3>3 DEF CallShut, Adopting
      <4>2. Shut(d, wrapped[d], keyset) /\ Shut(d, wrapped[d], index.keyset)
        BY <3>2, <4>1 DEF Shut, AllUnder, AllIn
      <4>3. Hidden(wrapped[d], tree) /\ Hidden(wrapped[d], index.tree)
        BY <3>2, <4>1 DEF Hidden, AllUnder, AllIn, Reads
      <4>4. QED
        BY <3>1, <4>2, <4>3 DEF Out
    <3>4. QED
      BY <1>1, <2>3, <3>1, <3>2, <3>3
  <2>6. QED
    BY <2>4, <2>5
<1>13. CASE AddDeviceKey(p)
  <2>1. PICK e \in Device :
          op'[p] = [call |-> "custody", for |-> {e},
                    wraps |-> keyset \cup {WrapForDevice(handle[p], e)}]
    BY <1>0, <1>13 DEF AddDeviceKey
  <2>2. /\ keyset' = keyset /\ index' = index /\ tree' = tree /\ head' = head
        /\ handle' = handle /\ revoked' = revoked /\ wrapped' = wrapped
    BY <1>13 DEF AddDeviceKey, disk, history
  <2>3. ASSUME NEW d \in revoked \ {e}
        PROVE  Shut(d, wrapped[d], keyset \cup {WrapForDevice(handle[p], e)})
    <3>1. AtWork(p)' /\ handle[p] # NoKey
      BY <1>0, <1>13, <2>1 DEF AtWork, Rekeying, Creating, AddDeviceKey, Free
    <3>2. handle[p] \notin wrapped[d]
      BY <2>2, <2>3, <3>1, KeyUnseen
    <3>3. QED
      BY <1>5, <2>3, <3>2 DEF Out, Shut, NoWrap, WrapForDevice
  <2>4. CallShut(p)'
    BY <2>1, <2>2, <2>3 DEF CallShut, Adopting
  <2>5. QED
    BY <1>2, <1>5, <2>2, <2>4
<1>14. CASE UpgradeKdf(p)
  <2>1. PICK kdf \in Profile :
          op'[p] = [call |-> "custody", wraps |-> RewrapPassphrase(keyset, kdf), for |-> {}]
    BY <1>0, <1>14 DEF UpgradeKdf
  <2>2. /\ keyset' = keyset /\ index' = index /\ tree' = tree /\ head' = head
        /\ handle' = handle /\ revoked' = revoked /\ wrapped' = wrapped
    BY <1>14 DEF UpgradeKdf, disk, history
  <2>3. ASSUME NEW d \in revoked
        PROVE  Shut(d, wrapped[d], RewrapPassphrase(keyset, kdf))
    BY <1>5, <2>3 DEF Out, Shut, NoWrap, RewrapPassphrase, WrapForPassphrase
  <2>4. CallShut(p)'
    BY <2>1, <2>2, <2>3 DEF CallShut, Adopting
  <2>5. QED
    BY <1>2, <1>5, <2>2, <2>4
<1>15. CASE WriteCustody(p)
  <2>1. PICK wraps, for :
          /\ op[p].call = "custody" /\ op[p].wraps = wraps /\ op[p].for = for
          /\ WriteKeyset(wraps) /\ keyset' = wraps /\ revoked' = revoked \ for
          /\ op'[p] = Committing(Idle) /\ index' = index /\ tree' = tree
          /\ head' = head /\ handle' = handle
    BY <1>0, <1>15 DEF WriteCustody, WriteKeyset
  <2>2. ASSUME NEW d \in revoked \ for
        PROVE  Shut(d, wrapped[d], wraps) /\ wrapped'[d] = wrapped[d]
    <3>1. Shut(d, wrapped[d], wraps)
      BY <1>0, <2>1 DEF CallShut
    <3>2. QED
      BY <1>5, <2>1, <2>2, <3>1, NothingShown DEF Shut
  <2>3. ASSUME NEW d \in revoked' PROVE Out(d)'
    <3>1. d \in revoked \ for
      BY <2>1, <2>3
    <3>2. QED
      BY <1>5, <2>1, <2>2, <3>1 DEF Out
  <2>4. CallShut(p)'
    BY <1>0, <1>3, <2>1 DEF Committing
  <2>5. QED
    BY <1>1, <2>1, <2>2, <2>3, <2>4
<1>16. CASE Rekey(p)
  <2>1. op'[p].call = "rekey" /\ op'[p].key = generated
    BY <1>0, <1>16 DEF Rekey, NewKey
  <2>2. /\ keyset' = keyset /\ index' = index /\ tree' = tree /\ head' = head
        /\ handle' = handle /\ revoked' = revoked /\ wrapped' = wrapped
    BY <1>16 DEF Rekey, disk
  <2>3. \A d \in Device : generated \notin wrapped[d]
    BY DEF MadeInv, TypeInv, TypeOK
  <2>4. CallShut(p)'
    BY <2>1, <2>2, <2>3 DEF CallShut, Adopting
  <2>5. QED
    BY <1>2, <1>5, <2>2, <2>4
<1>17. CASE Reseal(p)
  <2>1. PICK r \in op[p].left :
          /\ tree' = [tree EXCEPT ![r[1]] = SealRecord(op[p].key, r[2])]
          /\ op'[p] = [op[p] EXCEPT !.left = @ \ {r}] /\ op[p].call = "rekey"
    BY <1>0, <1>17 DEF Reseal, WriteSealed
  <2>2. op'[p].call = "rekey" /\ op'[p].key = op[p].key
    BY <1>0, <2>1, OpShape
  <2>3. /\ keyset' = keyset /\ index' = index /\ head' = head /\ handle' = handle
        /\ revoked' = revoked /\ wrapped' = wrapped
    BY <1>17 DEF Reseal, history
  <2>4. CallShut(p)'
    BY <1>0, <2>1, <2>2, <2>3 DEF CallShut, Adopting
  <2>5. ASSUME NEW d \in revoked PROVE Hidden(wrapped[d], tree')
    <3>1. op[p].key \notin wrapped[d] /\ Hidden(wrapped[d], tree)
      BY <1>0, <1>5, <2>1, <2>5 DEF CallShut, Out
    <3>2. QED
      BY <1>0, <2>1, <3>1 DEF Hidden, SealRecord
  <2>6. QED
    BY <1>2, <1>5, <2>3, <2>4, <2>5
<1>18. CASE RekeyKeyset(p)
  <2>1. PICK key, keep, wraps :
          /\ wraps = {WrapForPassphrase(key, op[p].kdf)}
                       \cup {WrapForDevice(key, d) : d \in keep}
          /\ WriteKeyset(wraps) /\ keyset' = wraps /\ revoked' = revoked \ keep
          /\ index' = index /\ tree' = tree /\ head' = head /\ handle' = handle
          /\ op[p].call = "rekey" /\ op[p].key = key
          /\ op'[p] = Committing([call |-> "adopt", key |-> key, keep |-> keep])
    <3> DEFINE W == {WrapForPassphrase(op[p].key, op[p].kdf)}
                      \cup {WrapForDevice(op[p].key, d) : d \in op[p].keep}
    <3>1. /\ WriteKeyset(W) /\ keyset' = W /\ revoked' = revoked \ op[p].keep
          /\ index' = index /\ tree' = tree /\ head' = head /\ handle' = handle
          /\ op[p].call = "rekey"
          /\ op'[p] = Committing([call |-> "adopt", key |-> op[p].key,
                                  keep |-> op[p].keep])
      BY <1>0, <1>18 DEF RekeyKeyset, WriteKeyset
    <3>2. QED
      BY <3>1
  <2>2. ASSUME NEW d \in Device \ keep
        PROVE  Shut(d, wrapped[d], wraps) /\ wrapped'[d] = wrapped[d]
    <3>1. key \notin wrapped[d]
      BY <1>0, <2>1 DEF CallShut
    <3>2. NoWrap(d, wraps) /\ \A w \in wraps : w.key = key
      BY <2>1 DEF NoWrap, WrapForPassphrase, WrapForDevice
    <3>3. QED
      BY <2>1, <3>1, <3>2, NothingShown DEF Shut
  <2>3. ASSUME NEW d \in revoked' PROVE Out(d)'
    <3>1. d \in revoked /\ d \in Device \ keep
      BY <1>0, <2>1, <2>3
    <3>2. QED
      BY <1>5, <2>1, <2>2, <3>1 DEF Out
  <2>4. ASSUME NEW d \in Device \ keep PROVE key \notin wrapped'[d] /\ NoWrap(d, keyset')
    BY <1>0, <2>1, <2>2 DEF CallShut, Shut
  <2>5. CallShut(p)'
    BY <2>1, <2>4 DEF CallShut, Adopting, Committing
  <2>6. QED
    BY <1>1, <2>1, <2>3, <2>5 DEF Rekeying
<1>19. QED
  BY Kinds, <1>6, <1>7, <1>8, <1>9, <1>10, <1>11, <1>12, <1>13, <1>14, <1>15, <1>16,
     <1>17, <1>18

(* What is staged hides from a revoked device what it comes back to.       *)
LEMMA RevokedRestore ==
  ASSUME TypeInv, RevokedInv, Restore
  PROVE  RevokedInv'
<1>1. /\ index' = index /\ head' = head /\ handle' = handle /\ op' = op
      /\ revoked' = revoked /\ wrapped' = wrapped /\ keyset' = index.keyset
      /\ \A x \in Path : tree'[x] = IF index.tree[x] # Absent THEN index.tree[x]
                                    ELSE tree[x]
      /\ \A p \in Proc : ~Rekeying(p)
  BY DEF Restore, history
<1>2. ASSUME NEW d \in revoked PROVE Out(d)'
  BY <1>1, <1>2 DEF RevokedInv, Out, Hidden
<1>3. ASSUME NEW p \in Proc PROVE CallShut(p)'
  BY <1>1 DEF RevokedInv, CallShut, Rekeying, Adopting
<1>4. QED
  BY <1>1, <1>2, <1>3 DEF RevokedInv

-----------------------------------------------------------------------------
(* The invariant.                                                          *)

VaultInv ==
  /\ TypeInv /\ MadeInv /\ Unmarked
  /\ disturbed = 0 => KeyInv /\ RevokedInv

LEMMA VaultInvInit == Init => VaultInv
<1>0. SUFFICES ASSUME Init PROVE VaultInv
  OBVIOUS
<1>1. TypeInv
  BY <1>0, TypesAtFirst
<1>2. \A p \in Proc : op[p] = Idle /\ handle[p] = NoKey /\ Idle.call = "none"
  BY <1>0 DEF Init, Idle
<1>3. MadeInv
  BY <1>0, <1>2 DEF Init, MadeInv, Made, CallMade, NoCommit, NoKey
<1>4. Unmarked
  BY <1>0, <1>2 DEF Init, Unmarked
<1>5. KeyInv
  <2>1. ~Disturbing
    BY <1>2 DEF Disturbing, Creating, Rekeying, AtWork
  <2>2. AllIn(NoCommit, 0) /\ 0 \in ContentKey
    BY VaultAssumption DEF AllIn, NoCommit, Reads, ContentKey
  <2>3. \A p \in Proc : CallSealed(p)
    BY <1>2 DEF CallSealed, Creating, Adopting
  <2>4. QED
    BY <1>0, <2>1, <2>2, <2>3 DEF Init, KeyInv
<1>6. RevokedInv
  BY <1>0, <1>2 DEF Init, RevokedInv, CallShut, Adopting
<1>7. QED
  BY <1>1, <1>3, <1>4, <1>5, <1>6 DEF VaultInv

(* Nothing happens, and nothing changes.                                   *)
LEMMA Stutter ==
  ASSUME VaultInv, UNCHANGED vars
  PROVE  VaultInv'
<1>1. TypeInv' /\ MadeInv' /\ Unmarked'
  BY DEF vars, disk, history, VaultInv, TypeInv, TypeOK, CustodyInv, CallReady,
         MadeInv, Made, CallMade, Unmarked, Creating
<1>2. KeyInv => KeyInv'
  BY DEF vars, disk, history, KeyInv, CallSealed, Creating, Adopting, Rekeying,
         HalfSealed, AllUnder, Disturbing, AtWork
<1>3. RevokedInv => RevokedInv'
  BY DEF vars, disk, history, RevokedInv, Out, CallShut, Adopting
<1>4. QED
  BY <1>1, <1>2, <1>3 DEF VaultInv, vars

(* The parts of the invariant hold together.                               *)
LEMMA VaultHolds == Spec => []VaultInv
<1>1. TypeInv /\ TypeInv' /\ VaultInv /\ [Next]_vars => VaultInv'
  <2>0. SUFFICES ASSUME TypeInv, TypeInv', VaultInv, [Next]_vars PROVE VaultInv'
    OBVIOUS
  <2>1. CASE Next
    <3>0. disturbed' = 0 => disturbed = 0 /\ ~Disturbing'
      BY <2>0, <2>1 DEF Next, TypeInv, TypeOK
    <3>1. CASE Restore
      <4>1. MadeInv'
        BY <2>0, <3>1 DEF VaultInv, MadeInv, Made, CallMade, Restore, history
      <4>2. Unmarked'
        BY <2>0, <3>1 DEF VaultInv, Unmarked, Creating, Restore, history
      <4>3. disturbed' = 0 => KeyInv' /\ RevokedInv'
        BY <2>0, <3>0, <3>1, KeyRestore, RevokedRestore DEF VaultInv
      <4>4. QED
        BY <2>0, <4>1, <4>2, <4>3 DEF VaultInv
    <3>2. ASSUME NEW p \in Proc, Act(p) PROVE VaultInv'
      <4>1. MadeInv' /\ Unmarked'
        BY <2>0, <3>2, MadeAct, UnmarkedAct DEF VaultInv
      <4>2. disturbed' = 0 => KeyInv' /\ RevokedInv'
        BY <2>0, <3>0, <3>2, KeyAct, RevokedAct DEF VaultInv
      <4>3. QED
        BY <2>0, <4>1, <4>2 DEF VaultInv
    <3>3. QED
      BY <2>1, <3>1, <3>2 DEF Next, Act
  <2>2. CASE UNCHANGED vars
    BY <2>0, <2>2, Stutter
  <2>3. QED
    BY <2>0, <2>1, <2>2
<1>2. QED
  BY <1>1, VaultInvInit, VaultTypes, PTL DEF Spec

(* Until the vault was disturbed its last commit opens with the passphrase *)
(* and reads whole, whatever was half written, half re-keyed, staged by a  *)
(* commit that failed, overwritten by a slower change of custody or        *)
(* restored from what was staged (commitAll, rekey, upgradeKdf,            *)
(* addDeviceKey, unwrapPassphraseOrExplain).                               *)
THEOREM CommitsOpen == Spec => []CommittedVaultOpens
<1>1. VaultInv => CommittedVaultOpens
  <2>0. SUFFICES ASSUME VaultInv, disturbed = 0, head # NoCommit
                 PROVE  \E key \in ContentKey :
                          /\ UnwrapWithPassphrase(head.keyset) = {key}
                          /\ \A x \in Path : Reads(key, head.tree[x])
    BY DEF CommittedVaultOpens
  <2>1. PICK key \in ContentKey : AllIn(head, key)
    BY <2>0 DEF VaultInv, KeyInv
  <2>2. Sound(head.keyset)
    BY <2>0 DEF VaultInv, TypeInv, CustodyInv
  <2>3. UnwrapWithPassphrase(head.keyset) = {key}
    BY <2>1, <2>2 DEF AllIn, Sound, CustodyShared, UnwrapWithPassphrase
  <2>4. QED
    BY <2>1, <2>3 DEF AllIn
<1>2. QED
  BY <1>1, VaultHolds, PTL

(* rekey's forward boundary: until the vault was disturbed, a device that  *)
(* a finished re-key left out has never been wrapped, in any keyset that   *)
(* was written, the key of a committed record, whatever custody changes    *)
(* were under way, overwrote one another or failed to commit.              *)
THEOREM RevocationHolds == Spec => []RevokedReadsNothingNew
<1>1. VaultInv => RevokedReadsNothingNew
  BY DEF VaultInv, RevokedInv, Out, Hidden, Present, RevokedReadsNothingNew
<1>2. QED
  BY <1>1, VaultHolds, PTL
=============================================================================
