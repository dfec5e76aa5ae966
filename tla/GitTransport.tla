---------------------------- MODULE GitTransport ----------------------------
(***************************************************************************)
(* The git courier (packages/federation/src/git-transport.ts) with the     *)
(* part of FederatedNode that decides what is handed to it.  Several       *)
(* parties, each with a clone, exchange messages as numbered files of a    *)
(* shared repository.  A sync is a sequence of git commands, and another   *)
(* party's commands fall between them.                                     *)
(*                                                                         *)
(* A tree is a set of files.  Every commit adds a file, so a tree names a  *)
(* commit; the empty tree is a repository without a main branch.  receive  *)
(* only reads the clone; what the inbox makes of it is Federation's part.  *)
(***************************************************************************)
EXTENDS Naturals, Sequences, FiniteSets, SequencesExt

CONSTANTS
  Party,
  Item,        \* what the vaults have to send: proposals and assertions
  Sender,      \* the party that signed each item
  Type,        \* the type of the message that carries it
  DirOf,       \* relativeDirFor: the directory it is filed in
  Instant,     \* the readings of each party's clock a message is signed at
  Diligent     \* the parties that keep syncing

ASSUME GitAssumption ==
  /\ Sender \in [Item -> Party] /\ DOMAIN DirOf = Item
  /\ Type \in [Item -> {"propose", "assert"}]
  /\ Diligent \subseteq Party /\ \A s \in Party : Instant[s] # {}

Message ==
  UNION {[item : {i}, sent_at : Instant[Sender[i]]] : i \in Item}
File == [dir : {DirOf[i] : i \in Item}, seq : 1..(2 * Cardinality(Message)),
         message : Message]

VARIABLES
  outbox,     \* what each party's vault has to send
  remote,     \* the shared repository
  origin,     \* each clone's origin/main, as of its last fetch
  tree,       \* each clone's own main
  untracked,  \* files of the clone that were never committed
  step,       \* where each party's sync stands
  pending,    \* accepted by send, not yet written
  placed,     \* content addresses already placed by this process
  handed      \* FederatedNode's sent sets: what this process handed over

vars == <<outbox, remote, origin, tree, untracked, step, pending, placed,
          handed>>
clone == <<origin, tree, untracked>>
memory == <<pending, placed, handed>>

Init ==
  /\ outbox = [s \in Party |-> {}] /\ remote = {}
  /\ origin = [s \in Party |-> {}] /\ tree = [s \in Party |-> {}]
  /\ untracked = [s \in Party |-> {}]
  /\ step = [s \in Party |-> "idle"]
  /\ pending = [s \in Party |-> <<>>] /\ placed = [s \in Party |-> {}]
  /\ handed = [s \in Party |-> {}]

-----------------------------------------------------------------------------
(* The vault has one more thing to send: a proposal in the outbox, or an   *)
(* assertion the party signed.                                             *)
Queue(s) ==
  \E i \in Item :
    /\ Sender[i] = s /\ i \notin outbox[s]
    /\ outbox' = [outbox EXCEPT ![s] = @ \cup {i}]
    /\ UNCHANGED <<remote, clone, step, memory>>

(* A proposal was signed once, when it was queued; an assertion is wrapped *)
(* anew by each process, and sent_at makes it another message.             *)
SignedAt(i, t) ==
  [item |-> i,
   sent_at |-> IF Type[i] = "propose"
               THEN CHOOSE u \in Instant[Sender[i]] : TRUE ELSE t]

(* FederatedNode.push: emit everything this process has not handed over;   *)
(* send takes up what this process has not placed.                         *)
Push(s) ==
  LET due == outbox[s] \ handed[s]
  IN \E t \in Instant[s] :
       LET messages == {SignedAt(i, t) : i \in due}
       IN /\ step[s] = "idle"
          /\ due # {}
          /\ handed' = [handed EXCEPT ![s] = @ \cup due]
          /\ pending' = [pending EXCEPT ![s] = @ \o SetToSeq(messages \ placed[s])]
          /\ UNCHANGED <<outbox, remote, clone, step, placed>>

-----------------------------------------------------------------------------
SameName(f, g) ==
  f.dir = g.dir /\ f.seq = g.seq /\ Type[f.message.item] = Type[g.message.item]

Named(t, f) == {g \in t : SameName(g, f)}

(* git refuses a checkout that would overwrite a file it does not track.   *)
InTheWay(s) ==
  /\ remote # {}
  /\ \E f \in untracked[s] : Named(remote, f) # Named(tree[s], f)

(* git fetch, and checkout -B main origin/main where the remote has main.  *)
(* The checkout drops the commits that never were pushed.  Where git       *)
(* refuses it, sync throws, having changed nothing that a later sync uses. *)
Adopt(s) ==
  /\ step[s] = "idle"
  /\ ~InTheWay(s)
  /\ origin' = [origin EXCEPT ![s] = remote]
  /\ tree' = [tree EXCEPT ![s] = IF remote = {} THEN @ ELSE remote]
  /\ step' = [step EXCEPT ![s] = "adopted"]
  /\ UNCHANGED <<outbox, remote, untracked, memory>>

(* What lies in the clone's directory.                                     *)
Write(t, f) == (t \ Named(t, f)) \cup {f}
Working(s) ==
  untracked[s] \cup {f \in tree[s] : Named(untracked[s], f) = {}}

NextFile(t, m) ==
  [dir |-> DirOf[m.item], message |-> m,
   seq |-> Cardinality({f \in t : f.dir = DirOf[m.item]}) + 1]

(* (A definition whose name extends the next one's is a slip the           *)
(* properties are tried against.)                                          *)
PlaceBlindly(t, m) == Write(t, NextFile(t, m))

(* One pending message: written under the next number of its directory,    *)
(* unless the directory already holds it.                                  *)
Place(t, m) ==
  IF \E f \in t : f.message = m THEN t ELSE Write(t, NextFile(t, m))

(* The clone's directory after the first n pending messages; the ones this *)
(* process placed before are passed over.                                  *)
AfterPlacing(s, n) ==
  LET after[i \in 0..Len(pending[s])] ==
        IF i = 0 THEN Working(s)
        ELSE IF pending[s][i] \in placed[s] THEN after[i - 1]
        ELSE Place(after[i - 1], pending[s][i])
  IN after[n]

Placed(s) ==
  /\ placed' = [placed EXCEPT ![s] = @ \cup ToSet(pending[s])]
  /\ pending' = [pending EXCEPT ![s] = <<>>]
  /\ UNCHANGED handed

Forgotten(s) ==
  /\ pending' = [pending EXCEPT ![s] = <<>>]
  /\ placed' = [placed EXCEPT ![s] = {}]
  /\ handed' = [handed EXCEPT ![s] = {}]

(* placeAll, add and commit.                                               *)
PlaceAll(s) ==
  /\ step[s] = "adopted"
  /\ tree' = [tree EXCEPT ![s] = AfterPlacing(s, Len(pending[s]))]
  /\ untracked' = [untracked EXCEPT ![s] = {}]
  /\ Placed(s)
  /\ step' = [step EXCEPT ![s] = "committed"]
  /\ UNCHANGED <<outbox, remote, origin>>

(* The files are written and the commit fails.                             *)
CommitFails(s) ==
  /\ step[s] = "adopted"
  /\ untracked' = [untracked EXCEPT ![s] =
                     AfterPlacing(s, Len(pending[s])) \ tree[s]]
  /\ Placed(s)
  /\ step' = [step EXCEPT ![s] = "idle"]
  /\ UNCHANGED <<outbox, remote, origin, tree>>

(* The process dies among the writes.                                      *)
DiesWriting(s) ==
  \E n \in 1..Len(pending[s]) :
    /\ step[s] = "adopted"
    /\ untracked' = [untracked EXCEPT ![s] = AfterPlacing(s, n) \ tree[s]]
    /\ Forgotten(s)
    /\ step' = [step EXCEPT ![s] = "idle"]
    /\ UNCHANGED <<outbox, remote, origin, tree>>

FastForwardOrForced(s) == tree[s] # {}

(* The push is a fast-forward: nobody pushed since the fetch.              *)
FastForward(s) == tree[s] # {} /\ remote = origin[s]

PushAccepted(s) ==
  /\ step[s] = "committed"
  /\ FastForward(s)
  /\ remote' = tree[s]
  /\ origin' = [origin EXCEPT ![s] = tree[s]]
  /\ step' = [step EXCEPT ![s] = "idle"]
  /\ UNCHANGED <<outbox, tree, untracked, memory>>

(* The push is refused or does not get through: sync throws.               *)
PushFails(s) ==
  /\ step[s] = "committed"
  /\ step' = [step EXCEPT ![s] = "idle"]
  /\ UNCHANGED <<outbox, remote, clone, memory>>

RestartRemembering(s) ==
  /\ pending' = [pending EXCEPT ![s] = <<>>]
  /\ step' = [step EXCEPT ![s] = "idle"]
  /\ UNCHANGED <<outbox, remote, clone, placed, handed>>

(* A new process has the clone, and none of what the old one remembered.   *)
Restart(s) ==
  /\ Forgotten(s)
  /\ step' = [step EXCEPT ![s] = "idle"]
  /\ UNCHANGED <<outbox, remote, clone>>

Sync(s) == Adopt(s) \/ PlaceAll(s) \/ PushAccepted(s) \/ PushFails(s)

InProcess ==
  \E s \in Party : Queue(s) \/ Push(s) \/ Sync(s)

Next == InProcess \/ \E s \in Party : Restart(s)

Spec == Init /\ [][Next]_vars

(* A diligent party syncs again and again, in a new process from time to   *)
(* time.  Not every process dies with something to send, and one with      *)
(* something to publish is not beaten to the push for ever.                *)
SyncingSpec ==
  /\ Spec
  /\ \A s \in Diligent :
       /\ SF_vars(step[s] = "idle" /\ Restart(s))
       /\ SF_vars(Push(s)) /\ WF_vars(Sync(s))
       /\ SF_vars(pending[s] # <<>> /\ Adopt(s))
       /\ SF_vars(pending[s] # <<>> /\ PlaceAll(s))
       /\ SF_remote(PushAccepted(s))

(* A sync may stop between writing the files and committing them.          *)
TornSpec ==
  Init /\ [][Next \/ \E s \in Party : CommitFails(s) \/ DiesWriting(s)]_vars

-----------------------------------------------------------------------------
Step == {"idle", "adopted", "committed"}

TypeOK ==
  /\ outbox \in [Party -> SUBSET Item]
  /\ remote \subseteq File
  /\ origin \in [Party -> SUBSET File]
  /\ tree \in [Party -> SUBSET File]
  /\ untracked \in [Party -> SUBSET File]
  /\ step \in [Party -> Step]
  /\ pending \in [Party -> Seq(Message)]
  /\ placed \in [Party -> SUBSET Message]
  /\ handed \in [Party -> SUBSET Item]

(* The shared history only grows: no sync, however the parties' commands   *)
(* interleave and whichever of them fail, removes or renumbers a message   *)
(* somebody may have read ("two senders never name the same file because   *)
(* sequence numbers are assigned after the merge", sync).                  *)
SharedHistoryGrows == [][remote \subseteq remote']_remote

(* Sent again after a failure or by a new process, a message is filed      *)
(* once, and a proposal is one message however many processes send it.     *)
FiledOnce ==
  \A f, g \in remote :
    /\ f.message = g.message => f = g
    /\ f.message.item = g.message.item /\ Type[f.message.item] = "propose"
         => f = g

Shared == {f.message.item : f \in remote}

(* What a diligent party has to send is in the shared history in the end,  *)
(* though a push may be refused and a commit thrown away on the way, and   *)
(* whatever the other parties do.                                          *)
EventuallyShared ==
  \A s \in Diligent : \A i \in Item : i \in outbox[s] ~> i \in Shared
=============================================================================
