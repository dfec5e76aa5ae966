# A TLA+ model of servanda

servanda keeps promises between people who do not share a server. A promise is
an *edge* between its owner and the party it is owed to. Nobody stores the
state of an edge: each party's node holds a chain of signed *assertions* and
computes the state from it. The nodes exchange assertions through couriers that
may lose, repeat or reorder anything, and an exchange of chains
(*reconciliation*) is meant to bring the two registers together again.

So the program is correct when four things are: the table that computes a
state from a chain, the protocol that carries assertions between two nodes with
the couriers underneath, the store each node keeps, and the machinery around the
register that fills it (ingest), shows it (views), vouches for the parties (the
ladder) and acts on it (executors). The models follow that order.

## Inventory

All paths are under `src/packages/`.

| Part | State it keeps | Operations | What is hard | Correct when |
|---|---|---|---|---|
| transition table (`node/src/transitions.ts`, `types/src/edge.ts`) | the context of one verification: state, windows, first exit, tallies of signers, each signer's latest date | judge one assertion, replay a chain | forged, backdated, post-dated assertions; concurrent exits; deadlocks; key rotation | every state was earned by the right signatures at the right time, replay is stable, no deadlock lasts |
| node (`node/src/node.ts`) | none of its own: the vault | commit, confirm, act, expect, views | three durable writes in one commit; a view computed apart from the table | it judges its own assertions like anybody's; what it offers the table accepts |
| federated node (`federation/src/federated-node.ts`) | outbox delivery state (vault), `sent`, `sentAssertions` (memory) | push, pull, requestRecon, answerRecon | loss, repetition, restarts, one failing recipient among many | a proposal arrives; `acknowledged` is true |
| inbox (`federation/src/inbox.ts`) | the vault | ingest a propose, an assert, a recon response, a rotation | redelivery, a crash between two writes | nothing is stored the table refused; half a delivery is completed |
| reconciliation (`federation/src/recon.ts`) | the vault | request, answer, apply | two chains that hold the same acts in different orders | both sides come to the same state |
| git transport (`federation/src/git-transport.ts`) | a clone; `pending`, `placed` (memory) | send, sync, receive | two clones whose git commands interleave; a refused push; a torn sync | shared history only grows; everything is published once |
| hub (`federation/src/hub.ts`, `hub-transport.ts`) | queues, challenges | deliver, challenge, inbox, expire | two readers of one inbox, expiry | an envelope is kept for its term and served only to its persona |
| proposal budget (`federation/src/antispam.ts`) | recent senders, a counter | admit | the cap, redelivery | a genuine proposal is not suppressed by repetition |
| recovery (`federation/src/recovery.ts`, `inbox.ts`) | open challenges | challenge, answer, apply | replayed proofs, chosen chains | only the persona's own edges come back, with their owner's proposal |
| vault (`vault/src`, `crypto/src`) | sealed files in a git repository, its index and last commit, keyset with its device wraps, local store | create, open, put, append, add and revoke a device, raise the cost, rekey, retain | a crash or a failed commit inside rekey, two processes on one chain or on one keyset | an append that returned is kept; the last commit opens; a revoked device reads nothing new |
| identity (`identity/src`) | rotation statements, attestations, revocations | rotate, attest, revoke, verify, climb the ladder | learning of a rotation late | a level is claimed only while its proof stands |
| views (`node/src/node.ts`, `ranking.ts`, `cursor.ts`, the web client's `walkView`) | none: computed from the vault at each call | rank, a page, a walk over the pages | records that enter, leave or move between two pages | what stays is delivered once, what overtook the reader is counted |
| ingest (`connectors-claude-code/src/hook.ts`, `ingest/src`, `extraction/src`, `node/src/ingest.ts`) | the log, its cursor, markers, pending items | append, a round, save the cursor, decide | half-written lines, rotation, overlapping runs, a crash between queueing and saving, a batch rejected for ever | nothing read is skipped, nothing decided comes back |
| executors, adapters (`executors/src`, `adapters/src`) | trust streaks in a store of reviews | propose, run a child, validate again, review | a child that writes what it may not, dies, or answers too late; two reviewers | an artifact stays in its world; nothing runs unattended that was not earned |
| gestures (`gestures/src`) | the cards in front of a person | resolve a reaction, card the queue, run a tapped intent | a card tapped after the register behind it moved; somebody else's words | only one's own words become a promise |
| connectors, clients, tests, vendored vectors | none that others depend on | read foreign formats, render | | |

Parts interact through the vault (node, federated node and inbox read and write
the same chains), through wire messages (propose, assert, recon and recover
requests and responses, rotation) and through direct calls (push calls the
courier's send and sync; pull feeds the courier's messages to the inbox; the
inbox and the node both call the table). `PROJECT.json` lists every part with
what is and is not modelled, and under `hazards` each thing in this code that a
test would hardly reach, at its line.

## Modules

The register and what carries it:

- **EdgeTable** — the verifier as pure operators. `ChainState` is the context
  a verification carries, `Accepts` the whole of `step`'s judgement with the
  checks that precede it, `Effect` what accepting does, `VerifyAssertionChain`
  the replay. Each row of the table is one disjunct of `Legal...` and one case
  of `Effect...`. Rejection *reasons* are not kept, only the refusal. A
  signature is a pair: the key named (`by`) and the key that signed (`signer`);
  an evidence hash is present or absent; instants are naturals.
- **EdgeChain** — one edge on one node: the stored chain and its context, fed
  with whatever is in `Wire`. One action per kind of assertion, plus the owner's
  own `act('expire')` and the clock. `ctx` carries the verification forward;
  the code recomputes it at each read, and `ReplayStable` states that both agree.
- **Offers** — extends EdgeChain with what a view tells each party it may do:
  the actions of a state, the three clocks behind them and the primary action of
  a brief. The code writes these apart from the table; `OffersMatchTable` lays
  them beside it. Its precondition `InStep` is that the party's clock is past its
  own last assertion and past the other's exit; without it an act is refused for
  its date, whatever was offered.
- **Federation** — two nodes, one edge, one courier. `commit` is its three
  writes, with crashes between them; `confirm` and `act` are `Record` with their
  guards; `push` offers the courier the unacknowledged propose and the unsent
  assertions, and the courier takes any part; the inbox's handlers, the
  reconciliation round, restarts (a new process forgets `sent` and
  `sentAssertions`) and loss. Uses EdgeTable for every judgement. The message
  set may deliver anything again and in any order.
- **GitTransport** — several clones of one repository. A sync is `Adopt` (fetch
  and checkout), `PlaceAll` (write, add, commit) and `PushAccepted` or
  `PushFails`; other parties' steps fall in between. Files have the name the
  code gives them (directory, number, type). `CommitFails` and `DiesWriting`
  are the torn syncs, which leave untracked files; only `TornSpec` takes them.
- **Courier** — the abstract courier: it may lose, delay, repeat and reorder,
  and it hands over only what was sent, as it was sent, to its addressee.
- **HubQueue** — one persona's mail: the inbox record that says where mail goes
  and which key may seal it, the sender's and the reader's side of the hub
  protocol, and the hubs. A hub is not trusted: a faithless one redates what it
  holds, makes up messages, circulates records of its own, and passes another
  hub's challenge on. A read is its steps (ask, sign, fetch), and two readers
  may interleave.
- **Admission** — extends HubQueue with what the node lets in: each read hands
  the inbox everything still queued, and the budget for strangers judges it. The
  budget is memory and starts at zero in each process; the edges are in the
  vault.
- **Recovery** — a persona that lost its vault asks a counterparty for its
  edges, under its old key or the one it rotated to. The responder answers a
  signed challenge once; what it hands back is its own choice of any assertions
  it has seen or can sign. Whoever has seen a signature may send it again.

The store and what surrounds the register:

- **Vault** — the vault on disk and the processes that have it open: creation
  step by step, opening by passphrase or device key, every write with the commit
  that follows it, exclusive appends to a chain, the device wraps, the cost of a
  passphrase wrap, the re-key. `commitAll` is `AddAll` and `Commit`, with git's
  index between them; a change of custody reads the keyset, derives a key for
  seconds and writes back (`AddDeviceKey` or `UpgradeKdf`, then `WriteCustody`);
  a re-key reads everything, reseals record by record, writes the keyset and
  commits. Crashes, failing commits and other processes' calls fall between any
  two of these steps, and `Restore` (the owner's `git checkout .`) takes back
  what is staged. Records that are written whole share one path, and the local
  store under the same key is left out. Nothing in the code keeps some calls
  apart that do not go together; `Disturbing` names them, and `disturbed` counts
  the steps since the first. Nothing is forbidden: `AcknowledgedAppendKept` holds
  throughout, the other two properties until then.
- **Ladder** — how far a key is believed. `verify` reads the clock and the
  evidence, then awaits the domain's two sources, and in between the domain
  changes, other calls finish and time passes; the anchor's cache is in front.
  Attestations, revocations, expiry, binding proofs, and the two seedless ways
  back to a lost persona.
- **Ingest** — from the capture log to the person's decision. Hooks append
  without a lock and a write may land in two halves; the log is rotated or
  truncated, the cursor file may be lost, two runs may overlap, the model's
  answer is awaited, a batch may be rejected; every file operation is a step.
- **Register** — the records behind the views, their rank, and a client that
  walks a view page by page by cursor while the register changes and time
  passes.
- **Gestures** — extends Register with cards: a reaction in a chat or a review,
  a meeting's action items, or the confirmation queue itself become cards, and a
  tap, later, is one call of the node. Whose words they are comes from the
  directory; cards from the queue call everything the viewer's own. The walking
  client and the card meet only in the register, and each tap is a change that a
  walk may meet anyway, so the specification takes them apart: no walk begins
  while a card is out.
- **Evidence** — which evidence an adapter may accept and when an edge can be
  verified, as operators that Executors uses.
- **Executors** — the three classes of executor: the host reads the tree, runs
  a child under a timer (which may die, answer late, close its input or say
  anything in `Rogue`), judges the answer again itself, and builds a draft. The
  trust store keeps the streak from which autonomy is computed: a run takes it
  along from before its child starts (`ReadTrust`), and a review reads it,
  computes and writes it back in two steps. Runs and reviews overlap as they like.
- **MC...** — constants for TLC.
- **..._proofs** — theorems, one module per component: EdgeChain (with Offers),
  Federation, GitTransport, Admission (with HubQueue), Vault, Ladder, Ingest, and
  `Node_proofs` for Recovery, Executors, Register and Gestures, whose proofs share
  lemmas about finite sets. Executors and Register name their initial state and
  steps with a prefix so that one module can extend both.

Definitions such as `ContestsLater` or `PlaceBlindly`, placed just before the
definition whose name they extend, are plausible slips in the code. Nothing uses
them; each property is tried against one (`mutants` in `PROJECT.json`) to show
that it would notice.

How they compose: Offers, Federation and Recovery judge with EdgeTable;
EdgeChain is one node's chain alone, Federation two of them with a courier that
is as weak as Courier allows; HubQueue is a real courier and Admission what
stands behind it. `BlindCourier` is the refinement: every behaviour of Admission,
faithless hubs included, is one of `Courier!Spec` with the parties being the
node and the hubs, an item being a dated message and its addressee the
envelope's recipient. TLC checks it and `HubsAreBlind` proves it. That is why
Federation may leave the hub out.

## What the runs check

| Run | What it shows | Bounds |
|---|---|---|
| `table` | how an edge came to be open, closed, superseded, expired or contested; stable replay; terminal states left only by a contest; what a view offers the table takes, and nothing that still waits is filed away; every deadlock ends | four edge bodies (both policies, undated, malformed), three keys, chains of 6, clock 0..2, dispute window 1 |
| `federation_safety` | `acknowledged` is true; settled registers agree unless two exits were taken; equal sets give equal states | chains of 4, clock 0..1, courier of 2 messages, the acts done, release and the owner's expire |
| `federation_live` | a queued proposal arrives; half a delivery is completed; the registers agree in the end | chains of 3 at one instant, courier of 2 messages, the owner's done |
| `git` | history grows, nothing filed twice, everything published | two parties, three messages, two instants |
| `git_torn` | counterexample, below | as small as shows it |
| `admission` | a hub is a blind courier; redelivery spends the budget once | one stranger with two proposals, an honest and a faithless hub, two readers, clock 0..1, two challenges, cap 1 |
| `vault` | an append that returned is kept; until the vault is disturbed the last commit opens and reads whole, and a revoked device reads nothing sealed after | two processes, one device, two content keys, two assertions, two cost profiles (the least allowed, and one past what an open will spend), one commit that fails or crash inside a call (`MaxFaults`), two steps of a disturbed vault (`MaxSteps`) |
| `ladder` | the anchor used is recent; a name shown was attested and anchored; a revocation held when a verification began holds in what it shows; recovery offers no more than the ladder | two orgs, two attestations, two revocations, two publications, two concurrent verifications, clock 0..2, cache ceiling 2 |
| `ingest` | nothing read is skipped, nothing found is lost, nothing decided comes back | two envelopes, two processes, batches of 1, two rounds, two faults |
| `register` | an item that stays is delivered once; what overtook the reader is counted exactly; only the viewer's own words become a promise by a tap | four ids, pages of 1, clock 0..2, one change, the views all and pending; three users, one card, a tap after the change or two taps |
| `recovery` | one answer per challenge, to its holder; a chain that came back whole reads as the responder reads it, however it was cut and ordered | four edge bodies (made-up ones too), held chains with and without ties, one challenge, two answers, three assertions handed back |
| `executors` | an artifact stays within its capabilities and budget; autonomy is earned by consecutive unedited approvals | five files, seven rogue answers, four promises, two callers, two reviewers, three reviews, one edit; thresholds 3 and 6 scaled to 1 and 2, budgets and sizes scaled alike |

The bounds are enough for the cases that matter: a window of one instant on a
clock of three distinguishes before, at and after; a chain of six holds
proposal, confirmation, two exits and a joint resolution; and the bound of
EdgeChain leaves room for the assertion that ends a deadlock. A courier of two
messages still reorders, and when it is full it forgets one, which it may do
anyway. Two processes, readers or calls are the fewest that interleave; two
content keys are one re-key; with one allowed cost an upgrade changes only when
the keyset is written (the theorems are for any set of costs); two faults let a crash meet a rejected batch; pages
of one put every change between two pages. Symmetry is declared only over
processes, readers and calls that nothing tells apart, and in no run that checks
liveness; parties are never symmetric, because their roles differ.

Deadlock is checked in `git`, `ingest` and `executors`, where
somebody can always take a step. The other runs turn it off: once the bounded
clock has run and the bounded chain, queue or key supply is used up, there
really is nothing left to do.

`TypeOK` of GitTransport, Vault and Admission is in no run. Vault's is a theorem; the
proofs about the other two carry the types they need in their invariants.

### Where code and text disagree

One is a run, because the counterexample takes several steps of two clones:

- `git_torn`: a sync torn between writing and committing leaves a gap in the
  numbering, and a later message overwrites one already shared, although
  `git-transport.ts:136` says two senders never name the same file. The same
  leftovers can make git refuse every later checkout (`InTheWay`).

The others were met while modelling. The models follow the code, and where a
property would say more than the code does, its statement leaves the case out:

- `types/src/edge.ts:111` says that naming contested-closure converges. A
  later-dated exit does not contest an earlier one (`transitions.ts:250`), so the
  party that acted first keeps its terminal state while the other computes
  contested-closure, and terminal edges are not reconciled (`recon.ts:27`).
  `SettledAgree` excludes two exits for that reason.
- The owner's two `closed`, stored in the wrong order, can never be put right,
  because a signer's own dates must not decrease (`transitions.ts:578`).
- The disputed row does not bound an expiry's date by the clock
  (`transitions.ts:403`).
- Joint acts count keys (`transitions.ts:443`), and a party that rotated has two.
- Within one process a refused push followed by a sync loses the message
  (`git-transport.ts:142`). A new process sends it again, which is why
  `EventuallyShared` holds.
- A pending item's id is meant to say "what the person said and who it was to"
  (`node.ts:1175`), but it leaves out `from`, so two people who owe the same words
  in one envelope share a record and one of them is lost.
- A pending expectation is listed with the kind `commitment` (`node.ts:983`), so
  the gesture queue, which goes by the kind (`gestures/src/queue.ts:56`), makes a
  card of it as if it were the viewer's own words; and the brief ranks edges that
  have ended beside the live ones (`node.ts:1065`).
- A meeting's action item is said to be "already a queued extraction"
  (`gestures/src/adapters/meeting.ts:80`), but its id is the transcript's; unless
  a connector queued it under that id, tapping its card is refused.
- Dismissing an edge asks nothing of its state or of the party's role
  (`node.ts:444-450`), though the comment beside it speaks of a proposal: a
  binding promise with acts to sign can be put out of every view of a party.
  A crash between the two writes of a confirmation (`node.ts:487-496`) leaves one
  there too. `NothingFiledAway` says what each view shows a party that did not
  dismiss the edge.
- A re-key leaves the local store under the old key (`vault.ts:394`).
- The comment at `vault.ts:394-396` says that `git checkout .` restores whole a
  re-key that stopped before its commit. It restores what is staged: after a
  commit that failed past `git add -A` (`git.ts:134`) the new keyset stays, and
  the process that ran the re-key, whose handle still has the old key, goes on
  sealing under it; and a record that was written but never staged stays, sealed
  under a key no keyset wraps. Any call before the restore commits what it
  finds.
- `addDeviceKey` and `upgradeKdf` write back the keyset they read before
  deriving a key (`vault.ts:255-258`, `283-295`), so of two at once one change is
  lost, and one that overlaps a re-key puts back the old keyset, with the revoked
  device's wrap and the old key. Two creates both pass the check at `vault.ts:174`, and the one
  keyset left wraps only one's key.
- A correction is said to take autonomy away instantly
  (`executors/src/trust/gradient.ts:40-43`). A run takes the record along from
  before its child starts (`sandbox/run.ts:325`), so a correction recorded
  meanwhile does not reach its draft; and a review that read the record before a
  correction and writes it after puts the old streak back
  (`trust/store.ts:114`).
- `inbox.ts:397-400` says that judging in order of dates keeps a responder from
  choosing the state one recovers into. Assertions of one instant stay as handed
  (`recon.ts:160-170` calls such ties common): of one handed back as
  `[confirmed, proposed]` the recovering node reads `proposed`, until the
  confirmation is handed over once more. Leaving something out is the same
  choice: let a dispute and then a close be held; without the dispute the promise
  is closed, and the dispute, handed over later, is judged after the close and
  refused for good. And a chain that its holder took in another order than that
  of its dates (a contest, above) is judged in order of dates by whoever
  recovers it.
- A revocation learned while a verification waits for its sources does not reach
  its answer (`identity/src/verifier.ts:49-70`: the evidence is judged first).
- A persona that rotated twice cannot recover the edges of its first key: the one
  rotation it may show must be from a key the responder knows
  (`federation/src/recovery.ts:135`).
- A log truncated in place that has grown past the saved cursor is read from the
  cursor on (`extraction/src/ingest/log.ts:149`).
- A child that closes its input early may surface as an unhandled write error
  (`executors/src/sandbox/run.ts:230`), and a test file too large to be read is treated
  as absent and overwritten (`run.ts:137`).

## Fairness

- `EdgeChain!FairSpec`: time passes, and an owner who may expire a deadlocked
  edge does. That is the promise behind the unilateral row, and nothing is asked
  of the counterparty.
- `Federation!SyncingSpec`: each party runs `servanda sync` again and again, a
  new process each time (`tui/src/sync-command.ts` builds the node per call), and
  the courier takes what is pushed (weak fairness of `Restart` and `PushAll`); a
  proposal sent again and again is delivered in the end. The parties keep asking
  for reconciliation (weak), and a question or an answer sent again and again
  gets through (strong). Strong fairness on delivery is the usual assumption on a
  lossy channel. Nothing is asked of asserts. The shipped sync command does not
  itself start reconciliation; the class offers it, and this specification
  describes a client that calls it.
- `GitTransport!SyncingSpec`: for the diligent parties only. A process that has
  something to send is not always killed before it sends, and is not beaten to
  the push for ever; the code has no backoff that would ensure the latter, so it
  is an assumption on the others' pace.

The other specifications state no fairness, and their properties are safety:
nothing in the code obliges a hub to serve, a person to decide or a cron job to
run.

## What is proved

Every safety property of the runs is a theorem of its specification,
for every value of the constants its assumptions allow, checked by TLAPS. Each
proof has an inductive invariant, kept by every action in a lemma of its own;
the last step of each theorem puts them together. What each invariant adds to
the property, and why the property alone is not inductive:

**EdgeChain, Offers.** For any keys, bodies, lineages, windows and arriving
assertions.

- `TypeCorrect`, from one typing lemma per effect of the table.
- `ConfirmFirstHolds`: a contest leads from any state to contested-closure, so
  `ConfirmFirstInv` adds that an edge not yet open has no recorded exit and that
  any edge past none carries the owner's proposal.
- `SupersessionIsJoint`: `SupersedeInv` ties both tallies of signers to
  assertions of the chain.
- `ContestsAreReal`, `ExpiryIsEarned`, `ClosureIsEarned`: the context keeps only
  marks (`exit`, `window_opened_at`, `disputed_at`, `contested_at`, tallies);
  `ResolutionInv` says which assertion of the chain each mark was made by.
- `OnlyContestsReopen`, an action property, from what `Effect` does.
- `ReplayIsStable`: the context carried forward is the end of a trace of the
  whole chain, under every clock that has passed (`ReplayInv`); a trace is then
  shown to be what the recursive verifier computes. No later clock un-accepts
  an assertion.
- `OffersAreHonest`, `NothingIsFiledAway`: the view takes the acceptance window
  from the owner's last `closed`, the table from the one that opened it;
  `WindowInv` says that they are one assertion while the edge is open or
  pending.

**Federation.** For any bounds on clock, chains and courier.

- `FederationTypes`, `AcknowledgementsAreTrue`: `FederationInv` says that there
  is one proposal, that no chain begins with anything else, and that an
  assertion on its way to the owner comes from a creditor whose chain has begun.
  What a reconciliation leaves continues the chain it was given
  (`ReconContinues`), by induction over the two loops of `applyReconResponse`.
- `SettledRegistersAgree`: `OriginInv` says that every assertion in a chain or
  on the wire is in its signer's own chain and is one that party may sign, and
  that a chain is a proposal, a confirmation, a first exit and another. With one
  exit both chains are then beginnings of one chain of three; the shorter one
  would take the next assertion of the longer (`GoesFurther`, `ReconTakes`), so
  settled nodes hold the same chain. The acceptance window must be at least one
  instant (P5D in the code): with none, a `closed` repeated at the same instant
  would close the edge.
- `SameActsSameState`: `HistoryInv` says of each node's chain that the replay
  without a clock accepts every element (a trace), that a node's own act is dated
  no earlier than anything it then held and a second one later than some exit,
  and that from the first exit on it is one of three stories: the exit alone; an
  owner's close accepted by a second one a window later; a first contest (a later
  element of the other party's, of another kind, dated no later), and then either
  nothing but the owner's closes, or an overdue expiry after which the exit may
  be contested anew. The property alone says nothing of order, and neither does
  `OriginInv`. Two chains with one set of acts then end alike: a contest on both
  fixes the two exits at one date, no second contest can be in both, and the
  state is `expired` just when some expiry is dated late enough. The dispute
  window must be at least one instant (P30D, `node/src/transitions.ts:138`): with
  none, an expiry at the instant of the contest makes the property false.

**GitTransport.** For any number of clones, messages and instants.

- `HistoryGrows`, `MessagesFiledOnce`: in `GitInv` every tree is numbered
  without a gap and files nothing twice, and a clone's main contains what it last
  fetched, so an accepted push replaces the shared history by a larger one.

**Admission.** For any senders, hubs, faithless ones, readers and budgets.

- `HubsAreBlind`: refinement of `Courier!Spec`, by `HubInv`: whatever a hub
  queues that would pass the seal was sent, under the date the seal binds; only
  the node signs its inbox record; an answered challenge is never outstanding
  at the hub it names. Each step is one of the courier's or a stutter.
- `BudgetIsKept`: `BudgetInv` balances the counters against what was let in,
  which the fold over a read's messages preserves.

**Vault.** For any processes, devices and profiles, and any number of faults.

- `VaultTypes`: `TypeInv` adds to the types that every keyset which is stored,
  staged, committed or about to be written by a call under way is one the
  passphrase opens at a cost an open will spend (`CustodyInv`); all passphrase
  wraps of a keyset have one cost.
- `AppendsAreKept`, for disturbed vaults too: `AppendInv` says that what a caller
  is about to be told of is in the tree, from `git add` on in the index, and that
  neither drops what the last commit holds.
- `CommitsOpen`: `KeyInv` says, as long as the vault is not disturbed, that index
  and last commit are each under one key, not necessarily the same; that a re-key
  under way has resealed a record or still has to; and that one which is
  committing has left tree, keyset and index under its key. `Alone` is what
  `Disturbing` buys: while one process creates there is no other, and while one
  re-keys the others only open or close the vault. A process that had the vault
  open during a re-key keeps the old key; what it does next disturbs the vault,
  so its key need not be known to be right.
- `RevocationHolds`: `RevokedInv` says of a revoked device that it saw no key
  that is in use or may come back: of the tree, the keyset, the index, the last
  commit, and of the keyset that a change of custody is about to write back.

**Ladder.** For any organisations, statements and overlapping verifications.

- `AnchorsAreRecent`, `NamesAreEarned`, `RevocationsStand`, `RecoveryIsGraded`:
  `LadderInv` says of the cached answer and of every call under way when its
  root was last named, and with which evidence and revocations the call began.

**Ingest.** For any log, batches, runs and faults.

- `NothingIsSkipped`: `CursorInv` says of the saved cursor and of the cursor of
  each run what they stand past.
- `FindingsSurface`, `DecisionsStand`: a candidate a run is past was queued
  (`QueuedInv`), and what is pending or decided is accounted for by a mark or a
  run that still has to mark (`OnceInv`).

**Recovery, Executors, Register, Gestures** (`Node_proofs`).

- `AnsweredOnce`: answers go to spent challenges, each to another one
  (`RecoveryInv`).
- `RestoredIsHeld`: `StoredInv` says that what is stored was held or made up,
  and of a promise last handed over whole that its chain is the held one. The
  proof follows the two loops of `applyRecoverResponse`, by induction over the
  dates and over the assertions of an answer: put in order of dates
  (`WireOrder`), those held come to be judged in the order held (`JudgedAsHeld`),
  and the table takes each of them there (`HeldIsTaken`), because a replay of
  what comes before gives the context it was taken in. It does so also under a
  key rotated since, because the walk over the rotations shows that a party's
  first key counts (`FirstKeyCounts`). That a promise of the node's own is held
  by its counterparty follows from the proposal it needs, which nobody else can
  sign.
- `DraftsAreEarned`, `DraftsStayInBounds`: a streak that the trust store, a
  review or a run holds is at most the count of unedited approvals, unless it
  has outlived a correction (`TrustInv`, `ReviewInv`, `RunInv`). `outdated` and
  `uncorrected` follow who read a record before a correction and what they made
  of it, so the exceptions are the interleavings themselves and not whole runs.
- `WalksLoseNothing`, `SkippedIsCounted`: a walk in progress has read, of what
  stayed, exactly what stands before its place (`Reading`), for any ranking and
  page size and under any change between two pages. The counts are
  cardinalities of finite sets.
- `PromisesAreTheViewersOwn`: what a card carries, from the moment it is made.

What the theorems assume. The named assumptions on constants only type them,
bound them below where the code does (a page holds at least one item, a cached
anchor is kept at least a second, a batch has at least one envelope), keep
distinct keys distinct (no stranger is one's own key, the node is not a sender),
say that the sets of data are finite, and that the autonomy thresholds ascend. Three theorems have a hypothesis of
their own, where the code's promise has one: `OneKeyEach` (nobody rotated: the
table counts keys, so a party with two can do a joint act alone), `PartiesNamed`
(the edge names the parties' current keys, which the view looks for) and
`OneIdEach` (two findings of an envelope have two ids; the divergence above).
`HeldAssumption` of Recovery says what a responder's vault can hold: chains each
of whose assertions the table took in its turn, once.

What some properties leave out is said in their statements, each time an
interleaving of the code and never a bound: `Disturbing` of Vault, `outdated` of
Executors, `HandedAsHeld` of Recovery, `dismissed` of Offers. The divergences
above show what happens there.

Only model-checked:

- the liveness properties (`DeadlockEnds`, `ProposeArrives`,
  `HalfReceivedCompleted`, `EventuallyAgree`, `EventuallyShared`): fairness is
  out of the prover's reach.

Induction is not out of reach where it is over the naturals: `LeastNatural`
gives a counterexample's least index, and `LoopRuns` that a loop's recursive
function exists; both are first-order, so each module that needs them states
them again.

## Not modelled

- Cryptography is perfect: a signature names its signer, a hash its content, a
  seal opens with its key alone.
- Wording, layout and logging; readers of foreign formats (mail, GitHub,
  transcripts); rendering (clients, the brief by mail); prompts and what a model
  answers (an input of Ingest); confinement by the operating system (executors).
- Stateless code around modelled operations: the MCP server and its tools, the
  cross-persona link, the quoting of a gesture's text, the bounds of one
  envelope, archaeology (a report over git history).
- Left out of modelled parts: the grant of a published scope in the serving
  rules, storing a rotation that arrives by wire, the `unroutable` state of an
  outbox item, the brief's choice of slots, offers to a party whose key was
  rotated (the view looks for the literal `edge.owner`, `node.ts:633`). Federation has one edge, one clock
  and no rotation.
- The conformance suite, gates, end-to-end tests and vendored vectors, which
  check the program.

## Plan

*Done*: the table, one node's chain and its offers, two nodes with a courier,
the git and hub couriers, admission, recovery, the vault, the ladder, ingest, the
register's views and cards, executors; the theorems above, the hub's refinement
among them.

*Left*: the liveness properties, which stay with TLC; what a vault comes to after
it was disturbed, beyond its appends; and what a recovering node holds of a
promise when an answer leaves something out.
