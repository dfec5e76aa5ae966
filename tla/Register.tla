------------------------------ MODULE Register ------------------------------
(***************************************************************************)
(* One persona's register as the node shows it: the records behind the     *)
(* views, their rank, and a client that reads a whole view page by page    *)
(* while the register changes under it.  Another tool call, an inbox pull  *)
(* or an ingest may run between any two pages, and time passes.            *)
(*                                                                         *)
(* Ids are hashes; numbers stand for them, ordered as localeCompare orders *)
(* hexadecimal.  Time counts days for the rank and for the cursor's age.   *)
(* A definition whose name extends the next one's is a slip in it.         *)
(***************************************************************************)
EXTENDS Integers, FiniteSets

CONSTANTS
    Ids,
    Held,                   \* records the register may start with
    Dues,                   \* due dates in use
    Blocking,               \* lengths of blocked_by in use
    DUE_SOON_HORIZON_DAYS, BAND_STRIDE, CURSOR_TTL,
    PAGE_SIZE, MAX_PAGES,
    Views,                  \* of "owe", "waiting", "closed", "pending", "all", those walked
    MaxTime, MaxChanges     \* bounds on the clock and on the register's changes

None == -1

\* "closed" stands for every state of an edge that itemsFor does not call live.
RecordState == {"vault-local", "pending-acceptance", "proposed", "open", "disputed",
                "contested-closure", "closed"}

RecordType ==
    [kind : {"edge", "commitment", "expectation", "pending"}, since : Nat,
     due : Nat \cup {None}, blocking : Nat, state : RecordState, mine : BOOLEAN,
     of : Nat \cup {None}, dismissed : BOOLEAN]

ASSUME RegisterAssumption ==
    /\ Ids \subseteq Nat /\ IsFiniteSet(Ids)
    /\ Dues \subseteq Nat \cup {None} /\ Blocking \subseteq Nat
    /\ Held \subseteq RecordType
    /\ DUE_SOON_HORIZON_DAYS \in Nat /\ BAND_STRIDE \in Nat \ {0}
    /\ PAGE_SIZE \in Nat \ {0} /\ MAX_PAGES \in Nat \ {0}

VARIABLES
    records,    \* id |-> record, for the ids in use
    now,
    changes,    \* how many times the register has changed
    walk,       \* the client's walkView: its cursor and what it has read, once or again
    stayed,     \* history: ids in the view, unmoved, since the walk began
    left,       \* history: did anything leave the view during the walk
    missed      \* history: at the last page, what the view held unread

registerVars == <<records, now, changes, walk, stayed, left, missed>>

\* An edge that is `of` a commitment hides it; mine is edge.owner === persona.
Record(kind, since, due, blocking, state, mine, of) ==
    [kind |-> kind, since |-> since, due |-> due, blocking |-> blocking,
     state |-> state, mine |-> mine, of |-> of, dismissed |-> FALSE]

NoWalk == [pc |-> "none", view |-> "all", as_of |-> 0, score |-> 0, id |-> 0,
           above |-> 0, read |-> {}, reread |-> {}, skipped |-> 0, pages |-> 0]

\* The register starts with what earlier sessions left in it.
RegisterInit ==
    /\ \E held \in SUBSET Ids : records \in [held -> Held]
    /\ now = 0 /\ changes = 0
    /\ walk = NoWalk
    /\ stayed = {} /\ left = FALSE /\ missed = {}

-----------------------------------------------------------------------------
(* Rank.                                                                   *)

Band(b, weight) ==
    b * BAND_STRIDE + (IF weight < 0 THEN 0
                       ELSE IF weight > BAND_STRIDE - 1 THEN BAND_STRIDE - 1 ELSE weight)

Rank(r, at) ==
    LET toDue == r.due - at
        age == IF at > r.since THEN at - r.since ELSE 0
    IN  CASE r.due # None /\ toDue < 0 -> Band(2, -toDue * (1 + r.blocking))
          [] r.due # None /\ toDue \in 0..DUE_SOON_HORIZON_DAYS ->
                 Band(1, (DUE_SOON_HORIZON_DAYS - toDue) * (1 + r.blocking))
          [] OTHER -> Band(0, age * (1 + r.blocking))

\* The confirmation queue has no ordering keys: it scores zero.
ScoreOf(rs, id, at) == IF rs[id].kind = "pending" THEN 0 ELSE Rank(rs[id], at)

-----------------------------------------------------------------------------
(* The views.                                                              *)

Live(r) == r.state \in {"open", "pending-acceptance", "proposed", "disputed", "contested-closure"}

\* A commitment with an edge is already surfaced as the edge, dismissed or not.
HasEdge(rs, id) == \E e \in DOMAIN rs : rs[e].kind = "edge" /\ rs[e].of = id

InView(rs, view, id) ==
    LET r == rs[id]
    IN  CASE r.kind = "edge" ->
                 /\ ~r.dismissed
                 /\ CASE view = "owe" -> r.mine /\ Live(r)
                      [] view = "waiting" -> ~r.mine /\ Live(r)
                      [] view = "closed" -> ~Live(r)
                      [] view = "pending" -> r.state = "proposed" /\ ~r.mine
                      [] OTHER -> TRUE
          [] r.kind = "commitment" -> ~HasEdge(rs, id) /\ view \in {"owe", "all"}
          [] r.kind = "pending" -> view \in {"pending", "all"}
          [] OTHER -> view \in {"waiting", "all"}

ItemsFor(rs, view) == {id \in DOMAIN rs : InView(rs, view, id)}

-----------------------------------------------------------------------------
(* open_loops, called by walkView.                                         *)

\* The view with its scores, and how many of it come before one of them: by
\* score, the highest first, and then by id.
Scored(view, at) == {[score |-> ScoreOf(records, id, at), id |-> id] : id \in ItemsFor(records, view)}

Position(scored, i) ==
    Cardinality({k \in scored : k.score > i.score \/ (k.score = i.score /\ k.id < i.id)})

SortsAfter(c, i) == i.score < c.score \/ (i.score = c.score /\ i.id > c.id)

AsOfNow(c) == now
AsOf(c) == c.as_of

AboveDelivered(c, start, page) == Cardinality(c.read) + Cardinality(page)
Above(c, start, page) == start + Cardinality(page)

\* One page from position start of the order as of `at`; the walk goes on with
\* the cursor of the page's last item unless the view is finished.
Deliver(c, at, scored, start) ==
    LET page == {i \in scored : Position(scored, i) \in start..(start + PAGE_SIZE - 1)}
        ids == {i.id : i \in page}
        last == CHOOSE i \in page : Position(page, i) = Cardinality(page) - 1
        finished == start + Cardinality(page) >= Cardinality(scored)
        after == [c EXCEPT !.read = @ \cup ids, !.reread = @ \cup (c.read \cap ids),
                           !.pages = @ + 1]
    IN  /\ walk' = CASE finished -> [after EXCEPT !.pc = "finished"]
                     [] ~finished /\ after.pages >= MAX_PAGES -> [after EXCEPT !.pc = "truncated"]
                     [] OTHER -> [after EXCEPT !.pc = "walking", !.as_of = at, !.id = last.id,
                                     !.score = last.score, !.above = Above(c, start, page)]
        /\ missed' = {i.id : i \in scored} \ after.read

FirstPage(view) ==
    /\ walk.pc # "walking"
    /\ Deliver([NoWalk EXCEPT !.view = view], now, Scored(view, now), 0)
    /\ stayed' = ItemsFor(records, view)
    /\ left' = FALSE
    /\ UNCHANGED <<records, now, changes>>

CursorExpired(c) == now > c.as_of + CURSOR_TTL

NextPage ==
    LET at == AsOf(walk)
        scored == Scored(walk.view, at)
        start == Cardinality({i \in scored : ~SortsAfter(walk, i)})
        skipped == IF start > walk.above THEN start - walk.above ELSE 0
    IN  /\ walk.pc = "walking" /\ ~CursorExpired(walk)
        /\ Deliver([walk EXCEPT !.skipped = @ + skipped], at, scored, start)
        /\ UNCHANGED <<records, now, changes, stayed, left>>

\* A cursor that outlived its instant is refused, and the walk with it.
RefuseCursor ==
    /\ walk.pc = "walking" /\ CursorExpired(walk)
    /\ walk' = NoWalk /\ stayed' = {} /\ left' = FALSE /\ missed' = {}
    /\ UNCHANGED <<records, now, changes>>

-----------------------------------------------------------------------------
(* What changes the register between two pages.                            *)

\* The history of a walk across a change of the records.
Becomes(rs) ==
    LET before == ItemsFor(records, walk.view)
        keeps == {id \in before \cap ItemsFor(rs, walk.view) : records[id].kind = rs[id].kind}
    IN  /\ records' = rs
        /\ stayed' = stayed \cap keeps
        /\ left' = (left \/ (walk.pc = "walking" /\ before # keeps))
        /\ UNCHANGED <<now, walk, missed>>

Free(id) == id \in Ids \ DOMAIN records
With(id, r) ==
    [k \in DOMAIN records \cup {id} |-> IF k = id THEN r ELSE records[k]]

Commit(id, due) ==
    /\ Free(id)
    /\ Becomes(With(id, Record("commitment", now, due, 0, "vault-local", TRUE, None)))

CommitAndPropose(id, edge, due) ==
    /\ Free(id) /\ Free(edge) /\ id # edge
    /\ Becomes([k \in DOMAIN records \cup {id, edge} |->
           CASE k = edge -> Record("edge", now, due, 0, "proposed", TRUE, id)
             [] k = id -> Record("commitment", now, due, 0, "vault-local", TRUE, None)
             [] OTHER -> records[k]])

\* Inbox: dated by its owner, delivered late.
InboundProposal(edge, since, due, blocking) ==
    /\ Free(edge)
    /\ Becomes(With(edge, Record("edge", since, due, blocking, "proposed", FALSE, None)))

Expect(id) ==
    /\ Free(id)
    /\ Becomes(With(id, Record("expectation", now, None, 0, "open", FALSE, None)))

\* mine is that the candidate is a commitment and not somebody else's, expected.
QueuePendingExtraction(id, mine) ==
    /\ Free(id)
    /\ Becomes(With(id, Record("pending", now, None, 0, "vault-local", mine, None)))

\* confirm, on the queue: the expectation keeps the id, the commitment has its own.
InQueue(id) == id \in DOMAIN records /\ records[id].kind = "pending"

AcceptPending(id) ==
    /\ InQueue(id)
    /\ IF records[id].mine
       THEN \E hash \in Ids :
              /\ Free(hash)
              /\ Becomes([k \in (DOMAIN records \cup {hash}) \ {id} |->
                     IF k = hash THEN Record("commitment", records[id].since, None, 0,
                                             "vault-local", TRUE, None)
                                 ELSE records[k]])
       ELSE Becomes(With(id, Record("expectation", records[id].since, None, 0, "open", FALSE, None)))

DismissPending(id) ==
    /\ InQueue(id)
    /\ Becomes([k \in DOMAIN records \ {id} |-> records[k]])

\* confirm, on an edge: signing clears the local shrug.
ConfirmEdge(id) ==
    /\ id \in DOMAIN records /\ records[id].kind = "edge"
    /\ records[id].state = "proposed" /\ ~records[id].mine
    /\ Becomes([records EXCEPT ![id].state = "open", ![id].dismissed = FALSE])

DismissEdge(id) ==
    /\ id \in DOMAIN records /\ records[id].kind = "edge"
    /\ Becomes([records EXCEPT ![id].dismissed = TRUE])

\* An act of either party, here or from the inbox, ends the edge.
EdgeEnds(id) ==
    /\ id \in DOMAIN records /\ records[id].kind = "edge" /\ Live(records[id])
    /\ Becomes([records EXCEPT ![id].state = "closed"])

Tick ==
    /\ now < MaxTime
    /\ now' = now + 1
    /\ UNCHANGED <<records, changes, walk, stayed, left, missed>>

WalkStep == NextPage \/ RefuseCursor \/ \E view \in Views : FirstPage(view)

Change ==
    /\ changes < MaxChanges /\ changes' = changes + 1
    /\ \E id \in Ids :
         \/ Expect(id) \/ AcceptPending(id) \/ DismissPending(id)
         \/ ConfirmEdge(id) \/ DismissEdge(id) \/ EdgeEnds(id)
         \/ \E mine \in BOOLEAN : QueuePendingExtraction(id, mine)
         \/ \E due \in Dues :
              \/ Commit(id, due)
              \/ \E edge \in Ids : CommitAndPropose(id, edge, due)
              \/ \E since \in 0..now, blocking \in Blocking :
                   InboundProposal(id, since, due, blocking)

RegisterNext == WalkStep \/ Change \/ Tick

RegisterSpec == RegisterInit /\ [][RegisterNext]_registerVars

-----------------------------------------------------------------------------
\* A walk that ends has delivered every item that was in the view from its
\* first page on, whatever entered, left or came due meanwhile, and has
\* delivered none of them twice (openLoops, sortsAfter, walkView).
WalkDeliversOnce ==
    walk.pc = "finished" =>
        stayed \subseteq walk.read \ walk.reread

\* What overtook the reader is counted: if nothing left the view during the
\* walk, the skipped counts of its pages add up to exactly the items the view
\* held unread at the last page, each reported once (openLoops, cursor.above).
SkippedIsExact ==
    (walk.pc = "finished" /\ ~left) => walk.skipped = Cardinality(missed)
=============================================================================
