------------------------------ MODULE Gestures ------------------------------
(***************************************************************************)
(* In-situ gestures (packages/gestures/src): somebody said something in a  *)
(* chat, a review or a meeting, the viewer reacts or asks for the queue,   *)
(* gets a card, and taps it now or later, once or again.  A tap is one     *)
(* call of the node.  Cards keep no lock on what they show: the register   *)
(* of Register changes underneath, from other surfaces too.                *)
(*                                                                         *)
(* A text is whether anything is left of it once it is quoted; places,     *)
(* copy and flywheel labels are left out.  A card is posted to whoever     *)
(* reacted, so only the viewer's reactions reach this register.            *)
(* A definition whose name extends the next one's is a slip in it.         *)
(***************************************************************************)
EXTENDS Register, Sequences

CONSTANTS
    User,           \* people as a platform knows them
    Directory,      \* user |-> persona, or Nobody
    viewer,         \* the persona whose register this is
    Nobody,
    Reaction, CONFIRM_REACTION,
    Message,        \* chat messages: user, text, mentions
    Comment,        \* review comments: user, text, the pull request's author
    ActionItem,     \* of a meeting: the user it is attributed to or Nobody, text, owed_to
    MaxTaps         \* bound: taps beyond the register's other changes

ASSUME GestureAssumption ==
    /\ DOMAIN Directory = User
    /\ Nobody \notin User /\ Nobody # viewer /\ MaxTaps \in Nat
    /\ CONFIRM_REACTION \in Reaction

VARIABLE card       \* the card in front of the viewer
gestureVars == <<records, now, changes, walk, stayed, left, missed, card>>

-----------------------------------------------------------------------------
(* Whose words.                                                            *)

SpeakerOf(user) == [externalId |-> user, personaId |-> Directory[user]]
Unattributed == [externalId |-> Nobody, personaId |-> Nobody]

Utterance(speaker, said, pendingId, owedTo) ==
    [speaker |-> speaker, said |-> said, pendingId |-> pendingId, owedTo |-> owedTo]

ChatUtterance(message, pendingId) ==
    LET named == SelectSeq(message.mentions, LAMBDA m : m # message.user)
    IN  Utterance(SpeakerOf(message.user), message.text, pendingId,
                  IF named = <<>> THEN Unattributed ELSE SpeakerOf(Head(named)))

\* A promise made in review is owed to the author of the pull request.
PrUtterance(comment, pendingId) ==
    Utterance(SpeakerOf(comment.user), comment.text, pendingId,
              IF comment.author = comment.user THEN Unattributed ELSE SpeakerOf(comment.author))

ParticipantSpeaker(user) == IF user = Nobody THEN Unattributed ELSE SpeakerOf(user)

MeetingUtterance(item, id) ==
    Utterance(ParticipantSpeaker(item.user), item.text, id, ParticipantSpeaker(item.owed_to))

AsOwnIfKnown(utterance) == utterance.speaker.personaId # Nobody
AsOwn(utterance) == utterance.speaker.personaId = viewer

-----------------------------------------------------------------------------
(* Cards, with the intents behind their actions.                           *)

ConfirmIntent(id) == [tool |-> "confirm", id |-> id]
DismissIntent(id) == [tool |-> "dismiss", id |-> id]
CommitIntent(utterance) ==
    [tool |-> "commit", propose |-> utterance.owedTo.personaId # Nobody]
ExpectIntent == [tool |-> "expect"]

NoCard == [kind |-> "none", by |-> Nobody, intents |-> {}]
Card(kind, utterance, intents) ==
    [kind |-> kind, by |-> utterance.speaker.personaId, intents |-> intents]

ConfirmCard(utterance, pendingId) ==
    Card("confirm", utterance, {ConfirmIntent(pendingId), DismissIntent(pendingId)})

RecordCard(utterance) == Card("record", utterance, {CommitIntent(utterance)})

ExpectationCard(utterance) ==
    Card("expectation", utterance,
         {ExpectIntent} \cup (IF utterance.pendingId = None THEN {}
                              ELSE {DismissIntent(utterance.pendingId)}))

\* Any reaction but the handshake is unmapped or no gesture, and does nothing.
ResolveReaction(reaction, utterance) ==
    CASE reaction # CONFIRM_REACTION \/ ~utterance.said -> NoCard
      [] reaction = CONFIRM_REACTION /\ utterance.said /\ ~AsOwn(utterance) ->
             ExpectationCard(utterance)
      [] OTHER -> IF utterance.pendingId = None THEN RecordCard(utterance)
                  ELSE ConfirmCard(utterance, utterance.pendingId)

\* The queue's items are cast to the viewer's own words, whatever was queued.
UtteranceOf(id) == Utterance([externalId |-> Nobody, personaId |-> viewer], TRUE, id, Unattributed)

Shows(c) == c # NoCard /\ card' = c /\ UNCHANGED registerVars

Queued == {id \in DOMAIN records : InQueue(id)}

\* A connector hands over the id of what was queued for the words, if anything
\* was; a reaction by somebody the directory does not know is no event.
Reacts(user) == Directory[user] = viewer

ReactInChat ==
    \E user \in User, reaction \in Reaction, message \in Message, id \in Queued \cup {None} :
        /\ Reacts(user)
        /\ Shows(ResolveReaction(reaction, ChatUtterance(message, id)))

ReactInReview ==
    \E user \in User, reaction \in Reaction, comment \in Comment, id \in Queued \cup {None} :
        /\ Reacts(user)
        /\ Shows(ResolveReaction(reaction, PrUtterance(comment, id)))

\* The item's id is the transcript's own, which no record has, or that of a
\* queued extraction.
TranscriptId == -2

MeetingEnds ==
    \E item \in ActionItem, id \in Queued \cup {TranscriptId} :
        LET utterance == MeetingUtterance(item, id)
        IN  Shows(IF AsOwn(utterance) THEN ConfirmCard(utterance, id)
                                      ELSE ExpectationCard(utterance))

\* The pending view without the inbound proposals, as far as one page goes.
QueueCards ==
    LET scored == Scored("pending", now)
    IN  \E i \in scored :
            /\ Position(scored, i) < PAGE_SIZE
            /\ InQueue(i.id)
            /\ Shows(ConfirmCard(UtteranceOf(i.id), i.id))

-----------------------------------------------------------------------------
\* A tap: one call of the node, which throws when the id is no longer what the
\* card was made from.
RunIntent(intent) ==
    CASE intent.tool = "confirm" -> AcceptPending(intent.id)
      [] intent.tool = "dismiss" -> DismissPending(intent.id)
      [] intent.tool = "expect" -> \E id \in Ids : Expect(id)
      [] intent.tool = "commit" /\ intent.propose ->
             \E id, edge \in Ids : CommitAndPropose(id, edge, None)
      [] OTHER -> \E id \in Ids : Commit(id, None)

Tap(intent) ==
    /\ changes < MaxChanges + MaxTaps /\ changes' = changes + 1
    /\ RunIntent(intent)
    /\ UNCHANGED card

GestureInit == RegisterInit /\ card = NoCard

\* The walking client and the viewer's card meet only in the register, and
\* each tap is one of the changes a walk may meet anyway: they are taken apart.
GestureNext ==
    \/ Change /\ UNCHANGED card
    \/ card = NoCard /\ (WalkStep \/ Tick) /\ UNCHANGED card
    \/ /\ card = NoCard /\ walk = NoWalk
       /\ ReactInChat \/ ReactInReview \/ MeetingEnds \/ QueueCards
    \/ \E intent \in card.intents : Tap(intent)

GestureSpec == GestureInit /\ [][GestureNext]_gestureVars

-----------------------------------------------------------------------------
\* Only one's own words become a promise: a tap that leaves a new commitment
\* or edge in the register is on words the viewer spoke and, where a candidate
\* was waiting, on one that was queued as the viewer's own, although a card
\* from the queue calls everything the viewer's and the register may have
\* changed since the card was made (asOwn, runIntent, confirmPending).
OwnWordsOnly ==
    [][\A intent \in card.intents :
          (Tap(intent) /\ \E id \in DOMAIN records' :
                              /\ records'[id].kind \in {"commitment", "edge"}
                              /\ id \notin DOMAIN records)
          => /\ card.by = viewer
             /\ intent.tool = "confirm" => records[intent.id].mine]_gestureVars
=============================================================================
