-------------------------- MODULE TurnActionsProofs --------------------------
(***************************************************************************)
(* Proofs about TurnActions, for any number of turns, flows, stages and    *)
(* faults: a turn keeps to the cap, the contact has the opening once, the  *)
(* row of a turn tells what was sent, and what the next turn reads of the  *)
(* rows is what the contact has.                                           *)
(***************************************************************************)
EXTENDS TurnActions, TLAPS, SequenceTheorems, FiniteSetTheorems

Live == {"calls", "reply", "late", "after"}    \* the turn may still call and send
Steps == Live \union {"idle", "perform", "done"}

Actions ==
    {SendFlowOf(f) : f \in Flows} \union {SetStage(v) : v \in Values} \union {Intent, Note}
Requests == Actions \union {SetStage(LinkSent)} \union {Event(v) : v \in EventStages}
StageEntries ==
    [act : Actions, state : {"staged", "sent", "done"}, did : Nat, landed : Nat, known : Int]

StageTypes ==
    /\ pc \in [Turns -> Steps] /\ kind \in [Turns -> Kinds \union {"ordered"}]
    /\ DOMAIN facts = Turns
    /\ order \in [Turns -> Seq(StageEntries)]
    /\ queue \in [Turns -> Seq(Flows)]
    /\ hand \in [Turns -> SUBSET Nat]
    /\ opened \in [Turns -> BOOLEAN]
    /\ openingAt \in BOOLEAN
    /\ got \in [Flows -> Nat]

\* Only a turn under way sends, and only one with FlowSends.
SendersOnly ==
    /\ \A t \in Turns : queue[t] # <<>> => pc[t] \in Live /\ Sends(t)
    /\ \A t \in Turns : pc[t] = "idle" => hand[t] = {} /\ Entries(t) = {}

\* What is in hand has a request left, and what is staged was not tried before the row.
InHand ==
    /\ \A t \in Turns : \A i \in hand[t] :
          i \in Entries(t) /\ order[t][i].did < Len(Chain(t, order[t][i].act))
    /\ \A t \in Turns : pc[t] \in Live =>
          \A i \in InState(t, "staged") : order[t][i].did = 0 /\ i \notin hand[t]

\* One turn at most has the opening, which it claimed and never stages, and once the
\* contact has it nobody has it in hand.
IsOpening(t, i) == i \in Entries(t) /\ order[t][i].act = Opening
OpeningsApart ==
    /\ \A t \in Turns : \A i \in Entries(t) :
          IsOpening(t, i) => openingAt /\ order[t][i].state # "staged"
    /\ \A t, u \in Turns : \A i \in Entries(t), j \in Entries(u) :
          IsOpening(t, i) /\ IsOpening(u, j) => t = u /\ i = j
OpeningGiven ==
    /\ got["opening"] \in 0..1
    /\ got["opening"] = 1 =>
          openingAt /\ \A t \in Turns : \A i \in hand[t] : ~IsOpening(t, i)

OpeningInv == StageTypes /\ SendersOnly /\ InHand /\ OpeningsApart /\ OpeningGiven

CapInv == OpeningInv /\ CapHeld

-----------------------------------------------------------------------------

\* Rewriting the entries of a stage, one by one, keeps their number.
LEMMA Rewritten ==
    ASSUME NEW S, NEW s \in Seq(S), NEW r \in [DOMAIN s -> S]
    PROVE  r \in Seq(S) /\ DOMAIN r = DOMAIN s
BY LenProperties, SeqDef

\* What staging or sending one more action does to the sequence.
LEMMA Added ==
    ASSUME NEW S, NEW s \in Seq(S), NEW e \in S
    PROVE  /\ Append(s, e) \in Seq(S)
           /\ Len(s) \in Nat
           /\ DOMAIN s = 1..Len(s)
           /\ DOMAIN Append(s, e) = 1..(Len(s) + 1)
           /\ \A i \in DOMAIN s : Append(s, e)[i] = s[i]
           /\ Append(s, e)[Len(s) + 1] = e
BY LenProperties, AppendProperties

\* An entry for an action is one.
LEMMA EntryTyped ==
    ASSUME NEW a \in Actions, NEW s \in {"staged", "sent", "done"}
    PROVE  /\ Entry(a, s) \in StageEntries
           /\ Entry(a, s).act = a /\ Entry(a, s).state = s /\ Entry(a, s).did = 0
BY DEF Entry, StageEntries

\* The chain of an action is not empty, and only the opening's holds the opening.
LEMMA ChainOf ==
    ASSUME NEW t \in Turns, NEW a \in Actions
    PROVE  /\ Len(Chain(t, a)) \in Nat \ {0}
           /\ a = Opening => Len(Chain(t, a)) = 1
           /\ Chain(t, a) \in Seq(Requests)
           /\ \A n \in 1..Len(Chain(t, a)) : Chain(t, a)[n] = Opening => a = Opening
<1>1. \A v \in Values \union {LinkSent} : FollowedBy(t, v) \in Seq({Event(w) : w \in EventStages})
  <2> DEFINE Events == {Event(w) : w \in EventStages}
  <2>1. \A w \in EventStages : <<Event(w)>> \in Seq(Events)
    <3> SUFFICES ASSUME NEW w \in EventStages PROVE <<Event(w)>> \in Seq(Events)
        OBVIOUS
    <3>1. Event(w) \in Events
      OBVIOUS
    <3> HIDE DEF Events
    <3> QED BY <3>1
  <2>2. <<>> \in Seq(Events)
    OBVIOUS
  <2> HIDE DEF Events
  <2>3. \A v : FollowedBy(t, v) \in Seq(Events)
    BY <2>1, <2>2 DEF FollowedBy
  <2> QED BY <2>3 DEF Events
<1> DEFINE Rest == IF a = Link THEN <<SetStage(LinkSent)>> \o FollowedBy(t, LinkSent)
                   ELSE IF a[1] = "set_field" THEN FollowedBy(t, a[2]) ELSE <<>>
           Others == {SetStage(LinkSent)} \union {Event(w) : w \in EventStages}
<1>2. a[1] = "set_field" => a[2] \in Values
  BY DEF Actions, SendFlowOf, SetStage, Intent, Note
<1>3. Rest \in Seq(Others)
  <2>1. \A v \in Values \union {LinkSent} : FollowedBy(t, v) \in Seq(Others)
    BY <1>1, SeqMonotonic
  <2>2. <<SetStage(LinkSent)>> \o FollowedBy(t, LinkSent) \in Seq(Others)
    <3>1. <<SetStage(LinkSent)>> \in Seq(Others)
      OBVIOUS
    <3> QED BY <3>1, <2>1, ConcatProperties
  <2>3. <<>> \in Seq(Others)
    OBVIOUS
  <2> QED BY <2>1, <2>2, <2>3, <1>2
<1>4. Opening \notin Others
  BY DEF Opening, SendFlowOf, SetStage, Event
<1>5. a = Opening => Rest = <<>>
  BY DEF Opening, Link, SendFlowOf
<1>6. Chain(t, a) = <<a>> \o Rest
  BY DEF Chain
<1>7. /\ <<a>> \in Seq(Requests) /\ Len(<<a>>) = 1 /\ <<a>>[1] = a
      /\ Rest \in Seq(Requests)
  BY <1>3, SeqMonotonic DEF Requests
<1>8. /\ <<a>> \o Rest \in Seq(Requests)
      /\ Len(<<a>> \o Rest) = 1 + Len(Rest) /\ Len(Rest) \in Nat
      /\ \A n \in 1..(1 + Len(Rest)) :
            (<<a>> \o Rest)[n] = IF n <= 1 THEN <<a>>[n] ELSE Rest[n - 1]
  BY <1>7, ConcatProperties, LenProperties
<1>9. \A n \in 1..Len(Rest) : Rest[n] # Opening
  BY <1>3, <1>4, ElementOfSeq
<1>10. \A n \in 1..(1 + Len(Rest)) : (<<a>> \o Rest)[n] = Opening => a = Opening
  <2> SUFFICES ASSUME NEW n \in 1..(1 + Len(Rest)), (<<a>> \o Rest)[n] = Opening, a # Opening
               PROVE  FALSE
      OBVIOUS
  <2>1. n # 1
    BY <1>7, <1>8
  <2>2. n - 1 \in 1..Len(Rest) /\ ~(n <= 1)
    BY <2>1, <1>8
  <2> QED BY <2>2, <1>8, <1>9
<1>11. a = Opening => Len(Rest) = 0
  BY <1>5
<1> HIDE DEF Rest
<1> QED BY <1>6, <1>8, <1>10, <1>11

\* The chain depends on the facts of its turn alone.
LEMMA SameChain ==
    ASSUME NEW t \in Turns, NEW a, facts'[t] = facts[t]
    PROVE  Chain(t, a)' = Chain(t, a)
BY DEF Chain, FollowedBy

-----------------------------------------------------------------------------
\* The count against the cap, as a function of the sequence.
CountOf(s) == Cardinality({i \in DOMAIN s : s[i].act # Opening})

LEMMA CountAdded ==
    ASSUME NEW s \in Seq(StageEntries), NEW e \in StageEntries
    PROVE  /\ CountOf(s) \in Nat /\ CountOf(s) <= Len(s)
           /\ CountOf(Append(s, e)) <= CountOf(s) + 1
           /\ e.act = Opening => CountOf(Append(s, e)) = CountOf(s)
<1> DEFINE C == {i \in DOMAIN s : s[i].act # Opening}
           D == {i \in DOMAIN Append(s, e) : Append(s, e)[i].act # Opening}
           n == Len(s) + 1
<1>1. D = IF e.act = Opening THEN C ELSE C \union {n}
  BY Added
<1>2. C \in SUBSET (1..Len(s)) /\ Len(s) \in Nat
  BY Added
<1>3. IsFiniteSet(1..Len(s)) /\ Cardinality(1..Len(s)) = Len(s)
  <2>1. 1 \in Int /\ Len(s) \in Int
    BY <1>2
  <2>2. IsFiniteSet(1..Len(s)) /\ Cardinality(1..Len(s)) = IF 1 > Len(s) THEN 0 ELSE Len(s) - 1 + 1
    BY <2>1, FS_Interval
  <2> QED BY <2>2, <1>2
<1>4. IsFiniteSet(C) /\ Cardinality(C) <= Len(s)
  BY <1>2, <1>3, FS_Subset
<1>5. Cardinality(C) \in Nat
  BY <1>4, FS_CardinalityType
<1>6. Cardinality(C \union {n}) \in {Cardinality(C), Cardinality(C) + 1}
  BY <1>4, FS_AddElement
<1>7. CountOf(s) = Cardinality(C) /\ CountOf(Append(s, e)) = Cardinality(D)
  BY DEF CountOf
<1> HIDE DEF C, D
<1> QED BY <1>1, <1>4, <1>5, <1>6, <1>7

\* Rewriting entries without changing their actions keeps the count.
LEMMA CountSame ==
    ASSUME NEW s, NEW r, DOMAIN r = DOMAIN s, \A i \in DOMAIN s : r[i].act = s[i].act
    PROVE  CountOf(r) = CountOf(s)
<1>1. {i \in DOMAIN r : r[i].act # Opening} = {i \in DOMAIN s : s[i].act # Opening}
  OBVIOUS
<1> QED BY <1>1 DEF CountOf

LEMMA CapByCount == CapHeld <=> \A t \in Turns : CountOf(order[t]) <= Cap
BY DEF CapHeld, Counted, CountOf, Entries

LEMMA FullByCount ==
    ASSUME NEW t \in Turns, StageTypes, ~Full(t)
    PROVE  CountOf(order[t]) + 1 <= Cap
<1>1. order[t] \in Seq(StageEntries)
  BY DEF StageTypes
<1>2. Entry(Intent, "staged") \in StageEntries
  BY EntryTyped DEF Actions
<1>3. CountOf(order[t]) \in Nat
  BY <1>1, <1>2, CountAdded
<1> QED BY <1>3, ActionsAssumption DEF Full, Counted, CountOf, Entries

\* A step that opens nothing new keeps the openings apart.
LEMMA NoneNew ==
    ASSUME OpeningsApart, NEW t \in Turns, openingAt => openingAt',
           \A u \in Turns : u # t => order'[u] = order[u],
           \A i \in Entries(t)' : order'[t][i].act = Opening =>
               i \in Entries(t) /\ order[t][i].act = Opening /\ order'[t][i].state # "staged"
    PROVE  OpeningsApart'
<1>1. \A u \in Turns : \A i : IsOpening(u, i)' => IsOpening(u, i) /\ order'[u][i].state # "staged"
  BY DEF IsOpening, OpeningsApart, Entries
<1>2. \A u \in Turns : \A i : IsOpening(u, i) => i \in Entries(u)
  BY DEF IsOpening
<1> QED BY <1>1, <1>2 DEF OpeningsApart

-----------------------------------------------------------------------------
\* The steps, by what they do to the stage.

LEMMA InitActions == Init => CapInv
<1> SUFFICES ASSUME Init PROVE CapInv
    OBVIOUS
<1>1. StageTypes
  <2>1. <<>> \in Seq(StageEntries) /\ <<>> \in Seq(Flows)
    OBVIOUS
  <2>2. order \in [Turns -> Seq(StageEntries)] /\ queue \in [Turns -> Seq(Flows)]
    BY <2>1 DEF Init
  <2>3. /\ pc \in [Turns -> Steps] /\ kind \in [Turns -> Kinds \union {"ordered"}]
        /\ DOMAIN facts = Turns
        /\ hand \in [Turns -> SUBSET Nat] /\ opened \in [Turns -> BOOLEAN]
        /\ openingAt \in BOOLEAN /\ got \in [Flows -> Nat]
    BY DEF Init, Steps
  <2> QED BY <2>2, <2>3 DEF StageTypes
<1>2. \A t \in Turns : Entries(t) = {}
  BY DEF Init, Entries
<1>3. SendersOnly /\ InHand /\ OpeningsApart /\ OpeningGiven
  BY <1>2 DEF Init, SendersOnly, InHand, InState, OpeningsApart, OpeningGiven, Live, Flows
<1>4. CapHeld
  BY <1>2, FS_EmptySet, ActionsAssumption DEF CapHeld, Counted
<1> QED BY <1>1, <1>3, <1>4 DEF CapInv, OpeningInv

\* A step that leaves what the entries stand for alone and starts nothing.
LEMMA Passed ==
    ASSUME CapInv, StageTypes', UNCHANGED <<kind, facts, openingAt, got>>,
           \A u \in Turns :
              /\ Entries(u)' = Entries(u)
              /\ \A i \in Entries(u) : /\ order'[u][i].act = order[u][i].act
                                       /\ order'[u][i].state = order[u][i].state
                                       /\ order'[u][i].did = order[u][i].did
              /\ hand'[u] \subseteq hand[u]
              /\ queue'[u] # <<>> => pc'[u] \in Live /\ Sends(u)
              /\ pc'[u] = "idle" => pc[u] = "idle"
              /\ pc'[u] \in Live => pc[u] \in Live
    PROVE  CapInv'
<1> USE DEF CapInv, OpeningInv
<1>1. SendersOnly'
  BY DEF SendersOnly, Sends
<1>2. InHand'
  <2>1. \A u \in Turns : \A a : Chain(u, a)' = Chain(u, a)
    BY SameChain
  <2>2. \A u \in Turns : InState(u, "staged")' = InState(u, "staged")
    BY DEF InState
  <2> QED BY <2>1, <2>2 DEF InHand, InState
<1>3. OpeningsApart' /\ OpeningGiven'
  BY DEF OpeningsApart, OpeningGiven, IsOpening
<1>4. CapHeld'
  <2>1. \A u \in Turns : CountOf(order'[u]) = CountOf(order[u])
    BY CountSame DEF Entries
  <2> QED BY <2>1, CapByCount DEF CapHeld, Counted, CountOf, Entries
<1> QED BY <1>1, <1>2, <1>3, <1>4

\* A step that stages more, outside a send.
LEMMA StagedMore ==
    ASSUME CapInv, StageTypes', UNCHANGED <<pc, kind, facts, hand, openingAt, got>>,
           NEW t \in Turns, pc[t] \in Live, hand[t] = {},
           NEW s \in Seq(StageEntries), order' = [order EXCEPT ![t] = s],
           Entries(t) \subseteq DOMAIN s, \A i \in Entries(t) : s[i] = order[t][i],
           \A i \in (DOMAIN s) \ Entries(t) :
               s[i].state = "staged" /\ s[i].did = 0 /\ s[i].act # Opening,
           CountOf(s) <= Cap,
           \A u \in Turns : queue'[u] # <<>> => queue[u] # <<>> \/ (u = t /\ Sends(u))
    PROVE  CapInv'
<1> USE DEF CapInv, OpeningInv
<1>1. order'[t] = s /\ \A u \in Turns : u # t => order'[u] = order[u]
  BY DEF StageTypes
<1>2. Entries(t)' = DOMAIN s /\ \A u \in Turns : u # t => Entries(u)' = Entries(u)
  BY <1>1 DEF Entries
<1>3. SendersOnly'
  BY <1>1, <1>2 DEF SendersOnly, Sends, Live
<1>4. InHand'
  <2>1. \A u \in Turns : \A a : Chain(u, a)' = Chain(u, a)
    BY SameChain
  <2> SUFFICES ASSUME NEW u \in Turns
               PROVE  /\ \A i \in hand[u] : i \in Entries(u)' /\ order'[u][i].did < Len(Chain(u, order'[u][i].act))
                      /\ pc[u] \in Live =>
                            \A i \in InState(u, "staged")' : order'[u][i].did = 0 /\ i \notin hand[u]
      BY <2>1 DEF InHand
  <2>2. CASE u = t
    BY <2>2, <1>1, <1>2 DEF InHand, InState
  <2>3. CASE u # t
    BY <2>3, <1>1, <1>2 DEF InHand, InState
  <2> QED BY <2>2, <2>3
<1>5. OpeningsApart'
  BY <1>1, <1>2, NoneNew DEF OpeningsApart, IsOpening
<1>6. OpeningGiven'
  BY <1>1, <1>2 DEF OpeningGiven, IsOpening
<1>7. CapHeld'
  <2>1. \A u \in Turns : CountOf(order'[u]) <= Cap
    BY <1>1, CapByCount
  <2> QED BY <2>1 DEF CapHeld, Counted, CountOf, Entries
<1> QED BY <1>3, <1>4, <1>5, <1>6, <1>7

LEMMA StartActions == ASSUME CapInv, NEW t \in Turns, NEW k \in Kinds, Start(t, k) PROVE CapInv'
<1> USE DEF CapInv, OpeningInv, Start, stageVars, manychat
<1>1. StageTypes'
  BY DEF StageTypes, Steps, Live
<1>2. /\ pc[t] = "idle" /\ queue[t] = <<>> /\ hand[t] = {} /\ Entries(t) = {}
  BY DEF SendersOnly, Live
<1>3. /\ \A u \in Turns : u # t => pc'[u] = pc[u] /\ kind'[u] = kind[u] /\ facts'[u] = facts[u]
      /\ pc'[t] = "calls"
      /\ UNCHANGED <<order, queue, hand, openingAt, got>>
  BY DEF StageTypes
<1>4. SendersOnly'
  BY <1>2, <1>3 DEF SendersOnly, Sends, Entries
<1>5. InHand'
  <2>1. \A u \in Turns : u # t => \A a : Chain(u, a)' = Chain(u, a)
    BY <1>3, SameChain
  <2> SUFFICES ASSUME NEW u \in Turns
               PROVE  /\ \A i \in hand'[u] : i \in Entries(u)' /\ (order[u][i].did < Len(Chain(u, order[u][i].act)))'
                      /\ pc'[u] \in Live =>
                            \A i \in InState(u, "staged")' : order'[u][i].did = 0 /\ i \notin hand'[u]
      BY DEF InHand
  <2>2. CASE u = t
    BY <2>2, <1>2, <1>3 DEF InState, Entries
  <2>3. CASE u # t
    BY <2>1, <2>3, <1>3 DEF InHand, InState, Entries
  <2> QED BY <2>2, <2>3
<1>6. OpeningsApart' /\ OpeningGiven' /\ CapHeld'
  BY <1>3 DEF OpeningsApart, OpeningGiven, IsOpening, Entries, CapHeld, Counted
<1> QED BY <1>1, <1>4, <1>5, <1>6

\* The entries a call of a tool stages.
LEMMA OneStaged ==
    ASSUME StageTypes, NEW t \in Turns, NEW a \in Actions, a # Opening, ~Full(t)
    PROVE  /\ With(t, a) \in Seq(StageEntries)
           /\ Entries(t) \subseteq DOMAIN With(t, a)
           /\ \A i \in Entries(t) : With(t, a)[i] = order[t][i]
           /\ \A i \in (DOMAIN With(t, a)) \ Entries(t) :
                 With(t, a)[i].state = "staged" /\ With(t, a)[i].did = 0 /\ With(t, a)[i].act # Opening
           /\ CountOf(With(t, a)) <= Cap
<1>1. order[t] \in Seq(StageEntries) /\ Entry(a, "staged") \in StageEntries
  BY EntryTyped DEF StageTypes
<1>2. /\ With(t, a) = Append(order[t], Entry(a, "staged"))
      /\ Entries(t) = DOMAIN order[t]
  BY DEF With, Entries
<1>3. CountOf(With(t, a)) <= CountOf(order[t]) + 1 /\ CountOf(order[t]) \in Nat
  BY <1>1, <1>2, CountAdded
<1>4. CountOf(With(t, a)) \in Nat
  BY <1>1, <1>2, CountAdded, Added
<1>5. CountOf(With(t, a)) <= Cap
  BY <1>3, <1>4, FullByCount, ActionsAssumption
<1> QED BY <1>1, <1>2, <1>5, Added, EntryTyped

\* The same of what a call stages with FlowSends or without.
LEMMA CallStages ==
    ASSUME CapInv, NEW t \in Turns, Calling(t),
           UNCHANGED <<pc, kind, facts, hand, openingAt, got>>,
           NEW s \in Seq(StageEntries), order' = [order EXCEPT ![t] = s],
           Entries(t) \subseteq DOMAIN s, \A i \in Entries(t) : s[i] = order[t][i],
           \A i \in (DOMAIN s) \ Entries(t) :
               s[i].state = "staged" /\ s[i].did = 0 /\ s[i].act # Opening,
           CountOf(s) <= Cap,
           \/ UNCHANGED <<queue, opened>>
           \/ /\ Sends(t)
              /\ queue' \in [Turns -> Seq(Flows)] /\ opened' \in [Turns -> BOOLEAN]
              /\ \A u \in Turns : u # t => queue'[u] = queue[u]
    PROVE  CapInv'
<1>1. StageTypes'
  BY DEF CapInv, OpeningInv, StageTypes
<1>2. hand[t] = {} /\ pc[t] \in Live
  BY DEF Calling, Live
<1> QED BY <1>1, <1>2, StagedMore

LEMMA OpeningFirstTyped ==
    ASSUME NEW t \in Turns
    PROVE  OpeningFirst(t) \in Seq(Flows) /\ (OpeningFirst(t) # <<>> => Sends(t))
<1>1. "opening" \in Flows
  BY DEF Flows
<1>2. <<>> \in Seq(Flows) /\ <<"opening">> \in Seq(Flows)
  BY <1>1
<1> QED BY <1>2 DEF OpeningFirst, OpeningDue

LEMMA SendingTyped ==
    ASSUME NEW t \in Turns, NEW f \in Flows
    PROVE  Sending(t, f) \in Seq(Flows)
<1>1. OpeningFirst(t) \in Seq(Flows) /\ <<f>> \in Seq(Flows)
  BY OpeningFirstTyped
<1> QED BY <1>1, ConcatProperties DEF Sending

\* An action of a flow other than the opening.
LEMMA FlowAction ==
    ASSUME NEW f \in Flows \ {"opening"}
    PROVE  SendFlowOf(f) \in Actions /\ SendFlowOf(f) # Opening
BY DEF Actions, SendFlowOf, Opening

LEMMA StageStages ==
    ASSUME CapInv, NEW t \in Turns, Calling(t), NEW a \in Actions, a # Opening, Stage(t, a),
           UNCHANGED <<pc, kind, facts, hand, openingAt, got>>
    PROVE  CapInv'
<1> USE DEF CapInv, OpeningInv
<1>1. CASE Accepts(t, a)
  <2>1. order' = [order EXCEPT ![t] = With(t, a)] /\ UNCHANGED <<queue, opened>>
    BY <1>1 DEF Stage
  <2>2. ~Full(t)
    BY <1>1 DEF Accepts
  <2> QED BY <2>1, <2>2, OneStaged, CallStages
<1>2. CASE ~Accepts(t, a)
  <2>1. order' = order /\ UNCHANGED <<queue, opened>>
    BY <1>2 DEF Stage
  <2>2. /\ order' = [order EXCEPT ![t] = order[t]] /\ order[t] \in Seq(StageEntries)
        /\ Entries(t) = DOMAIN order[t] /\ CountOf(order[t]) <= Cap
    BY <2>1, CapByCount DEF StageTypes, Entries
  <2> QED BY <2>1, <2>2, CallStages
<1> QED BY <1>1, <1>2

LEMMA SendsOrStages ==
    ASSUME CapInv, NEW t \in Turns, Calling(t), NEW f \in Flows \ {"opening"},
           NEW s \in Seq(StageEntries),
           Entries(t) \subseteq DOMAIN s, \A i \in Entries(t) : s[i] = order[t][i],
           \A i \in (DOMAIN s) \ Entries(t) :
               s[i].state = "staged" /\ s[i].did = 0 /\ s[i].act # Opening,
           CountOf(s) <= Cap, SendOrStage(t, f, s),
           UNCHANGED <<pc, kind, facts, hand, openingAt, got>>
    PROVE  CapInv'
<1> USE DEF CapInv, OpeningInv
<1>1. CASE Sends(t)
  <2>1. /\ order' = [order EXCEPT ![t] = s]
        /\ queue' = [queue EXCEPT ![t] = Sending(t, f)]
        /\ opened' = [opened EXCEPT ![t] = @ \/ OpeningFirst(t) # <<>>]
    BY <1>1 DEF SendOrStage
  <2>2. /\ queue' \in [Turns -> Seq(Flows)] /\ opened' \in [Turns -> BOOLEAN]
        /\ \A u \in Turns : u # t => queue'[u] = queue[u]
    BY <2>1, SendingTyped DEF StageTypes
  <2> QED BY <1>1, <2>1, <2>2, CallStages
<1>2. CASE ~Sends(t) /\ SendFlowOf(f) \notin Staged(t) /\ Len(s) < Cap
  <2> DEFINE e == Entry(SendFlowOf(f), "staged")
  <2>1. order' = [order EXCEPT ![t] = Append(s, e)] /\ UNCHANGED <<queue, opened>>
    BY <1>2 DEF SendOrStage
  <2>2. e \in StageEntries /\ e.state = "staged" /\ e.did = 0 /\ e.act # Opening
    BY FlowAction, EntryTyped
  <2> HIDE DEF e
  <2>3. /\ Append(s, e) \in Seq(StageEntries)
        /\ Entries(t) \subseteq DOMAIN Append(s, e)
        /\ \A i \in Entries(t) : Append(s, e)[i] = order[t][i]
        /\ \A i \in (DOMAIN Append(s, e)) \ Entries(t) :
              Append(s, e)[i].state = "staged" /\ Append(s, e)[i].did = 0 /\ Append(s, e)[i].act # Opening
    BY <2>2, Added
  <2>4. CountOf(Append(s, e)) <= Cap
    <3>1. CountOf(Append(s, e)) <= CountOf(s) + 1 /\ CountOf(s) <= Len(s) /\ CountOf(s) \in Nat
      BY <2>2, CountAdded
    <3>2. CountOf(Append(s, e)) \in Nat
      BY <2>2, <2>3, CountAdded
    <3>3. Len(s) \in Nat
      BY <2>2, Added
    <3> QED BY <3>1, <3>2, <3>3, <1>2, ActionsAssumption
  <2> QED BY <2>1, <2>3, <2>4, CallStages
<1>3. CASE ~Sends(t) /\ ~(SendFlowOf(f) \notin Staged(t) /\ Len(s) < Cap)
  <2>1. order' = [order EXCEPT ![t] = s] /\ UNCHANGED <<queue, opened>>
    BY <1>3 DEF SendOrStage
  <2> QED BY <2>1, CallStages
<1> QED BY <1>1, <1>2, <1>3

LEMMA CallActions == ASSUME CapInv, NEW t \in Turns, Call(t) PROVE CapInv'
<1> USE DEF CapInv, OpeningInv
<1>1. /\ Calling(t)
      /\ UNCHANGED <<pc, kind, facts, hand, openingAt, got>>
  BY DEF Call, manychat
<1>2. CASE SetIntent(t)
  BY <1>1, <1>2, StageStages DEF SetIntent, Actions, Intent, Opening, SendFlowOf
<1>3. CASE WriteNote(t)
  BY <1>1, <1>3, StageStages DEF WriteNote, Actions, Note, Opening, SendFlowOf
<1>4. ASSUME NEW v \in Values, SetFunnel(t, v) PROVE CapInv'
  <2>1. SetStage(v) \in Actions /\ SetStage(v) # Opening
    BY DEF Actions, SetStage, Opening, SendFlowOf
  <2>2. CASE Stage(t, SetStage(v))
    BY <1>1, <2>1, <2>2, StageStages
  <2>3. CASE Accepts(t, SetStage(v)) /\ SendOrStage(t, "tied", With(t, SetStage(v)))
    <3>1. ~Full(t)
      BY <2>3 DEF Accepts
    <3>2. "tied" \in Flows \ {"opening"}
      BY DEF Flows
    <3> QED BY <1>1, <2>1, <2>3, <3>1, <3>2, OneStaged, SendsOrStages
  <2> QED BY <1>4, <2>2, <2>3 DEF SetFunnel
<1>5. ASSUME NEW f \in Flows, NEW asked \in BOOLEAN, SendFlow(t, f, asked) PROVE CapInv'
  <2>1. f \in Flows \ {"opening"} /\ SendOrStage(t, f, order[t])
    BY <1>5 DEF SendFlow
  <2>2. /\ order[t] \in Seq(StageEntries)
        /\ Entries(t) = DOMAIN order[t] /\ CountOf(order[t]) <= Cap
    BY CapByCount DEF StageTypes, Entries
  <2> QED BY <1>1, <2>1, <2>2, SendsOrStages
<1> QED BY <1>2, <1>3, <1>4, <1>5 DEF Call

\* A flow is sent, with what goes ahead of it, or not.
LEMMA SendNowActions == ASSUME CapInv, NEW t \in Turns, SendNow(t) PROVE CapInv'
<1> USE DEF CapInv, OpeningInv
<1> DEFINE f == Head(queue[t])
           now == [i \in Entries(t) |-> IF i \in Ahead(t, f) THEN [order[t][i] EXCEPT !.state = "sent"]
                                        ELSE order[t][i]]
           e == Entry(SendFlowOf(f), "sent")
           s == Append(now, e)
           n == Len(order[t]) + 1
<1>1. /\ queue[t] # <<>> /\ hand[t] = {} /\ queue' = [queue EXCEPT ![t] = Tail(@)]
      /\ openingAt' = (openingAt \/ f = "opening")
      /\ UNCHANGED <<pc, kind, facts, opened, got>>
  BY DEF SendNow, manychat
<1>2. f \in Flows /\ queue' \in [Turns -> Seq(Flows)]
  BY <1>1, HeadTailProperties DEF StageTypes
<1>3. pc[t] \in Live /\ Sends(t)
  BY <1>1 DEF SendersOnly
<1>4. openingAt' \in BOOLEAN /\ (openingAt => openingAt')
  BY <1>1 DEF StageTypes
<1>5. /\ order[t] \in Seq(StageEntries) /\ Entries(t) = DOMAIN order[t]
      /\ Entries(t) = 1..Len(order[t]) /\ Len(order[t]) \in Nat
  BY LenProperties DEF StageTypes, Entries
<1>6. CASE ~Goes(t, f)
  <2>1. UNCHANGED <<order, hand>>
    BY <1>6 DEF SendNow
  <2>2. UNCHANGED openingAt
    BY <1>1, <1>6 DEF Goes, StageTypes
  <2>3. StageTypes'
    BY <2>1, <1>1, <1>2, <1>4 DEF StageTypes
  <2>4. \A u \in Turns : queue'[u] # <<>> => queue[u] # <<>>
    BY <1>1 DEF StageTypes
  <2> QED BY <1>1, <2>1, <2>2, <2>3, <2>4, Passed DEF SendersOnly, Entries
<1>7. CASE Goes(t, f)
  <2>1. /\ order' = [order EXCEPT ![t] = s]
        /\ hand' = [hand EXCEPT ![t] = Ahead(t, f) \union {n}]
    BY <1>7 DEF SendNow
  <2>2. now \in [Entries(t) -> StageEntries]
    <3> SUFFICES ASSUME NEW i \in Entries(t) PROVE [order[t][i] EXCEPT !.state = "sent"] \in StageEntries
                                                   /\ order[t][i] \in StageEntries
        OBVIOUS
    <3>1. order[t][i] \in StageEntries
      BY <1>5, ElementOfSeq
    <3> QED BY <3>1 DEF StageEntries
  <2>3. now \in Seq(StageEntries) /\ DOMAIN now = Entries(t)
    BY <2>2, <1>5, Rewritten
  <2>4. Len(now) = Len(order[t])
    BY <2>3, <1>5, LenProperties
  <2>5. e \in StageEntries /\ e.act = SendFlowOf(f) /\ e.state = "sent" /\ e.did = 0
    BY <1>2, EntryTyped DEF Actions
  <2>6. \A i \in Entries(t) : /\ now[i].act = order[t][i].act /\ now[i].did = order[t][i].did
                              /\ i \in Ahead(t, f) => now[i].state = "sent"
                              /\ i \notin Ahead(t, f) => now[i] = order[t][i]
    <3> SUFFICES ASSUME NEW i \in Entries(t)
                 PROVE  /\ now[i].act = order[t][i].act /\ now[i].did = order[t][i].did
                        /\ i \in Ahead(t, f) => now[i].state = "sent"
                        /\ i \notin Ahead(t, f) => now[i] = order[t][i]
        OBVIOUS
    <3>1. order[t][i] \in StageEntries
      BY <1>5, ElementOfSeq
    <3> QED BY <3>1 DEF StageEntries
  <2> HIDE DEF now, e
  <2>7. /\ s \in Seq(StageEntries) /\ DOMAIN s = 1..n /\ s[n] = e
        /\ \A i \in Entries(t) : s[i] = now[i]
        /\ n \notin Entries(t) /\ DOMAIN s = Entries(t) \union {n}
    <3>1. /\ Append(now, e) \in Seq(StageEntries)
          /\ DOMAIN Append(now, e) = 1..(Len(now) + 1)
          /\ \A i \in DOMAIN now : Append(now, e)[i] = now[i]
          /\ Append(now, e)[Len(now) + 1] = e
      BY <2>3, <2>5, Added
    <3> QED BY <3>1, <2>3, <2>4, <1>5
  <2>8. Ahead(t, f) \subseteq InState(t, "staged")
    BY DEF Ahead
  <2>9. \A i \in Ahead(t, f) : i \in Entries(t) /\ order[t][i].did = 0 /\ order[t][i].act # Opening
    <3>1. \A i \in Ahead(t, f) : order[t][i].act[1] = "set_field"
      BY DEF Ahead
    <3>2. Opening[1] # "set_field"
      BY DEF Opening, SendFlowOf
    <3> QED BY <3>1, <3>2, <2>8, <1>3 DEF InHand, InState
  <2>10. StageTypes'
    <3>1. order' \in [Turns -> Seq(StageEntries)]
      BY <2>1, <2>7 DEF StageTypes
    <3>2. hand' \in [Turns -> SUBSET Nat]
      BY <2>1, <2>9, <1>5 DEF StageTypes
    <3> QED BY <3>1, <3>2, <1>1, <1>2, <1>4 DEF StageTypes
  <2> HIDE DEF s
  <2>11. /\ order'[t] = s /\ hand'[t] = Ahead(t, f) \union {n}
         /\ \A u \in Turns : u # t => order'[u] = order[u] /\ hand'[u] = hand[u]
    BY <2>1 DEF StageTypes
  <2>12. Entries(t)' = DOMAIN s /\ \A u \in Turns : u # t => Entries(u)' = Entries(u)
    BY <2>11 DEF Entries
  <2>13. SendersOnly'
    <3>1. \A u \in Turns : queue'[u] # <<>> => queue[u] # <<>>
      BY <1>1 DEF StageTypes
    <3>2. pc[t] # "idle"
      BY <1>3 DEF Live
    <3> QED BY <3>1, <3>2, <1>1, <2>11, <2>12 DEF SendersOnly, Sends
  <2>14. InHand'
    <3>1. \A u \in Turns : \A a : Chain(u, a)' = Chain(u, a)
      BY <1>1, SameChain
    <3>2. \A i \in hand'[t] : s[i].did = 0 /\ i \in DOMAIN s
      BY <2>5, <2>6, <2>7, <2>9, <2>11
    <3>3. \A i \in DOMAIN s : Len(Chain(t, s[i].act)) \in Nat \ {0}
      <4> SUFFICES ASSUME NEW i \in DOMAIN s PROVE Len(Chain(t, s[i].act)) \in Nat \ {0}
          OBVIOUS
      <4>1. DOMAIN s = 1..Len(s)
        BY <2>7, LenProperties
      <4>2. s[i] \in StageEntries
        BY <4>1, <2>7, ElementOfSeq
      <4>3. s[i].act \in Actions
        BY <4>2 DEF StageEntries
      <4> QED BY <4>3, ChainOf
    <3>4. \A i \in DOMAIN s : s[i].state = "staged" =>
              i \in InState(t, "staged") /\ s[i] = order[t][i] /\ i \notin hand'[t]
      BY <2>5, <2>6, <2>7, <2>11 DEF InState
    <3> SUFFICES ASSUME NEW u \in Turns
                 PROVE  /\ \A i \in hand'[u] : i \in Entries(u)' /\ order'[u][i].did < Len(Chain(u, order'[u][i].act))
                        /\ pc[u] \in Live =>
                              \A i \in InState(u, "staged")' : order'[u][i].did = 0 /\ i \notin hand'[u]
        BY <3>1, <1>1 DEF InHand
    <3>5. CASE u = t
      <4>1. \A i \in hand'[t] : i \in Entries(t)' /\ order'[t][i].did < Len(Chain(t, order'[t][i].act))
        BY <3>2, <3>3, <2>11, <2>12
      <4>2. \A i \in InState(t, "staged")' : order'[t][i].did = 0 /\ i \notin hand'[t]
        BY <3>4, <2>11, <2>12, <1>3 DEF InHand, InState
      <4> QED BY <3>5, <4>1, <4>2
    <3>6. CASE u # t
      BY <3>6, <2>11, <2>12 DEF InHand, InState
    <3> QED BY <3>5, <3>6
  <2>15. OpeningsApart' /\ OpeningGiven' /\ (CountOf(s) <= Cap)
    <3>1. CountOf(now) = CountOf(order[t]) /\ CountOf(order[t]) \in Nat
      <4>1. CountOf(now) = CountOf(order[t])
        BY <2>3, <2>6, <1>5, CountSame
      <4> QED BY <4>1, <1>5, <2>5, CountAdded
    <3>2. CountOf(s) \in Nat
      BY <2>7, <2>5, CountAdded
    <3>3. CASE f = "opening"
      <4>1. ~openingAt /\ openingAt' /\ Ahead(t, f) = {} /\ e.act = Opening
        BY <1>1, <1>7, <2>5, <3>3 DEF Goes, Ahead, Opening, StageTypes
      <4>2. \A u \in Turns : \A i \in Entries(u) : order[u][i].act # Opening
        BY <4>1 DEF OpeningsApart, IsOpening
      <4>3. \A u \in Turns : \A i \in Entries(u)' : order'[u][i].act = Opening => u = t /\ i = n
        BY <4>2, <2>6, <2>7, <2>11, <2>12
      <4>4. OpeningsApart'
        BY <4>1, <4>3, <2>5, <2>7, <2>11 DEF OpeningsApart, IsOpening
      <4>5. OpeningGiven'
        BY <4>1, <1>1 DEF OpeningGiven
      <4>6. CountOf(s) = CountOf(now)
        BY <4>1, <2>3, <2>5, CountAdded DEF s
      <4> QED BY <4>4, <4>5, <4>6, <3>1, CapByCount
    <3>4. CASE f # "opening"
      <4>1. e.act # Opening /\ openingAt' = openingAt
        BY <3>4, <2>5, <1>1, <1>2, FlowAction DEF StageTypes
      <4>2. \A i \in DOMAIN s : s[i].act = Opening =>
                i \in Entries(t) /\ order[t][i].act = Opening /\ s[i].state # "staged" /\ i \notin hand'[t]
        <5> SUFFICES ASSUME NEW i \in DOMAIN s, s[i].act = Opening
                     PROVE  i \in Entries(t) /\ order[t][i].act = Opening /\ s[i].state # "staged" /\ i \notin hand'[t]
            OBVIOUS
        <5>1. i # n
          BY <4>1, <2>7
        <5>2. i \in Entries(t) /\ s[i] = now[i] /\ order[t][i].act = Opening
          BY <5>1, <2>6, <2>7
        <5>3. i \notin Ahead(t, f) /\ s[i] = order[t][i]
          BY <5>2, <2>6, <2>9
        <5> QED BY <5>1, <5>2, <5>3, <2>11 DEF OpeningsApart, IsOpening
      <4>3. OpeningsApart'
        BY <4>1, <4>2, <2>11, <2>12, NoneNew
      <4>4. OpeningGiven'
        BY <4>1, <4>2, <2>11, <2>12, <1>1 DEF OpeningGiven, IsOpening
      <4>5. CountOf(s) <= CountOf(now) + 1
        BY <2>3, <2>5, CountAdded DEF s
      <4>6. CountOf(order[t]) + 1 <= Cap
        BY <1>7, <3>4, FullByCount DEF Goes
      <4> QED BY <4>3, <4>4, <4>5, <4>6, <3>1, <3>2, ActionsAssumption
    <3> QED BY <3>3, <3>4
  <2>16. CapHeld'
    <3>1. \A u \in Turns : CountOf(order'[u]) <= Cap
      BY <2>11, <2>15, CapByCount
    <3> QED BY <3>1 DEF CapHeld, Counted, CountOf, Entries
  <2> QED BY <2>10, <2>13, <2>14, <2>15, <2>16
<1> QED BY <1>6, <1>7

\* A request is answered, or not.
LEMMA RequestActions == ASSUME CapInv, NEW t \in Turns, Request(t) PROVE CapInv'
<1> USE DEF CapInv, OpeningInv
<1>1. UNCHANGED <<pc, kind, facts, queue, opened, openingAt>>
  BY DEF Request
<1>2. PICK i \in hand[t], d \in {0, 1}, l \in {0, 1} :
        /\ Advance(t, i, d, l)
        /\ UNCHANGED manychat \/ Lands(Chain(t, order[t][i].act)[order[t][i].did + 1])
  BY DEF Request
<1> DEFINE a == order[t][i].act
           n == Len(Chain(t, a))
           did == order[t][i].did
           ends == d = 0 \/ did + 1 = n
           r == Chain(t, a)[did + 1]
           now == [order[t] EXCEPT ![i].did = @ + d, ![i].landed = @ + l]
           s == [j \in Entries(t) |-> IF ends /\ hand[t] = {i} /\ now[j].state = "sent"
                                      THEN [now[j] EXCEPT !.state = "done"] ELSE now[j]]
<1>3. /\ order[t] \in Seq(StageEntries) /\ Entries(t) = DOMAIN order[t]
      /\ \A j \in Entries(t) : order[t][j] \in StageEntries
  BY LenProperties, ElementOfSeq DEF StageTypes, Entries
<1>4. i \in Entries(t) /\ a \in Actions /\ did \in Nat /\ n \in Nat \ {0} /\ did < n
  <2>1. i \in Entries(t) /\ did < n
    BY DEF InHand
  <2>2. a \in Actions /\ did \in Nat
    BY <2>1, <1>3 DEF StageEntries
  <2> QED BY <2>1, <2>2, ChainOf
<1>5. \A j \in Entries(t) :
        /\ s[j] \in StageEntries
        /\ s[j].act = order[t][j].act
        /\ s[j].did = (IF j = i THEN did + d ELSE order[t][j].did)
        /\ s[j].state = "staged" <=> order[t][j].state = "staged"
  <2> SUFFICES ASSUME NEW j \in Entries(t)
               PROVE  /\ s[j] \in StageEntries
                      /\ s[j].act = order[t][j].act
                      /\ s[j].did = (IF j = i THEN did + d ELSE order[t][j].did)
                      /\ s[j].state = "staged" <=> order[t][j].state = "staged"
      OBVIOUS
  <2>1. order[t][j] \in StageEntries
    BY <1>3
  <2>2. /\ now[j] \in StageEntries
        /\ now[j].act = order[t][j].act /\ now[j].state = order[t][j].state
        /\ now[j].did = (IF j = i THEN did + d ELSE order[t][j].did)
    <3>1. now = [order[t] EXCEPT ![i] = [order[t][i] EXCEPT !.did = @ + d, !.landed = @ + l]]
      OBVIOUS
    <3> HIDE DEF now
    <3>2. CASE j # i
      BY <2>1, <3>1, <3>2, <1>3
    <3>3. CASE j = i
      <4>1. now[j] = [order[t][j] EXCEPT !.did = @ + d, !.landed = @ + l]
        BY <3>1, <3>3, <1>3
      <4>2. order[t][j].did + d \in Nat /\ order[t][j].landed + l \in Nat
        BY <2>1 DEF StageEntries
      <4> QED BY <2>1, <3>3, <4>1, <4>2 DEF StageEntries
    <3> QED BY <3>2, <3>3
  <2> HIDE DEF now
  <2>3. s[j] = now[j] \/ (s[j] = [now[j] EXCEPT !.state = "done"] /\ now[j].state = "sent")
    OBVIOUS
  <2> HIDE DEF s
  <2> QED BY <2>2, <2>3 DEF StageEntries
<1>6. /\ order' = [order EXCEPT ![t] = s]
      /\ hand' = [hand EXCEPT ![t] = IF ends THEN @ \ {i} ELSE @]
  BY <1>2 DEF Advance
<1>7. s \in Seq(StageEntries) /\ DOMAIN s = Entries(t)
  <2>1. s \in [DOMAIN order[t] -> StageEntries]
    BY <1>3, <1>5
  <2> HIDE DEF s
  <2> QED BY <2>1, <1>3, Rewritten
<1> HIDE DEF now, s
<1>8. /\ order'[t] = s /\ Entries(t)' = Entries(t)
      /\ hand'[t] \subseteq hand[t] /\ (ends => i \notin hand'[t])
      /\ \A u \in Turns : u # t => order'[u] = order[u] /\ Entries(u)' = Entries(u) /\ hand'[u] = hand[u]
  BY <1>6, <1>7 DEF StageTypes, Entries
<1>9. StageTypes' /\ got' \in [Flows -> Nat] /\ (got'["opening"] # got["opening"] =>
                          a = Opening /\ got'["opening"] = got["opening"] + 1)
  <2>1. order' \in [Turns -> Seq(StageEntries)]
    BY <1>6, <1>7 DEF StageTypes
  <2>2. hand' \in [Turns -> SUBSET Nat]
    BY <1>6 DEF StageTypes
  <2>3. r \in Requests /\ (r = Opening => a = Opening)
    <3>1. did + 1 \in 1..n
      BY <1>4
    <3>2. Chain(t, a) \in Seq(Requests) /\ \A k \in 1..n : Chain(t, a)[k] = Opening => a = Opening
      BY <1>4, ChainOf
    <3> QED BY <3>1, <3>2, ElementOfSeq
  <2>4. r[1] = "send_flow" => \E f \in Flows : r = SendFlowOf(f)
    BY <2>3 DEF Requests, Actions, SendFlowOf, SetStage, Event, Intent, Note
  <2>5. got' = got \/ (r[1] = "send_flow" /\ got' = [got EXCEPT ![r[2]] = @ + 1])
    BY <1>2 DEF Lands, manychat
  <2> HIDE DEF r
  <2>6. r[1] = "send_flow" => r[2] \in Flows /\ (r[2] = "opening" => r = Opening)
    BY <2>4 DEF SendFlowOf, Opening
  <2>7. /\ got' \in [Flows -> Nat]
        /\ got'["opening"] # got["opening"] => a = Opening /\ got'["opening"] = got["opening"] + 1
    <3>1. got \in [Flows -> Nat] /\ "opening" \in Flows
      BY DEF StageTypes, Flows
    <3>2. CASE got' = got
      BY <3>1, <3>2
    <3>3. CASE r[1] = "send_flow" /\ got' = [got EXCEPT ![r[2]] = @ + 1]
      <4>1. r[2] \in Flows /\ (r[2] = "opening" => a = Opening)
        BY <3>3, <2>3, <2>6
      <4> QED BY <3>1, <3>3, <4>1
    <3> QED BY <2>5, <3>2, <3>3
  <2> QED BY <2>1, <2>2, <2>7, <1>1 DEF StageTypes
<1>10. SendersOnly'
  <2>1. pc[t] # "idle"
    BY DEF SendersOnly
  <2> QED BY <2>1, <1>1, <1>8 DEF SendersOnly, Sends
<1>11. InHand'
  <2>1. \A u \in Turns : \A b : Chain(u, b)' = Chain(u, b)
    BY <1>1, SameChain
  <2>2. \A j \in hand'[t] : j \in Entries(t) /\ s[j].did < Len(Chain(t, s[j].act))
    <3> SUFFICES ASSUME NEW j \in hand'[t]
                 PROVE  j \in Entries(t) /\ s[j].did < Len(Chain(t, s[j].act))
        OBVIOUS
    <3>1. j \in Entries(t) /\ order[t][j].did < Len(Chain(t, order[t][j].act))
      BY <1>8 DEF InHand
    <3>2. CASE j # i
      BY <3>1, <3>2, <1>5
    <3>3. CASE j = i
      <4>1. ~ends
        BY <3>3, <1>8
      <4>2. d = 1 /\ did + 1 # n /\ did + 1 < n
        BY <4>1, <1>4
      <4> QED BY <3>1, <3>3, <4>2, <1>5
    <3> QED BY <3>2, <3>3
  <2>3. pc[t] \in Live => \A j \in Entries(t) : s[j].state = "staged" => s[j].did = 0 /\ j \notin hand'[t]
    <3> SUFFICES ASSUME pc[t] \in Live, NEW j \in Entries(t), s[j].state = "staged"
                 PROVE  s[j].did = 0 /\ j \notin hand'[t]
        OBVIOUS
    <3>1. order[t][j].state = "staged" /\ order[t][j].did = 0 /\ j \notin hand[t]
      BY <1>5 DEF InHand, InState
    <3> QED BY <3>1, <1>5, <1>8
  <2> SUFFICES ASSUME NEW u \in Turns
               PROVE  /\ \A j \in hand'[u] : j \in Entries(u)' /\ order'[u][j].did < Len(Chain(u, order'[u][j].act))
                      /\ pc[u] \in Live =>
                            \A j \in InState(u, "staged")' : order'[u][j].did = 0 /\ j \notin hand'[u]
      BY <2>1, <1>1 DEF InHand
  <2>4. CASE u = t
    BY <2>2, <2>3, <2>4, <1>8 DEF InState
  <2>5. CASE u # t
    BY <2>5, <1>8 DEF InHand, InState
  <2> QED BY <2>4, <2>5
<1>12. OpeningsApart'
  <2>1. \A j \in Entries(t)' : order'[t][j].act = Opening =>
               j \in Entries(t) /\ order[t][j].act = Opening /\ order'[t][j].state # "staged"
    BY <1>5, <1>8 DEF OpeningsApart, IsOpening
  <2> QED BY <2>1, <1>1, <1>8, NoneNew
<1>13. OpeningGiven'
  <2>1. \A u \in Turns : \A j \in hand'[u] : j \in hand[u] /\ j \in Entries(u) /\ (IsOpening(u, j)' <=> IsOpening(u, j))
    BY <1>5, <1>8 DEF IsOpening, InHand
  <2>2. CASE got'["opening"] = got["opening"]
    BY <2>1, <2>2, <1>1 DEF OpeningGiven
  <2>3. CASE got'["opening"] # got["opening"]
    <3>1. a = Opening /\ got'["opening"] = got["opening"] + 1 /\ IsOpening(t, i)
      BY <2>3, <1>4, <1>9 DEF IsOpening
    <3>2. got["opening"] = 0 /\ openingAt
      BY <3>1, <1>4 DEF OpeningGiven, OpeningsApart
    <3>3. n = 1 /\ did = 0
      <4>1. a \in Actions /\ a = Opening
        BY <3>1, <1>4
      <4>2. n = 1
        BY <4>1, ChainOf
      <4> QED BY <4>2, <1>4
    <3>4. i \notin hand'[t]
      BY <3>3, <1>8
    <3>5. \A u \in Turns : \A j \in hand'[u] : ~IsOpening(u, j)
      BY <2>1, <3>1, <3>4, <1>4 DEF OpeningsApart
    <3> QED BY <2>1, <3>1, <3>2, <3>5, <1>1 DEF OpeningGiven
  <2> QED BY <2>2, <2>3
<1>14. CapHeld'
  <2>1. CountOf(s) = CountOf(order[t])
    BY <1>3, <1>5, <1>7, CountSame
  <2>2. \A u \in Turns : CountOf(order'[u]) <= Cap
    BY <2>1, <1>8, CapByCount
  <2> QED BY <2>2 DEF CapHeld, Counted, CountOf, Entries
<1> QED BY <1>9, <1>10, <1>11, <1>12, <1>13, <1>14

\* What the row, or its resolution, rewrites of the entries.
LEMMA Noted ==
    ASSUME StageTypes, NEW t \in Turns, NEW r \in {Records(t), Resolved(t)}
    PROVE  /\ r \in Seq(StageEntries) /\ DOMAIN r = Entries(t)
           /\ \A i \in Entries(t) : /\ r[i].act = order[t][i].act
                                    /\ r[i].state = order[t][i].state
                                    /\ r[i].did = order[t][i].did
<1>1. /\ order[t] \in Seq(StageEntries) /\ Entries(t) = DOMAIN order[t]
      /\ \A i \in Entries(t) : order[t][i] \in StageEntries
  BY LenProperties, ElementOfSeq DEF StageTypes, Entries
<1>2. /\ DOMAIN r = Entries(t) /\ r = [i \in Entries(t) |-> r[i]]
      /\ \A i \in Entries(t) : \/ r[i] = order[t][i]
                               \/ r[i] = [order[t][i] EXCEPT !.known = 0]
                               \/ r[i] = [order[t][i] EXCEPT !.known = order[t][i].did]
  BY DEF Records, Resolved
<1>3. \A i \in Entries(t) : /\ r[i] \in StageEntries
                            /\ r[i].act = order[t][i].act
                            /\ r[i].state = order[t][i].state
                            /\ r[i].did = order[t][i].did
  <2> SUFFICES ASSUME NEW i \in Entries(t)
               PROVE  /\ r[i] \in StageEntries
                      /\ r[i].act = order[t][i].act
                      /\ r[i].state = order[t][i].state
                      /\ r[i].did = order[t][i].did
      OBVIOUS
  <2>1. order[t][i] \in StageEntries /\ 0 \in Int /\ order[t][i].did \in Int
    BY <1>1 DEF StageEntries
  <2>2. CASE r[i] = order[t][i]
    BY <2>1, <2>2
  <2>3. CASE r[i] = [order[t][i] EXCEPT !.known = 0]
    BY <2>1, <2>3 DEF StageEntries
  <2>4. CASE r[i] = [order[t][i] EXCEPT !.known = order[t][i].did]
    BY <2>1, <2>4 DEF StageEntries
  <2> QED BY <1>2, <2>2, <2>3, <2>4
<1>4. r \in [DOMAIN order[t] -> StageEntries]
  BY <1>1, <1>2, <1>3
<1> QED BY <1>1, <1>2, <1>3, <1>4, Rewritten

\* A turn is recorded, with what it performs after its text in hand.
LEMMA RowActions ==
    ASSUME CapInv, NEW t \in Turns, pc[t] \in Live, queue[t] = <<>>,
           NEW k \in SUBSET InState(t, "staged"), Row(t, k)
    PROVE  CapInv'
<1> USE DEF CapInv, OpeningInv, Row
<1> DEFINE r == Records(t)
<1>1. UNCHANGED <<kind, facts, queue, opened, openingAt, got>>
  BY DEF manychat
<1>2. /\ r \in Seq(StageEntries) /\ DOMAIN r = Entries(t)
      /\ \A i \in Entries(t) : /\ r[i].act = order[t][i].act
                               /\ r[i].state = order[t][i].state
                               /\ r[i].did = order[t][i].did
  BY Noted
<1> HIDE DEF r
<1>3. order' = [order EXCEPT ![t] = r] /\ hand' = [hand EXCEPT ![t] = k]
  BY DEF r
<1>4. k \subseteq Entries(t) /\ k \subseteq Nat
  BY LenProperties DEF InState, StageTypes, Entries
<1>5. StageTypes'
  <2>1. order' \in [Turns -> Seq(StageEntries)] /\ hand' \in [Turns -> SUBSET Nat]
    BY <1>2, <1>3, <1>4 DEF StageTypes
  <2>2. pc' \in [Turns -> Steps]
    BY DEF StageTypes, Steps
  <2> QED BY <2>1, <2>2, <1>1 DEF StageTypes
<1>6. /\ order'[t] = r /\ Entries(t)' = Entries(t) /\ hand'[t] = k
      /\ \A u \in Turns : u # t =>
            order'[u] = order[u] /\ Entries(u)' = Entries(u) /\ hand'[u] = hand[u] /\ pc'[u] = pc[u]
      /\ pc'[t] \in {"done", "perform"}
  BY <1>2, <1>3 DEF StageTypes, Entries
<1>7. SendersOnly'
  BY <1>1, <1>6 DEF SendersOnly, Sends
<1>8. InHand'
  <2>1. \A u \in Turns : \A b : Chain(u, b)' = Chain(u, b)
    BY <1>1, SameChain
  <2>2. \A i \in k : r[i].did = 0 /\ Len(Chain(t, r[i].act)) \in Nat \ {0}
    <3> SUFFICES ASSUME NEW i \in k
                 PROVE  r[i].did = 0 /\ Len(Chain(t, r[i].act)) \in Nat \ {0}
        OBVIOUS
    <3>1. i \in Entries(t) /\ order[t][i] \in StageEntries
      BY <1>4, LenProperties, ElementOfSeq DEF StageTypes, Entries
    <3>2. r[i].act \in Actions
      BY <3>1, <1>2 DEF StageEntries
    <3>3. r[i].did = 0
      BY <3>1, <1>2 DEF InHand
    <3> QED BY <3>2, <3>3, ChainOf
  <2> SUFFICES ASSUME NEW u \in Turns
               PROVE  /\ \A j \in hand'[u] : j \in Entries(u)' /\ order'[u][j].did < Len(Chain(u, order'[u][j].act))
                      /\ pc'[u] \in Live =>
                            \A j \in InState(u, "staged")' : order'[u][j].did = 0 /\ j \notin hand'[u]
      BY <2>1 DEF InHand
  <2>3. CASE u = t
    <3>1. \A j \in hand'[t] : j \in Entries(t)' /\ order'[t][j].did < Len(Chain(t, order'[t][j].act))
      <4> SUFFICES ASSUME NEW j \in k
                   PROVE  j \in Entries(t) /\ r[j].did < Len(Chain(t, r[j].act))
          BY <1>6
      <4>1. r[j].did = 0 /\ Len(Chain(t, r[j].act)) \in Nat \ {0}
        BY <2>2
      <4> HIDE DEF Row
      <4> QED BY <4>1, <1>4
    <3>2. pc'[t] \notin Live
      BY <1>6 DEF Live
    <3> QED BY <2>3, <3>1, <3>2
  <2>4. CASE u # t
    BY <2>4, <1>6 DEF InHand, InState
  <2> QED BY <2>3, <2>4
<1>9. OpeningsApart'
  <2>1. \A j \in Entries(t)' : order'[t][j].act = Opening =>
               j \in Entries(t) /\ order[t][j].act = Opening /\ order'[t][j].state # "staged"
    BY <1>2, <1>6 DEF OpeningsApart, IsOpening
  <2> QED BY <2>1, <1>1, <1>6, NoneNew
<1>10. OpeningGiven'
  <2>1. \A i \in k : order'[t][i].act # Opening
    BY <1>2, <1>4, <1>6 DEF OpeningsApart, IsOpening, InState
  <2> QED BY <2>1, <1>1, <1>6 DEF OpeningGiven, IsOpening
<1>11. CapHeld'
  <2>1. CountOf(r) = CountOf(order[t])
    BY <1>2, CountSame DEF Entries
  <2>2. \A u \in Turns : CountOf(order'[u]) <= Cap
    BY <2>1, <1>6, CapByCount
  <2> QED BY <2>2 DEF CapHeld, Counted, CountOf, Entries
<1> QED BY <1>5, <1>7, <1>8, <1>9, <1>10, <1>11

\* Every way a turn ends.
LEMMA EndActions ==
    ASSUME CapInv, NEW t \in Turns,
           \/ ClaimFails(t) \/ Reply(t) \/ RecordFails(t) \/ Cancel(t) \/ Abort(t)
           \/ RecordAborted(t) \/ LoopEnds(t) \/ Resolve(t) \/ ResolveFails(t) \/ Drop(t)
    PROVE  CapInv'
<1> USE DEF CapInv, OpeningInv, stageVars, manychat
<1>1. UNCHANGED <<kind, facts, openingAt, got>>
  BY DEF ClaimFails, Reply, RecordFails, Cancel, Abort, RecordAborted, LoopEnds, Resolve, ResolveFails, Drop
<1>2. \/ order' = order
      \/ \E r \in {Records(t), Resolved(t)} : order' = [order EXCEPT ![t] = r]
  BY DEF ClaimFails, Reply, RecordFails, Cancel, Abort, RecordAborted, LoopEnds, Resolve, ResolveFails, Drop
<1>3. /\ order' \in [Turns -> Seq(StageEntries)]
      /\ \A u \in Turns :
            /\ Entries(u)' = Entries(u)
            /\ \A i \in Entries(u) : /\ order'[u][i].act = order[u][i].act
                                     /\ order'[u][i].state = order[u][i].state
                                     /\ order'[u][i].did = order[u][i].did
  <2>1. CASE order' = order
    BY <2>1 DEF StageTypes, Entries
  <2>2. ASSUME NEW r \in {Records(t), Resolved(t)}, order' = [order EXCEPT ![t] = r]
        PROVE  <1>3!1 /\ <1>3!2
    <3>1. /\ r \in Seq(StageEntries) /\ DOMAIN r = Entries(t)
          /\ \A i \in Entries(t) : /\ r[i].act = order[t][i].act
                                   /\ r[i].state = order[t][i].state
                                   /\ r[i].did = order[t][i].did
      BY Noted
    <3>2. order'[t] = r /\ \A u \in Turns : u # t => order'[u] = order[u]
      BY <2>2 DEF StageTypes
    <3>3. order' \in [Turns -> Seq(StageEntries)]
      BY <3>1, <2>2 DEF StageTypes
    <3> QED BY <3>1, <3>2, <3>3 DEF Entries
  <2> QED BY <1>2, <2>1, <2>2
<1>4. hand' = hand \/ hand' = [hand EXCEPT ![t] = {}]
  BY DEF ClaimFails, Reply, RecordFails, Cancel, Abort, RecordAborted, LoopEnds, Resolve, ResolveFails, Drop
<1>5. hand' \in [Turns -> SUBSET Nat] /\ \A u \in Turns : hand'[u] \subseteq hand[u]
  BY <1>4 DEF StageTypes
<1>6. CASE ClaimFails(t)
  <2>1. /\ queue[t] # <<>> /\ queue' = [queue EXCEPT ![t] = Tail(@)]
        /\ UNCHANGED <<pc, opened>>
    BY <1>6 DEF ClaimFails
  <2>2. queue' \in [Turns -> Seq(Flows)]
    BY <2>1, HeadTailProperties DEF StageTypes
  <2>3. \A u \in Turns : queue'[u] # <<>> => queue[u] # <<>>
    BY <2>1 DEF StageTypes
  <2>4. StageTypes'
    BY <2>1, <2>2, <1>1, <1>3, <1>5 DEF StageTypes
  <2> QED BY <2>1, <2>3, <2>4, <1>1, <1>3, <1>5, Passed DEF SendersOnly
<1>7. CASE Reply(t)
  <2>1. /\ pc[t] = "calls" /\ pc' = [pc EXCEPT ![t] = "reply"]
        /\ queue' = [queue EXCEPT ![t] = OpeningFirst(t)]
        /\ opened' = [opened EXCEPT ![t] = @ \/ OpeningFirst(t) # <<>>]
    BY <1>7 DEF Reply
  <2>2. StageTypes'
    BY <2>1, <1>1, <1>3, <1>5, OpeningFirstTyped DEF StageTypes, Steps, Live
  <2>3. \A u \in Turns : /\ queue'[u] # <<>> => pc'[u] \in Live /\ Sends(u)
                         /\ pc'[u] = "idle" => pc[u] = "idle"
                         /\ pc'[u] \in Live => pc[u] \in Live
    BY <2>1, OpeningFirstTyped DEF StageTypes, SendersOnly, Live
  <2> QED BY <2>2, <2>3, <1>1, <1>3, <1>5, Passed
<1>8. CASE ~ClaimFails(t) /\ ~Reply(t)
  <2>1. UNCHANGED <<queue, opened>>
    BY <1>8 DEF RecordFails, Cancel, Abort, RecordAborted, LoopEnds, Resolve, ResolveFails, Drop
  <2>2. \/ pc' = [pc EXCEPT ![t] = "done"] /\ (queue[t] = <<>>)
        \/ pc' = [pc EXCEPT ![t] = "after"] /\ pc[t] = "late"
        \/ pc' = [pc EXCEPT ![t] = "late"] /\ pc[t] = "calls"
    <3>1. ~Sends(t) \/ pc[t] \notin Live => queue[t] = <<>>
      BY DEF SendersOnly
    <3>2. CASE RecordFails(t)
      BY <3>2 DEF RecordFails, Replied, Calling
    <3>3. CASE Cancel(t)
      BY <3>1, <3>3 DEF Cancel, Ends
    <3>4. CASE Abort(t)
      BY <3>4 DEF Abort
    <3>5. CASE RecordAborted(t)
      BY <3>5 DEF RecordAborted
    <3>6. CASE LoopEnds(t)
      BY <3>6 DEF LoopEnds, Ends, Calling
    <3>7. CASE Resolve(t) \/ ResolveFails(t) \/ Drop(t)
      BY <3>1, <3>7 DEF Resolve, ResolveFails, Drop, Ends, Performed, Waits, Live
    <3> QED BY <1>8, <3>2, <3>3, <3>4, <3>5, <3>6, <3>7
  <2>3. StageTypes'
    BY <2>1, <2>2, <1>1, <1>3, <1>5 DEF StageTypes, Steps, Live
  <2>4. \A u \in Turns : /\ queue'[u] # <<>> => pc'[u] \in Live /\ Sends(u)
                         /\ pc'[u] = "idle" => pc[u] = "idle"
                         /\ pc'[u] \in Live => pc[u] \in Live
    BY <2>1, <2>2 DEF StageTypes, SendersOnly, Live
  <2> QED BY <2>3, <2>4, <1>1, <1>3, <1>5, Passed
<1> QED BY <1>6, <1>7, <1>8

LEMMA CrashActions == ASSUME CapInv, Crash PROVE CapInv'
<1> USE DEF CapInv, OpeningInv, manychat, Crash
<1>1. UNCHANGED <<kind, facts, order, opened, openingAt, got>>
  OBVIOUS
<1>2. PICK cut \in SUBSET Turns :
        /\ pc' = [t \in Turns |-> IF t \in cut THEN "done" ELSE pc[t]]
        /\ queue' = [t \in Turns |-> IF t \in cut THEN <<>> ELSE queue[t]]
        /\ hand' = [t \in Turns |-> IF t \in cut THEN {} ELSE hand[t]]
  OBVIOUS
<1>3. <<>> \in Seq(Flows)
  OBVIOUS
<1>4. queue' \in [Turns -> Seq(Flows)] /\ pc' \in [Turns -> Steps] /\ hand' \in [Turns -> SUBSET Nat]
  BY <1>2, <1>3 DEF StageTypes, Steps
<1>5. StageTypes'
  BY <1>1, <1>4 DEF StageTypes
<1>6. \A u \in Turns : /\ hand'[u] \subseteq hand[u]
                       /\ queue'[u] # <<>> => pc'[u] \in Live /\ Sends(u)
                       /\ pc'[u] = "idle" => pc[u] = "idle"
                       /\ pc'[u] \in Live => pc[u] \in Live
  BY <1>2 DEF SendersOnly, Live
<1> QED BY <1>1, <1>5, <1>6, Passed DEF Entries

LEMMA NextActions == CapInv /\ [Next]_vars => CapInv'
<1> SUFFICES ASSUME CapInv, [Next]_vars PROVE CapInv'
    OBVIOUS
<1> USE DEF CapInv, OpeningInv
<1>1. CASE UNCHANGED vars
  <2>1. UNCHANGED <<pc, kind, facts, order, queue, hand, opened, openingAt, got>>
    BY <1>1 DEF vars, stageVars, manychat
  <2>2. StageTypes'
    BY <2>1 DEF StageTypes
  <2> QED BY <2>1, <2>2, Passed DEF SendersOnly, Entries
<1>2. ASSUME NEW t \in Turns, Turn(t) PROVE CapInv'
  <2>1. ASSUME NEW k \in Kinds, Start(t, k) PROVE CapInv'
    BY <2>1, StartActions
  <2>2. CASE Call(t)
    BY <2>2, CallActions
  <2>3. CASE SendNow(t)
    BY <2>3, SendNowActions
  <2>4. CASE Request(t)
    BY <2>4, RequestActions
  <2>5. CASE Settle(t) \/ Supersede(t)
    <3>1. pc[t] \in Live /\ queue[t] = <<>>
      BY <2>5 DEF Settle, Supersede, Replied, Live
    <3>2. PICK k \in SUBSET InState(t, "staged") : Row(t, k)
      BY <2>5 DEF Settle, Supersede
    <3> QED BY <3>1, <3>2, RowActions
  <2>6. ASSUME NEW keeps \in BOOLEAN, Escalate(t, keeps) PROVE CapInv'
    <3>1. pc[t] \in Live /\ queue[t] = <<>>
      BY <2>6 DEF Escalate, Calling, Live
    <3>2. PICK k \in SUBSET InState(t, "staged") : Row(t, k)
      BY <2>6 DEF Escalate
    <3> QED BY <3>1, <3>2, RowActions
  <2>7. CASE \/ ClaimFails(t) \/ Reply(t) \/ RecordFails(t) \/ Cancel(t) \/ Abort(t)
             \/ RecordAborted(t) \/ LoopEnds(t) \/ Resolve(t) \/ ResolveFails(t) \/ Drop(t)
    BY <2>7, EndActions
  <2> QED BY <1>2, <2>1, <2>2, <2>3, <2>4, <2>5, <2>6, <2>7 DEF Turn
<1> QED BY <1>1, <1>2, CrashActions DEF Next

LEMMA ActionsInvariant == Spec => []CapInv
BY InitActions, NextActions, PTL DEF Spec

\* A turn stages and sends no more than the cap, whatever its model calls and whatever
\* is in flight (stage.ts, full).
THEOREM ActionsStayCapped == Spec => []CapHeld
<1>1. CapInv => CapHeld
  BY DEF CapInv
<1> QED BY <1>1, ActionsInvariant, PTL

\* The contact has the opening once, whatever turns run beside each other, whatever is
\* refused, answered too late or cut off (claimOpening in store.ts, sendOpening in
\* handler.ts).
THEOREM OpeningGoesOnce == Spec => []OpeningOnce
<1>1. CapInv => OpeningOnce
  BY DEF CapInv, OpeningInv, OpeningGiven, OpeningOnce
<1> QED BY <1>1, ActionsInvariant, PTL

-----------------------------------------------------------------------------
\* What is sent is in hand until its group is answered; a turn without FlowSends only
\* stages; what a turn performs after its text was staged, and the rest of its row is told.

HandTypes ==
    /\ kept \in [Turns -> SUBSET Nat] /\ awaited \in [Turns -> SUBSET Nat] /\ faults \in Nat

Told(e) == IF e.state = "done" THEN e.known = e.did ELSE e.did = 0

SentOf(t) ==
    /\ pc[t] \in Live =>
          /\ hand[t] \subseteq InState(t, "sent")
          /\ InState(t, "sent") # {} => hand[t] # {}
          /\ ~Sends(t) => Entries(t) \subseteq InState(t, "staged")
    /\ pc[t] = "late" => awaited[t] \subseteq Entries(t) \ InState(t, "staged")
    /\ pc[t] = "perform" =>
          /\ hand[t] \subseteq kept[t] /\ kept[t] \subseteq InState(t, "staged")
          /\ InState(t, "sent") = {} /\ \A i \in Entries(t) \ kept[t] : Told(order[t][i])
    /\ pc[t] = "done" => hand[t] = {}

\* Without a failure every answer is one that reached the contact, and a row has the
\* answers its turn waited for.
RecordedOf(t) ==
    /\ \A i \in Entries(t) : order[t][i].landed = order[t][i].did
    /\ pc[t] = "after" =>
          \A i \in awaited[t] : i \in Entries(t) /\ order[t][i].state = "done" /\ Told(order[t][i])
    /\ pc[t] = "done" =>
          \A i \in Entries(t) \intersect awaited[t] :
              order[t][i].did = 0 \/ order[t][i].known = order[t][i].did

SentInv == CapInv /\ HandTypes /\ \A t \in Turns : SentOf(t)
RecordInv == SentInv /\ (faults = 0 => \A t \in Turns : RecordedOf(t))

LEMMA EntriesOf ==
    ASSUME StageTypes, NEW t \in Turns
    PROVE  /\ order[t] \in Seq(StageEntries) /\ Entries(t) = DOMAIN order[t]
           /\ Len(order[t]) \in Nat /\ Entries(t) = 1..Len(order[t])
           /\ \A i \in Entries(t) : order[t][i] \in StageEntries
BY LenProperties, ElementOfSeq DEF StageTypes, Entries

\* A step of one turn is judged by that turn.
LEMMA OneTurn ==
    ASSUME RecordInv, CapInv', HandTypes', NEW t \in Turns,
           \A u \in Turns : u # t =>
               /\ pc'[u] = pc[u] /\ kind'[u] = kind[u] /\ order'[u] = order[u]
               /\ hand'[u] = hand[u] /\ kept'[u] = kept[u] /\ awaited'[u] = awaited[u],
           SentOf(t)', faults' = 0 => faults = 0 /\ RecordedOf(t)'
    PROVE  RecordInv'
<1>1. \A u \in Turns : u # t => SentOf(u)'
  BY DEF RecordInv, SentInv, SentOf, Sends, InState, Entries
<1>2. \A u \in Turns : u # t /\ faults' = 0 => RecordedOf(u)'
  BY DEF RecordInv, RecordedOf, Entries
<1> QED BY <1>1, <1>2 DEF RecordInv, SentInv

\* A call of a tool stages, and leaves what it finds.
StagesMore(t, s) ==
    /\ order' = [order EXCEPT ![t] = s] /\ s \in Seq(StageEntries)
    /\ Entries(t) \subseteq DOMAIN s /\ \A i \in Entries(t) : s[i] = order[t][i]
    /\ \A i \in (DOMAIN s) \ Entries(t) :
          \E a \in Actions : s[i] = Entry(a, "staged") /\ (a = Link => ~Sends(t))

LEMMA StageAdds ==
    ASSUME StageTypes, NEW t \in Turns, NEW a \in Actions, a # Link, Stage(t, a)
    PROVE  \E s : StagesMore(t, s)
<1>1. CASE Accepts(t, a)
  <2>1. order' = [order EXCEPT ![t] = With(t, a)]
    BY <1>1 DEF Stage
  <2>2. order[t] \in Seq(StageEntries) /\ Entry(a, "staged") \in StageEntries
    BY EntryTyped DEF StageTypes
  <2>3. StagesMore(t, With(t, a))
    BY <2>1, <2>2, Added DEF StagesMore, With, Entries
  <2> QED BY <2>3
<1>2. CASE ~Accepts(t, a)
  <2>1. order' = order
    BY <1>2 DEF Stage
  <2>2. StagesMore(t, order[t])
    BY <2>1 DEF StagesMore, StageTypes, Entries
  <2> QED BY <2>2
<1> QED BY <1>1, <1>2

LEMMA SendOrStageAdds ==
    ASSUME StageTypes, NEW t \in Turns, NEW f \in Flows \ {"opening"}, NEW s \in Seq(StageEntries),
           Entries(t) \subseteq DOMAIN s, \A i \in Entries(t) : s[i] = order[t][i],
           \A i \in (DOMAIN s) \ Entries(t) :
               \E a \in Actions : s[i] = Entry(a, "staged") /\ (a = Link => ~Sends(t)),
           SendOrStage(t, f, s)
    PROVE  \E r : StagesMore(t, r)
<1> DEFINE e == Entry(SendFlowOf(f), "staged")
<1>1. CASE order' = [order EXCEPT ![t] = s]
  BY <1>1 DEF StagesMore
<1>2. CASE ~Sends(t) /\ order' = [order EXCEPT ![t] = Append(s, e)]
  <2>1. SendFlowOf(f) \in Actions /\ e \in StageEntries
    BY FlowAction, EntryTyped
  <2>2. e = Entry(SendFlowOf(f), "staged")
    OBVIOUS
  <2> HIDE DEF e
  <2>3. StagesMore(t, Append(s, e))
    BY <1>2, <2>1, <2>2, Added DEF StagesMore
  <2> QED BY <2>3
<1> QED BY <1>1, <1>2 DEF SendOrStage

LEMMA CallAdds ==
    ASSUME StageTypes, NEW t \in Turns, Call(t)
    PROVE  \E s : StagesMore(t, s)
<1>1. CASE SetIntent(t)
  BY <1>1, StageAdds DEF SetIntent, Actions, Intent, Link, SendFlowOf
<1>2. CASE WriteNote(t)
  BY <1>2, StageAdds DEF WriteNote, Actions, Note, Link, SendFlowOf
<1>3. ASSUME NEW v \in Values, SetFunnel(t, v) PROVE \E s : StagesMore(t, s)
  <2>1. SetStage(v) \in Actions /\ SetStage(v) # Link
    BY DEF Actions, SetStage, Link, SendFlowOf
  <2>2. CASE Stage(t, SetStage(v))
    BY <2>1, <2>2, StageAdds
  <2>3. CASE SendOrStage(t, "tied", With(t, SetStage(v)))
    <3>1. order[t] \in Seq(StageEntries) /\ Entry(SetStage(v), "staged") \in StageEntries
      BY <2>1, EntryTyped DEF StageTypes
    <3>2. "tied" \in Flows \ {"opening"}
      BY DEF Flows
    <3> DEFINE s == With(t, SetStage(v))
    <3>3. /\ s \in Seq(StageEntries)
          /\ Entries(t) \subseteq DOMAIN s /\ \A i \in Entries(t) : s[i] = order[t][i]
          /\ \A i \in (DOMAIN s) \ Entries(t) : s[i] = Entry(SetStage(v), "staged")
      BY <3>1, Added DEF With, Entries
    <3> HIDE DEF s
    <3>4. SendOrStage(t, "tied", s)
      BY <2>3 DEF s
    <3> QED BY <2>1, <3>2, <3>3, <3>4, SendOrStageAdds
  <2> QED BY <1>3, <2>2, <2>3 DEF SetFunnel
<1>4. ASSUME NEW f \in Flows, NEW asked \in BOOLEAN, SendFlow(t, f, asked)
      PROVE  \E s : StagesMore(t, s)
  <2>1. f \in Flows \ {"opening"} /\ SendOrStage(t, f, order[t])
    BY <1>4 DEF SendFlow
  <2>2. order[t] \in Seq(StageEntries) /\ Entries(t) = DOMAIN order[t]
    BY DEF StageTypes, Entries
  <2> QED BY <2>1, <2>2, SendOrStageAdds
<1> QED BY <1>1, <1>2, <1>3, <1>4 DEF Call

\* A flow that goes: the writes ahead of it, and the flow, are sent and in hand.
SendsNow(t, s, ahead) ==
    /\ order' = [order EXCEPT ![t] = s] /\ s \in Seq(StageEntries)
    /\ hand' = [hand EXCEPT ![t] = ahead \union {Len(order[t]) + 1}]
    /\ DOMAIN s = Entries(t) \union {Len(order[t]) + 1}
    /\ s[Len(order[t]) + 1] = Entry(SendFlowOf(Head(queue[t])), "sent")
    /\ \A i \in Entries(t) : /\ s[i].act = order[t][i].act /\ s[i].did = order[t][i].did
                             /\ s[i].landed = order[t][i].landed /\ s[i].known = order[t][i].known
                             /\ i \in ahead => s[i].state = "sent"
                             /\ i \notin ahead => s[i] = order[t][i]

LEMMA SendNowSends ==
    ASSUME CapInv, NEW t \in Turns, SendNow(t)
    PROVE  \/ UNCHANGED <<order, hand>>
           \/ \E s : SendsNow(t, s, Ahead(t, Head(queue[t])))
<1> USE DEF CapInv, OpeningInv
<1> DEFINE f == Head(queue[t])
           now == [i \in Entries(t) |-> IF i \in Ahead(t, f) THEN [order[t][i] EXCEPT !.state = "sent"]
                                        ELSE order[t][i]]
           e == Entry(SendFlowOf(f), "sent")
           n == Len(order[t]) + 1
<1>1. /\ order[t] \in Seq(StageEntries) /\ Entries(t) = DOMAIN order[t]
      /\ Len(order[t]) \in Nat /\ Entries(t) = 1..Len(order[t])
      /\ \A i \in Entries(t) : order[t][i] \in StageEntries
  BY EntriesOf
<1>2. f \in Flows
  BY HeadTailProperties DEF SendNow, StageTypes
<1>3. \A i \in Entries(t) :
        /\ now[i] \in StageEntries
        /\ now[i].act = order[t][i].act /\ now[i].did = order[t][i].did
        /\ now[i].landed = order[t][i].landed /\ now[i].known = order[t][i].known
        /\ i \in Ahead(t, f) => now[i].state = "sent"
        /\ i \notin Ahead(t, f) => now[i] = order[t][i]
  <2> SUFFICES ASSUME NEW i \in Entries(t)
               PROVE <1>3!(i)
      OBVIOUS
  <2>1. order[t][i] \in StageEntries
    BY <1>1
  <2> QED BY <2>1 DEF StageEntries
<1>4. now \in Seq(StageEntries) /\ DOMAIN now = Entries(t)
  <2>1. now \in [DOMAIN order[t] -> StageEntries]
    BY <1>1, <1>3
  <2> HIDE DEF now
  <2> QED BY <2>1, <1>1, Rewritten
<1>5. e \in StageEntries
  BY <1>2, EntryTyped DEF Actions
<1>6. \/ UNCHANGED <<order, hand>>
      \/ /\ order' = [order EXCEPT ![t] = Append(now, e)]
         /\ hand' = [hand EXCEPT ![t] = Ahead(t, f) \union {n}]
  BY DEF SendNow
<1> HIDE DEF now
<1>7. Len(now) = Len(order[t])
  BY <1>1, <1>4, LenProperties
<1>8. /\ Append(now, e) \in Seq(StageEntries)
      /\ DOMAIN Append(now, e) = 1..n
      /\ \A i \in Entries(t) : Append(now, e)[i] = now[i]
      /\ Append(now, e)[n] = e
  <2> HIDE DEF e
  <2> QED BY <1>4, <1>5, <1>7, Added
<1>9. CASE /\ order' = [order EXCEPT ![t] = Append(now, e)]
           /\ hand' = [hand EXCEPT ![t] = Ahead(t, f) \union {n}]
  <2>1. 1..n = Entries(t) \union {n}
    BY <1>1
  <2> DEFINE s == Append(now, e)
  <2>2. /\ order' = [order EXCEPT ![t] = s] /\ s \in Seq(StageEntries)
        /\ DOMAIN s = Entries(t) \union {n} /\ s[n] = e
        /\ \A i \in Entries(t) : s[i] = now[i]
    BY <1>8, <1>9, <2>1
  <2> HIDE DEF s
  <2>3. SendsNow(t, s, Ahead(t, f))
    BY <1>3, <1>9, <2>2 DEF SendsNow
  <2> QED BY <2>3
<1> QED BY <1>6, <1>9

\* A request of the least action in hand: what it does to the entries of its turn.
RequestDoes(t, i, d, l, s) ==
    LET ends == d = 0 \/ order[t][i].did + 1 = Len(Chain(t, order[t][i].act))
    IN  /\ order' = [order EXCEPT ![t] = s] /\ s \in Seq(StageEntries)
        /\ DOMAIN s = Entries(t)
        /\ hand' = [hand EXCEPT ![t] = IF ends THEN @ \ {i} ELSE @]
        /\ \A j \in Entries(t) :
              /\ s[j].act = order[t][j].act /\ s[j].known = order[t][j].known
              /\ s[j].did = (IF j = i THEN order[t][j].did + d ELSE order[t][j].did)
              /\ s[j].landed = (IF j = i THEN order[t][j].landed + l ELSE order[t][j].landed)
              /\ s[j].state = IF ends /\ hand[t] = {i} /\ order[t][j].state = "sent"
                              THEN "done" ELSE order[t][j].state

LEMMA RequestIs ==
    ASSUME CapInv, NEW t \in Turns, Request(t)
    PROVE  \E i \in hand[t], d \in {0, 1}, l \in {0, 1}, s \in Seq(StageEntries) :
              /\ RequestDoes(t, i, d, l, s)
              /\ \A j \in hand[t] : i <= j
              /\ i \in Entries(t) /\ order[t][i].did < Len(Chain(t, order[t][i].act))
              /\ \/ d = 1 /\ l = 1 /\ UNCHANGED faults
                 \/ d = 0 /\ faults < MaxFaults /\ faults' = faults + 1
              /\ \/ l = 0 /\ UNCHANGED manychat
                 \/ l = 1 /\ Lands(Chain(t, order[t][i].act)[order[t][i].did + 1])
<1> USE DEF CapInv, OpeningInv
<1>1. PICK i \in hand[t], d \in {0, 1}, l \in {0, 1} :
              /\ Advance(t, i, d, l)
              /\ \A j \in hand[t] : i <= j
              /\ \/ d = 1 /\ l = 1 /\ UNCHANGED faults
                 \/ d = 0 /\ faults < MaxFaults /\ faults' = faults + 1
              /\ \/ l = 0 /\ UNCHANGED manychat
                 \/ l = 1 /\ Lands(Chain(t, order[t][i].act)[order[t][i].did + 1])
  BY DEF Request
<1> DEFINE ends == d = 0 \/ order[t][i].did + 1 = Len(Chain(t, order[t][i].act))
           now == [order[t] EXCEPT ![i].did = @ + d, ![i].landed = @ + l]
           s == [j \in Entries(t) |-> IF ends /\ hand[t] = {i} /\ now[j].state = "sent"
                                      THEN [now[j] EXCEPT !.state = "done"] ELSE now[j]]
<1>2. /\ order[t] \in Seq(StageEntries) /\ Entries(t) = DOMAIN order[t]
      /\ \A j \in Entries(t) : order[t][j] \in StageEntries
  BY EntriesOf
<1>3. i \in Entries(t) /\ order[t][i].did < Len(Chain(t, order[t][i].act))
  BY DEF InHand
<1>4. \A j \in Entries(t) :
        /\ now[j] \in StageEntries
        /\ now[j].act = order[t][j].act /\ now[j].state = order[t][j].state
        /\ now[j].known = order[t][j].known
        /\ now[j].did = (IF j = i THEN order[t][j].did + d ELSE order[t][j].did)
        /\ now[j].landed = (IF j = i THEN order[t][j].landed + l ELSE order[t][j].landed)
  <2> SUFFICES ASSUME NEW j \in Entries(t) PROVE <1>4!(j)
      OBVIOUS
  <2>1. order[t][j] \in StageEntries
    BY <1>2
  <2>2. now = [order[t] EXCEPT ![i] = [order[t][i] EXCEPT !.did = @ + d, !.landed = @ + l]]
    OBVIOUS
  <2> HIDE DEF now
  <2>3. CASE j # i
    BY <2>1, <2>2, <2>3, <1>2
  <2>4. CASE j = i
    <3>1. now[j] = [order[t][j] EXCEPT !.did = @ + d, !.landed = @ + l]
      BY <2>2, <2>4, <1>2
    <3>2. order[t][j].did + d \in Nat /\ order[t][j].landed + l \in Nat
      BY <2>1 DEF StageEntries
    <3> QED BY <2>1, <2>4, <3>1, <3>2 DEF StageEntries
  <2> QED BY <2>3, <2>4
<1> HIDE DEF now
<1>5. \A j \in Entries(t) :
        /\ s[j] \in StageEntries
        /\ s[j].act = now[j].act /\ s[j].known = now[j].known
        /\ s[j].did = now[j].did /\ s[j].landed = now[j].landed
        /\ s[j].state = IF ends /\ hand[t] = {i} /\ now[j].state = "sent"
                        THEN "done" ELSE now[j].state
  <2> SUFFICES ASSUME NEW j \in Entries(t) PROVE <1>5!(j)
      OBVIOUS
  <2>1. now[j] \in StageEntries
    BY <1>4
  <2>2. s[j] = IF ends /\ hand[t] = {i} /\ now[j].state = "sent"
               THEN [now[j] EXCEPT !.state = "done"] ELSE now[j]
    OBVIOUS
  <2> HIDE DEF s, ends
  <2> QED BY <2>1, <2>2 DEF StageEntries
<1>6. s \in Seq(StageEntries) /\ DOMAIN s = Entries(t)
  <2>1. s \in [DOMAIN order[t] -> StageEntries]
    BY <1>2, <1>5
  <2> HIDE DEF s
  <2> QED BY <2>1, <1>2, Rewritten
<1>7. /\ order' = [order EXCEPT ![t] = s]
      /\ hand' = [hand EXCEPT ![t] = IF ends THEN @ \ {i} ELSE @]
  BY <1>1 DEF Advance, now
<1> HIDE DEF s
<1>8. RequestDoes(t, i, d, l, s)
  BY <1>4, <1>5, <1>6, <1>7 DEF RequestDoes
<1> QED BY <1>1, <1>3, <1>6, <1>8

-----------------------------------------------------------------------------
\* The steps, with the invariant that was proved for the stage.

LEMMA InitRecord == Init => RecordInv
<1> SUFFICES ASSUME Init PROVE RecordInv
    OBVIOUS
<1>1. CapInv
  BY InitActions
<1>2. HandTypes
  BY ActionsAssumption DEF Init, HandTypes
<1>3. \A t \in Turns : Entries(t) = {} /\ pc[t] = "idle"
  BY DEF Init, Entries
<1>4. \A t \in Turns : SentOf(t) /\ RecordedOf(t)
  BY <1>3 DEF SentOf, RecordedOf, Live
<1> QED BY <1>1, <1>2, <1>4 DEF RecordInv, SentInv

LEMMA StartRecord ==
    ASSUME RecordInv, CapInv', NEW t \in Turns, NEW k \in Kinds, Start(t, k) PROVE RecordInv'
<1> USE DEF RecordInv, SentInv, CapInv, OpeningInv, Start, stageVars
<1>1. /\ \A u \in Turns : u # t => pc'[u] = pc[u] /\ kind'[u] = kind[u]
      /\ pc'[t] = "calls" /\ UNCHANGED <<order, hand, kept, awaited, faults>>
  BY DEF StageTypes
<1>2. Entries(t)' = {} /\ hand'[t] = {}
  BY <1>1 DEF SendersOnly, Entries
<1>3. SentOf(t)' /\ RecordedOf(t)'
  BY <1>1, <1>2 DEF SentOf, RecordedOf, InState
<1>4. HandTypes'
  BY <1>1 DEF HandTypes
<1> HIDE DEF RecordInv
<1> QED BY <1>1, <1>3, <1>4, OneTurn

LEMMA CallRecord ==
    ASSUME RecordInv, CapInv', NEW t \in Turns, Call(t) PROVE RecordInv'
<1> USE DEF SentInv, CapInv, OpeningInv
<1>1. /\ Calling(t) /\ UNCHANGED <<pc, kind, hand, kept, awaited, faults>>
  BY DEF Call
<1>2. PICK s : StagesMore(t, s)
  BY CallAdds DEF RecordInv
<1>3. order'[t] = s /\ Entries(t)' = DOMAIN s /\ \A u \in Turns : u # t => order'[u] = order[u]
  BY <1>2 DEF StagesMore, RecordInv, StageTypes, Entries
<1>4. \A i \in (DOMAIN s) \ Entries(t) : s[i].state = "staged" /\ s[i].did = 0 /\ s[i].landed = 0
  BY <1>2 DEF StagesMore, Entry
<1>5. Entries(t) \subseteq DOMAIN s /\ \A i \in Entries(t) : s[i] = order[t][i]
  BY <1>2 DEF StagesMore
<1>6. pc[t] \in Live /\ pc[t] \notin {"perform", "done"}
  BY <1>1 DEF Calling, Live
<1>7. InState(t, "sent")' = InState(t, "sent") /\ InState(t, "staged") \subseteq InState(t, "staged")'
      /\ (Entries(t)' \ InState(t, "staged")') = Entries(t) \ InState(t, "staged")
      /\ Entries(t)' \ Entries(t) \subseteq InState(t, "staged")'
  BY <1>3, <1>4, <1>5 DEF InState
<1>8. SentOf(t)'
  BY <1>1, <1>6, <1>7 DEF SentOf, RecordInv, Sends
<1>9. faults' = 0 => faults = 0 /\ RecordedOf(t)'
  BY <1>1, <1>3, <1>4, <1>5, <1>6 DEF RecordedOf, RecordInv, Told
<1>10. HandTypes'
  BY <1>1 DEF HandTypes, RecordInv
<1> QED BY <1>1, <1>3, <1>8, <1>9, <1>10, OneTurn

LEMMA SendNowRecord ==
    ASSUME RecordInv, CapInv', NEW t \in Turns, SendNow(t) PROVE RecordInv'
<1> USE DEF SentInv, CapInv, OpeningInv
<1>1. /\ hand[t] = {} /\ queue[t] # <<>> /\ UNCHANGED <<pc, kind, kept, awaited, faults>>
  BY DEF SendNow
<1>2. pc[t] \in Live /\ Sends(t) /\ pc[t] \notin {"perform", "done"}
  BY <1>1 DEF RecordInv, SendersOnly, Live
<1>3. CASE UNCHANGED <<order, hand>>
  <2>1. SentOf(t)' /\ (faults' = 0 => faults = 0 /\ RecordedOf(t)')
    BY <1>1, <1>3 DEF RecordInv, SentOf, RecordedOf, Sends, InState, Entries
  <2>2. HandTypes'
    BY <1>1 DEF HandTypes, RecordInv
  <2> QED BY <1>1, <1>3, <2>1, <2>2, OneTurn
<1>4. ASSUME NEW s, SendsNow(t, s, Ahead(t, Head(queue[t]))) PROVE RecordInv'
  <2> DEFINE ahead == Ahead(t, Head(queue[t]))
             n == Len(order[t]) + 1
  <2>1. /\ order'[t] = s /\ hand'[t] = ahead \union {n}
        /\ \A u \in Turns : u # t => order'[u] = order[u] /\ hand'[u] = hand[u]
    BY <1>4 DEF SendsNow, RecordInv, StageTypes
  <2>2. Entries(t)' = Entries(t) \union {n} /\ n \notin Entries(t)
    <3>1. Len(order[t]) \in Nat /\ Entries(t) = 1..Len(order[t])
      BY EntriesOf DEF RecordInv
    <3>2. Entries(t)' = DOMAIN s
      BY <2>1 DEF Entries
    <3> QED BY <3>1, <3>2, <1>4 DEF SendsNow
  <2>3. ahead \subseteq InState(t, "staged") /\ \A i \in ahead : i \in Entries(t)
    BY DEF Ahead, InState
  <2>4. /\ s[n].state = "sent" /\ s[n].did = 0 /\ s[n].landed = 0
        /\ \A i \in Entries(t) : /\ s[i].did = order[t][i].did /\ s[i].landed = order[t][i].landed
                                 /\ i \in ahead => s[i].state = "sent"
                                 /\ i \notin ahead => s[i] = order[t][i]
    BY <1>4 DEF SendsNow, Entry
  <2> HIDE DEF ahead, n
  <2>5. InState(t, "sent") = {}
    BY <1>1, <1>2 DEF RecordInv, SentOf
  <2>6. InState(t, "sent")' = ahead \union {n}
    BY <2>1, <2>2, <2>3, <2>4, <2>5 DEF InState
  <2>7. Entries(t) \ InState(t, "staged") \subseteq Entries(t)' \ InState(t, "staged")'
    BY <2>1, <2>2, <2>3, <2>4 DEF InState
  <2>8. SentOf(t)'
    BY <1>1, <1>2, <2>1, <2>6, <2>7 DEF SentOf, RecordInv, Sends
  <2>9. faults' = 0 => faults = 0 /\ RecordedOf(t)'
    <3> SUFFICES ASSUME faults = 0 PROVE RecordedOf(t)'
        BY <1>1
    <3>1. RecordedOf(t)
      BY DEF RecordInv
    <3>2. \A i \in Entries(t)' : order'[t][i].landed = order'[t][i].did
      BY <3>1, <2>1, <2>2, <2>4 DEF RecordedOf
    <3>3. \A i \in Entries(t) : order[t][i].state = "done" => i \notin ahead
      BY <2>3 DEF InState
    <3> QED BY <3>1, <3>2, <3>3, <1>1, <1>2, <2>1, <2>2, <2>4 DEF RecordedOf
  <2>10. HandTypes'
    BY <1>1 DEF HandTypes, RecordInv
  <2> QED BY <1>1, <2>1, <2>8, <2>9, <2>10, OneTurn
<1> QED BY <1>3, <1>4, SendNowSends DEF RecordInv

LEMMA RequestRecord ==
    ASSUME RecordInv, CapInv', NEW t \in Turns, Request(t) PROVE RecordInv'
<1> USE DEF SentInv, CapInv, OpeningInv
<1>1. UNCHANGED <<pc, kind, kept, awaited>>
  BY DEF Request
<1>2. PICK i \in hand[t], d \in {0, 1}, l \in {0, 1}, s \in Seq(StageEntries) :
              /\ RequestDoes(t, i, d, l, s)
              /\ i \in Entries(t) /\ order[t][i].did < Len(Chain(t, order[t][i].act))
              /\ \/ d = 1 /\ l = 1 /\ UNCHANGED faults
                 \/ d = 0 /\ faults < MaxFaults /\ faults' = faults + 1
  BY RequestIs DEF RecordInv
<1> DEFINE ends == d = 0 \/ order[t][i].did + 1 = Len(Chain(t, order[t][i].act))
<1>3. /\ order'[t] = s /\ Entries(t)' = Entries(t)
      /\ hand'[t] = (IF ends THEN hand[t] \ {i} ELSE hand[t])
      /\ \A u \in Turns : u # t => order'[u] = order[u] /\ hand'[u] = hand[u]
  BY <1>2 DEF RequestDoes, RecordInv, StageTypes, Entries
<1>4. \A j \in Entries(t) :
        /\ s[j].known = order[t][j].known
        /\ s[j].did = (IF j = i THEN order[t][j].did + d ELSE order[t][j].did)
        /\ s[j].landed = (IF j = i THEN order[t][j].landed + l ELSE order[t][j].landed)
        /\ s[j].state = IF ends /\ hand[t] = {i} /\ order[t][j].state = "sent"
                        THEN "done" ELSE order[t][j].state
  BY <1>2 DEF RequestDoes
<1> HIDE DEF ends
<1>5. pc[t] \in Live \union {"perform"}
  BY <1>2 DEF RecordInv, StageTypes, SendersOnly, Steps, SentOf
<1>6. \A j \in Entries(t) : /\ s[j].state = "staged" <=> order[t][j].state = "staged"
                            /\ order[t][j].state = "done" => s[j].state = "done"
                            /\ order[t][j].state # "sent" => s[j].state = order[t][j].state
  BY <1>4
<1>7. SentOf(t)'
  <2>1. CASE pc[t] \in Live
    <3>1. hand[t] \subseteq InState(t, "sent") /\ (~Sends(t) => Entries(t) \subseteq InState(t, "staged"))
      BY <2>1 DEF RecordInv, SentOf
    <3>2. hand'[t] \subseteq InState(t, "sent")'
      <4>1. CASE ends /\ hand[t] = {i}
        BY <4>1, <1>3
      <4>2. CASE ~(ends /\ hand[t] = {i})
        BY <3>1, <4>2, <1>3, <1>4 DEF InState
      <4> QED BY <4>1, <4>2
    <3>3. InState(t, "sent")' # {} => hand'[t] # {}
      <4>1. CASE ends /\ hand[t] = {i}
        BY <4>1, <1>3, <1>4 DEF InState
      <4>2. CASE ~(ends /\ hand[t] = {i})
        BY <4>2, <1>3
      <4> QED BY <4>1, <4>2
    <3>4. pc[t] = "late" => awaited[t] \subseteq Entries(t) \ InState(t, "staged")
      BY DEF RecordInv, SentOf
    <3>5. InState(t, "staged")' = InState(t, "staged")
      BY <1>3, <1>6 DEF InState
    <3> QED BY <2>1, <3>1, <3>2, <3>3, <3>4, <3>5, <1>1, <1>3 DEF SentOf, Sends, Live
  <2>2. CASE pc[t] = "perform"
    <3>1. /\ hand[t] \subseteq kept[t] /\ kept[t] \subseteq InState(t, "staged")
          /\ InState(t, "sent") = {} /\ \A j \in Entries(t) \ kept[t] : Told(order[t][j])
      BY <2>2 DEF RecordInv, SentOf
    <3>2. /\ hand'[t] \subseteq hand[t] /\ InState(t, "staged")' = InState(t, "staged")
          /\ InState(t, "sent")' = {}
      BY <3>1, <1>3, <1>6 DEF InState
    <3>3. \A j \in Entries(t) \ kept[t] : s[j].state = order[t][j].state /\ s[j].did = order[t][j].did
      <4> SUFFICES ASSUME NEW j \in Entries(t) \ kept[t]
                   PROVE  s[j].state = order[t][j].state /\ s[j].did = order[t][j].did
          OBVIOUS
      <4>2. j # i
        BY <3>1
      <4>3. order[t][j].state # "sent"
        BY <3>1 DEF InState
      <4> QED BY <4>2, <4>3, <1>4
    <3>4. \A j \in Entries(t) \ kept[t] : Told(s[j])
      BY <3>1, <3>3, <1>4 DEF Told
    <3> QED BY <2>2, <3>1, <3>2, <3>4, <1>1, <1>3 DEF SentOf, Live
  <2> QED BY <1>5, <2>1, <2>2
<1>8. faults' = 0 => faults = 0 /\ RecordedOf(t)'
  <2> SUFFICES ASSUME faults' = 0 PROVE faults = 0 /\ RecordedOf(t)'
      OBVIOUS
  <2>1. d = 1 /\ l = 1 /\ faults = 0
    BY <1>2 DEF RecordInv, HandTypes
  <2>2. RecordedOf(t)
    BY <2>1 DEF RecordInv
  <2>3. \A j \in Entries(t) : s[j].landed = s[j].did
    BY <2>1, <2>2, <1>4 DEF RecordedOf
  <2>4. \A j \in Entries(t)' : order'[t][j].landed = order'[t][j].did
    BY <2>3, <1>3
  <2>5. CASE pc[t] = "after"
    <3>1. order[t][i].state = "sent"
      BY <2>5 DEF RecordInv, SentOf, InState, Live
    <3>2. \A j \in awaited[t] : j \in Entries(t) /\ j # i /\ order[t][j].state = "done" /\ Told(order[t][j])
      BY <2>2, <2>5, <3>1 DEF RecordedOf
    <3>3. \A j \in awaited[t] : s[j].state = "done" /\ Told(s[j])
      BY <3>2, <1>4 DEF Told
    <3>4. awaited' = awaited /\ pc'[t] = "after"
      BY <2>5, <1>1
    <3> QED BY <2>1, <2>4, <3>2, <3>3, <3>4, <1>3 DEF RecordedOf, Told
  <2>6. CASE pc[t] # "after"
    BY <2>1, <2>4, <2>6, <1>1, <1>5 DEF RecordedOf, Live
  <2> QED BY <2>1, <2>5, <2>6
<1>9. HandTypes'
  BY <1>1, <1>2 DEF HandTypes, RecordInv
<1> QED BY <1>1, <1>3, <1>7, <1>8, <1>9, OneTurn

LEMMA RecordsIs ==
    ASSUME StageTypes, NEW t \in Turns, NEW i \in Entries(t)
    PROVE  /\ Records(t)[i].landed = order[t][i].landed
           /\ Records(t)[i].known = IF order[t][i].state = "done" THEN order[t][i].did ELSE 0
           /\ Resolved(t)[i].landed = order[t][i].landed
           /\ Resolved(t)[i].known = IF i \in kept[t] THEN order[t][i].did ELSE order[t][i].known
<1>1. order[t][i] \in StageEntries
  BY EntriesOf
<1> QED BY <1>1 DEF Records, Resolved, StageEntries

LEMMA RowRecord ==
    ASSUME RecordInv, CapInv', NEW t \in Turns, pc[t] \in Live, hand[t] = {},
           NEW k \in SUBSET InState(t, "staged"), Row(t, k)
    PROVE  RecordInv'
<1> USE DEF SentInv, CapInv, OpeningInv
<1> DEFINE r == Records(t)
<1>1. /\ order' = [order EXCEPT ![t] = r] /\ hand' = [hand EXCEPT ![t] = k]
      /\ kept' = [kept EXCEPT ![t] = k] /\ UNCHANGED <<kind, awaited, faults>>
      /\ pc' = [pc EXCEPT ![t] = IF k = {} THEN "done" ELSE "perform"]
  BY DEF Row
<1>2. /\ DOMAIN r = Entries(t)
      /\ \A i \in Entries(t) : /\ r[i].state = order[t][i].state /\ r[i].did = order[t][i].did
                               /\ r[i].landed = order[t][i].landed
                               /\ r[i].known = IF order[t][i].state = "done" THEN order[t][i].did ELSE 0
  BY Noted, RecordsIs DEF RecordInv
<1> HIDE DEF r
<1>3. /\ order'[t] = r /\ Entries(t)' = Entries(t) /\ hand'[t] = k /\ kept'[t] = k
      /\ pc'[t] = IF k = {} THEN "done" ELSE "perform"
      /\ \A u \in Turns : u # t => /\ pc'[u] = pc[u] /\ order'[u] = order[u]
                                   /\ hand'[u] = hand[u] /\ kept'[u] = kept[u]
  BY <1>1, <1>2 DEF RecordInv, HandTypes, StageTypes, Entries
<1>4. InState(t, "sent") = {}
  BY DEF RecordInv, SentOf
<1>5. \A i \in Entries(t) : /\ order[t][i].state \in {"staged", "done"}
                            /\ order[t][i].state = "staged" => order[t][i].did = 0
  BY <1>4, EntriesOf DEF RecordInv, InHand, InState, StageEntries
<1>6. InState(t, "staged")' = InState(t, "staged") /\ InState(t, "sent")' = {}
  BY <1>2, <1>3, <1>4 DEF InState
<1>7. \A i \in Entries(t) : Told(r[i])
  BY <1>2, <1>5 DEF Told
<1>8. SentOf(t)'
  BY <1>3, <1>6, <1>7 DEF SentOf, Live
<1>9. faults' = 0 => faults = 0 /\ RecordedOf(t)'
  <2> SUFFICES ASSUME faults = 0 PROVE RecordedOf(t)'
      BY <1>1
  <2>1. \A i \in Entries(t) : r[i].landed = r[i].did
    BY <1>2 DEF RecordInv, RecordedOf
  <2> QED BY <2>1, <1>3, <1>7 DEF RecordedOf, Told
<1>10. HandTypes'
  BY <1>1, EntriesOf DEF HandTypes, RecordInv, InState
<1> QED BY <1>1, <1>3, <1>8, <1>9, <1>10, OneTurn

LEMMA EndRecord ==
    ASSUME RecordInv, CapInv', NEW t \in Turns,
           \/ ClaimFails(t) \/ Reply(t) \/ RecordFails(t) \/ Cancel(t) \/ Abort(t)
           \/ LoopEnds(t) \/ ResolveFails(t) \/ Drop(t)
    PROVE  RecordInv'
<1> USE DEF RecordInv, SentInv, CapInv, OpeningInv
<1>1. UNCHANGED <<kind, order, kept>>
  BY DEF ClaimFails, Reply, RecordFails, Cancel, Abort, LoopEnds, ResolveFails, Drop, stageVars
<1>2. /\ InState(t, "sent")' = InState(t, "sent") /\ InState(t, "staged")' = InState(t, "staged")
      /\ Entries(t)' = Entries(t)
  BY <1>1 DEF InState, Entries
<1>3. pc[t] \in Live => \A i \in InState(t, "staged") : order[t][i].did = 0
  BY DEF InHand
<1>4. \A i \in Entries(t) : order[t][i].state \in {"staged", "sent", "done"}
  BY EntriesOf DEF StageEntries
<1>5. CASE ClaimFails(t) \/ Reply(t) \/ RecordFails(t) \/ ResolveFails(t)
  <2>1. UNCHANGED <<hand, awaited>>
    BY <1>5 DEF ClaimFails, Reply, RecordFails, ResolveFails, stageVars
  <2>2. /\ \A u \in Turns : u # t => pc'[u] = pc[u]
        /\ \/ pc'[t] = pc[t]
           \/ pc[t] = "calls" /\ pc'[t] = "reply"
           \/ pc[t] = "late" /\ pc'[t] = "after"
           \/ hand[t] = {} /\ pc'[t] = "done"
    BY <1>5 DEF StageTypes, ClaimFails, Reply, RecordFails, ResolveFails, Ends,
                Replied, Calling, Performed
  <2>3. SentOf(t)'
    BY <2>1, <2>2, <1>1, <1>2 DEF SentOf, Live, Sends
  <2>4. faults' = 0 => Reply(t) /\ faults' = faults
    BY <1>5 DEF HandTypes, ClaimFails, Reply, RecordFails, ResolveFails
  <2>5. faults' = 0 => faults = 0 /\ RecordedOf(t)'
    BY <2>1, <2>4, <1>1, <1>2 DEF RecordedOf, Reply, StageTypes
  <2>6. HandTypes'
    BY <1>1, <1>5, <2>1 DEF HandTypes, ClaimFails, Reply, RecordFails, ResolveFails
  <2> QED BY <2>1, <2>2, <2>3, <2>5, <2>6, <1>1, OneTurn
<1>6. CASE Abort(t)
  <2>1. /\ UNCHANGED <<hand, faults>> /\ pc[t] = "calls" /\ pc'[t] = "late"
        /\ awaited'[t] = InState(t, "sent") \union InState(t, "done")
        /\ \A u \in Turns : u # t => pc'[u] = pc[u] /\ awaited'[u] = awaited[u]
    BY <1>6 DEF Abort, StageTypes, HandTypes
  <2>2. SentOf(t)'
    BY <2>1, <1>1, <1>2 DEF SentOf, Live, Sends, InState
  <2>3. faults' = 0 => faults = 0 /\ RecordedOf(t)'
    BY <2>1, <1>1, <1>2 DEF RecordedOf
  <2>4. HandTypes'
    BY <1>1, <1>6, EntriesOf DEF HandTypes, Abort, InState
  <2> QED BY <2>1, <2>2, <2>3, <2>4, <1>1, OneTurn
<1>7. CASE Cancel(t) \/ LoopEnds(t)
  <2>1. /\ UNCHANGED <<hand, awaited, faults>> /\ pc'[t] = "done"
        /\ \A u \in Turns : u # t => pc'[u] = pc[u]
    BY <1>7 DEF StageTypes, Cancel, LoopEnds, Ends, stageVars
  <2>2. \/ pc[t] \in Live /\ ~Sends(t)
        \/ pc[t] = "after" /\ hand[t] = {}
    BY <1>7 DEF Cancel, LoopEnds, Replied, Calling, Live
  <2>3. hand[t] = {}
    BY <2>2 DEF SentOf, InState
  <2>4. SentOf(t)'
    BY <2>1, <2>3 DEF SentOf, Live
  <2>5. faults' = 0 => faults = 0 /\ RecordedOf(t)'
    <3> SUFFICES ASSUME faults = 0 PROVE RecordedOf(t)'
        BY <2>1
    <3>1. RecordedOf(t)
      OBVIOUS
    <3>2. CASE pc[t] \in Live /\ ~Sends(t)
      <4>1. \A i \in Entries(t) : order[t][i].did = 0
        BY <3>2, <1>3 DEF SentOf
      <4> QED BY <3>1, <4>1, <2>1, <1>1, <1>2 DEF RecordedOf
    <3>3. CASE pc[t] = "after"
      BY <3>1, <3>3, <2>1, <1>1, <1>2 DEF RecordedOf, Told
    <3> QED BY <2>2, <3>2, <3>3
  <2>6. HandTypes'
    BY <1>1, <2>1 DEF HandTypes
  <2> QED BY <2>1, <2>4, <2>5, <2>6, <1>1, OneTurn
<1>8. CASE Drop(t)
  <2>1. /\ UNCHANGED <<awaited, faults>> /\ pc'[t] = "done" /\ hand'[t] = {}
        /\ \A u \in Turns : u # t => pc'[u] = pc[u] /\ hand'[u] = hand[u]
        /\ pc[t] = "perform" /\ \A i \in kept[t] : order[t][i].did = 0
    BY <1>8 DEF StageTypes, Drop, Ends, Waits
  <2>2. SentOf(t)'
    BY <2>1 DEF SentOf, Live
  <2>3. \A i \in Entries(t) : order[t][i].did = 0 \/ order[t][i].known = order[t][i].did
    BY <2>1 DEF SentOf, Told
  <2>4. faults' = 0 => faults = 0 /\ RecordedOf(t)'
    BY <2>1, <2>3, <1>1, <1>2 DEF RecordedOf
  <2>5. HandTypes'
    BY <1>1, <2>1 DEF HandTypes
  <2> QED BY <2>1, <2>2, <2>4, <2>5, <1>1, OneTurn
<1> QED BY <1>5, <1>6, <1>7, <1>8

LEMMA RecordAbortedRecord ==
    ASSUME RecordInv, CapInv', NEW t \in Turns, RecordAborted(t) PROVE RecordInv'
<1> USE DEF RecordInv, SentInv, CapInv, OpeningInv
<1>1. /\ pc[t] = "late" /\ pc'[t] = "after" /\ Settled(t)
      /\ UNCHANGED <<kind, hand, kept, awaited, faults>>
      /\ \A u \in Turns : u # t => pc'[u] = pc[u]
  BY DEF RecordAborted, StageTypes
<1>2. \A i \in awaited[t] : i \in Entries(t) /\ order[t][i].state = "done"
  BY <1>1 DEF Settled, InState
<1>3. HandTypes'
  BY <1>1 DEF HandTypes
<1>4. CASE SentActs(t) # {}
  <2> DEFINE r == Records(t)
  <2>1. order' = [order EXCEPT ![t] = r]
    BY <1>4 DEF RecordAborted
  <2>2. /\ DOMAIN r = Entries(t)
        /\ \A i \in Entries(t) :
              /\ r[i].state = order[t][i].state /\ r[i].did = order[t][i].did
              /\ r[i].landed = order[t][i].landed
              /\ r[i].known = IF order[t][i].state = "done" THEN order[t][i].did ELSE 0
    BY Noted, RecordsIs
  <2> HIDE DEF r
  <2>3. /\ order'[t] = r /\ Entries(t)' = Entries(t)
        /\ \A u \in Turns : u # t => order'[u] = order[u]
    BY <2>1, <2>2 DEF StageTypes, Entries
  <2>4. InState(t, "sent")' = InState(t, "sent") /\ InState(t, "staged")' = InState(t, "staged")
    BY <2>2, <2>3 DEF InState
  <2>5. SentOf(t)'
    BY <1>1, <2>3, <2>4 DEF SentOf, Live, Sends
  <2>6. faults' = 0 => faults = 0 /\ RecordedOf(t)'
    <3> SUFFICES ASSUME faults = 0 PROVE RecordedOf(t)'
        BY <1>1
    <3>1. \A i \in Entries(t) : r[i].landed = r[i].did
      BY <2>2 DEF RecordedOf
    <3>2. \A i \in awaited[t] : r[i].state = "done" /\ Told(r[i])
      BY <1>2, <2>2 DEF Told
    <3> QED BY <3>1, <3>2, <1>1, <1>2, <2>3 DEF RecordedOf
  <2> QED BY <1>1, <1>3, <2>3, <2>5, <2>6, OneTurn
<1>5. CASE SentActs(t) = {}
  <2>1. order' = order
    BY <1>5 DEF RecordAborted
  <2>2. awaited[t] = {}
    BY <1>2, <1>5 DEF SentActs, InState
  <2>3. SentOf(t)'
    BY <1>1, <2>1 DEF SentOf, Live, Sends, InState, Entries
  <2>4. faults' = 0 => faults = 0 /\ RecordedOf(t)'
    BY <1>1, <2>1, <2>2 DEF RecordedOf, Entries
  <2> QED BY <1>1, <1>3, <2>1, <2>3, <2>4, OneTurn
<1> QED BY <1>4, <1>5

LEMMA ResolveRecord ==
    ASSUME RecordInv, CapInv', NEW t \in Turns, Resolve(t) PROVE RecordInv'
<1> USE DEF RecordInv, SentInv, CapInv, OpeningInv
<1> DEFINE r == Resolved(t)
<1>1. /\ pc[t] = "perform" /\ hand[t] = {} /\ pc'[t] = "done"
      /\ order' = [order EXCEPT ![t] = r]
      /\ UNCHANGED <<kind, hand, kept, awaited, faults>>
      /\ \A u \in Turns : u # t => pc'[u] = pc[u]
  BY DEF Resolve, Ends, Performed, StageTypes
<1>2. /\ DOMAIN r = Entries(t)
      /\ \A i \in Entries(t) :
            /\ r[i].did = order[t][i].did /\ r[i].landed = order[t][i].landed
            /\ r[i].known = IF i \in kept[t] THEN order[t][i].did ELSE order[t][i].known
  BY Noted, RecordsIs
<1> HIDE DEF r
<1>3. /\ order'[t] = r /\ Entries(t)' = Entries(t)
      /\ \A u \in Turns : u # t => order'[u] = order[u]
  BY <1>1, <1>2 DEF StageTypes, Entries
<1>4. SentOf(t)'
  BY <1>1 DEF SentOf, Live
<1>5. \A i \in Entries(t) : r[i].did = 0 \/ r[i].known = r[i].did
  BY <1>1, <1>2 DEF SentOf, Told
<1>6. faults' = 0 => faults = 0 /\ RecordedOf(t)'
  BY <1>1, <1>2, <1>3, <1>5 DEF RecordedOf
<1>7. HandTypes'
  BY <1>1 DEF HandTypes
<1> QED BY <1>1, <1>3, <1>4, <1>6, <1>7, OneTurn

LEMMA CrashRecord == ASSUME RecordInv, CapInv', Crash PROVE RecordInv'
<1> USE DEF RecordInv, SentInv, CapInv, OpeningInv
<1>1. faults' # 0 /\ faults' \in Nat /\ UNCHANGED <<kind, order, kept, awaited>>
  BY DEF Crash, HandTypes
<1>2. PICK cut \in SUBSET Turns :
        /\ pc' = [t \in Turns |-> IF t \in cut THEN "done" ELSE pc[t]]
        /\ hand' = [t \in Turns |-> IF t \in cut THEN {} ELSE hand[t]]
  BY DEF Crash
<1>3. \A t \in Turns : SentOf(t)'
  <2> SUFFICES ASSUME NEW t \in Turns PROVE SentOf(t)'
      OBVIOUS
  <2>1. CASE t \in cut
    <3>1. pc'[t] = "done" /\ hand'[t] = {}
      BY <1>2, <2>1
    <3> QED BY <3>1 DEF SentOf, Live
  <2>2. CASE t \notin cut
    BY <1>1, <1>2, <2>2 DEF SentOf, Sends, InState, Entries
  <2> QED BY <2>1, <2>2
<1>4. HandTypes'
  BY <1>1 DEF HandTypes
<1> QED BY <1>1, <1>3, <1>4

LEMMA NextRecord == RecordInv /\ [Next]_vars => RecordInv'
<1> SUFFICES ASSUME RecordInv, [Next]_vars PROVE RecordInv'
    OBVIOUS
<1>1. CapInv'
  BY NextActions DEF RecordInv, SentInv
<1>2. CASE UNCHANGED vars
  BY <1>1, <1>2 DEF vars, stageVars, RecordInv, SentInv, HandTypes, SentOf, RecordedOf,
                    Sends, InState, Entries
<1>3. ASSUME NEW t \in Turns, Turn(t) PROVE RecordInv'
  <2>1. ASSUME NEW k \in Kinds, Start(t, k) PROVE RecordInv'
    BY <1>1, <2>1, StartRecord
  <2>2. CASE Call(t)
    BY <1>1, <2>2, CallRecord
  <2>3. CASE SendNow(t)
    BY <1>1, <2>3, SendNowRecord
  <2>4. CASE Request(t)
    BY <1>1, <2>4, RequestRecord
  <2>5. ASSUME Settle(t) \/ Supersede(t) \/ (\E keeps \in BOOLEAN : Escalate(t, keeps))
        PROVE  RecordInv'
    <3>1. pc[t] \in Live /\ hand[t] = {}
      BY <2>5 DEF Settle, Supersede, Escalate, Replied, Calling, Live
    <3>2. PICK k \in SUBSET InState(t, "staged") : Row(t, k)
      BY <2>5 DEF Settle, Supersede, Escalate
    <3> QED BY <1>1, <3>1, <3>2, RowRecord
  <2>6. CASE RecordAborted(t)
    BY <1>1, <2>6, RecordAbortedRecord
  <2>7. CASE Resolve(t)
    BY <1>1, <2>7, ResolveRecord
  <2>8. CASE \/ ClaimFails(t) \/ Reply(t) \/ RecordFails(t) \/ Cancel(t) \/ Abort(t)
             \/ LoopEnds(t) \/ ResolveFails(t) \/ Drop(t)
    BY <1>1, <2>8, EndRecord
  <2> QED BY <1>3, <2>1, <2>2, <2>3, <2>4, <2>5, <2>6, <2>7, <2>8 DEF Turn
<1>4. CASE Crash
  BY <1>1, <1>4, CrashRecord
<1> QED BY <1>2, <1>3, <1>4 DEF Next

LEMMA RecordInvariant == Spec => []RecordInv
BY InitRecord, NextRecord, PTL DEF Spec

\* Without a failure the row of a turn has what reached the contact of every action it
\* waited for: those its loop sent, those in flight when the model's call was aborted, and
\* those it performed after its text (stage.records and stage.settled in stage.ts,
\* recordAgentReply in recorder.ts, resolveStaged in store.ts).
THEOREM RowTellsWhatWasSent == Spec => []RecordedIsSent
<1>1. RecordInv => RecordedIsSent
  <2> SUFFICES ASSUME RecordInv, faults = 0, NEW t \in Turns, NEW i \in MissedOf(t), i \in awaited[t]
               PROVE  FALSE
      BY DEF RecordedIsSent
  <2>1. /\ SentOf(t) /\ RecordedOf(t) /\ i \in Entries(t)
        /\ order[t][i].landed > 0 /\ order[t][i].landed > order[t][i].known
        /\ \/ pc[t] \in {"after", "done"}
           \/ pc[t] = "perform" /\ order[t][i].state = "done"
    BY DEF RecordInv, SentInv, MissedOf
  <2>2. order[t][i].landed = order[t][i].did /\ order[t][i].did \in Nat
    BY <2>1, EntriesOf DEF RecordedOf, StageEntries, RecordInv, SentInv, CapInv, OpeningInv
  <2>3. order[t][i].known # order[t][i].did /\ order[t][i].did # 0
    BY <2>1, <2>2
  <2>4. pc[t] = "perform" => i \notin kept[t]
    BY <2>1 DEF SentOf, InState
  <2> QED BY <2>1, <2>3, <2>4 DEF SentOf, RecordedOf, Told
<1> QED BY <1>1, RecordInvariant, PTL

-----------------------------------------------------------------------------
\* What the rows say against what reached the contact.

Writes(a, n) == (a = Link /\ n > 1) \/ (a[1] = "set_field" /\ n > 0)
WroteAt(t, i) == i \in Entries(t) /\ Writes(order[t][i].act, order[t][i].landed)

\* A row knows no more than was answered, and no more was answered than landed; only a
\* late answer lets more land than is answered, and it ends the chain.
LandOf(t) ==
    /\ \A i \in Entries(t) : /\ order[t][i].known <= order[t][i].did
                             /\ order[t][i].did <= order[t][i].landed
                             /\ order[t][i].known >= 0 => \E k \in DOMAIN rows : rows[k] = t
    /\ \A i \in hand[t] : order[t][i].landed = order[t][i].did
    /\ pc[t] \in Live => \A i \in InState(t, "staged") : order[t][i].landed = 0
    /\ pc[t] = "perform" => \E k \in DOMAIN rows : rows[k] = t

\* The stage writes of a turn land in the order of its stage: what is in hand is behind
\* what landed, and what is staged behind both.
IsWrite(t, i) == order[t][i].act[1] = "set_field"
IsWriter(t, i) == order[t][i].act = Link \/ IsWrite(t, i)
OrderOf(t) ==
    /\ \A i \in hand[t], j \in Entries(t) : IsWriter(t, i) /\ WroteAt(t, j) => j <= i
    /\ pc[t] \in Live =>
          \A i \in InState(t, "staged") :
             /\ order[t][i].act = Link => ~Sends(t)
             /\ IsWrite(t, i) => /\ \A j \in Entries(t) : WroteAt(t, j) => j < i
                                 /\ \A j \in hand[t] : IsWriter(t, j) => j < i

RowsOf == \A k \in DOMAIN rows : pc[rows[k]] \in {"perform", "after", "done"}
GotIs ==
    \A f \in Flows : got[f] > 0 <=>
        \E t \in Turns : \E i \in Entries(t) : order[t][i].act = SendFlowOf(f) /\ order[t][i].landed > 0
InTurn == \A t, u \in Turns : t < u /\ pc[u] # "idle" => pc[t] # "idle"

\* The contact's stage is that of a write which is the last of its turn, and which no turn
\* has written behind unless it began beside it.
FieldIs(t, i) ==
    /\ WroteAt(t, i) /\ field = Wrote(order[t][i].act, order[t][i].landed)
    /\ \A u \in Turns : \A j \in Entries(u) :
          WroteAt(u, j) => (u = t => j <= i) /\ (t < u => t \in beside[u])

\* An earlier turn that a turn did not find under way is done, and has its row, if any,
\* before that turn's.
InSequence ==
    /\ \A t, u \in Turns : t < u /\ pc[u] # "idle" /\ t \notin beside[u] => pc[t] = "done"
    /\ \A k, l \in DOMAIN rows : rows[k] = rows[l] => k = l
    /\ \A k, l \in DOMAIN rows : rows[k] < rows[l] /\ rows[k] \notin beside[rows[l]] => k < l
    /\ \/ field = NoStage /\ \A t \in Turns : \A i \in Entries(t) : ~WroteAt(t, i)
       \/ \E t \in Turns : \E i \in Entries(t) : FieldIs(t, i)

RowTypes == rows \in Seq(Turns) /\ DOMAIN beside = Turns
LandInv == /\ SentInv /\ RowTypes /\ RowsOf /\ GotIs /\ InTurn
           /\ \A t \in Turns : LandOf(t) /\ OrderOf(t)
           /\ InSequence

\* The requests of a chain: the action, for the link its stage write, and events.
LEMMA ChainSteps ==
    ASSUME NEW t \in Turns, NEW a \in Actions, NEW n \in 1..Len(Chain(t, a))
    PROVE  /\ n = 1 => Chain(t, a)[n] = a
           /\ n = 2 /\ a = Link => Chain(t, a)[n] = SetStage(LinkSent)
           /\ n > 1 /\ ~(n = 2 /\ a = Link) => Chain(t, a)[n][1] = "send_event"
<1> DEFINE Events == {Event(v) : v \in EventStages}
<1>1. \A v : FollowedBy(t, v) \in Seq(Events)
  <2>1. \A w \in EventStages : <<Event(w)>> \in Seq(Events)
    <3> SUFFICES ASSUME NEW w \in EventStages PROVE <<Event(w)>> \in Seq(Events)
        OBVIOUS
    <3>1. Event(w) \in Events
      OBVIOUS
    <3> HIDE DEF Events
    <3> QED BY <3>1
  <2>2. <<>> \in Seq(Events)
    OBVIOUS
  <2> HIDE DEF Events
  <2> QED BY <2>1, <2>2 DEF FollowedBy
<1>2. \A e \in Events : e[1] = "send_event"
  BY DEF Event
<1> HIDE DEF Events
<1>3. \A v : Len(FollowedBy(t, v)) \in Nat
             /\ \A k \in 1..Len(FollowedBy(t, v)) : FollowedBy(t, v)[k][1] = "send_event"
  BY <1>1, <1>2, ElementOfSeq, LenProperties
<1>4. CASE a = Link
  <2> DEFINE F == FollowedBy(t, LinkSent)
             R == <<SetStage(LinkSent)>> \o F
  <2>1. Chain(t, a) = <<a>> \o R
    BY <1>4 DEF Chain
  <2> DEFINE S == {a, SetStage(LinkSent)} \union Events
  <2>2. <<a>> \in Seq(S) /\ <<SetStage(LinkSent)>> \in Seq(S) /\ F \in Seq(S)
    BY <1>1, SeqMonotonic
  <2> HIDE DEF F, S
  <2>3. /\ R \in Seq(S) /\ Len(R) = 1 + Len(F) /\ Len(F) \in Nat
        /\ \A k \in 1..(1 + Len(F)) : R[k] = IF k <= 1 THEN <<SetStage(LinkSent)>>[k] ELSE F[k - 1]
    BY <2>2, ConcatProperties, LenProperties
  <2> HIDE DEF R
  <2>4. /\ Len(<<a>> \o R) = 1 + Len(R)
        /\ \A k \in 1..(1 + Len(R)) : (<<a>> \o R)[k] = IF k <= 1 THEN <<a>>[k] ELSE R[k - 1]
    BY <2>2, <2>3, ConcatProperties
  <2>5. n \in 1..(1 + Len(R)) /\ n \in Int
    BY <2>1, <2>4
  <2>6. n = 1 => Chain(t, a)[n] = a
    BY <2>1, <2>4, <2>5
  <2>7. n = 2 => Chain(t, a)[n] = SetStage(LinkSent)
    BY <2>1, <2>3, <2>4, <2>5
  <2>8. n > 2 => Chain(t, a)[n] = F[n - 2] /\ n - 2 \in 1..Len(F)
    <3> SUFFICES ASSUME n > 2 PROVE Chain(t, a)[n] = F[n - 2] /\ n - 2 \in 1..Len(F)
        OBVIOUS
    <3>1. Chain(t, a)[n] = R[n - 1] /\ n - 1 \in 1..(1 + Len(F)) /\ ~(n - 1 <= 1)
      BY <2>1, <2>3, <2>4, <2>5
    <3>2. R[n - 1] = F[(n - 1) - 1]
      BY <3>1, <2>3
    <3> QED BY <3>1, <3>2, <2>3
  <2> QED BY <1>3, <1>4, <2>5, <2>6, <2>7, <2>8 DEF F
<1>5. CASE a # Link
  <2> DEFINE R == IF a[1] = "set_field" THEN FollowedBy(t, a[2]) ELSE <<>>
             S == {a} \union Events
  <2>1. Chain(t, a) = <<a>> \o R
    BY <1>5 DEF Chain
  <2>2. <<a>> \in Seq(S) /\ R \in Seq(Events) /\ R \in Seq(S)
    <3>1. <<>> \in Seq(Events)
      OBVIOUS
    <3>2. R \in Seq(Events)
      BY <1>1, <3>1
    <3> HIDE DEF R
    <3> QED BY <3>2, SeqMonotonic
  <2> HIDE DEF R, S
  <2>3. /\ Len(<<a>> \o R) = 1 + Len(R) /\ Len(R) \in Nat
        /\ \A k \in 1..(1 + Len(R)) : (<<a>> \o R)[k] = IF k <= 1 THEN <<a>>[k] ELSE R[k - 1]
    BY <2>2, ConcatProperties, LenProperties
  <2>4. n \in 1..(1 + Len(R)) /\ n \in Int
    BY <2>1, <2>3
  <2>5. n = 1 => Chain(t, a)[n] = a
    BY <2>1, <2>3, <2>4
  <2>6. n > 1 => Chain(t, a)[n][1] = "send_event"
    <3> SUFFICES ASSUME n > 1 PROVE Chain(t, a)[n][1] = "send_event"
        OBVIOUS
    <3>1. Chain(t, a)[n] = R[n - 1] /\ n - 1 \in 1..Len(R)
      BY <2>1, <2>3, <2>4
    <3> QED BY <3>1, <2>2, <1>2, ElementOfSeq
  <2> QED BY <1>5, <2>5, <2>6
<1> QED BY <1>4, <1>5

\* The stage write among the first n requests.
LEMMA WroteIs ==
    ASSUME NEW a \in Actions, NEW n \in Int
    PROVE  /\ Writes(a, n) <=> Wrote(a, n) # NoStage
           /\ a[1] = "set_field" => a # Link /\ a[2] \in Values
           /\ a = Link => Wrote(a, n) = IF n > 1 THEN LinkSent ELSE NoStage
           /\ a # Link => Wrote(a, n) = IF a[1] = "set_field" /\ n > 0 THEN a[2] ELSE NoStage
<1>1. a[1] = "set_field" => a # Link /\ a[2] \in Values
  BY DEF Actions, SendFlowOf, SetStage, Intent, Note, Link
<1>2. a = Link => a[1] # "set_field"
  BY DEF Link, SendFlowOf
<1>3. LinkSent # NoStage /\ \A v \in Values : v # NoStage
  BY ActionsAssumption DEF NoStage
<1>4. a = Link => Wrote(a, n) = IF n > 1 THEN LinkSent ELSE NoStage
  BY <1>2 DEF Wrote
<1>5. a # Link => Wrote(a, n) = IF a[1] = "set_field" /\ n > 0 THEN a[2] ELSE NoStage
  BY DEF Wrote
<1> QED BY <1>1, <1>2, <1>3, <1>4, <1>5 DEF Writes

\* A step of one turn that lands nothing.
LEMMA NothingLands ==
    ASSUME LandInv, SentInv', RowTypes', NEW t \in Turns,
           UNCHANGED <<field, got, beside>>,
           \A u \in Turns : u # t => /\ pc'[u] = pc[u] /\ kind'[u] = kind[u]
                                     /\ order'[u] = order[u] /\ hand'[u] = hand[u],
           Entries(t) \subseteq Entries(t)',
           \A i \in Entries(t) : /\ order'[t][i].act = order[t][i].act
                                 /\ order'[t][i].landed = order[t][i].landed,
           \A i \in Entries(t)' \ Entries(t) : order'[t][i].landed = 0,
           pc[t] \notin {"idle", "done"}, pc'[t] # "idle",
           \/ rows' = rows /\ (pc[t] \in {"perform", "after"} => pc'[t] \in {"perform", "after", "done"})
           \/ /\ rows' = Append(rows, t) /\ pc[t] \in {"calls", "reply", "late"}
              /\ pc'[t] \in {"perform", "after", "done"},
           LandOf(t)', OrderOf(t)'
    PROVE  LandInv'
<1> USE DEF LandInv
<1>1. /\ \A k \in DOMAIN rows : k \in DOMAIN rows' /\ rows'[k] = rows[k] /\ rows[k] \in Turns
      /\ \A k \in (DOMAIN rows') \ DOMAIN rows :
            /\ rows'[k] = t /\ pc[t] \in {"calls", "reply", "late"}
            /\ pc'[t] \in {"perform", "after", "done"}
            /\ \A l \in DOMAIN rows : l < k
            /\ \A l \in (DOMAIN rows') \ DOMAIN rows : l = k
      /\ DOMAIN rows \subseteq Nat /\ DOMAIN rows' \subseteq Nat
  <2>1. rows \in Seq(Turns) /\ Len(rows) \in Nat /\ DOMAIN rows = 1..Len(rows)
        /\ \A k \in 1..Len(rows) : rows[k] \in Turns
    BY LenProperties, ElementOfSeq DEF RowTypes
  <2>2. DOMAIN rows \subseteq Nat /\ \A k \in DOMAIN rows : rows[k] \in Turns
    BY <2>1
  <2>3. CASE rows' = rows
    <3>1. (DOMAIN rows') \ DOMAIN rows = {}
      BY <2>3
    <3> QED BY <2>2, <2>3, <3>1
  <2>4. CASE /\ rows' = Append(rows, t) /\ pc[t] \in {"calls", "reply", "late"}
             /\ pc'[t] \in {"perform", "after", "done"}
    <3>1. /\ DOMAIN Append(rows, t) = 1..(Len(rows) + 1) /\ Append(rows, t)[Len(rows) + 1] = t
          /\ \A k \in DOMAIN rows : Append(rows, t)[k] = rows[k]
      BY <2>1, Added
    <3>2. /\ DOMAIN rows' = 1..(Len(rows) + 1) /\ rows'[Len(rows) + 1] = t
          /\ \A k \in DOMAIN rows : rows'[k] = rows[k]
      BY <2>4, <3>1
    <3>3. (DOMAIN rows') \ DOMAIN rows = {Len(rows) + 1} /\ DOMAIN rows' \subseteq Nat
          /\ DOMAIN rows \subseteq DOMAIN rows' /\ \A l \in DOMAIN rows : l < Len(rows) + 1
      BY <2>1, <3>2
    <3> QED BY <2>2, <2>4, <3>2, <3>3
  <2> QED BY <2>3, <2>4
<1>2. RowsOf'
  <2> SUFFICES ASSUME NEW k \in DOMAIN rows' PROVE pc'[rows'[k]] \in {"perform", "after", "done"}
      BY DEF RowsOf
  <2>1. CASE k \notin DOMAIN rows
    BY <2>1, <1>1
  <2>2. CASE k \in DOMAIN rows
    <3>1. rows'[k] = rows[k] /\ rows[k] \in Turns /\ pc[rows[k]] \in {"perform", "after", "done"}
      BY <2>2, <1>1 DEF RowsOf
    <3>2. CASE rows[k] = t
      BY <3>1, <3>2
    <3>3. CASE rows[k] # t
      BY <3>1, <3>3
    <3> QED BY <3>1, <3>2, <3>3
  <2> QED BY <2>1, <2>2
<1>3. \A u \in Turns : \A i \in Entries(u) :
         i \in Entries(u)' /\ order'[u][i].act = order[u][i].act /\ order'[u][i].landed = order[u][i].landed
  BY DEF Entries
<1>4. \A u \in Turns : \A i \in Entries(u)' : i \in Entries(u) \/ (u = t /\ order'[t][i].landed = 0)
  BY DEF Entries
<1>5. GotIs'
  BY <1>3, <1>4 DEF GotIs
<1>6. InTurn'
  BY DEF InTurn
<1>7. \A u \in Turns : \A i : WroteAt(u, i)' <=> WroteAt(u, i)
  <2>1. \A a : ~Writes(a, 0)
    BY DEF Writes
  <2> QED BY <1>3, <1>4, <2>1 DEF WroteAt
<1>8. \A u \in Turns : LandOf(u)' /\ OrderOf(u)'
  <2> SUFFICES ASSUME NEW u \in Turns, u # t PROVE LandOf(u)' /\ OrderOf(u)'
      OBVIOUS
  <2>1. LandOf(u) /\ OrderOf(u) /\ Entries(u)' = Entries(u) /\ InState(u, "staged")' = InState(u, "staged")
    BY DEF Entries, InState
  <2>2. LandOf(u)'
    BY <2>1, <1>1 DEF LandOf
  <2>3. OrderOf(u)'
    BY <2>1, <1>7 DEF OrderOf, IsWriter, IsWrite, Sends
  <2> QED BY <2>2, <2>3
<1>9. InSequence'
  <2>2. InSequence
    OBVIOUS
  <2>3. \A u, v \in Turns : u < v /\ pc'[v] # "idle" /\ u \notin beside'[v] => pc'[u] = "done"
    <3>1. \A v \in Turns : pc'[v] # "idle" <=> pc[v] # "idle"
      OBVIOUS
    <3> QED BY <2>2, <3>1 DEF InSequence
  <2>4. \A k, l \in DOMAIN rows' : /\ rows'[k] = rows'[l] => k = l
                                   /\ rows'[k] < rows'[l] /\ rows'[k] \notin beside'[rows'[l]] => k < l
    <3> SUFFICES ASSUME NEW k \in DOMAIN rows', NEW l \in DOMAIN rows'
                 PROVE  /\ rows'[k] = rows'[l] => k = l
                        /\ rows'[k] < rows'[l] /\ rows'[k] \notin beside'[rows'[l]] => k < l
        OBVIOUS
    <3>1. CASE l \in DOMAIN rows /\ k \in DOMAIN rows
      BY <3>1, <1>1, <2>2 DEF InSequence
    <3>2. ASSUME NEW j \in DOMAIN rows, pc[t] \in {"calls", "reply", "late"}
          PROVE  /\ rows[j] \in Turns /\ rows[j] # t
                 /\ t < rows[j] => t \in beside[rows[j]]
      <4>1. rows[j] \in Turns /\ pc[rows[j]] \in {"perform", "after", "done"}
        BY <1>1 DEF RowsOf
      <4>2. rows[j] # t /\ pc[rows[j]] # "idle" /\ pc[t] # "done"
        BY <3>2, <4>1
      <4> QED BY <4>1, <4>2, <2>2 DEF InSequence
    <3>3. CASE l \notin DOMAIN rows /\ k \in DOMAIN rows
      BY <3>2, <3>3, <1>1
    <3>4. CASE k \notin DOMAIN rows /\ l \in DOMAIN rows
      BY <3>2, <3>4, <1>1
    <3>5. CASE k \notin DOMAIN rows /\ l \notin DOMAIN rows
      <4>1. k = l /\ rows'[k] = t /\ rows'[l] = t
        BY <3>5, <1>1
      <4> QED BY <4>1, ActionsAssumption DEF Turns
    <3> QED BY <3>1, <3>3, <3>4, <3>5
  <2>5. \/ field' = NoStage /\ \A u \in Turns : \A i \in Entries(u)' : ~WroteAt(u, i)'
        \/ \E u \in Turns : \E i \in Entries(u)' : FieldIs(u, i)'
    <3>1. CASE field = NoStage /\ \A u \in Turns : \A i \in Entries(u) : ~WroteAt(u, i)
      BY <3>1, <1>7 DEF WroteAt
    <3>2. ASSUME NEW u \in Turns, NEW i \in Entries(u), FieldIs(u, i)
          PROVE  i \in Entries(u)' /\ FieldIs(u, i)'
      <4>1. i \in Entries(u)' /\ order'[u][i].act = order[u][i].act /\ order'[u][i].landed = order[u][i].landed
        BY <1>3
      <4>2. \A v \in Turns : \A j \in Entries(v)' : WroteAt(v, j)' => j \in Entries(v) /\ WroteAt(v, j)
        BY <1>7 DEF WroteAt
      <4> QED BY <3>2, <4>1, <4>2, <1>7 DEF FieldIs
    <3> QED BY <2>2, <3>1, <3>2 DEF InSequence
  <2> QED BY <2>3, <2>4, <2>5 DEF InSequence
<1> QED BY <1>2, <1>5, <1>6, <1>8, <1>9

LEMMA InitLand == Init => LandInv
<1> SUFFICES ASSUME Init PROVE LandInv
    OBVIOUS
<1>1. SentInv
  BY InitRecord DEF RecordInv
<1>2. /\ \A t \in Turns : Entries(t) = {} /\ pc[t] = "idle" /\ hand[t] = {}
      /\ rows = <<>> /\ field = NoStage /\ \A f \in Flows : got[f] = 0
  BY DEF Init, Entries
<1>3. RowTypes
  BY <1>2 DEF RowTypes, Init
<1>4. \A k \in DOMAIN rows : FALSE
  BY <1>2
<1>5. RowsOf /\ GotIs /\ InTurn /\ InSequence
  BY <1>2, <1>4 DEF RowsOf, GotIs, InTurn, InSequence
<1>6. \A t \in Turns : LandOf(t) /\ OrderOf(t)
  BY <1>2 DEF LandOf, OrderOf, Live
<1> QED BY <1>1, <1>3, <1>5, <1>6 DEF LandInv

\* A turn that starts comes after every turn that is done, and beside the others.
LEMMA StartLand ==
    ASSUME LandInv, SentInv', NEW t \in Turns, NEW k \in Kinds, Start(t, k) PROVE LandInv'
<1> USE DEF LandInv
<1>1. /\ pc[t] = "idle" /\ (t > 1 => pc[t - 1] # "idle") /\ pc'[t] = "calls"
      /\ beside'[t] = {u \in Turns : ~Over(u)}
      /\ UNCHANGED <<order, hand, rows, field, got>>
      /\ \A u \in Turns : u # t => pc'[u] = pc[u] /\ kind'[u] = kind[u] /\ beside'[u] = beside[u]
  BY DEF Start, SentInv, CapInv, OpeningInv, StageTypes, RowTypes, stageVars, manychat
<1>2. Entries(t) = {} /\ hand[t] = {}
  BY <1>1 DEF SentInv, CapInv, OpeningInv, SendersOnly
<1>3. RowTypes'
  BY <1>1 DEF RowTypes, Start
<1>4. \A u \in Turns : Entries(u)' = Entries(u) /\ InState(u, "staged")' = InState(u, "staged")
  BY <1>1 DEF Entries, InState
<1>5. \A u \in Turns : \A i : WroteAt(u, i)' <=> WroteAt(u, i)
  BY <1>1, <1>4 DEF WroteAt
<1>6. RowsOf' /\ GotIs'
  <2>1. \A j \in DOMAIN rows : rows[j] \in Turns /\ rows[j] # t
    BY <1>1, LenProperties, ElementOfSeq DEF RowsOf, RowTypes
  <2>2. RowsOf'
    BY <1>1, <2>1 DEF RowsOf
  <2>3. GotIs'
    BY <1>1, <1>4 DEF GotIs
  <2> QED BY <2>2, <2>3
<1>7. \A u \in Turns : u < t => pc[u] # "idle"
  <2> SUFFICES ASSUME NEW u \in Turns, u < t PROVE pc[u] # "idle"
      OBVIOUS
  <2>1. t - 1 \in Turns /\ pc[t - 1] # "idle" /\ u \in Int /\ t \in Int /\ (u = t - 1 \/ u < t - 1)
    BY <1>1, ActionsAssumption DEF Turns
  <2> QED BY <2>1 DEF InTurn
<1>8. \A u \in Turns : t < u => pc[u] = "idle"
  BY <1>1 DEF InTurn
<1>9. InTurn'
  BY <1>1, <1>7 DEF InTurn
<1>10. \A u \in Turns : LandOf(u)' /\ OrderOf(u)'
  <2> SUFFICES ASSUME NEW u \in Turns PROVE LandOf(u)' /\ OrderOf(u)'
      OBVIOUS
  <2>1. CASE u = t
    BY <2>1, <1>1, <1>2, <1>4 DEF LandOf, OrderOf, InState
  <2>2. CASE u # t
    BY <2>2, <1>1, <1>4, <1>5 DEF LandOf, OrderOf, IsWriter, IsWrite, Sends
  <2> QED BY <2>1, <2>2
<1>11. InSequence'
  <2>1. InSequence
    OBVIOUS
  <2>2. \A u, v \in Turns : u < v /\ pc'[v] # "idle" /\ u \notin beside'[v] => pc'[u] = "done"
    <3> SUFFICES ASSUME NEW u \in Turns, NEW v \in Turns, u < v, pc'[v] # "idle", u \notin beside'[v]
                 PROVE  pc'[u] = "done"
        OBVIOUS
    <3>1. CASE v = t
      <4>1. u # t
        BY <3>1, ActionsAssumption DEF Turns
      <4> QED BY <3>1, <4>1, <1>1, <1>7 DEF Over
    <3>2. CASE v # t
      <4>1. u # t
        BY <3>2, <1>1, <1>8
      <4> QED BY <3>2, <4>1, <1>1, <2>1 DEF InSequence
    <3> QED BY <3>1, <3>2
  <2>3. \A m, l \in DOMAIN rows : /\ rows[m] = rows[l] => m = l
                                  /\ rows[m] < rows[l] /\ rows[m] \notin beside'[rows[l]] => m < l
    <3>1. \A j \in DOMAIN rows : rows[j] \in Turns /\ rows[j] # t
      BY <1>1, LenProperties, ElementOfSeq DEF RowsOf, RowTypes
    <3>2. \A j \in DOMAIN rows : beside'[rows[j]] = beside[rows[j]]
      BY <3>1, <1>1
    <3> QED BY <3>2, <2>1 DEF InSequence
  <2>4. ASSUME NEW u \in Turns, NEW i \in Entries(u), FieldIs(u, i) PROVE FieldIs(u, i)'
    <3>1. \A v \in Turns : \A j \in Entries(v) : v # t /\ beside'[v] = beside[v]
      BY <1>1, <1>2
    <3> QED BY <2>4, <3>1, <1>1, <1>4, <1>5 DEF FieldIs
  <2> QED BY <2>1, <2>2, <2>3, <2>4, <1>1, <1>4, <1>5 DEF InSequence
<1> QED BY <1>3, <1>6, <1>9, <1>10, <1>11

LEMMA CallLand ==
    ASSUME LandInv, SentInv', NEW t \in Turns, Call(t) PROVE LandInv'
<1> USE DEF SentInv, CapInv, OpeningInv
<1>1. /\ Calling(t) /\ UNCHANGED <<pc, kind, hand, rows, field, got, beside>>
  BY DEF Call, manychat
<1>2. PICK s : StagesMore(t, s)
  BY CallAdds DEF LandInv
<1>3. order'[t] = s /\ Entries(t)' = DOMAIN s /\ \A u \in Turns : u # t => order'[u] = order[u]
  BY <1>2 DEF StagesMore, LandInv, StageTypes, Entries
<1>4. Entries(t) \subseteq DOMAIN s /\ \A i \in Entries(t) : s[i] = order[t][i]
  BY <1>2 DEF StagesMore
<1>5. \A i \in (DOMAIN s) \ Entries(t) :
        /\ s[i].did = 0 /\ s[i].landed = 0 /\ s[i].known = -1 /\ (s[i].act = Link => ~Sends(t))
        /\ \A j \in Entries(t) : j < i
  <2>1. /\ Entries(t) = 1..Len(order[t]) /\ Len(order[t]) \in Nat
        /\ DOMAIN s = 1..Len(s) /\ Len(s) \in Nat
    BY <1>2, EntriesOf, LenProperties DEF LandInv, StagesMore
  <2> SUFFICES ASSUME NEW i \in (DOMAIN s) \ Entries(t)
               PROVE  <1>5!(i)
      OBVIOUS
  <2>2. \A j \in Entries(t) : j < i
    BY <2>1
  <2>3. PICK a \in Actions : s[i] = Entry(a, "staged") /\ (a = Link => ~Sends(t))
    BY <1>2 DEF StagesMore
  <2> QED BY <2>2, <2>3 DEF Entry
<1>6. /\ hand[t] = {} /\ pc[t] \in Live /\ pc[t] # "perform" /\ pc[t] \in {"calls", "late", "after"}
  BY <1>1 DEF Calling, Live
<1>7. LandOf(t)'
  <2>1. \A i \in Entries(t)' : s[i].known <= s[i].did /\ s[i].did <= s[i].landed
                               /\ (s[i].known >= 0 => \E k \in DOMAIN rows : rows[k] = t)
    BY <1>3, <1>4, <1>5 DEF LandInv, LandOf
  <2>2. \A i \in InState(t, "staged")' : s[i].landed = 0
    BY <1>3, <1>4, <1>5, <1>6 DEF LandInv, LandOf, InState
  <2> QED BY <2>1, <2>2, <1>1, <1>3, <1>6 DEF LandOf
<1>8. OrderOf(t)'
  <2>1. \A j : WroteAt(t, j)' => j \in Entries(t) /\ WroteAt(t, j)
    BY <1>3, <1>4, <1>5 DEF WroteAt, Writes
  <2>2. ASSUME NEW i \in InState(t, "staged")'
        PROVE  /\ s[i].act = Link => ~Sends(t)
               /\ s[i].act[1] = "set_field" => \A j \in Entries(t) : WroteAt(t, j) => j < i
    <3>1. CASE i \in Entries(t)
      <4>1. i \in InState(t, "staged") /\ s[i] = order[t][i]
        BY <3>1, <1>3, <1>4 DEF InState
      <4> QED BY <4>1, <1>6 DEF LandInv, OrderOf, IsWrite
    <3>2. CASE i \notin Entries(t)
      BY <3>2, <1>3, <1>5 DEF InState
    <3> QED BY <3>1, <3>2
  <2> QED BY <2>1, <2>2, <1>1, <1>3, <1>6 DEF OrderOf, IsWrite, IsWriter, Sends
<1>9. RowTypes'
  BY <1>1 DEF RowTypes, LandInv
<1> QED BY <1>1, <1>3, <1>4, <1>5, <1>6, <1>7, <1>8, <1>9, NothingLands

LEMMA SendNowLand ==
    ASSUME LandInv, SentInv', NEW t \in Turns, SendNow(t) PROVE LandInv'
<1> USE DEF SentInv, CapInv, OpeningInv
<1>1. /\ hand[t] = {} /\ queue[t] # <<>> /\ UNCHANGED <<pc, kind, rows, field, got, beside>>
  BY DEF SendNow, manychat
<1>2. pc[t] \in Live
  BY <1>1 DEF LandInv, SendersOnly
<1>3. RowTypes'
  BY <1>1 DEF RowTypes, LandInv
<1>4. pc[t] \notin {"idle", "perform", "done"}
  BY <1>2 DEF Live
<1>5. CASE UNCHANGED <<order, hand>>
  <2>1. LandOf(t)' /\ OrderOf(t)' /\ Entries(t)' = Entries(t)
    BY <1>1, <1>5 DEF LandInv, LandOf, OrderOf, Entries, InState, WroteAt, IsWrite, IsWriter, Sends
  <2> QED BY <2>1, <1>1, <1>3, <1>4, <1>5, NothingLands
<1>6. ASSUME NEW s, SendsNow(t, s, Ahead(t, Head(queue[t]))) PROVE LandInv'
  <2> DEFINE ahead == Ahead(t, Head(queue[t]))
             n == Len(order[t]) + 1
             f == Head(queue[t])
  <2>1. /\ order'[t] = s /\ hand'[t] = ahead \union {n}
        /\ \A u \in Turns : u # t => order'[u] = order[u] /\ hand'[u] = hand[u]
    BY <1>6 DEF SendsNow, LandInv, StageTypes
  <2>2. Entries(t)' = Entries(t) \union {n} /\ n \notin Entries(t) /\ \A j \in Entries(t) : j < n
    <3>1. Len(order[t]) \in Nat /\ Entries(t) = 1..Len(order[t])
      BY EntriesOf DEF LandInv
    <3>2. Entries(t)' = DOMAIN s
      BY <2>1 DEF Entries
    <3> QED BY <3>1, <3>2, <1>6 DEF SendsNow
  <2>3. /\ \A i \in ahead : i \in InState(t, "staged") /\ i \in Entries(t) /\ IsWrite(t, i)
        /\ f = "link" => \A i \in InState(t, "staged") : IsWrite(t, i) => i \in ahead
        /\ f # "link" => ahead = {}
    BY DEF Ahead, InState, IsWrite
  <2>4. /\ s[n].state = "sent" /\ s[n].did = 0 /\ s[n].landed = 0 /\ s[n].known = -1
        /\ s[n].act = SendFlowOf(f)
        /\ \A i \in Entries(t) : /\ s[i].did = order[t][i].did /\ s[i].landed = order[t][i].landed
                                 /\ s[i].known = order[t][i].known /\ s[i].act = order[t][i].act
                                 /\ i \in ahead => s[i].state = "sent"
                                 /\ i \notin ahead => s[i] = order[t][i]
    BY <1>6 DEF SendsNow, Entry
  <2> HIDE DEF ahead, n, f
  <2>5. \A i \in InState(t, "staged") : order[t][i].did = 0 /\ order[t][i].landed = 0
    BY <1>2 DEF LandInv, InHand, LandOf
  <2>6. \A i \in InState(t, "staged")' : i \in InState(t, "staged") /\ i \notin ahead
                                        /\ i \in Entries(t) /\ s[i] = order[t][i]
    BY <2>1, <2>2, <2>4 DEF InState
  <2>7. LandOf(t)'
    <3>1. \A i \in Entries(t)' : s[i].known <= s[i].did /\ s[i].did <= s[i].landed
                                 /\ (s[i].known >= 0 => \E k \in DOMAIN rows : rows[k] = t)
      BY <2>2, <2>4 DEF LandInv, LandOf
    <3>2. \A i \in hand'[t] : s[i].landed = s[i].did
      BY <2>1, <2>3, <2>4, <2>5
    <3>3. \A i \in InState(t, "staged")' : s[i].landed = 0
      BY <2>5, <2>6
    <3> QED BY <3>1, <3>2, <3>3, <1>1, <1>4, <2>1 DEF LandOf
  <2>8. OrderOf(t)'
    <3>1. \A j : WroteAt(t, j)' => j \in Entries(t) /\ WroteAt(t, j)
      BY <2>1, <2>2, <2>4 DEF WroteAt, Writes
    <3>2. \A i \in hand'[t], j \in Entries(t) : WroteAt(t, j) => j <= i
      <4> SUFFICES ASSUME NEW i \in hand'[t], NEW j \in Entries(t), WroteAt(t, j) PROVE j <= i
          OBVIOUS
      <4>1. i \in Nat /\ j \in Nat
        BY <2>1, <2>2, <2>3, EntriesOf DEF n, LandInv
      <4>2. i = n => j < i
        BY <2>2
      <4>3. i \in ahead => j < i
        BY <2>3, <1>2 DEF LandInv, OrderOf
      <4> QED BY <4>1, <4>2, <4>3, <2>1
    <3>3. \A i \in InState(t, "staged") : order[t][i].act = Link => ~Sends(t)
      BY <1>2 DEF LandInv, OrderOf
    <3>4. ASSUME NEW i \in InState(t, "staged")', IsWrite(t, i)
          PROVE  /\ \A j \in Entries(t) : WroteAt(t, j) => j < i
                 /\ \A j \in hand'[t] : ~(s[j].act = Link \/ s[j].act[1] = "set_field")
      <4>1. f # "link" /\ ahead = {} /\ hand'[t] = {n}
        BY <3>4, <2>1, <2>3, <2>6
      <4>2. s[n].act # Link /\ s[n].act[1] # "set_field"
        BY <4>1, <2>4 DEF Link, SendFlowOf
      <4>3. \A j \in Entries(t) : WroteAt(t, j) => j < i
        BY <3>4, <2>6, <1>2 DEF LandInv, OrderOf
      <4> QED BY <4>1, <4>2, <4>3
    <3>5. \A i \in InState(t, "staged")' : s[i] = order[t][i] /\ i \in InState(t, "staged")
      BY <2>6
    <3> QED BY <3>1, <3>2, <3>3, <3>4, <3>5, <1>1, <2>1, <2>2, <2>4
        DEF OrderOf, IsWrite, IsWriter, Sends
  <2> QED BY <2>1, <2>2, <2>4, <2>7, <2>8, <1>1, <1>3, <1>4, NothingLands
<1> QED BY <1>5, <1>6, SendNowSends DEF LandInv

LEMMA RowLand ==
    ASSUME LandInv, SentInv', NEW t \in Turns, pc[t] \in {"calls", "reply", "late"}, hand[t] = {},
           NEW k \in SUBSET InState(t, "staged"), Row(t, k)
    PROVE  LandInv'
<1> USE DEF SentInv, CapInv, OpeningInv
<1> DEFINE r == Records(t)
<1>1. /\ order' = [order EXCEPT ![t] = r] /\ hand' = [hand EXCEPT ![t] = k]
      /\ UNCHANGED <<kind, field, got, beside>> /\ rows' = Append(rows, t)
      /\ pc' = [pc EXCEPT ![t] = IF k = {} THEN "done" ELSE "perform"]
  BY DEF Row, manychat
<1>2. /\ DOMAIN r = Entries(t)
      /\ \A i \in Entries(t) : /\ r[i].state = order[t][i].state /\ r[i].did = order[t][i].did
                               /\ r[i].landed = order[t][i].landed /\ r[i].act = order[t][i].act
                               /\ r[i].known = IF order[t][i].state = "done" THEN order[t][i].did ELSE 0
  BY Noted, RecordsIs DEF LandInv
<1> HIDE DEF r
<1>3. /\ order'[t] = r /\ Entries(t)' = Entries(t) /\ hand'[t] = k
      /\ pc'[t] \in {"perform", "done"}
      /\ \A u \in Turns : u # t => /\ pc'[u] = pc[u] /\ order'[u] = order[u] /\ hand'[u] = hand[u]
  BY <1>1, <1>2 DEF LandInv, StageTypes, Entries
<1>4. pc[t] \in Live /\ pc'[t] \notin Live
  BY <1>3 DEF Live
<1>5. \A i \in k : i \in Entries(t) /\ order[t][i].did = 0 /\ order[t][i].landed = 0
  BY <1>4 DEF LandInv, InHand, LandOf, InState
<1>6. RowTypes' /\ \E j \in DOMAIN rows' : rows'[j] = t
  <2>1. rows \in Seq(Turns)
    BY DEF LandInv, RowTypes
  <2>2. rows' \in Seq(Turns) /\ Len(rows) + 1 \in DOMAIN rows' /\ rows'[Len(rows) + 1] = t
    BY <1>1, <2>1, Added
  <2> QED BY <1>1, <2>2 DEF RowTypes, LandInv
<1>7. LandOf(t)'
  <2>1. \A i \in Entries(t) : r[i].known <= r[i].did /\ r[i].did <= r[i].landed
    <3> SUFFICES ASSUME NEW i \in Entries(t) PROVE r[i].known <= r[i].did /\ r[i].did <= r[i].landed
        OBVIOUS
    <3>1. order[t][i].did \in Nat /\ order[t][i].did <= order[t][i].landed
      BY EntriesOf DEF StageEntries, LandInv, LandOf
    <3> QED BY <3>1, <1>2
  <2> QED BY <2>1, <1>2, <1>3, <1>4, <1>5, <1>6 DEF LandOf
<1>8. OrderOf(t)'
  <2>1. \A j : WroteAt(t, j)' => j \in Entries(t) /\ WroteAt(t, j)
    BY <1>2, <1>3 DEF WroteAt
  <2>2. ASSUME NEW i \in k, NEW j \in Entries(t), IsWriter(t, i), WroteAt(t, j) PROVE j <= i
    <3>1. CASE IsWrite(t, i)
      <4>1. j < i
        BY <2>2, <3>1, <1>4 DEF LandInv, OrderOf
      <4>2. i \in Nat /\ j \in Nat
        BY <2>2, EntriesOf DEF LandInv, InState
      <4> QED BY <4>1, <4>2
    <3>2. CASE order[t][i].act = Link
      <4>1. ~Sends(t)
        BY <3>2, <1>4 DEF LandInv, OrderOf
      <4>2. order[t][j].landed = 0
        BY <4>1, <1>4 DEF LandInv, SentOf, LandOf
      <4> QED BY <2>2, <4>2 DEF WroteAt, Writes
    <3> QED BY <2>2, <3>1, <3>2 DEF IsWriter
  <2> QED BY <2>1, <2>2, <1>2, <1>3, <1>4, <1>5 DEF OrderOf, IsWriter, IsWrite
<1>9. pc[t] \notin {"idle", "done"} /\ pc'[t] \in {"perform", "after", "done"} /\ pc'[t] # "idle"
  BY <1>3
<1> QED BY <1>1, <1>2, <1>3, <1>6, <1>7, <1>8, <1>9, NothingLands

LEMMA EndLand ==
    ASSUME LandInv, SentInv', NEW t \in Turns,
           \/ ClaimFails(t) \/ Reply(t) \/ RecordFails(t) \/ Cancel(t) \/ Abort(t)
           \/ LoopEnds(t) \/ ResolveFails(t) \/ Drop(t)
    PROVE  LandInv'
<1> USE DEF SentInv, CapInv, OpeningInv, stageVars, manychat
<1>1. UNCHANGED <<kind, order, rows, field, got, beside>>
  BY DEF ClaimFails, Reply, RecordFails, Cancel, Abort, LoopEnds, ResolveFails, Drop
<1>2. hand' = hand \/ hand' = [hand EXCEPT ![t] = {}]
  BY DEF ClaimFails, Reply, RecordFails, Cancel, Abort, LoopEnds, ResolveFails, Drop
<1>3. \/ pc' = pc /\ queue[t] # <<>>
      \/ pc' = [pc EXCEPT ![t] = "reply"] /\ pc[t] = "calls"
      \/ pc' = [pc EXCEPT ![t] = "late"] /\ pc[t] = "calls"
      \/ pc' = [pc EXCEPT ![t] = "after"] /\ pc[t] = "late"
      \/ pc' = [pc EXCEPT ![t] = "done"] /\ pc[t] \in {"calls", "reply", "after", "perform"}
  BY DEF ClaimFails, Reply, RecordFails, Cancel, Abort, LoopEnds, ResolveFails, Drop,
         Ends, Replied, Calling, Performed, Waits
<1>4. \A u \in Turns : u # t => pc'[u] = pc[u] /\ hand'[u] = hand[u]
  BY <1>2, <1>3 DEF LandInv, StageTypes
<1>5. /\ pc[t] \notin {"idle", "done"} /\ pc'[t] # "idle" /\ (pc'[t] \in Live => pc[t] \in Live)
      /\ pc'[t] # "perform"
      /\ pc[t] \in {"perform", "after"} => pc'[t] \in {"perform", "after", "done"}
  BY <1>3 DEF LandInv, StageTypes, SendersOnly, Live
<1>6. /\ hand'[t] \subseteq hand[t] /\ Entries(t)' = Entries(t)
      /\ InState(t, "staged")' = InState(t, "staged")
      /\ \A j : WroteAt(t, j)' <=> WroteAt(t, j)
  BY <1>1, <1>2 DEF LandInv, StageTypes, Entries, InState, WroteAt
<1>7. LandOf(t)' /\ OrderOf(t)'
  BY <1>1, <1>5, <1>6 DEF LandInv, LandOf, OrderOf, IsWrite, IsWriter, Sends
<1>8. RowTypes'
  BY <1>1 DEF RowTypes, LandInv
<1> QED BY <1>1, <1>4, <1>5, <1>6, <1>7, <1>8, NothingLands

LEMMA RecordAbortedLand ==
    ASSUME LandInv, SentInv', NEW t \in Turns, RecordAborted(t) PROVE LandInv'
<1> USE DEF SentInv, CapInv, OpeningInv, manychat
<1>1. /\ pc[t] = "late" /\ pc'[t] = "after" /\ UNCHANGED <<kind, hand, field, got, beside>>
      /\ \A u \in Turns : u # t => pc'[u] = pc[u]
  BY DEF RecordAborted, LandInv, StageTypes
<1>2. pc[t] \in Live /\ pc'[t] \in {"perform", "after", "done"} /\ pc'[t] # "idle"
      /\ pc[t] \in {"calls", "reply", "late"} /\ pc[t] \notin {"idle", "done"}
  BY <1>1 DEF Live
<1>3. CASE SentActs(t) # {}
  <2> DEFINE r == Records(t)
  <2>1. order' = [order EXCEPT ![t] = r] /\ rows' = Append(rows, t)
    BY <1>3 DEF RecordAborted
  <2>2. /\ DOMAIN r = Entries(t)
        /\ \A i \in Entries(t) :
              /\ r[i].state = order[t][i].state /\ r[i].did = order[t][i].did
              /\ r[i].landed = order[t][i].landed /\ r[i].act = order[t][i].act
              /\ r[i].known = IF order[t][i].state = "done" THEN order[t][i].did ELSE 0
    BY Noted, RecordsIs DEF LandInv
  <2> HIDE DEF r
  <2>3. /\ order'[t] = r /\ Entries(t)' = Entries(t)
        /\ \A u \in Turns : u # t => order'[u] = order[u]
    BY <2>1, <2>2 DEF LandInv, StageTypes, Entries
  <2>4. InState(t, "staged")' = InState(t, "staged") /\ (\A j : WroteAt(t, j)' <=> WroteAt(t, j))
    BY <2>2, <2>3 DEF InState, WroteAt
  <2>5. RowTypes' /\ \E j \in DOMAIN rows' : rows'[j] = t
    <3>1. rows \in Seq(Turns)
      BY DEF LandInv, RowTypes
    <3>2. rows' \in Seq(Turns) /\ Len(rows) + 1 \in DOMAIN rows' /\ rows'[Len(rows) + 1] = t
      BY <2>1, <3>1, Added
    <3> QED BY <1>1, <3>2 DEF RowTypes, LandInv
  <2>6. \A i \in Entries(t) : r[i].known <= r[i].did /\ r[i].did <= r[i].landed
    <3> SUFFICES ASSUME NEW i \in Entries(t) PROVE r[i].known <= r[i].did /\ r[i].did <= r[i].landed
        OBVIOUS
    <3>1. order[t][i].did \in Nat /\ order[t][i].did <= order[t][i].landed
      BY EntriesOf DEF StageEntries, LandInv, LandOf
    <3> QED BY <3>1, <2>2
  <2>7. LandOf(t)'
    <3>1. \A i \in hand[t] : i \in Entries(t) /\ order[t][i].landed = order[t][i].did
      BY DEF LandInv, LandOf, InHand
    <3>2. \A i \in InState(t, "staged") : i \in Entries(t) /\ order[t][i].landed = 0
      BY <1>2 DEF LandInv, LandOf, InState
    <3> QED BY <2>2, <2>3, <2>4, <2>5, <2>6, <3>1, <3>2, <1>1 DEF LandOf
  <2>8. OrderOf(t)'
    <3>1. hand[t] \subseteq Entries(t) /\ InState(t, "staged") \subseteq Entries(t)
      BY DEF LandInv, InHand, InState
    <3> QED BY <2>2, <2>3, <2>4, <3>1, <1>1, <1>2 DEF LandInv, OrderOf, IsWrite, IsWriter, Sends
  <2> QED BY <2>1, <2>2, <2>3, <2>5, <2>7, <2>8, <1>1, <1>2, NothingLands
<1>4. CASE SentActs(t) = {}
  <2>1. order' = order /\ rows' = rows
    BY <1>4 DEF RecordAborted
  <2>2. RowTypes'
    BY <1>1, <2>1 DEF RowTypes, LandInv
  <2>3. LandOf(t)' /\ OrderOf(t)' /\ Entries(t)' = Entries(t)
    BY <1>1, <1>2, <2>1 DEF LandInv, LandOf, OrderOf, IsWrite, IsWriter, WroteAt, Sends, InState, Entries
  <2> QED BY <2>1, <2>2, <2>3, <1>1, <1>2, NothingLands
<1> QED BY <1>3, <1>4

LEMMA ResolveLand ==
    ASSUME LandInv, SentInv', NEW t \in Turns, Resolve(t) PROVE LandInv'
<1> USE DEF SentInv, CapInv, OpeningInv, manychat
<1> DEFINE r == Resolved(t)
<1>1. /\ pc[t] = "perform" /\ hand[t] = {} /\ pc'[t] = "done"
      /\ order' = [order EXCEPT ![t] = r]
      /\ UNCHANGED <<kind, hand, rows, field, got, beside>>
      /\ \A u \in Turns : u # t => pc'[u] = pc[u]
  BY DEF Resolve, Ends, Performed, LandInv, StageTypes
<1>2. /\ DOMAIN r = Entries(t)
      /\ \A i \in Entries(t) :
            /\ r[i].did = order[t][i].did /\ r[i].landed = order[t][i].landed
            /\ r[i].act = order[t][i].act
            /\ r[i].known = IF i \in kept[t] THEN order[t][i].did ELSE order[t][i].known
  BY Noted, RecordsIs DEF LandInv
<1> HIDE DEF r
<1>3. /\ order'[t] = r /\ Entries(t)' = Entries(t)
      /\ \A u \in Turns : u # t => order'[u] = order[u]
  BY <1>1, <1>2 DEF LandInv, StageTypes, Entries
<1>4. \E k \in DOMAIN rows : rows[k] = t
  BY <1>1 DEF LandInv, LandOf
<1>5. \A i \in Entries(t) : r[i].known <= r[i].did /\ r[i].did <= r[i].landed
  <2> SUFFICES ASSUME NEW i \in Entries(t) PROVE r[i].known <= r[i].did /\ r[i].did <= r[i].landed
      OBVIOUS
  <2>1. /\ order[t][i].did \in Nat /\ order[t][i].did <= order[t][i].landed
        /\ order[t][i].known <= order[t][i].did
    BY EntriesOf DEF StageEntries, LandInv, LandOf
  <2> QED BY <2>1, <1>2
<1>6. LandOf(t)'
  BY <1>1, <1>2, <1>3, <1>4, <1>5 DEF LandOf, Live
<1>7. OrderOf(t)'
  BY <1>1, <1>3 DEF OrderOf, Live
<1>8. RowTypes'
  BY <1>1 DEF RowTypes, LandInv
<1>9. pc[t] \notin {"idle", "done"} /\ pc'[t] # "idle" /\ pc'[t] \in {"perform", "after", "done"}
  BY <1>1
<1> QED BY <1>1, <1>2, <1>3, <1>6, <1>7, <1>8, <1>9, NothingLands

\* A request of the least action in hand: if it is a stage write it is the last of its turn,
\* and each later turn that has written before it began beside it.
LEMMA RequestLand ==
    ASSUME LandInv, SentInv', NEW t \in Turns, Request(t) PROVE LandInv'
<1> USE DEF SentInv, CapInv, OpeningInv
<1>1. UNCHANGED <<pc, kind, rows, beside>>
  BY DEF Request
<1>2. PICK i \in hand[t], d \in {0, 1}, l \in {0, 1}, s \in Seq(StageEntries) :
              /\ RequestDoes(t, i, d, l, s)
              /\ \A j \in hand[t] : i <= j
              /\ i \in Entries(t) /\ order[t][i].did < Len(Chain(t, order[t][i].act))
              /\ \/ d = 1 /\ l = 1 /\ UNCHANGED faults
                 \/ d = 0 /\ faults < MaxFaults /\ faults' = faults + 1
              /\ \/ l = 0 /\ UNCHANGED manychat
                 \/ l = 1 /\ Lands(Chain(t, order[t][i].act)[order[t][i].did + 1])
  BY RequestIs DEF LandInv
<1> DEFINE a == order[t][i].act
           m == order[t][i].landed
           r == Chain(t, a)[m + 1]
           ends == d = 0 \/ order[t][i].did + 1 = Len(Chain(t, a))
<1>3. /\ order'[t] = s /\ Entries(t)' = Entries(t)
      /\ hand'[t] = (IF ends THEN hand[t] \ {i} ELSE hand[t])
      /\ \A u \in Turns : u # t => order'[u] = order[u] /\ hand'[u] = hand[u]
  BY <1>2 DEF RequestDoes, LandInv, StageTypes, Entries
<1>4. \A j \in Entries(t) :
        /\ s[j].act = order[t][j].act /\ s[j].known = order[t][j].known
        /\ s[j].did = (IF j = i THEN order[t][j].did + d ELSE order[t][j].did)
        /\ s[j].landed = (IF j = i THEN order[t][j].landed + l ELSE order[t][j].landed)
        /\ s[j].state = "staged" <=> order[t][j].state = "staged"
  <2>1. \A j \in Entries(t) :
          s[j].state = IF ends /\ hand[t] = {i} /\ order[t][j].state = "sent"
                       THEN "done" ELSE order[t][j].state
    BY <1>2 DEF RequestDoes
  <2> HIDE DEF ends
  <2> QED BY <1>2, <2>1 DEF RequestDoes
<1>5. /\ order[t][i].did = m /\ m \in Nat /\ a \in Actions
      /\ m + 1 \in 1..Len(Chain(t, a))
      /\ \A j \in Entries(t) : order[t][j] \in StageEntries
  <2>1. order[t][i].did = m /\ \A j \in Entries(t) : order[t][j] \in StageEntries
    BY EntriesOf DEF LandInv, LandOf
  <2>2. m \in Nat /\ a \in Actions
    BY <1>2, <2>1 DEF StageEntries
  <2>3. Len(Chain(t, a)) \in Nat
    BY <2>2, ChainOf
  <2> QED BY <1>2, <2>1, <2>2, <2>3
<1>6. \/ l = 0 /\ UNCHANGED <<field, got>>
      \/ l = 1 /\ Lands(r)
  BY <1>2, <1>5 DEF manychat
<1>7. d <= l /\ (d = l \/ ends)
  BY <1>2
<1>8. hand'[t] \subseteq hand[t] /\ (ends => i \notin hand'[t])
  BY <1>3
<1> HIDE DEF ends
<1>9. /\ m + 1 = 1 => r = a
      /\ m + 1 = 2 /\ a = Link => r = SetStage(LinkSent)
      /\ m + 1 > 1 /\ ~(m + 1 = 2 /\ a = Link) => r[1] = "send_event"
  BY <1>5, ChainSteps
<1> HIDE DEF r, a, m
<1>10. pc[t] \in Live \union {"perform"}
  BY <1>2 DEF LandInv, StageTypes, SendersOnly, SentOf, Steps
<1>11. \A u \in Turns : u # t => Entries(u)' = Entries(u) /\ InState(u, "staged")' = InState(u, "staged")
  BY <1>3 DEF Entries, InState
<1>12. InState(t, "staged")' = InState(t, "staged")
  BY <1>3, <1>4 DEF InState
<1>13. RowTypes' /\ RowsOf' /\ InTurn'
  BY <1>1 DEF LandInv, RowTypes, RowsOf, InTurn
<1>14. i \in hand[t] /\ i \in Entries(t) /\ order[t][i].act = a /\ order[t][i].landed = m
       /\ order[t][i].did = m
  BY <1>2, <1>5 DEF a, m
<1>15. LandOf(t)'
  <2>1. \A j \in Entries(t) : s[j].known <= s[j].did /\ s[j].did <= s[j].landed
    <3> SUFFICES ASSUME NEW j \in Entries(t) PROVE s[j].known <= s[j].did /\ s[j].did <= s[j].landed
        OBVIOUS
    <3>1. /\ order[t][j].known <= order[t][j].did /\ order[t][j].did <= order[t][j].landed
          /\ order[t][j].known \in Int /\ order[t][j].did \in Nat /\ order[t][j].landed \in Nat
      BY <1>5 DEF LandInv, LandOf, StageEntries
    <3>2. s[j].known = order[t][j].known
      BY <1>4
    <3>3. CASE j = i
      <4>1. s[j].did = order[t][j].did + d /\ s[j].landed = order[t][j].landed + l
        BY <3>3, <1>4
      <4> QED BY <3>1, <3>2, <4>1, <1>7
    <3>4. CASE j # i
      <4>1. s[j].did = order[t][j].did /\ s[j].landed = order[t][j].landed
        BY <3>4, <1>4
      <4> QED BY <3>1, <3>2, <4>1
    <3> QED BY <3>3, <3>4
  <2>2. \A j \in hand'[t] : s[j].landed = s[j].did
    <3> SUFFICES ASSUME NEW j \in hand'[t] PROVE s[j].landed = s[j].did
        OBVIOUS
    <3>1. j \in Entries(t) /\ order[t][j].landed = order[t][j].did
      BY <1>8 DEF LandInv, LandOf, InHand
    <3>2. j = i => d = l
      BY <1>7, <1>8
    <3> QED BY <3>1, <3>2, <1>4
  <2>3. pc[t] \in Live => \A j \in InState(t, "staged") : s[j].landed = 0
    <3> SUFFICES ASSUME pc[t] \in Live, NEW j \in InState(t, "staged") PROVE s[j].landed = 0
        OBVIOUS
    <3>1. j \in Entries(t) /\ j # i /\ order[t][j].landed = 0
      BY <1>14 DEF LandInv, LandOf, SentOf, InState
    <3> QED BY <3>1, <1>4
  <2> QED BY <2>1, <2>2, <2>3, <1>1, <1>3, <1>4, <1>12 DEF LandInv, LandOf
<1>16. \A j \in Entries(t) : WroteAt(t, j)' => WroteAt(t, j) \/ (j = i /\ IsWriter(t, i))
  BY <1>3, <1>4 DEF WroteAt, Writes, IsWriter, IsWrite
<1>17. \A j \in Entries(t) : WroteAt(t, j)' => j \in Entries(t)
  OBVIOUS
<1>18. OrderOf(t)'
  <2>1. ASSUME NEW k \in hand'[t], NEW j \in Entries(t), IsWriter(t, k), WroteAt(t, j)' PROVE j <= k
    BY <2>1, <1>2, <1>8, <1>16 DEF LandInv, OrderOf
  <2>2. ASSUME pc[t] \in Live, NEW k \in InState(t, "staged"), IsWrite(t, k)
        PROVE  /\ \A j \in Entries(t) : WroteAt(t, j)' => j < k
               /\ \A j \in hand'[t] : IsWriter(t, j) => j < k
    BY <2>2, <1>8, <1>14, <1>16 DEF LandInv, OrderOf
  <2>3. pc[t] \in Live => \A k \in InState(t, "staged") : order[t][k].act = Link => ~Sends(t)
    BY DEF LandInv, OrderOf
  <2>4. \A k \in Entries(t) : (IsWriter(t, k)' <=> IsWriter(t, k)) /\ (IsWrite(t, k)' <=> IsWrite(t, k))
    BY <1>3, <1>4 DEF IsWriter, IsWrite
  <2>5. hand'[t] \subseteq Entries(t) /\ InState(t, "staged") \subseteq Entries(t)
    BY <1>8 DEF LandInv, InHand, InState
  <2> QED BY <2>1, <2>2, <2>3, <2>4, <2>5, <1>1, <1>3, <1>4, <1>12 DEF OrderOf, Sends
<1>19. \A u \in Turns : LandOf(u)' /\ OrderOf(u)'
  <2> SUFFICES ASSUME NEW u \in Turns, u # t PROVE LandOf(u)' /\ OrderOf(u)'
      BY <1>15, <1>18
  <2>1. LandOf(u) /\ OrderOf(u)
    BY DEF LandInv
  <2> QED BY <2>1, <1>1, <1>3, <1>11 DEF LandOf, OrderOf, IsWriter, IsWrite, WroteAt, Sends
<1>20. GotIs'
  <2> SUFFICES ASSUME NEW f \in Flows
               PROVE  got'[f] > 0 <=>
                        \E u \in Turns : \E j \in Entries(u)' :
                           order'[u][j].act = SendFlowOf(f) /\ order'[u][j].landed > 0
      BY DEF GotIs
  <2>1. got[f] \in Nat /\ (got[f] > 0 <=>
                        \E u \in Turns : \E j \in Entries(u) :
                           order[u][j].act = SendFlowOf(f) /\ order[u][j].landed > 0)
    BY DEF LandInv, GotIs, StageTypes
  <2>2. \A u \in Turns : \A j \in Entries(u) :
           /\ j \in Entries(u)' /\ order'[u][j].act = order[u][j].act
           /\ order'[u][j].landed = IF u = t /\ j = i THEN m + l ELSE order[u][j].landed
    BY <1>3, <1>4, <1>11, <1>14
  <2>3. CASE l = 1 /\ m = 0 /\ a = SendFlowOf(f)
    <3>1. m + 1 = 1 /\ r = SendFlowOf(f)
      BY <2>3, <1>9
    <3>2. r[1] = "send_flow" /\ r[2] = f
      BY <3>1 DEF SendFlowOf
    <3>3. got'[f] = got[f] + 1
      BY <2>3, <3>2, <1>6 DEF Lands, LandInv, StageTypes
    <3> QED BY <2>1, <2>2, <2>3, <3>3, <1>14
  <2>4. CASE ~(l = 1 /\ m = 0 /\ a = SendFlowOf(f))
    <3>1. got'[f] = got[f]
      <4>1. CASE l = 0
        BY <4>1, <1>6
      <4>2. CASE l = 1
        <5>1. got' = IF r[1] = "send_flow" THEN [got EXCEPT ![r[2]] = @ + 1] ELSE got
          BY <4>2, <1>6 DEF Lands
        <5>2. CASE m = 0
          <6>1. r = a /\ a # SendFlowOf(f)
            BY <5>2, <4>2, <2>4, <1>9
          <6>2. a[1] = "send_flow" => a = SendFlowOf(a[2])
            BY <1>5 DEF Actions, SendFlowOf, SetStage, Intent, Note
          <6>3. r[1] = "send_flow" => r[2] # f
            BY <6>1, <6>2
          <6> QED BY <5>1, <6>3
        <5>3. CASE m # 0
          <6>1. r = SetStage(LinkSent) \/ r[1] = "send_event"
            BY <5>3, <1>5, <1>9
          <6>2. r[1] # "send_flow"
            BY <6>1 DEF SetStage
          <6> QED BY <5>1, <6>2
        <5> QED BY <5>2, <5>3
      <4> QED BY <4>1, <4>2
    <3>2. ASSUME NEW u \in Turns, NEW j \in Entries(u), order[u][j].act = SendFlowOf(f)
          PROVE  order'[u][j].landed > 0 <=> order[u][j].landed > 0
      <4>1. CASE u = t /\ j = i
        <5>1. a = SendFlowOf(f) /\ order[u][j].landed = m
          BY <3>2, <4>1, <1>14
        <5>2. l = 0 \/ m > 0
          BY <5>1, <2>4, <1>5
        <5> QED BY <4>1, <5>1, <5>2, <2>2, <1>5
      <4>2. CASE ~(u = t /\ j = i)
        BY <4>2, <2>2
      <4> QED BY <4>1, <4>2
    <3>3. \A u \in Turns : Entries(u)' = Entries(u)
      BY <1>3, <1>11
    <3> QED BY <2>1, <2>2, <3>1, <3>2, <3>3
  <2> QED BY <2>3, <2>4
<1>21. InSequence'
  <2>1. InSequence
    BY DEF LandInv
  <2>2. \A u, v \in Turns : u < v /\ pc'[v] # "idle" /\ u \notin beside'[v] => pc'[u] = "done"
    BY <2>1, <1>1 DEF InSequence
  <2>3. \A k, n \in DOMAIN rows' :
          /\ rows'[k] = rows'[n] => k = n
          /\ rows'[k] < rows'[n] /\ rows'[k] \notin beside'[rows'[n]] => k < n
    BY <2>1, <1>1 DEF InSequence
  <2>4. \A u \in Turns : Entries(u)' = Entries(u)
    BY <1>3, <1>11
  <2>5. \A u \in Turns : \A j : ~(u = t /\ j = i) => (WroteAt(u, j)' <=> WroteAt(u, j))
    BY <2>4, <1>3, <1>4 DEF WroteAt
  <2>6. a \in Actions /\ m \in Nat
    BY <1>5 DEF a, m
  <2>7. WroteAt(t, i)' <=> Writes(a, m + l)
    BY <2>4, <1>3, <1>4, <1>14 DEF WroteAt
  <2>8. WroteAt(t, i) <=> Writes(a, m)
    BY <1>14 DEF WroteAt
  <2>9. CASE l = 1 /\ r[1] = "set_field"
    <3>1. field' = r[2]
      BY <2>9, <1>6 DEF Lands
    <3>2. Writes(a, m + 1) /\ Wrote(a, m + 1) = r[2]
      <4>1. CASE m + 1 = 1
        <5>1. r = a /\ a[1] = "set_field"
          BY <4>1, <2>9, <1>9
        <5>2. a # Link /\ m + 1 > 0 /\ m + 1 \in Int
          BY <5>1, <2>6, <4>1, WroteIs
        <5> QED BY <5>1, <5>2, <2>6, WroteIs DEF Writes
      <4>2. CASE m + 1 # 1
        <5>1. m + 1 = 2 /\ a = Link /\ r = SetStage(LinkSent)
          BY <4>2, <2>6, <2>9, <1>9
        <5> QED BY <5>1, <2>6, WroteIs DEF Writes, SetStage
      <4> QED BY <4>1, <4>2
    <3>3. FieldIs(t, i)'
      <4>1. WroteAt(t, i)' /\ field' = Wrote(order'[t][i].act, order'[t][i].landed)
        BY <3>1, <3>2, <2>7, <2>9, <1>3, <1>4, <1>14
      <4>2. ASSUME NEW u \in Turns, NEW j \in Entries(u)', WroteAt(u, j)'
            PROVE  (u = t => j <= i) /\ (t < u => t \in beside'[u])
        <5>1. ASSUME u = t PROVE j <= i
          <6>1. j = i \/ WroteAt(t, j)
            BY <4>2, <5>1, <2>5
          <6>2. IsWriter(t, i)
            BY <3>2, <1>14 DEF Writes, IsWriter, IsWrite
          <6>3. i \in Nat
            BY <1>14, EntriesOf DEF LandInv
          <6> QED BY <4>2, <5>1, <6>1, <6>2, <6>3, <1>14, <2>4 DEF LandInv, OrderOf
        <5>2. ASSUME t < u PROVE t \in beside'[u]
          <6>1. pc[u] # "idle"
            BY <4>2, <2>4 DEF LandInv, SendersOnly
          <6>2. pc[t] # "done"
            BY <1>10 DEF Live
          <6> QED BY <5>2, <6>1, <6>2, <2>1, <1>1 DEF InSequence
        <5> QED BY <5>1, <5>2
      <4> QED BY <4>1, <4>2 DEF FieldIs
    <3> QED BY <2>2, <2>3, <2>4, <3>3, <1>14 DEF InSequence
  <2>10. CASE ~(l = 1 /\ r[1] = "set_field")
    <3>1. field' = field
      BY <2>10, <1>6 DEF Lands
    <3>2. Wrote(a, m + l) = Wrote(a, m) /\ (Writes(a, m + l) <=> Writes(a, m))
      <4>1. CASE l = 0
        BY <4>1, <2>6
      <4>2. CASE l = 1
        <5>1. r[1] # "set_field"
          BY <4>2, <2>10
        <5>2. a[1] = "set_field" => m > 0
          BY <5>1, <2>6, <1>9
        <5>3. a = Link => m # 1
          BY <5>1, <1>9 DEF SetStage
        <5>4. Wrote(a, m + 1) = Wrote(a, m)
          BY <5>2, <5>3, <2>6, WroteIs
        <5> QED BY <4>2, <5>4, <2>6, WroteIs
      <4> QED BY <4>1, <4>2
    <3>3. \A u \in Turns : \A j : WroteAt(u, j)' <=> WroteAt(u, j)
      BY <3>2, <2>5, <2>7, <2>8
    <3>4. \A u \in Turns : \A j \in Entries(u) :
            Wrote(order'[u][j].act, order'[u][j].landed) = Wrote(order[u][j].act, order[u][j].landed)
      <4> SUFFICES ASSUME NEW u \in Turns, NEW j \in Entries(u)
                   PROVE  Wrote(order'[u][j].act, order'[u][j].landed) = Wrote(order[u][j].act, order[u][j].landed)
          OBVIOUS
      <4>1. CASE u = t /\ j = i
        BY <4>1, <3>2, <1>3, <1>4, <1>14
      <4>2. CASE u = t /\ j # i
        BY <4>2, <1>3, <1>4
      <4>3. CASE u # t
        BY <4>3, <1>3
      <4> QED BY <4>1, <4>2, <4>3
    <3>5. \A u \in Turns : \A j \in Entries(u) : FieldIs(u, j) => FieldIs(u, j)'
      BY <3>1, <3>3, <3>4, <2>4, <1>1 DEF FieldIs
    <3> QED BY <2>1, <2>2, <2>3, <2>4, <3>1, <3>3, <3>5 DEF InSequence
  <2> QED BY <2>9, <2>10
<1> QED BY <1>13, <1>19, <1>20, <1>21 DEF LandInv

LEMMA CrashLand == ASSUME LandInv, SentInv', Crash PROVE LandInv'
<1> USE DEF SentInv, CapInv, OpeningInv, manychat
<1>1. UNCHANGED <<kind, order, rows, field, got, beside>>
  BY DEF Crash
<1>2. PICK cut \in SUBSET Turns :
        /\ \A t \in cut : pc[t] # "idle"
        /\ pc' = [t \in Turns |-> IF t \in cut THEN "done" ELSE pc[t]]
        /\ hand' = [t \in Turns |-> IF t \in cut THEN {} ELSE hand[t]]
  BY DEF Crash, Over
<1>3. \A t \in Turns : /\ pc'[t] = pc[t] \/ (pc'[t] = "done" /\ pc[t] # "idle")
                       /\ hand'[t] \subseteq hand[t]
                       /\ Entries(t)' = Entries(t) /\ InState(t, "staged")' = InState(t, "staged")
                       /\ \A i : WroteAt(t, i)' <=> WroteAt(t, i)
  BY <1>1, <1>2 DEF Entries, InState, WroteAt
<1>4. \A t \in Turns : /\ pc'[t] \in Live => pc[t] \in Live
                       /\ pc'[t] = "perform" => pc[t] = "perform"
                       /\ pc'[t] # "idle" <=> pc[t] # "idle"
                       /\ pc[t] = "done" => pc'[t] = "done"
  BY <1>3 DEF Live
<1>5. RowsOf'
  <2>1. \A k \in DOMAIN rows : rows[k] \in Turns
    BY LenProperties, ElementOfSeq DEF LandInv, RowTypes
  <2> QED BY <2>1, <1>1, <1>3 DEF LandInv, RowsOf
<1>6. RowTypes' /\ GotIs' /\ InTurn'
  BY <1>1, <1>3, <1>4 DEF LandInv, RowTypes, GotIs, InTurn
<1>7. \A t \in Turns : LandOf(t)' /\ OrderOf(t)'
  BY <1>1, <1>3, <1>4 DEF LandInv, LandOf, OrderOf, IsWriter, IsWrite, Sends
<1>8. InSequence'
  BY <1>1, <1>3, <1>4 DEF LandInv, InSequence, FieldIs
<1> QED BY <1>5, <1>6, <1>7, <1>8 DEF LandInv

LEMMA NextLand == RecordInv /\ LandInv /\ [Next]_vars => LandInv'
<1> SUFFICES ASSUME RecordInv, LandInv, [Next]_vars PROVE LandInv'
    OBVIOUS
<1>1. SentInv'
  BY NextRecord DEF RecordInv
<1>2. CASE UNCHANGED vars
  <2>1. UNCHANGED <<pc, kind, order, hand, rows, field, got, beside>>
    BY <1>2 DEF vars, stageVars, manychat
  <2>2. \A t \in Turns : /\ Entries(t)' = Entries(t) /\ InState(t, "staged")' = InState(t, "staged")
                         /\ \A i : WroteAt(t, i)' <=> WroteAt(t, i)
    BY <2>1 DEF Entries, InState, WroteAt
  <2>3. \A t \in Turns : LandOf(t)' /\ OrderOf(t)'
    BY <2>1, <2>2 DEF LandInv, LandOf, OrderOf, IsWriter, IsWrite, Sends
  <2>4. RowTypes' /\ RowsOf' /\ GotIs' /\ InTurn' /\ InSequence'
    BY <2>1, <2>2 DEF LandInv, RowTypes, RowsOf, GotIs, InTurn, InSequence, FieldIs
  <2> QED BY <1>1, <2>3, <2>4 DEF LandInv
<1>3. ASSUME NEW t \in Turns, Turn(t) PROVE LandInv'
  <2>1. ASSUME NEW k \in Kinds, Start(t, k) PROVE LandInv'
    BY <1>1, <2>1, StartLand
  <2>2. CASE Call(t)
    BY <1>1, <2>2, CallLand
  <2>3. CASE SendNow(t)
    BY <1>1, <2>3, SendNowLand
  <2>4. CASE Request(t)
    BY <1>1, <2>4, RequestLand
  <2>5. ASSUME Settle(t) \/ Supersede(t) \/ (\E keeps \in BOOLEAN : Escalate(t, keeps))
        PROVE  LandInv'
    <3>1. pc[t] \in {"calls", "reply", "late"} /\ hand[t] = {}
      BY <2>5 DEF Settle, Supersede, Escalate, Replied, Calling
    <3>2. PICK k \in SUBSET InState(t, "staged") : Row(t, k)
      BY <2>5 DEF Settle, Supersede, Escalate
    <3> QED BY <1>1, <3>1, <3>2, RowLand
  <2>6. CASE RecordAborted(t)
    BY <1>1, <2>6, RecordAbortedLand
  <2>7. CASE Resolve(t)
    BY <1>1, <2>7, ResolveLand
  <2>8. CASE \/ ClaimFails(t) \/ Reply(t) \/ RecordFails(t) \/ Cancel(t) \/ Abort(t)
             \/ LoopEnds(t) \/ ResolveFails(t) \/ Drop(t)
    BY <1>1, <2>8, EndLand
  <2> QED BY <1>3, <2>1, <2>2, <2>3, <2>4, <2>5, <2>6, <2>7, <2>8 DEF Turn
<1>4. CASE Crash
  BY <1>1, <1>4, CrashLand
<1> QED BY <1>2, <1>3, <1>4 DEF Next

LEMMA LandInvariant == Spec => []LandInv
<1>1. Init => LandInv
  BY InitLand
<1>2. RecordInv /\ LandInv /\ [Next]_vars => LandInv'
  BY NextLand
<1> QED BY <1>1, <1>2, RecordInvariant, PTL DEF Spec

\* With the opening apart from the cap, a turn has one entry more than it at most.
LEMMA StageFits ==
    ASSUME CapInv, NEW t \in Turns
    PROVE  Entries(t) \subseteq 1..(Cap + 1)
<1> USE DEF CapInv, OpeningInv
<1> DEFINE C == {i \in Entries(t) : order[t][i].act # Opening}
           L == Len(order[t])
<1>1. L \in Nat /\ Entries(t) = 1..L
  BY EntriesOf
<1>2. IsFiniteSet(Entries(t)) /\ Cardinality(Entries(t)) = L
  <2>1. 1 \in Int /\ L \in Int
    BY <1>1
  <2>2. IsFiniteSet(1..L) /\ Cardinality(1..L) = IF 1 > L THEN 0 ELSE L - 1 + 1
    BY <2>1, FS_Interval
  <2> QED BY <2>2, <1>1
<1>3. IsFiniteSet(C) /\ Cardinality(C) \in Nat /\ Cardinality(C) <= Cap
  <2>1. IsFiniteSet(C)
    BY <1>2, FS_Subset
  <2>2. Cardinality(C) <= Cap
    BY DEF CapHeld, Counted
  <2> QED BY <2>1, <2>2, FS_CardinalityType
<1>4. L <= Cap + 1
  <2>1. CASE Entries(t) = C
    <3> HIDE DEF C
    <3> QED BY <2>1, <1>1, <1>2, <1>3, ActionsAssumption
  <2>2. CASE Entries(t) # C
    <3>1. PICK x \in Entries(t) : order[t][x].act = Opening
      BY <2>2
    <3>2. Entries(t) = C \union {x}
      BY <3>1 DEF OpeningsApart, IsOpening
    <3> HIDE DEF C
    <3>3. Cardinality(C \union {x}) \in {Cardinality(C), Cardinality(C) + 1}
      BY <1>3, FS_AddElement
    <3> QED BY <3>2, <3>3, <1>1, <1>2, <1>3, ActionsAssumption
  <2> QED BY <2>1, <2>2
<1> QED BY <1>1, <1>4, ActionsAssumption

\* A non-empty set of places in the rows has a last one: one with the fewest behind it.
LEMMA LastOfRows ==
    ASSUME NEW L \in Nat, NEW M \in Nat, NEW W \in SUBSET ((1..L) \X (1..M)), W # {}
    PROVE  \E w \in W : \A x \in W : ~Later(x, w)
<1> DEFINE Behind(w) == {x \in W : Later(x, w)}
           T == {Behind(w) : w \in W}
<1>1. IsFiniteSet(W)
  <2>1. IsFiniteSet(1..L) /\ IsFiniteSet(1..M)
    BY FS_Interval
  <2>2. IsFiniteSet((1..L) \X (1..M))
    BY <2>1, FS_Product
  <2> QED BY <2>2, FS_Subset
<1>2. IsWellFoundedOn(StrictSubsetOrdering(W), SUBSET W)
  BY <1>1, FS_StrictSubsetOrderingWellFounded, FS_FiniteSubsetsOfFinite
<1>3. T \subseteq SUBSET W /\ T # {}
  OBVIOUS
<1>4. PICK b \in T : \A c \in T : <<c, b>> \notin StrictSubsetOrdering(W)
  <2> HIDE DEF T
  <2> QED BY <1>2, <1>3, WFMin
<1>5. PICK w \in W : b = Behind(w)
  BY <1>4
<1>6. ASSUME NEW x \in W, Later(x, w) PROVE FALSE
  <2>1. \A y \in W : y[1] \in Int /\ y[2] \in Int
    OBVIOUS
  <2>2. \A y \in W : Later(y, x) => Later(y, w)
    BY <1>6, <2>1 DEF Later
  <2>3. ~Later(x, x)
    BY <2>1 DEF Later
  <2>4. Behind(x) \subseteq Behind(w) /\ x \in Behind(w) /\ x \notin Behind(x)
    BY <1>6, <2>2, <2>3
  <2>5. Behind(x) \in T /\ Behind(x) \in SUBSET W /\ Behind(w) \in SUBSET W
    OBVIOUS
  <2> HIDE DEF Behind, T
  <2>6. <<Behind(x), Behind(w)>> \in StrictSubsetOrdering(W)
    BY <2>4, <2>5 DEF StrictSubsetOrdering
  <2> QED BY <1>4, <1>5, <2>5, <2>6
<1> QED BY <1>6

\* However the turns overlap: when every turn is over and has in its row what reached the
\* contact, the flows the next turn reads are those the contact got, and the stage it reads
\* is the contact's unless the write read and the one that landed last are of turns that
\* overlapped (contactActionsFrom in contact-actions.ts against what performActions and
\* stage.send made of it).
THEOREM ReadIsWhatTheContactHas == Spec => []BelievedIsTrue
<1>1. LandInv => BelievedIsTrue
  <2> SUFFICES ASSUME LandInv, \A t \in Turns : Over(t) /\ MissedOf(t) = {}
               PROVE  /\ ReadSent = {f \in Flows : got[f] > 0}
                      /\ \/ ReadStage = field
                         \/ \E t, u \in Turns : /\ Overlapped(t, u)
                                                /\ ReadStage \in StagesWritten(t)
                                                /\ field \in StagesWritten(u)
      BY DEF BelievedIsTrue
  <2> USE DEF SentInv, CapInv, OpeningInv
  <2>1. InSequence
    BY DEF LandInv
  <2>2. \A t \in Turns : \A i \in Entries(t) :
          /\ order[t][i] \in StageEntries
          /\ order[t][i].known <= order[t][i].landed
          /\ order[t][i].landed > 0 => order[t][i].known = order[t][i].landed
    <3> SUFFICES ASSUME NEW t \in Turns, NEW i \in Entries(t)
                 PROVE  /\ order[t][i] \in StageEntries
                        /\ order[t][i].known <= order[t][i].landed
                        /\ order[t][i].landed > 0 => order[t][i].known = order[t][i].landed
        OBVIOUS
    <3>1. pc[t] = "done"
      BY DEF Over, LandInv, SendersOnly
    <3>2. order[t][i] \in StageEntries /\ order[t][i].known <= order[t][i].did
          /\ order[t][i].did <= order[t][i].landed
      BY EntriesOf DEF LandInv, LandOf
    <3>3. ~(order[t][i].landed > 0 /\ order[t][i].landed > order[t][i].known)
      BY <3>1 DEF MissedOf
    <3> QED BY <3>2, <3>3 DEF StageEntries
  <2>3. \A t \in Turns : \A i \in Entries(t) : order[t][i].landed > 0 =>
          \E k \in DOMAIN rows : rows[k] = t /\ <<k, i>> \in Shown /\ At(<<k, i>>) = order[t][i]
    <3> SUFFICES ASSUME NEW t \in Turns, NEW i \in Entries(t), order[t][i].landed > 0
                 PROVE  \E k \in DOMAIN rows : rows[k] = t /\ <<k, i>> \in Shown /\ At(<<k, i>>) = order[t][i]
        OBVIOUS
    <3>1. order[t][i].known >= 0
      BY <2>2 DEF StageEntries
    <3>2. PICK k \in DOMAIN rows : rows[k] = t
      BY <3>1 DEF LandInv, LandOf
    <3>3. i \in 1..(Cap + 1)
      BY StageFits DEF LandInv
    <3> QED BY <3>1, <3>2, <3>3 DEF Shown, At
  <2>4. \A w \in Shown : /\ w = <<w[1], w[2]>> /\ w[1] \in DOMAIN rows /\ w[1] \in Nat /\ w[2] \in Nat
                         /\ rows[w[1]] \in Turns /\ w[2] \in Entries(rows[w[1]])
                         /\ At(w) = order[rows[w[1]]][w[2]]
    <3> SUFFICES ASSUME NEW w \in Shown PROVE <2>4!(w)
        OBVIOUS
    <3>1. w \in (DOMAIN rows) \X (1..(Cap + 1)) /\ w[2] \in Entries(rows[w[1]])
      BY DEF Shown
    <3>2. \A k \in DOMAIN rows : k \in Nat /\ rows[k] \in Turns
      BY LenProperties, ElementOfSeq DEF LandInv, RowTypes
    <3> QED BY <3>1, <3>2, ActionsAssumption DEF At
  <2>5. ReadSent = {f \in Flows : got[f] > 0}
    <3> SUFFICES ASSUME NEW f \in Flows
                 PROVE  (\E w \in Shown : At(w).act = SendFlowOf(f) /\ At(w).known > 0) <=> got[f] > 0
        BY DEF ReadSent
    <3>1. got[f] > 0 <=> \E t \in Turns : \E i \in Entries(t) :
                           order[t][i].act = SendFlowOf(f) /\ order[t][i].landed > 0
      BY DEF LandInv, GotIs
    <3>2. ASSUME NEW w \in Shown, At(w).act = SendFlowOf(f), At(w).known > 0 PROVE got[f] > 0
      <4>1. /\ rows[w[1]] \in Turns /\ w[2] \in Entries(rows[w[1]])
            /\ At(w) = order[rows[w[1]]][w[2]]
        BY <2>4
      <4>2. At(w) \in StageEntries /\ At(w).known <= At(w).landed
        BY <4>1, <2>2
      <4>3. At(w).landed > 0
        BY <3>2, <4>2 DEF StageEntries
      <4> QED BY <3>1, <3>2, <4>1, <4>3
    <3>3. ASSUME NEW t \in Turns, NEW i \in Entries(t),
                 order[t][i].act = SendFlowOf(f), order[t][i].landed > 0
          PROVE  \E w \in Shown : At(w).act = SendFlowOf(f) /\ At(w).known > 0
      <4>1. PICK k \in DOMAIN rows : <<k, i>> \in Shown /\ At(<<k, i>>) = order[t][i]
        BY <3>3, <2>3
      <4>2. At(<<k, i>>).act = SendFlowOf(f) /\ At(<<k, i>>).known > 0
        BY <3>3, <4>1, <2>2
      <4> QED BY <4>1, <4>2
    <3> QED BY <3>1, <3>2, <3>3
  <2> DEFINE W == {w \in Shown : Wrote(At(w).act, At(w).known) # NoStage}
  <2>6. \A w \in W : WroteAt(rows[w[1]], w[2])
    <3> SUFFICES ASSUME NEW w \in W PROVE WroteAt(rows[w[1]], w[2])
        OBVIOUS
    <3>1. /\ rows[w[1]] \in Turns /\ w[2] \in Entries(rows[w[1]])
          /\ At(w) = order[rows[w[1]]][w[2]]
      BY <2>4
    <3>2. /\ At(w) \in StageEntries /\ At(w).known <= At(w).landed
          /\ At(w).landed > 0 => At(w).known = At(w).landed
      BY <3>1, <2>2
    <3>3. At(w).act \in Actions /\ At(w).known \in Int /\ At(w).landed \in Nat
      BY <3>2 DEF StageEntries
    <3>4. Writes(At(w).act, At(w).known)
      BY <3>3, WroteIs
    <3>5. At(w).known > 0
      BY <3>3, <3>4 DEF Writes
    <3>6. At(w).known = At(w).landed
      BY <3>2, <3>3, <3>5
    <3> QED BY <3>1, <3>4, <3>6 DEF WroteAt
  <2>7. ReadStage = IF W = {} THEN NoStage
                    ELSE LET w == CHOOSE v \in W : \A x \in W : ~Later(x, v)
                         IN  Wrote(At(w).act, At(w).known)
    BY DEF ReadStage
  <2>8. CASE field = NoStage /\ \A t \in Turns : \A i \in Entries(t) : ~WroteAt(t, i)
    <3>1. W = {}
      BY <2>4, <2>6, <2>8
    <3> HIDE DEF W
    <3> QED BY <2>5, <2>7, <2>8, <3>1
  <2>9. ASSUME NEW t \in Turns, NEW i \in Entries(t), FieldIs(t, i)
        PROVE  \/ ReadStage = field
               \/ \E u \in Turns : /\ Overlapped(u, t)
                                   /\ ReadStage \in StagesWritten(u) /\ field \in StagesWritten(t)
    <3>1. /\ WroteAt(t, i) /\ field = Wrote(order[t][i].act, order[t][i].landed)
          /\ order[t][i] \in StageEntries
      BY <2>2, <2>9 DEF FieldIs
    <3>2. order[t][i].landed > 0 /\ order[t][i].known = order[t][i].landed
      BY <2>2, <3>1 DEF WroteAt, Writes, StageEntries
    <3>3. PICK k \in DOMAIN rows : rows[k] = t /\ <<k, i>> \in Shown /\ At(<<k, i>>) = order[t][i]
      BY <2>3, <3>2
    <3> DEFINE m == <<k, i>>
    <3>4. Wrote(At(m).act, At(m).known) = field /\ m[1] = k /\ m[2] = i
      BY <3>1, <3>2, <3>3
    <3>5. field # NoStage
      <4>1. order[t][i].act \in Actions /\ order[t][i].landed \in Int
        BY <3>1 DEF StageEntries
      <4>2. Writes(order[t][i].act, order[t][i].landed)
        BY <3>1 DEF WroteAt
      <4> QED BY <3>1, <4>1, <4>2, WroteIs
    <3>6. m \in W
      BY <3>3, <3>4, <3>5
    <3> DEFINE v == CHOOSE x \in W : \A y \in W : ~Later(y, x)
    <3>7. v \in W /\ \A y \in W : ~Later(y, v)
      <4>1. W \subseteq (DOMAIN rows) \X (1..(Cap + 1))
        BY DEF Shown
      <4>2. DOMAIN rows = 1..Len(rows) /\ Len(rows) \in Nat /\ Cap + 1 \in Nat
        BY LenProperties, ActionsAssumption DEF LandInv, RowTypes
      <4> HIDE DEF W, m
      <4>3. W \in SUBSET ((1..Len(rows)) \X (1..(Cap + 1))) /\ W # {}
        BY <4>1, <4>2, <3>6
      <4>4. \E w \in W : \A x \in W : ~Later(x, w)
        BY <4>2, <4>3, LastOfRows
      <4> QED BY <4>4
    <3> DEFINE u == rows[v[1]]
               j == v[2]
    <3>8. ReadStage = Wrote(At(v).act, At(v).known) /\ ReadStage # NoStage
      <4>1. Wrote(At(v).act, At(v).known) # NoStage /\ W # {}
        BY <3>7
      <4> HIDE DEF W, m
      <4> QED BY <2>7, <4>1
    <3>9. /\ v = <<v[1], j>> /\ v[1] \in DOMAIN rows /\ v[1] \in Nat /\ j \in Nat
          /\ u \in Turns /\ j \in Entries(u) /\ At(v) = order[u][j] /\ WroteAt(u, j)
      <4>1. v \in Shown
        BY <3>7
      <4> HIDE DEF v
      <4> QED BY <2>4, <2>6, <3>7, <4>1
    <3>10. k \in DOMAIN rows /\ k \in Nat /\ i \in Nat /\ ~Later(m, v)
      <4>1. m \in Shown
        BY <3>6
      <4> HIDE DEF m, v, W
      <4> QED BY <2>4, <3>4, <3>6, <3>7, <4>1
    <3> HIDE DEF v, W
    <3>11. ReadStage \in StagesWritten(u)
      <4>1. /\ At(v) \in StageEntries /\ At(v).known <= At(v).landed
            /\ At(v).landed > 0 => At(v).known = At(v).landed
        BY <3>9, <2>2
      <4>2. At(v).landed > 0
        BY <4>1, <3>9 DEF WroteAt, Writes, StageEntries
      <4> QED BY <3>8, <3>9, <4>1, <4>2 DEF StagesWritten
    <3>12. field \in StagesWritten(t)
      BY <3>1, <3>5 DEF StagesWritten
    <3>13. ASSUME ~Overlapped(u, t) PROVE ReadStage = field
      <4>1. u \notin beside[t] /\ t \notin beside[u]
        BY <3>13 DEF Overlapped
      <4>2. (u = t => j <= i) /\ ~(t < u)
        BY <3>9, <4>1, <2>9 DEF FieldIs
      <4>3. ~(u < t)
        <5> SUFFICES ASSUME u < t PROVE FALSE
            OBVIOUS
        <5>1. v[1] < k
          BY <3>3, <3>9, <3>10, <4>1, <2>1 DEF InSequence
        <5> QED BY <5>1, <3>4, <3>9, <3>10 DEF Later
      <4>4. u = t
        BY <3>9, <4>2, <4>3, ActionsAssumption DEF Turns
      <4>5. v[1] = k
        BY <4>4, <3>3, <3>9, <3>10, <2>1 DEF InSequence
      <4>6. j = i
        BY <4>2, <4>4, <4>5, <3>4, <3>9, <3>10 DEF Later
      <4> QED BY <3>8, <3>9, <3>4, <4>5, <4>6
    <3> QED BY <3>9, <3>11, <3>12, <3>13
  <2> QED BY <2>1, <2>5, <2>8, <2>9 DEF InSequence
<1> QED BY <1>1, LandInvariant, PTL

=============================================================================
