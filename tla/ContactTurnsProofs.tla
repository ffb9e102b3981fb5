------------------------- MODULE ContactTurnsProofs -------------------------
(***************************************************************************)
(* The turns of a contact, for any number of messages, any deadlines, and  *)
(* any choice of what may fail: turns are let in one at a time, what is    *)
(* recorded and what is said is in order, once, and a silent response is   *)
(* filled.                                                                 *)
(*                                                                         *)
(* The lane comes first, on its own (LaneInv).  PlaceInv joins where a     *)
(* turn is (pc) to its place in the lane, which the other invariants are   *)
(* built on: a turn bound to the contact's history works in its place      *)
(* alone, and LaneInv says what that excludes.                             *)
(***************************************************************************)
EXTENDS ContactTurns, TLAPS

-----------------------------------------------------------------------------
\* The lane

\* What OneAtATime needs to be inductive: a turn that found an earlier one in
\* its way is not the first, and a turn that has not entered has no state.
LaneInv ==
    /\ LaneTypeOK
    /\ \A m \in Turns : m > entered => ready[m] = "no"
    /\ OneAtATime

LEMMA LaneInitInv == LaneInit => LaneInv
  BY LaneAssumption DEF LaneInit, LaneInv, LaneTypeOK, OneAtATime, Turns

LEMMA EnterKeepsInv == ASSUME LaneInv, NEW m \in Turns, Enter(m) PROVE LaneInv'
  <1> USE LaneAssumption DEF LaneInv, Turns
  <1>1. m = entered + 1 /\ entered' = m /\ places' = places \union {m} /\ m \notin places
    BY DEF Enter, LaneTypeOK
  <1>2. LaneTypeOK'
    BY <1>1 DEF Enter, LaneTypeOK, TailSettled
  <1>3. \A n \in Turns : n # m => ready'[n] = ready[n]
    BY DEF Enter, LaneTypeOK
  <1>4. (\A n \in Turns : n > entered => ready[n] = "no")'
    BY <1>1, <1>3 DEF LaneTypeOK
  <1>5. ASSUME NEW n \in Turns, ready'[n] # "no", NEW k \in places', k < n
        PROVE  Outran(k, n)'
    <2>1. k \in places /\ k # m
      BY <1>1, <1>3, <1>5 DEF LaneTypeOK
    <2>2. CASE n # m
      BY <2>1, <2>2, <1>1, <1>3, <1>5 DEF OneAtATime, Outran, LaneTypeOK
    <2>3. CASE n = m
      <3>1. entered # 0 /\ TailSettled(entered)
        BY <1>1, <1>5, <2>1, <2>3 DEF Enter, LaneTypeOK
      <3>2. ready[entered] # "no" /\ k < entered /\ entered \in Turns
        BY <3>1, <2>1, <1>1 DEF TailSettled, Left, LaneTypeOK
      <3>3. Outran(k, entered)
        BY <3>2, <2>1 DEF OneAtATime
      <3> QED BY <3>2, <3>3, <2>3, <1>1, <1>3, <2>1 DEF Outran, LaneTypeOK
    <2> QED BY <2>2, <2>3
  <1> QED BY <1>2, <1>4, <1>5 DEF OneAtATime

\* A wait that ends, at its bound or because the tail settled, keeps the order.
LEMMA WaitEndsKeepsInv ==
    ASSUME LaneInv, NEW m \in Turns, ComesUp(m) \/ Expires(m) PROVE LaneInv'
  <1> USE LaneAssumption DEF LaneInv, Turns
  <1>1. /\ m \in waited /\ ready[m] = "no" /\ UNCHANGED <<entered, places, claimed, waited, wait>>
        /\ \A n \in Turns : n # m => ready'[n] = ready[n]
        /\ m \in 2..entered
    BY DEF ComesUp, Expires, LaneTypeOK
  <1>2. LaneTypeOK' /\ (\A n \in Turns : n > entered => ready[n] = "no")'
    BY <1>1 DEF ComesUp, Expires, LaneTypeOK
  <1>3. ASSUME NEW n \in Turns, ready'[n] # "no", NEW k \in places', k < n
        PROVE  Outran(k, n)'
    <2>1. k \in places /\ k \in Turns
      BY <1>1, <1>3 DEF LaneTypeOK
    <2>2. CASE n # m
      <3>1. PICK j \in (k + 1)..n : ready[j] = "expired"
        BY <1>1, <1>3, <2>1, <2>2 DEF OneAtATime, Outran
      <3> QED BY <3>1, <1>1, <2>1 DEF Outran
    <2>3. CASE n = m
      <3>1. CASE Expires(m)
        BY <3>1, <2>1, <2>3, <1>3 DEF Expires, Outran, LaneTypeOK
      <3>2. CASE ComesUp(m)
        <4>1. ready[m - 1] # "no" /\ k < m - 1 /\ m - 1 \in Turns
          BY <3>2, <2>1, <2>3, <1>1, <1>3 DEF ComesUp, TailSettled, Left, LaneTypeOK
        <4>2. PICK j \in (k + 1)..(m - 1) : ready[j] = "expired"
          BY <4>1, <2>1 DEF OneAtATime, Outran
        <4> QED BY <4>1, <4>2, <2>1, <2>3, <1>1 DEF Outran
      <3> QED BY <3>1, <3>2
    <2> QED BY <2>2, <2>3
  <1> QED BY <1>2, <1>3 DEF OneAtATime

LEMMA LaneInvStep == LaneInv /\ [LaneNext]_laneVars => LaneInv'
  <1> SUFFICES ASSUME LaneInv, [LaneNext]_laneVars PROVE LaneInv'
    OBVIOUS
  <1> USE LaneAssumption
  <1>1. ASSUME NEW m \in Turns, Enter(m) PROVE LaneInv'
    BY <1>1, EnterKeepsInv
  <1>2. ASSUME NEW m \in Turns, Claim(m) PROVE LaneInv'
    BY <1>2 DEF Claim, LaneInv, LaneTypeOK, OneAtATime, Outran, Turns
  <1>3. ASSUME NEW m \in Turns, Leave(m) PROVE LaneInv'
    BY <1>3 DEF Leave, LaneInv, LaneTypeOK, OneAtATime, Outran, Turns
  <1>4. ASSUME NEW m \in Turns, ComesUp(m) \/ Expires(m) PROVE LaneInv'
    BY <1>4, WaitEndsKeepsInv
  <1>5. CASE LaneTick
    <2>1. wait' \in [Turns -> 0..MaxWait]
      BY <1>5 DEF LaneTick, PassWaits, LaneInv, LaneTypeOK
    <2> QED BY <1>5, <2>1 DEF LaneTick, LaneInv, LaneTypeOK, OneAtATime, Outran
  <1>6. CASE UNCHANGED laneVars
    BY <1>6 DEF laneVars, LaneInv, LaneTypeOK, OneAtATime, Outran
  <1> QED BY <1>1, <1>2, <1>3, <1>4, <1>5, <1>6 DEF LaneNext

(***************************************************************************)
(* Every contact's turns run one at a time and in arrival order, save for  *)
(* a wait that ended at its bound.                                         *)
(***************************************************************************)
THEOREM TurnsRunOneAtATime == LaneSpec => []OneAtATime
  <1>1. LaneInv => OneAtATime
    BY DEF LaneInv
  <1> QED BY <1>1, LaneInitInv, LaneInvStep, PTL DEF LaneSpec

-----------------------------------------------------------------------------
\* What the invariants say

Words == [what : {"reply", "holding", "handoff"}, msg : Turns]
Rows == [who : {"user", "agent"}, msg : Turns]

TurnTypes ==
    /\ pc \in [Turns -> Places]
    /\ response \in [Turns -> {"none", "inline", "holding", "silent", "handoff"}]
    /\ result \in [Turns -> Results]
    /\ race \in [Turns -> Nat] /\ plays \in [Turns -> Nat]
    /\ bound \subseteq Turns
    /\ history \in Seq(Rows) /\ heard \in Seq(Words) /\ queue \in Seq(Words)
    /\ faults \in Nat

\* Where a turn is says whether it has its place, and whether it was let in.
Before == {"find", "wait", "burst", "fold"}
PlaceOf(m) ==
    /\ pc[m] = "away" <=> m > entered
    /\ pc[m] \in {"done", "lost"} => m \notin places
    /\ pc[m] \in Before => m \in places
    /\ m \in places => pc[m] \in {"find", "wait"} \/ ready[m] # "no"
    /\ pc[m] \in Places \ (Before \union {"away", "done", "lost"}) =>
          m \in places \/ ~Enters(m)
    /\ m \in bound => /\ pc[m] \notin Before \union {"away", "admit"}
                      /\ ready[m] # "no"
                      /\ pc[m] \in {"done", "lost"} \/ m \in places

PlaceInv == TurnTypes /\ LaneInv /\ \A m \in Turns : PlaceOf(m)

\* What is recorded was recorded by a turn that had been let in.
RowsInv == \A i \in 1..Len(history) : ready[history[i].msg] # "no"
HistoryInv == PlaceInv /\ RowsInv /\ HistoryInOrder

\* A reply held back for its flow is still in time, and its request unanswered.
ResponseOf(m) ==
    /\ pc[m] \in {"away", "find", "deliver", "held"} => response[m] = "none"
    /\ pc[m] = "held" => plays[m] <= race[m]
    /\ pc[m] = "handoff" => faults > 0
ResponseInv == PlaceInv /\ \A m \in Turns : ResponseOf(m)

SilenceInv == ResponseInv /\ SilenceIsFilled

\* What the contact was told for a turn: nothing before its response, and before it is over nothing but
\* a holding line.
ToldOf(m) ==
    \A i \in 1..Len(Told) : Told[i].msg = m =>
        /\ response[m] # "none"
        /\ \/ pc[m] = "done"
           \/ Told[i].what = "holding" /\ pc[m] \in {"model", "record", "enqueue"}
\* What was queued while a reply is held back may only pass it if a wait ended at its bound.
HeldOf(m) ==
    pc[m] = "held" /\ m \in bound =>
        \A i \in 1..Len(queue) : queue[i].msg \in bound =>
            queue[i].msg > m \/ Outran(queue[i].msg, m)
ToldInv ==
    faults = 0 =>
        /\ \A m \in Turns : pc[m] \notin {"handoff", "lost"} /\ ToldOf(m) /\ HeldOf(m)
        /\ OneAnswer /\ RepliesInOrder

-----------------------------------------------------------------------------
(* Words, rows and responses *)

LEMMA Constants ==
    /\ N \in Nat /\ MaxWait \in Nat /\ RaceDeadline \in Nat /\ ModelAbort \in Nat
    /\ FlowPlays \in Nat
    /\ Endings \subseteq {"reply", "flow", "escalate", "fallback"}
  BY LaneAssumption, TurnsAssumption

\* A response adds at most one thing to what the contact has heard.
LEMMA RespondsTells ==
    ASSUME TurnTypes, NEW m \in Turns, NEW what \in {"inline", "holding", "silent", "handoff"},
           Responds(m, what)
    PROVE  /\ response' = [response EXCEPT ![m] = what]
           /\ response' \in [Turns -> {"none", "inline", "holding", "silent", "handoff"}]
           /\ heard' \in Seq(Words)
           /\ what = "silent" => heard' = heard
           /\ what # "silent" => \E w \in {"reply", "holding", "handoff"} :
                 heard' = Append(heard, Item(w, m)) /\ (what = "handoff" => w = "handoff")
                                                    /\ (what = "holding" => w = "holding")
  <1>1. \A w \in {"reply", "holding", "handoff"} : Item(w, m) \in Words
    BY DEF Item, Words
  <1>2. \A w \in {"reply", "holding", "handoff"} : Append(heard, Item(w, m)) \in Seq(Words)
    BY <1>1 DEF TurnTypes
  <1>3. heard' = CASE what = "inline"  -> Append(heard, Item(
                                            IF result[m] \in {"escalate", "denied", "error"}
                                            THEN "handoff" ELSE "reply", m))
                  [] what = "holding" -> Append(heard, Item("holding", m))
                  [] what = "handoff" -> Append(heard, Item("handoff", m))
                  [] OTHER            -> heard
    BY DEF Responds
  <1>4. response' = [response EXCEPT ![m] = what]
    BY DEF Responds
  <1> HIDE DEF Item, Words
  <1>5. CASE what = "inline"
    <2>1. \E w \in {"reply", "holding", "handoff"} : heard' = Append(heard, Item(w, m))
      BY <1>3, <1>5
    <2> QED BY <2>1, <1>2, <1>4, <1>5 DEF TurnTypes
  <1>6. CASE what = "holding"
    BY <1>2, <1>3, <1>4, <1>6 DEF TurnTypes
  <1>7. CASE what = "handoff"
    BY <1>2, <1>3, <1>4, <1>7 DEF TurnTypes
  <1>8. CASE what = "silent"
    BY <1>3, <1>4, <1>8 DEF TurnTypes
  <1> QED BY <1>5, <1>6, <1>7, <1>8

LEMMA QueuedIsWord ==
    ASSUME NEW m \in Turns
    PROVE  \E w \in {"reply", "holding", "handoff"} : Queued(m) = Item(w, m)
  BY DEF Queued

LEMMA RowIsRow ==
    ASSUME NEW m \in Turns
    PROVE  Row("user", m) \in Rows /\ Row("agent", m) \in Rows
  BY DEF Row, Rows

LEMMA ItemIsWord ==
    ASSUME NEW m \in Turns, NEW w \in {"reply", "holding", "handoff"}
    PROVE  Item(w, m) \in Words /\ Item(w, m).msg = m /\ Item(w, m).what = w
  BY DEF Item, Words

\* x is told between what was told before: at the end of the queue, or past it.
Inserted(p, x) ==
    /\ p \in 1..(Len(Told) + 1)
    /\ Len(Told') = Len(Told) + 1
    /\ \A i \in 1..Len(Told') :
          Told'[i] = IF i < p THEN Told[i] ELSE IF i = p THEN x ELSE Told[i - 1]

LEMMA ToldIs ==
    ASSUME TurnTypes
    PROVE  /\ Len(heard) \in Nat /\ Len(queue) \in Nat
           /\ Len(Told) = Len(heard) + Len(queue)
           /\ Told \in Seq(Words)
           /\ \A i \in 1..Len(Told) :
                 Told[i] = IF i <= Len(heard) THEN heard[i] ELSE queue[i - Len(heard)]
           /\ \A i \in 1..Len(Told) : Told[i] \in Words /\ Told[i].msg \in Turns
  <1>1. heard \in Seq(Words) /\ queue \in Seq(Words)
    BY DEF TurnTypes
  <1>2. /\ Len(heard) \in Nat /\ Len(queue) \in Nat
        /\ Len(Told) = Len(heard) + Len(queue)
        /\ Told \in Seq(Words)
        /\ \A i \in 1..Len(Told) :
              Told[i] = IF i <= Len(heard) THEN heard[i] ELSE queue[i - Len(heard)]
    BY <1>1 DEF Told
  <1>3. \A i \in 1..Len(Told) : Told[i] \in Words
    BY <1>2
  <1>4. \A x \in Words : x.msg \in Turns
    BY DEF Words
  <1> QED BY <1>2, <1>3, <1>4

LEMMA HeardGrows ==
    ASSUME TurnTypes, NEW x \in Words, heard' = Append(heard, x), queue' = queue
    PROVE  Inserted(Len(heard) + 1, x)
  <1>1. heard \in Seq(Words) /\ queue \in Seq(Words)
    BY DEF TurnTypes
  <1>2. heard' \in Seq(Words) /\ Len(heard') = Len(heard) + 1
        /\ \A i \in 1..Len(heard') : heard'[i] = IF i <= Len(heard) THEN heard[i] ELSE x
    BY <1>1
  <1>3. /\ Len(Told') = Len(heard') + Len(queue)
        /\ \A i \in 1..Len(Told') :
              Told'[i] = IF i <= Len(heard') THEN heard'[i] ELSE queue[i - Len(heard')]
    BY <1>1, <1>2 DEF Told
  <1>4. Len(heard) \in Nat /\ Len(queue) \in Nat /\ Len(Told) = Len(heard) + Len(queue)
        /\ \A i \in 1..Len(Told) :
              Told[i] = IF i <= Len(heard) THEN heard[i] ELSE queue[i - Len(heard)]
    BY ToldIs
  <1>5. ASSUME NEW i \in 1..Len(Told')
        PROVE  Told'[i] = IF i < Len(heard) + 1 THEN Told[i]
                          ELSE IF i = Len(heard) + 1 THEN x ELSE Told[i - 1]
    <2>1. CASE i < Len(heard) + 1
      BY <2>1, <1>2, <1>3, <1>4
    <2>2. CASE i = Len(heard) + 1
      BY <2>2, <1>2, <1>3, <1>4
    <2>3. CASE i > Len(heard) + 1
      <3>1. Told'[i] = queue[i - (Len(heard) + 1)]
        BY <2>3, <1>2, <1>3, <1>4
      <3>2. (i - 1) \in 1..Len(Told) /\ ~(i - 1 <= Len(heard))
        BY <2>3, <1>2, <1>3, <1>4
      <3>3. Told[i - 1] = queue[(i - 1) - Len(heard)]
        BY <3>2, <1>4
      <3>4. (i - 1) - Len(heard) = i - (Len(heard) + 1)
        BY <1>4
      <3> QED BY <3>1, <3>3, <3>4, <2>3, <1>4
    <2> QED BY <2>1, <2>2, <2>3, <1>4, <1>3, <1>2
  <1> QED BY <1>2, <1>3, <1>4, <1>5 DEF Inserted

LEMMA QueueGrows ==
    ASSUME TurnTypes, NEW x \in Words, queue' = Append(queue, x), heard' = heard
    PROVE  Inserted(Len(Told) + 1, x)
  <1>1. heard \in Seq(Words) /\ queue \in Seq(Words)
    BY DEF TurnTypes
  <1>2. queue' \in Seq(Words) /\ Len(queue') = Len(queue) + 1
        /\ \A i \in 1..Len(queue') : queue'[i] = IF i <= Len(queue) THEN queue[i] ELSE x
    BY <1>1
  <1>3. /\ Len(Told') = Len(heard) + Len(queue')
        /\ \A i \in 1..Len(Told') :
              Told'[i] = IF i <= Len(heard) THEN heard[i] ELSE queue'[i - Len(heard)]
    BY <1>1, <1>2 DEF Told
  <1>4. Len(heard) \in Nat /\ Len(queue) \in Nat /\ Len(Told) = Len(heard) + Len(queue)
        /\ \A i \in 1..Len(Told) :
              Told[i] = IF i <= Len(heard) THEN heard[i] ELSE queue[i - Len(heard)]
    BY ToldIs
  <1> QED BY <1>2, <1>3, <1>4 DEF Inserted

LEMMA WorkerMoves ==
    ASSUME TurnTypes, Worker
    PROVE  /\ Told' = Told /\ heard' \in Seq(Words) /\ queue' \in Seq(Words)
           /\ Len(queue') <= Len(queue)
           /\ \A i \in 1..Len(queue') : \E j \in 1..Len(queue) : queue'[i] = queue[j]
  <1>1. heard \in Seq(Words) /\ queue \in Seq(Words) /\ queue # <<>>
        /\ heard' = Append(heard, Head(queue)) /\ queue' = Tail(queue)
    BY DEF TurnTypes, Worker
  <1>2. Len(queue) \in Nat /\ Len(queue) > 0 /\ Head(queue) = queue[1] /\ queue[1] \in Words
    BY <1>1
  <1>3. queue' \in Seq(Words) /\ Len(queue') = Len(queue) - 1
        /\ \A i \in 1..Len(queue') : queue'[i] = queue[i + 1]
    BY <1>1, <1>2
  <1>4. heard' \in Seq(Words) /\ Len(heard') = Len(heard) + 1
        /\ \A i \in 1..Len(heard') : heard'[i] = IF i <= Len(heard) THEN heard[i] ELSE queue[1]
    BY <1>1, <1>2
  <1>5. /\ Told' \in Seq(Words) /\ Len(Told') = Len(heard') + Len(queue')
        /\ \A i \in 1..Len(Told') :
              Told'[i] = IF i <= Len(heard') THEN heard'[i] ELSE queue'[i - Len(heard')]
    <2>1. heard' \in Seq(Words) /\ queue' \in Seq(Words) /\ Told' = heard' \o queue'
      BY <1>3, <1>4 DEF Told
    <2> QED BY <2>1
  <1>6. /\ Told \in Seq(Words) /\ Len(heard) \in Nat /\ Len(Told) = Len(heard) + Len(queue)
        /\ \A i \in 1..Len(Told) :
              Told[i] = IF i <= Len(heard) THEN heard[i] ELSE queue[i - Len(heard)]
    BY ToldIs
  <1>7. Len(Told') = Len(Told)
    BY <1>2, <1>3, <1>4, <1>5, <1>6
  <1>8. ASSUME NEW i \in 1..Len(Told) PROVE Told'[i] = Told[i]
    <2>1. CASE i <= Len(heard)
      BY <2>1, <1>4, <1>5, <1>6, <1>7
    <2>2. CASE i = Len(heard) + 1
      BY <2>2, <1>2, <1>4, <1>5, <1>6, <1>7
    <2>3. CASE i > Len(heard) + 1
      <3>1. Told'[i] = queue'[i - (Len(heard) + 1)]
        BY <2>3, <1>4, <1>5, <1>6, <1>7
      <3>2. i - (Len(heard) + 1) \in 1..Len(queue')
        BY <2>3, <1>2, <1>3, <1>6
      <3>3. queue'[i - (Len(heard) + 1)] = queue[(i - (Len(heard) + 1)) + 1]
        BY <3>2, <1>3
      <3>4. (i - (Len(heard) + 1)) + 1 = i - Len(heard)
        BY <1>6
      <3> QED BY <3>1, <3>3, <3>4, <2>3, <1>6
    <2> QED BY <2>1, <2>2, <2>3, <1>6
  <1>9. Told' = Told
    BY <1>5, <1>6, <1>7, <1>8
  <1>10. \A i \in 1..Len(queue') : (i + 1) \in 1..Len(queue) /\ queue'[i] = queue[i + 1]
    BY <1>2, <1>3
  <1> QED BY <1>2, <1>3, <1>4, <1>9, <1>10

-----------------------------------------------------------------------------
(* Where a turn is *)

\* A step that leaves a turn's place and binding alone leaves what is known of them.
LEMMA OthersStay ==
    ASSUME NEW k \in Turns, PlaceOf(k), pc'[k] = pc[k], entered' = entered,
           (k \in places') <=> (k \in places), ready[k] # "no" => ready'[k] # "no",
           (k \in bound') <=> (k \in bound), ~Enters(k) => ~Enters(k)'
    PROVE  PlaceOf(k)'
  BY DEF PlaceOf

\* What binds a request is settled: the token is issued for good, and what it carries is its own.
BindingSame == carries' = carries /\ (issued => issued')

LEMMA UnboundStays == ASSUME NEW k \in Turns, BindingSame, ~Enters(k) PROVE ~Enters(k)'
  BY DEF BindingSame, Enters, Binding

LEMMA PlacesAreTurns ==
    ASSUME PlaceInv
    PROVE  places \subseteq Turns /\ entered \in 0..N /\ ready \in [Turns -> {"no", "ready", "expired"}]
  BY Constants DEF PlaceInv, LaneInv, LaneTypeOK, Turns

\* A turn goes on, its place kept.
LEMMA GoesOn ==
    ASSUME PlaceInv, NEW m \in Turns, NEW to \in Places \ {"away", "find", "wait", "done", "lost"},
           Goes(m, to), TurnTypes', bound' = bound, BindingSame,
           pc[m] # "away", m \in places => ready[m] # "no",
           to \in Before => m \in places, to \notin Before => m \in places \/ ~Enters(m),
           m \in bound => to \notin Before \union {"admit"} /\ pc[m] \notin {"done", "lost"}
    PROVE  PlaceInv'
  <1>1. LaneInv'
    BY LaneInvStep DEF PlaceInv, Goes
  <1>2. pc' = [pc EXCEPT ![m] = to] /\ UNCHANGED laneVars /\ pc \in [Turns -> Places]
    BY DEF Goes, PlaceInv, TurnTypes
  <1>3. ASSUME NEW k \in Turns, k # m PROVE PlaceOf(k)'
    BY <1>2, <1>3, OthersStay, UnboundStays DEF PlaceInv, laneVars
  <1>4. ~Enters(m) => ~Enters(m)'
    BY UnboundStays
  <1>5. PlaceOf(m)'
    BY <1>2, <1>4 DEF PlaceInv, PlaceOf, laneVars, Before
  <1> QED BY <1>1, <1>3, <1>5 DEF PlaceInv

\* A turn is over, and gives its place up if it has it.
LEMMA IsOver ==
    ASSUME PlaceInv, NEW m \in Turns, Over(m), TurnTypes', bound' = bound, BindingSame,
           pc[m] # "away"
    PROVE  PlaceInv'
  <1>1. LaneInv'
    BY LaneInvStep DEF PlaceInv, Over, LaneNext
  <1>2. /\ pc' = [pc EXCEPT ![m] = "done"] /\ pc \in [Turns -> Places]
        /\ entered' = entered /\ ready' = ready /\ places' = places \ {m}
    BY DEF Over, Leave, laneVars, PlaceInv, TurnTypes
  <1>3. ASSUME NEW k \in Turns, k # m PROVE PlaceOf(k)'
    BY <1>2, <1>3, OthersStay, UnboundStays DEF PlaceInv
  <1>4. PlaceOf(m)'
    BY <1>2 DEF PlaceInv, PlaceOf, Before
  <1> QED BY <1>1, <1>3, <1>4 DEF PlaceInv

\* Nothing moved in the lane.
LEMMA NoneMoves ==
    ASSUME PlaceInv, UNCHANGED <<laneVars, pc, bound>>, BindingSame, TurnTypes'
    PROVE  PlaceInv'
  <1>1. LaneInv'
    BY LaneInvStep DEF PlaceInv
  <1>2. ASSUME NEW k \in Turns PROVE PlaceOf(k)'
    BY OthersStay, UnboundStays DEF PlaceInv, laneVars
  <1> QED BY <1>1, <1>2 DEF PlaceInv

-----------------------------------------------------------------------------
(* Types *)

LEMMA FaultTypes == ASSUME TurnTypes PROVE (\E m \in Turns : FaultIn(m)) \/ FaultAgain => faults' \in Nat /\ faults' = faults + 1
  BY DEF TurnTypes, FaultIn, FaultAgain

LEMMA GoesTypes ==
    ASSUME TurnTypes, NEW m \in Turns, NEW to \in Places, Goes(m, to) PROVE pc' \in [Turns -> Places]
  BY DEF TurnTypes, Goes

LEMMA OverTypes == ASSUME TurnTypes, NEW m \in Turns, Over(m) PROVE pc' \in [Turns -> Places]
  BY DEF TurnTypes, Over, Places

\* One step of a turn, whichever it is, keeps the types.
LEMMA TypesStep == ASSUME PlaceInv, [Next]_vars PROVE TurnTypes'
  <1> USE Constants DEF Places, Statements, Results, request, contact, timers, call, answer
  <1> USE DEF PlaceInv
  <1> HIDE DEF Words, Rows
  <1>a. \A m \in Turns : Item("handoff", m) \in Words /\ Queued(m) \in Words
                         /\ Row("user", m) \in Rows /\ Row("agent", m) \in Rows
    BY QueuedIsWord, ItemIsWord, RowIsRow
  <1>b. \A m \in Turns : /\ Append(history, Row("user", m)) \in Seq(Rows)
                         /\ Append(history, Row("agent", m)) \in Seq(Rows)
                         /\ Append(queue, Queued(m)) \in Seq(Words)
                         /\ Append(queue, Item("handoff", m)) \in Seq(Words)
    BY <1>a DEF TurnTypes
  <1>r. ASSUME NEW m \in Turns, NEW what \in {"inline", "holding", "silent", "handoff"}, Responds(m, what)
        PROVE  response' \in [Turns -> {"none", "inline", "holding", "silent", "handoff"}] /\ heard' \in Seq(Words)
    BY <1>r, RespondsTells
  <1>f. ASSUME NEW m \in Turns, FaultIn(m) \/ FaultAgain PROVE faults' \in Nat
    BY <1>f, FaultTypes
  <1>1. ASSUME NEW m \in Turns, Arrive(m) PROVE TurnTypes'
    BY <1>1 DEF TurnTypes, Arrive
  <1>2. ASSUME NEW m \in Turns, Find(m) PROVE TurnTypes'
    BY <1>2 DEF TurnTypes, Find, Goes
  <1>3. ASSUME NEW m \in Turns, FindFails(m) PROVE TurnTypes'
    BY <1>3, <1>r, <1>f, OverTypes DEF TurnTypes, FindFails, RouteHandsOff
  <1>4. ASSUME NEW m \in Turns, Decide(m) \/ Quiet(m) \/ Check(m) \/ ModelEnds(m) PROVE TurnTypes'
    BY <1>4 DEF TurnTypes, Decide, Quiet, Goes, Check, ModelEnds
  <1>5. ASSUME NEW m \in Turns, DeadlineWaiting(m) PROVE TurnTypes'
    BY <1>5, <1>r, <1>f DEF TurnTypes, DeadlineWaiting
  <1>6. ASSUME NEW m \in Turns, Fold(m) PROVE TurnTypes'
    BY <1>6, <1>b, <1>r, OverTypes DEF TurnTypes, Fold
  <1>7. ASSUME NEW m \in Turns, StartFails(m) PROVE TurnTypes'
    <2>1. history' \in Seq(Rows)
      BY <1>7, <1>b DEF TurnTypes, StartFails
    <2> QED BY <1>7, <2>1, <1>r, <1>f, OverTypes, GoesTypes DEF TurnTypes, StartFails, RouteHandsOff
  <1>8. ASSUME NEW m \in Turns, Admit(m) PROVE TurnTypes'
    <2>1. history' \in Seq(Rows)
      BY <1>8, <1>b DEF TurnTypes, Admit
    <2> QED BY <1>8, <2>1 DEF TurnTypes, Admit, Goes
  <1>9. ASSUME NEW m \in Turns, SendFlow(m) PROVE TurnTypes'
    BY <1>9 DEF TurnTypes, SendFlow
  <1>10. ASSUME NEW m \in Turns, DeadlineModel(m) PROVE TurnTypes'
    <2>1. (IF SilentNow(m) THEN "silent" ELSE "holding") \in {"inline", "holding", "silent", "handoff"}
      OBVIOUS
    <2> QED BY <1>10, <2>1, <1>r, <1>f, OverTypes DEF TurnTypes, DeadlineModel, RouteHandsOff
  <1>11. ASSUME NEW m \in Turns, ModelFails(m) PROVE TurnTypes'
    BY <1>11, <1>f DEF TurnTypes, ModelFails, Goes
  <1>12. ASSUME NEW m \in Turns, Record(m) PROVE TurnTypes'
    <2>1. history' \in Seq(Rows)
      BY <1>12, <1>b DEF TurnTypes, Record
    <2>2. pc' \in [Turns -> Places]
      BY <1>12, OverTypes, GoesTypes DEF Record
    <2> QED BY <1>12, <2>1, <2>2 DEF TurnTypes, Record
  <1>13. ASSUME NEW m \in Turns, RecordFails(m) PROVE TurnTypes'
    <2>1. history' \in Seq(Rows)
      BY <1>13, <1>b DEF TurnTypes, RecordFails
    <2> QED BY <1>13, <2>1, <1>r, <1>f, OverTypes, GoesTypes
            DEF TurnTypes, RecordFails, FailsAfterDecision, RouteHandsOff
  <1>14. ASSUME NEW m \in Turns, Deliver(m) \/ HeldEnds(m) PROVE TurnTypes'
    BY <1>14, <1>r, OverTypes, GoesTypes DEF TurnTypes, Deliver, HeldEnds
  <1>15. ASSUME NEW m \in Turns, DeliverFails(m) PROVE TurnTypes'
    BY <1>15, <1>r, <1>f, OverTypes DEF TurnTypes, DeliverFails, RouteHandsOff
  <1>16. ASSUME NEW m \in Turns, Enqueue(m) PROVE TurnTypes'
    BY <1>16, <1>b, OverTypes DEF TurnTypes, Enqueue
  <1>17. ASSUME NEW m \in Turns, EnqueueFails(m) PROVE TurnTypes'
    <2>1. queue' \in Seq(Words)
      BY <1>17, <1>b DEF TurnTypes, EnqueueFails
    <2> QED BY <1>17, <2>1, <1>r, <1>f, OverTypes, GoesTypes
            DEF TurnTypes, EnqueueFails, FailsAfterDecision, RouteHandsOff
  <1>18. ASSUME NEW m \in Turns, HandOff(m) \/ HandOffFails(m) PROVE TurnTypes'
    <2>1. queue' \in Seq(Words)
      BY <1>18, <1>b DEF TurnTypes, HandOff, HandOffFails
    <2> QED BY <1>18, <2>1, <1>b, <1>f, OverTypes DEF TurnTypes, HandOff, HandOffFails
  <1>19. ASSUME NEW m \in Turns, LaneWakes(m) PROVE TurnTypes'
    BY <1>19 DEF TurnTypes, LaneWakes, turnVars
  <1>20. CASE Worker
    BY <1>20, WorkerMoves DEF TurnTypes, Worker
  <1>21. CASE Tick
    BY <1>21 DEF TurnTypes, Tick, Less
  <1>22. CASE Crash
    BY <1>22 DEF TurnTypes, Crash
  <1>23. CASE UNCHANGED vars
    BY <1>23 DEF TurnTypes, vars, turnVars
  <1> QED BY <1>1, <1>2, <1>3, <1>4, <1>5, <1>6, <1>7, <1>8, <1>9, <1>10, <1>11, <1>12, <1>13,
             <1>14, <1>15, <1>16, <1>17, <1>18, <1>19, <1>20, <1>21, <1>22, <1>23
          DEF Next, Step, Fails

-----------------------------------------------------------------------------
(* Every step keeps turns in their places *)

LEMMA ArrivesInPlace == ASSUME PlaceInv, TurnTypes', NEW m \in Turns, Arrive(m) PROVE PlaceInv'
  <1> USE Constants DEF Turns
  <1>1. /\ Enter(m) /\ m = entered + 1 /\ entered' = m /\ places' = places \union {m}
        /\ pc' = [pc EXCEPT ![m] = "find"] /\ pc \in [Turns -> Places] /\ bound' = bound
        /\ issued' = issued /\ carries' \in {carries, carries \union {m}}
    BY DEF Arrive, Enter, PlaceInv, TurnTypes, contact
  <1>2. LaneInv'
    BY <1>1, EnterKeepsInv DEF PlaceInv
  <1>3. \A k \in Turns : k # m => ready'[k] = ready[k]
    BY <1>1, PlacesAreTurns DEF Enter
  <1>4. ASSUME NEW k \in Turns, k # m PROVE PlaceOf(k)'
    <2>1. pc'[k] = pc[k] /\ ready'[k] = ready[k] /\ ((k \in places') <=> (k \in places))
      BY <1>1, <1>3, <1>4
    <2>2. k > entered <=> k > entered'
      BY <1>1, <1>4, PlacesAreTurns
    <2>3. ~Enters(k) => ~Enters(k)'
      BY <1>1, <1>4 DEF Enters, Binding
    <2> QED BY <1>1, <2>1, <2>2, <2>3 DEF PlaceOf, PlaceInv
  <1>5. PlaceOf(m)'
    <2>1. pc[m] = "away" /\ pc'[m] = "find" /\ m \in places' /\ m \notin bound' /\ ~(m > entered')
      BY <1>1 DEF Arrive, PlaceInv, PlaceOf
    <2> QED BY <2>1 DEF PlaceOf, Before
  <1> QED BY <1>2, <1>4, <1>5 DEF PlaceInv

LEMMA FindsInPlace == ASSUME PlaceInv, TurnTypes', NEW m \in Turns, Find(m) PROVE PlaceInv'
  <1>1. /\ pc[m] = "find" /\ bound' = bound /\ issued' = issued /\ carries' = carries
        /\ pc \in [Turns -> Places] /\ places \subseteq Turns
    BY PlacesAreTurns DEF Find, PlaceInv, TurnTypes, request, contact
  <1>2. m \in places /\ m \notin bound /\ ~(m > entered)
    BY <1>1 DEF PlaceInv, PlaceOf, Before
  <1>3. BindingSame
    BY <1>1 DEF BindingSame
  <1>4. [LaneNext]_laneVars
    BY DEF Find, Goes, LaneNext
  <1>5. LaneInv' /\ entered' = entered /\ ready' = ready
    BY <1>4, LaneInvStep DEF PlaceInv, Find, Leave, Claim, Goes, laneVars
  <1>6. CASE Enforced /\ Binding(m) = "unbound"
    <2>1. pc' = [pc EXCEPT ![m] = "admit"] /\ places' = places \ {m}
      BY <1>6 DEF Find, Leave
    <2>2. ~Enters(m) /\ ~Enters(m)'
      BY <1>6, <1>3, UnboundStays DEF Enters
    <2>3. ASSUME NEW k \in Turns, k # m PROVE PlaceOf(k)'
      BY <2>1, <2>3, <1>1, <1>3, <1>5, OthersStay, UnboundStays DEF PlaceInv
    <2>4. PlaceOf(m)'
      BY <1>1, <1>2, <1>5, <2>1, <2>2 DEF PlaceOf, Before
    <2> QED BY <1>5, <2>3, <2>4 DEF PlaceInv
  <1>7. CASE ~(Enforced /\ Binding(m) = "unbound")
    <2>1. places' = places /\ pc'[m] = "wait"
          /\ \A k \in Turns : k # m => pc'[k] = pc[k] \/ (pc[k] = "burst" /\ k \in places /\ pc'[k] = "fold")
      <3>1. CASE ReadsHistory(m) /\ Answers(m)
        BY <3>1, <1>1, <1>7 DEF Find, Claim, Woken
      <3>2. CASE ~(ReadsHistory(m) /\ Answers(m))
        BY <3>2, <1>1, <1>7 DEF Find, Goes, laneVars
      <3> QED BY <3>1, <3>2
    <2>2. ASSUME NEW k \in Turns, k # m PROVE PlaceOf(k)'
      <3>1. CASE pc'[k] = pc[k]
        BY <3>1, <2>1, <1>1, <1>3, <1>5, OthersStay, UnboundStays DEF PlaceInv
      <3>2. CASE pc[k] = "burst" /\ k \in places /\ pc'[k] = "fold"
        BY <3>2, <2>1, <1>1, <1>5 DEF PlaceInv, PlaceOf, Before
      <3> QED BY <2>1, <2>2, <3>1, <3>2
    <2>3. PlaceOf(m)'
      BY <1>1, <1>2, <1>5, <2>1 DEF PlaceOf, Before
    <2> QED BY <1>5, <2>2, <2>3 DEF PlaceInv
  <1> QED BY <1>6, <1>7

LEMMA AdmitsInPlace == ASSUME PlaceInv, TurnTypes', NEW m \in Turns, Admit(m) PROVE PlaceInv'
  <1>1. /\ pc[m] = "admit" /\ Goes(m, "check") /\ issued' /\ carries' = carries
        /\ pc \in [Turns -> Places] /\ UNCHANGED laneVars /\ pc' = [pc EXCEPT ![m] = "check"]
        /\ bound' = IF Enters(m) THEN bound \union {m} ELSE bound
    BY DEF Admit, PlaceInv, TurnTypes, request, Goes
  <1>2. LaneInv'
    BY <1>1, LaneInvStep DEF PlaceInv
  <1>3. BindingSame
    BY <1>1 DEF BindingSame
  <1>4. ASSUME NEW k \in Turns, k # m PROVE PlaceOf(k)'
    BY <1>1, <1>3, <1>4, OthersStay, UnboundStays DEF PlaceInv, laneVars
  <1>5. (m \in places \/ ~Enters(m)) /\ m \notin bound /\ (m \in places => ready[m] # "no") /\ ~(m > entered)
    BY <1>1 DEF PlaceInv, PlaceOf, Before, Places, Statements
  <1>6. PlaceOf(m)'
    BY <1>1, <1>3, <1>5, UnboundStays DEF PlaceOf, Before, laneVars
  <1> QED BY <1>2, <1>4, <1>6 DEF PlaceInv

LEMMA WakesInPlace == ASSUME PlaceInv, TurnTypes', NEW m \in Turns, LaneWakes(m) PROVE PlaceInv'
  <1>1. (ComesUp(m) \/ Expires(m)) /\ UNCHANGED <<pc, bound, issued, carries>>
    BY DEF LaneWakes, turnVars
  <1>2. LaneInv' /\ entered' = entered /\ places' = places
    BY <1>1, LaneInvStep DEF PlaceInv, LaneNext, ComesUp, Expires
  <1>3. \A k \in Turns : ready[k] # "no" => ready'[k] # "no"
    BY <1>1, PlacesAreTurns DEF ComesUp, Expires
  <1>4. BindingSame
    BY <1>1 DEF BindingSame
  <1> QED BY <1>1, <1>2, <1>3, <1>4, OthersStay, UnboundStays DEF PlaceInv

LEMMA CrashEmptiesPlaces == ASSUME PlaceInv, TurnTypes', Crash PROVE PlaceInv'
  <1> USE Constants DEF Turns
  <1>1. /\ pc' = [k \in Turns |-> IF pc[k] \in {"away", "done"} THEN pc[k] ELSE "lost"]
        /\ places' = {} /\ UNCHANGED <<entered, claimed, waited, wait, bound, issued, carries>>
        /\ ready' = [k \in Turns |-> IF k <= entered /\ ready[k] = "no" THEN "ready" ELSE ready[k]]
    BY DEF Crash, request, contact
  <1>2. entered \in 0..N /\ ready \in [Turns -> {"no", "ready", "expired"}]
    BY PlacesAreTurns
  <1>3. LaneInv'
    <2>1. LaneTypeOK'
      BY <1>1, <1>2 DEF PlaceInv, LaneInv, LaneTypeOK
    <2>2. \A k \in Turns : k > entered' => ready'[k] = "no"
      BY <1>1, <1>2 DEF PlaceInv, LaneInv
    <2>3. OneAtATime'
      BY <1>1 DEF OneAtATime
    <2> QED BY <2>1, <2>2, <2>3 DEF LaneInv
  <1>4. ASSUME NEW k \in Turns PROVE PlaceOf(k)'
    <2>1. pc'[k] = IF pc[k] \in {"away", "done"} THEN pc[k] ELSE "lost"
      BY <1>1
    <2>2. k \notin places' /\ entered' = entered /\ bound' = bound /\ (ready[k] # "no" => ready'[k] # "no")
      BY <1>1, <1>2
    <2>3. PlaceOf(k)
      BY DEF PlaceInv
    <2> QED BY <2>1, <2>2, <2>3 DEF PlaceOf, Before
  <1> QED BY <1>3, <1>4 DEF PlaceInv

LEMMA TickInPlace == ASSUME PlaceInv, TurnTypes', Tick PROVE PlaceInv'
  <1>1. LaneTick /\ UNCHANGED <<pc, bound, issued, carries, entered, places, ready>>
    BY DEF Tick, LaneTick, request, contact
  <1>2. LaneInv'
    BY <1>1, LaneInvStep DEF PlaceInv, LaneNext
  <1>3. BindingSame
    BY <1>1 DEF BindingSame
  <1> QED BY <1>1, <1>2, <1>3, OthersStay, UnboundStays DEF PlaceInv

LEMMA DecidesInPlace == ASSUME PlaceInv, TurnTypes', NEW m \in Turns, Decide(m) PROVE PlaceInv'
  <1>1. /\ pc[m] = "wait" /\ ready[m] # "no" /\ bound' = bound /\ BindingSame
        /\ \E to \in {"fold", "burst", "admit"} : Goes(m, to)
    BY DEF Decide, request, contact, BindingSame
  <1>2. m \in places /\ m \notin bound
    BY <1>1 DEF PlaceInv, PlaceOf, Before
  <1> QED BY <1>1, <1>2, GoesOn DEF Before, Places, Statements

\* The rest of a turn goes on from where it is, or ends it.
Later == {"admit", "check", "model", "record", "deliver", "held", "enqueue", "handoff"}

LEMMA LaterGoesOn ==
    ASSUME PlaceInv, TurnTypes', NEW m \in Turns, pc[m] \in {"burst", "fold"} \union Later,
           NEW to \in Later, Goes(m, to), bound' = bound, BindingSame, to = "admit" => pc[m] \in {"burst", "fold"}
    PROVE  PlaceInv'
  <1>1. PlaceOf(m)
    BY DEF PlaceInv
  <1>2. /\ pc[m] # "away" /\ (m \in places => ready[m] # "no") /\ (m \in places \/ ~Enters(m))
        /\ m \in bound => to \notin Before \union {"admit"}
    BY <1>1 DEF PlaceOf, Before, Later, Places, Statements
  <1> QED BY <1>2, GoesOn DEF Before, Later, Places, Statements

LEMMA PlaceStep == PlaceInv /\ [Next]_vars => PlaceInv'
  <1> SUFFICES ASSUME PlaceInv, [Next]_vars PROVE PlaceInv'
    OBVIOUS
  <1>0. TurnTypes'
    BY TypesStep
  <1>1. ASSUME NEW m \in Turns, Arrive(m) \/ Find(m) \/ Decide(m) \/ Admit(m) \/ LaneWakes(m) PROVE PlaceInv'
    BY <1>0, <1>1, ArrivesInPlace, FindsInPlace, DecidesInPlace, AdmitsInPlace, WakesInPlace
  <1>2. ASSUME NEW m \in Turns, SendFlow(m) \/ DeadlineWaiting(m) PROVE PlaceInv'
    BY <1>0, <1>2, NoneMoves DEF SendFlow, DeadlineWaiting, BindingSame, request, contact
  <1>3. ASSUME NEW m \in Turns, Quiet(m) \/ Check(m) \/ ModelEnds(m) \/ ModelFails(m) PROVE PlaceInv'
    <2>1. /\ pc[m] \in {"burst", "check", "model"} /\ bound' = bound /\ BindingSame
          /\ \E to \in {"admit", "record", "model"} : Goes(m, to) /\ (to = "admit" => pc[m] = "burst")
      BY <1>3 DEF Quiet, Check, ModelEnds, ModelFails, BindingSame, request, contact
    <2> QED BY <2>1, <1>0, LaterGoesOn DEF Later
  <1>4. ASSUME NEW m \in Turns, Deliver(m) \/ HeldEnds(m) \/ Enqueue(m) \/ HandOff(m) \/ HandOffFails(m)
                                \/ DeliverFails(m) \/ EnqueueFails(m) \/ FindFails(m) PROVE PlaceInv'
    <2>1. /\ pc[m] \in {"find", "deliver", "held", "enqueue", "handoff"} /\ bound' = bound /\ BindingSame
          /\ Over(m) \/ (pc[m] # "find" /\ \E to \in {"held", "enqueue", "handoff"} : Goes(m, to))
      BY <1>4 DEF Deliver, HeldEnds, Enqueue, HandOff, HandOffFails, DeliverFails, EnqueueFails, FindFails,
         RouteHandsOff, FailsAfterDecision, BindingSame, request, contact
    <2> QED BY <2>1, <1>0, LaterGoesOn, IsOver DEF Later
  <1>5. ASSUME NEW m \in Turns, Fold(m) \/ StartFails(m) \/ DeadlineModel(m) \/ Record(m) \/ RecordFails(m)
        PROVE  PlaceInv'
    <2>1. /\ pc[m] \in {"fold", "admit", "check", "model", "record"} /\ bound' = bound /\ BindingSame
          /\ \/ Over(m) \/ UNCHANGED <<laneVars, pc>>
             \/ \E to \in {"deliver", "enqueue", "handoff"} : Goes(m, to)
      BY <1>5 DEF Fold, StartFails, DeadlineModel, Record, RecordFails,
         RouteHandsOff, FailsAfterDecision, BindingSame, request, contact
    <2> QED BY <2>1, <1>0, LaterGoesOn, IsOver, NoneMoves DEF Later
  <1>6. CASE Worker
    BY <1>0, <1>6, NoneMoves DEF Worker, BindingSame, request, contact
  <1>7. CASE Tick \/ Crash
    BY <1>0, <1>7, TickInPlace, CrashEmptiesPlaces
  <1>8. CASE UNCHANGED vars
    BY <1>0, <1>8, NoneMoves DEF vars, turnVars, BindingSame
  <1> QED BY <1>1, <1>2, <1>3, <1>4, <1>5, <1>6, <1>7, <1>8 DEF Next, Step, Fails

LEMMA PlaceInit == Init => PlaceInv
  <1> SUFFICES ASSUME Init PROVE PlaceInv
    OBVIOUS
  <1>1. TurnTypes
    BY Constants DEF Init, TurnTypes, Places, Results
  <1>2. LaneInv
    BY LaneInitInv DEF Init
  <1>3. \A m \in Turns : PlaceOf(m)
    BY Constants DEF Init, LaneInit, PlaceOf, Before, Turns
  <1> QED BY <1>1, <1>2, <1>3 DEF PlaceInv

LEMMA PlacesHold == Spec => []PlaceInv
  BY PlaceInit, PlaceStep, PTL DEF Spec

(***************************************************************************)
(* The turns of order.ts keep the lane's order: a turn is let in only when *)
(* every earlier one has left, whatever fails and whichever turn leaves    *)
(* before its own wait is over, unless a wait in between ended at its      *)
(* bound.                                                                  *)
(***************************************************************************)
THEOREM LetInInOrder == Spec => []OneAtATime
  <1>1. PlaceInv => OneAtATime
    BY DEF PlaceInv, LaneInv
  <1> QED BY <1>1, PlacesHold, PTL

-----------------------------------------------------------------------------
(* The history is in order *)

\* Who was let in stays let in, and a wait that ended at its bound is remembered.
LEMMA LetInStays ==
    ASSUME PlaceInv, [Next]_vars, NEW k \in Turns, ready[k] # "no"
    PROVE  ready'[k] # "no" /\ (ready[k] = "expired" => ready'[k] = "expired")
  <1> USE Constants DEF Turns
  <1>1. ready \in [Turns -> {"no", "ready", "expired"}] /\ entered \in 0..N
        /\ \A m \in Turns : m > entered => ready[m] = "no"
    BY PlacesAreTurns DEF PlaceInv, LaneInv
  <1>2. ASSUME NEW m \in Turns, Enter(m) PROVE ready'[k] = ready[k]
    BY <1>1, <1>2 DEF Enter
  <1>3. ASSUME NEW m \in Turns, LaneWakes(m) PROVE ready'[k] = ready[k]
    BY <1>1, <1>3 DEF LaneWakes, ComesUp, Expires
  <1>4. CASE Crash
    BY <1>1, <1>4 DEF Crash
  <1>5. CASE Tick \/ Worker \/ UNCHANGED vars
    BY <1>5 DEF Tick, LaneTick, Worker, vars, laneVars
  <1>6. ASSUME NEW m \in Turns, SendFlow(m) PROVE ready' = ready
    BY <1>6 DEF SendFlow, laneVars
  <1>7. ASSUME NEW m \in Turns, Find(m) \/ Decide(m) \/ Quiet(m) \/ DeadlineWaiting(m)
               \/ Fold(m) \/ Admit(m) \/ Check(m) \/ DeadlineModel(m)
        PROVE  ready' = ready
    BY <1>7 DEF Find, Decide, Quiet, DeadlineWaiting, Fold, Admit, Check, DeadlineModel, RouteHandsOff, Goes,
       Over, Leave, Claim, laneVars
  <1>8. ASSUME NEW m \in Turns, ModelEnds(m) \/ ModelFails(m) \/ Record(m)
               \/ Deliver(m) \/ HeldEnds(m) \/ Enqueue(m) \/ HandOff(m)
        PROVE  ready' = ready
    BY <1>8 DEF ModelEnds, ModelFails, Record, Deliver, HeldEnds, Enqueue, HandOff, Goes, Over, Leave, laneVars
  <1>9. ASSUME NEW m \in Turns, Fails(m) PROVE ready' = ready
    BY <1>9 DEF Fails, FindFails, StartFails, RecordFails, DeliverFails, EnqueueFails, HandOffFails,
       FailsAfterDecision, RouteHandsOff, Goes, Over, Leave, laneVars
  <1> QED BY <1>2, <1>3, <1>4, <1>5, <1>6, <1>7, <1>8, <1>9 DEF Next, Step, Arrive

OutranAfter(m, n) == \E k \in (m + 1)..n : ready'[k] = "expired"

LEMMA OutranStays ==
    ASSUME PlaceInv, [Next]_vars, NEW j \in Turns, NEW k \in Turns, Outran(j, k) PROVE OutranAfter(j, k)
  <1>1. PICK i \in (j + 1)..k : ready[i] = "expired"
    BY DEF Outran
  <1>2. i \in Turns
    BY Constants DEF Turns
  <1>3. ready'[i] = "expired"
    BY <1>1, <1>2, LetInStays
  <1> QED BY <1>1, <1>3 DEF OutranAfter

\* A row is written by a turn in its place, which was let in.
LEMMA WritesInPlace ==
    ASSUME PlaceInv, [Next]_vars
    PROVE  \/ history' = history
           \/ \E m \in places, who \in {"user", "agent"} :
                 ready[m] # "no" /\ history' = Append(history, Row(who, m))
  <1>1. ASSUME NEW m \in Turns, Fold(m) \/ Admit(m) \/ StartFails(m) \/ Record(m) \/ RecordFails(m)
        PROVE  \/ history' = history
               \/ /\ pc[m] = "fold" \/ (pc[m] = "admit" /\ Enters(m)) \/ (pc[m] = "record" /\ m \in bound)
                  /\ \E who \in {"user", "agent"} : history' = Append(history, Row(who, m))
    BY <1>1 DEF Fold, Admit, StartFails, Record, RecordFails
  <1>2. ASSUME NEW m \in Turns,
               pc[m] = "fold" \/ (pc[m] = "admit" /\ Enters(m)) \/ (pc[m] = "record" /\ m \in bound)
        PROVE  m \in places /\ ready[m] # "no"
    BY <1>2 DEF PlaceInv, PlaceOf, Before, Places, Statements
  <1>3. ASSUME NEW m \in Turns, Arrive(m) \/ SendFlow(m) \/ Find(m) \/ Decide(m) \/ Quiet(m) \/ DeadlineWaiting(m)
               \/ Check(m) \/ DeadlineModel(m) \/ ModelEnds(m) \/ ModelFails(m) \/ Deliver(m) \/ HeldEnds(m)
               \/ Enqueue(m) \/ HandOff(m) \/ LaneWakes(m)
        PROVE  history' = history
    BY <1>3 DEF Arrive, SendFlow, Find, Decide, Quiet, DeadlineWaiting, Check, DeadlineModel, ModelEnds,
       ModelFails, Deliver, HeldEnds, Enqueue, HandOff, LaneWakes, turnVars
  <1>4. ASSUME NEW m \in Turns, FindFails(m) \/ DeliverFails(m) \/ EnqueueFails(m) \/ HandOffFails(m)
        PROVE  history' = history
    BY <1>4 DEF FindFails, DeliverFails, EnqueueFails, HandOffFails
  <1>5. CASE Worker \/ Tick \/ Crash \/ UNCHANGED vars
    BY <1>5 DEF Worker, Tick, Crash, vars, turnVars
  <1> QED BY <1>1, <1>2, <1>3, <1>4, <1>5 DEF Next, Step, Fails

LEMMA HistoryStep == HistoryInv /\ [Next]_vars => HistoryInv'
  <1> SUFFICES ASSUME HistoryInv, [Next]_vars PROVE HistoryInv'
    OBVIOUS
  <1>1. PlaceInv /\ PlaceInv'
    BY PlaceStep DEF HistoryInv
  <1>2. history \in Seq(Rows) /\ \A i \in 1..Len(history) : history[i].msg \in Turns
    <2>1. history \in Seq(Rows)
      BY <1>1 DEF PlaceInv, TurnTypes
    <2>2. \A i \in 1..Len(history) : history[i] \in Rows
      BY <2>1
    <2> QED BY <2>1, <2>2 DEF Rows
  <1>3. \A i \in 1..Len(history) : ready'[history[i].msg] # "no"
    BY <1>1, <1>2, LetInStays DEF HistoryInv, RowsInv
  <1>4. \A i, j \in 1..Len(history) : i < j =>
            history[i].msg <= history[j].msg \/ OutranAfter(history[j].msg, history[i].msg)
    BY <1>1, <1>2, OutranStays DEF HistoryInv, HistoryInOrder
  <1>5. CASE history' = history
    BY <1>1, <1>3, <1>4, <1>5 DEF HistoryInv, RowsInv, HistoryInOrder, Outran, OutranAfter
  <1>6. ASSUME NEW m \in places, NEW who \in {"user", "agent"}, ready[m] # "no",
               history' = Append(history, Row(who, m))
        PROVE  HistoryInv'
    <2>1. m \in Turns /\ Row(who, m).msg = m
      BY <1>1, PlacesAreTurns DEF Row
    <2>2. /\ Len(history) \in Nat /\ Len(history') = Len(history) + 1
          /\ \A i \in 1..Len(history') : history'[i] = IF i <= Len(history) THEN history[i] ELSE Row(who, m)
      BY <1>2, <1>6
    <2>3. RowsInv'
      BY <1>1, <1>3, <1>6, <2>1, <2>2, LetInStays DEF RowsInv
    <2>4. \A i \in 1..Len(history) : history[i].msg <= m \/ OutranAfter(m, history[i].msg)
      <3>1. ASSUME NEW i \in 1..Len(history), ~(history[i].msg <= m) PROVE OutranAfter(m, history[i].msg)
        <4>1. ready[history[i].msg] # "no" /\ history[i].msg \in Turns /\ m < history[i].msg
          BY <1>2, <2>1, <3>1 DEF HistoryInv, RowsInv, Turns
        <4>2. Outran(m, history[i].msg)
          BY <4>1, <1>1 DEF PlaceInv, LaneInv, OneAtATime
        <4> QED BY <4>1, <4>2, <2>1, <1>1, OutranStays
      <3> QED BY <3>1
    <2>5. ASSUME NEW i \in 1..Len(history'), NEW j \in 1..Len(history'), i < j
          PROVE  (history[i].msg <= history[j].msg \/ Outran(history[j].msg, history[i].msg))'
      <3>1. i \in 1..Len(history) /\ history'[i] = history[i]
        BY <2>2, <2>5
      <3>2. CASE j \in 1..Len(history)
        BY <3>1, <3>2, <2>2, <2>5, <1>4 DEF Outran, OutranAfter
      <3>3. CASE j \notin 1..Len(history)
        BY <3>1, <3>3, <2>1, <2>2, <2>4 DEF Outran, OutranAfter
      <3> QED BY <3>2, <3>3
    <2>6. HistoryInOrder'
      BY <2>5 DEF HistoryInOrder
    <2> QED BY <1>1, <2>3, <2>6 DEF HistoryInv
  <1> QED BY <1>1, <1>5, <1>6, WritesInPlace

(***************************************************************************)
(* The contact's history is in the order of their messages, each turn's    *)
(* message and reply before the next one's: for any number of messages,    *)
(* whatever statement fails, whenever the process dies, and whichever of   *)
(* them carry the token (admission.ts, fold.ts, recorder.ts).              *)
(***************************************************************************)
THEOREM RowsInOrder == Spec => []HistoryInOrder
  <1>1. Init => HistoryInv
    BY PlaceInit DEF Init, HistoryInv, RowsInv, HistoryInOrder
  <1>2. HistoryInv => HistoryInOrder
    BY DEF HistoryInv
  <1> QED BY <1>1, <1>2, HistoryStep, PTL DEF Spec

-----------------------------------------------------------------------------
(* Responses, and their deadline *)

\* A step of turn m leaves the other turns' responses, flows and races alone.
LEMMA OthersAnswer ==
    ASSUME NEW k \in Turns, ResponseOf(k), faults \in Nat, faults' \in Nat, faults' >= faults,
           pc'[k] \in {pc[k], "fold"}, response'[k] = response[k],
           plays'[k] = plays[k], race'[k] = race[k]
    PROVE  ResponseOf(k)'
  BY DEF ResponseOf

LEMMA FaultsGrow ==
    ASSUME TurnTypes, NEW f, f = faults + 1 PROVE f \in Nat /\ f >= faults /\ f > 0
  BY DEF TurnTypes

LEMMA ResponseStep == ResponseInv /\ [Next]_vars => ResponseInv'
  <1> SUFFICES ASSUME ResponseInv, [Next]_vars PROVE ResponseInv'
    OBVIOUS
  <1>0. PlaceInv /\ PlaceInv' /\ TurnTypes /\ TurnTypes' /\ \A k \in Turns : ResponseOf(k)
    BY PlaceStep DEF ResponseInv, PlaceInv
  <1>t. /\ pc \in [Turns -> Places] /\ response \in [Turns -> {"none", "inline", "holding", "silent", "handoff"}]
        /\ race \in [Turns -> Nat] /\ plays \in [Turns -> Nat] /\ faults \in Nat /\ faults' \in Nat
    BY <1>0 DEF TurnTypes
  <1> USE DEF request, contact, timers, call, answer
  <1>k. ASSUME NEW m \in Turns,
               \A k \in Turns : k # m => /\ pc'[k] \in {pc[k], "fold"} /\ response'[k] = response[k]
                                         /\ plays'[k] = plays[k] /\ race'[k] = race[k],
               faults' >= faults, ResponseOf(m)'
        PROVE  ResponseInv'
    <2>1. ASSUME NEW k \in Turns, k # m PROVE ResponseOf(k)'
      BY <1>0, <1>t, <1>k, <2>1, OthersAnswer
    <2> QED BY <1>0, <1>k, <2>1 DEF ResponseInv
  <1>f. \A m \in Turns : FaultIn(m) \/ FaultAgain => faults' >= faults /\ faults' > 0
    BY <1>t DEF FaultIn, FaultAgain
  <1>1. ASSUME NEW m \in Turns, Arrive(m) PROVE ResponseInv'
    <2>1. ResponseOf(m)'
      BY <1>0, <1>1, <1>t DEF Arrive, ResponseOf
    <2> QED BY <1>1, <1>k, <1>t, <2>1 DEF Arrive
  <1>2. ASSUME NEW m \in Turns, Find(m) PROVE ResponseInv'
    <2>1. pc'[m] \in {"admit", "wait"} /\ \A k \in Turns : k # m => pc'[k] \in {pc[k], "fold"}
      BY <1>2, <1>t DEF Find, Goes
    <2>2. ResponseOf(m)'
      BY <2>1 DEF ResponseOf
    <2> QED BY <1>2, <1>k, <1>t, <2>1, <2>2 DEF Find
  <1>3. ASSUME NEW m \in Turns, Decide(m) \/ Quiet(m) \/ Admit(m) \/ Check(m) \/ ModelEnds(m) \/ ModelFails(m)
        PROVE  ResponseInv'
    <2>1. pc'[m] \in {"fold", "burst", "admit", "check", "record", "model"} /\ \A k \in Turns : k # m => pc'[k] = pc[k]
      BY <1>3, <1>t DEF Decide, Quiet, Admit, Check, ModelEnds, ModelFails, Goes
    <2>2. UNCHANGED <<response, plays, race>> /\ faults' >= faults
      BY <1>3, <1>t, <1>f DEF Decide, Quiet, Admit, Check, ModelEnds, ModelFails
    <2>3. ResponseOf(m)'
      BY <2>1 DEF ResponseOf
    <2> QED BY <1>k, <2>1, <2>2, <2>3
  <1>4. ASSUME NEW m \in Turns, Over(m), UNCHANGED <<plays, race>>, faults' >= faults,
               response' = response \/ \E what \in {"inline", "holding", "silent", "handoff"} :
                                          response' = [response EXCEPT ![m] = what]
        PROVE  ResponseInv'
    <2>1. pc'[m] = "done" /\ \A k \in Turns : k # m => pc'[k] = pc[k] /\ response'[k] = response[k]
      BY <1>4, <1>t DEF Over
    <2>2. ResponseOf(m)'
      BY <2>1 DEF ResponseOf
    <2> QED BY <1>4, <1>k, <2>1, <2>2
  <1>5. ASSUME NEW m \in Turns, NEW to, Goes(m, to), UNCHANGED <<response, plays, race>>, faults' >= faults,
               to \in {"deliver", "held"} => response[m] = "none", to = "held" => plays[m] <= race[m],
               to = "handoff" => faults' > 0, to \notin {"away", "find"}
        PROVE  ResponseInv'
    <2>1. pc'[m] = to /\ \A k \in Turns : k # m => pc'[k] = pc[k]
      BY <1>5, <1>t DEF Goes
    <2>2. ResponseOf(m)'
      BY <1>5, <2>1 DEF ResponseOf
    <2> QED BY <1>5, <1>k, <2>1, <2>2
  <1>6. ASSUME NEW m \in Turns, DeadlineWaiting(m) \/ (DeadlineModel(m) /\ pc' = pc) PROVE ResponseInv'
    <2>1. /\ pc[m] \in {"burst", "wait", "model"} /\ pc' = pc /\ UNCHANGED <<plays, race>> /\ faults' >= faults
          /\ \A k \in Turns : k # m => response'[k] = response[k]
      <3>1. \A what : Responds(m, what) => response' = [response EXCEPT ![m] = what]
        BY DEF Responds
      <3> HIDE DEF Responds
      <3>2. \E what : response' = [response EXCEPT ![m] = what]
        BY <1>6, <3>1 DEF DeadlineWaiting, DeadlineModel, RouteHandsOff
      <3> QED BY <1>6, <1>t, <1>f, <3>2 DEF DeadlineWaiting, DeadlineModel
    <2>2. ResponseOf(m)'
      BY <2>1 DEF ResponseOf
    <2> QED BY <1>k, <2>1, <2>2
  <1>7. ASSUME NEW m \in Turns, DeadlineModel(m), pc' # pc PROVE ResponseInv'
    BY <1>7, <1>4, <1>f DEF DeadlineModel, RouteHandsOff, Responds
  <1>8. ASSUME NEW m \in Turns, SendFlow(m) PROVE ResponseInv'
    <2>1. ResponseOf(m)'
      BY <1>8 DEF SendFlow, ResponseOf
    <2> QED BY <1>8, <1>k, <1>t, <2>1 DEF SendFlow
  <1>9. ASSUME NEW m \in Turns, Fold(m) \/ FindFails(m) \/ DeliverFails(m) \/ HeldEnds(m) \/ Enqueue(m) \/ HandOff(m)
               \/ HandOffFails(m)
        PROVE  ResponseInv'
    <2>1. Over(m) /\ UNCHANGED <<plays, race>> /\ faults' >= faults
      BY <1>9, <1>f, <1>t DEF Fold, FindFails, DeliverFails, HeldEnds, Enqueue, HandOff, HandOffFails, RouteHandsOff
    <2>2. response' = response \/ \E what \in {"inline", "holding", "silent", "handoff"} :
                                          response' = [response EXCEPT ![m] = what]
      BY <1>9 DEF Fold, FindFails, DeliverFails, HeldEnds, Enqueue, HandOff, HandOffFails, RouteHandsOff, Responds
    <2> QED BY <1>4, <2>1, <2>2
  <1>10. ASSUME NEW m \in Turns, StartFails(m) \/ Record(m) \/ RecordFails(m) \/ Deliver(m) \/ EnqueueFails(m)
        PROVE  ResponseInv'
    <2>1. UNCHANGED <<plays, race>> /\ faults' >= faults
      BY <1>10, <1>f, <1>t DEF StartFails, Record, RecordFails, Deliver, EnqueueFails
    <2>2. CASE Over(m)
      <3>1. response' = response \/ \E what \in {"inline", "holding", "silent", "handoff"} :
                                          response' = [response EXCEPT ![m] = what]
        BY <1>10, <1>t, <2>2 DEF StartFails, Record, RecordFails, Deliver, EnqueueFails, FailsAfterDecision,
           RouteHandsOff, Responds, Responded
      <3> QED BY <1>4, <2>1, <2>2, <3>1
    <2>3. CASE ~Over(m)
      <3>1. \/ Goes(m, "handoff") /\ response' = response /\ faults' > 0
            \/ Goes(m, "enqueue") /\ response' = response
            \/ Goes(m, "deliver") /\ response' = response /\ response[m] = "none"
            \/ Goes(m, "held") /\ response' = response /\ response[m] = "none" /\ plays[m] <= race[m]
        BY <1>0, <1>10, <1>f, <1>t, <2>3 DEF StartFails, Record, RecordFails, Deliver, EnqueueFails, FailsAfterDecision,
           RouteHandsOff, Responded, ResponseOf
      <3> QED BY <1>5, <2>1, <3>1
    <2> QED BY <2>2, <2>3
  <1>11. CASE Worker \/ UNCHANGED vars \/ \E m \in Turns : LaneWakes(m)
    <2>1. UNCHANGED <<pc, response, plays, race, faults>>
      BY <1>11 DEF Worker, vars, turnVars, LaneWakes
    <2> QED BY <1>0, <1>t, <2>1 DEF ResponseInv, ResponseOf
  <1>12. CASE Tick
    <2>1. UNCHANGED <<pc, response, faults>>
      BY <1>12 DEF Tick
    <2>2. /\ plays' = [m \in Turns |-> IF plays[m] > 0 THEN plays[m] - 1 ELSE 0]
          /\ race' = [m \in Turns |-> IF race[m] > 0 THEN race[m] - 1 ELSE 0]
      BY <1>12 DEF Tick, Less
    <2>3. \A m \in Turns : plays[m] <= race[m] => plays'[m] <= race'[m]
      BY <1>t, <2>2
    <2> QED BY <1>0, <2>1, <2>3 DEF ResponseInv, ResponseOf
  <1>13. CASE Crash
    <2>1. /\ \A m \in Turns : pc'[m] = IF pc[m] \in {"away", "done"} THEN pc[m] ELSE "lost"
          /\ response' = response
      BY <1>13 DEF Crash
    <2> QED BY <1>0, <2>1 DEF ResponseInv, ResponseOf
  <1> QED BY <1>1, <1>2, <1>3, <1>6, <1>7, <1>8, <1>9, <1>10, <1>11, <1>12, <1>13 DEF Next, Step, Fails

LEMMA ResponseInit == Init => ResponseInv
  BY PlaceInit DEF Init, ResponseInv, ResponseOf

LEMMA ResponsesHold == Spec => []ResponseInv
  BY ResponseInit, ResponseStep, PTL DEF Spec

(***************************************************************************)
(* No tick passes over an unanswered request whose race is over, for any   *)
(* deadline, burst window and length of a flow, as long as statements take *)
(* no time: what a request may wait for is the lane, its burst window, the *)
(* model or its flow, and each of them is left at the deadline             *)
(* (order.ts, handler.ts, delivery.ts).                                    *)
(***************************************************************************)
THEOREM ResponseInTime == ASSUME ~SlowDb PROVE Spec => AnsweredInTime
  <1>1. ASSUME ResponseInv, Tick
        PROVE  \A m \in Turns :
                  pc[m] \notin {"away", "done", "lost"} /\ ~Responded(m) => race[m] > 0
    <2> SUFFICES ASSUME NEW m \in Turns, pc[m] \notin {"away", "done", "lost"}, ~Responded(m)
                 PROVE  race[m] > 0
      OBVIOUS
    <2>1. ~Timed(m) /\ pc[m] \notin Statements
      BY <1>1 DEF Tick
    <2>2. pc[m] \in Places /\ race[m] \in Nat /\ plays[m] \in Nat
      BY <1>1 DEF ResponseInv, PlaceInv, TurnTypes
    <2>3. pc[m] \in {"wait", "burst", "model", "held"}
      BY <2>1, <2>2 DEF Places
    <2>4. CASE pc[m] \in {"wait", "burst", "model"}
      BY <2>1, <2>2, <2>4 DEF Timed
    <2>5. CASE pc[m] = "held"
      BY <1>1, <2>1, <2>2, <2>5 DEF Timed, ResponseInv, ResponseOf
    <2> QED BY <2>3, <2>4, <2>5
  <1>2. ResponseInv /\ [Next]_vars =>
            [Tick => \A m \in Turns :
                  pc[m] \notin {"away", "done", "lost"} /\ ~Responded(m) => race[m] > 0]_vars
    BY <1>1
  <1> QED BY <1>2, ResponsesHold, PTL DEF Spec, AnsweredInTime

-----------------------------------------------------------------------------
(* A silent response is filled *)

\* What one step adds to what the contact hears or will hear.
Says(x) ==
    \/ heard' = Append(heard, x) /\ queue' = queue
    \/ queue' = Append(queue, x) /\ heard' = heard

LEMMA SaysInserts ==
    ASSUME TurnTypes, NEW x \in Words, Says(x)
    PROVE  \E p \in 1..(Len(Told) + 1) : Inserted(p, x)
  BY HeardGrows, QueueGrows, ToldIs DEF Says, Inserted

LEMMA RespondsSays ==
    ASSUME TurnTypes, NEW m \in Turns, NEW what \in {"inline", "holding", "silent", "handoff"},
           Responds(m, what), queue' = queue
    PROVE  UNCHANGED <<heard, queue>> \/ \E w \in {"reply", "holding", "handoff"} : Says(Item(w, m))
  BY RespondsTells DEF Says

\* A reply given inline whose insert was committed all the same is queued as well.
SaysTwice == \E x, y \in Words : heard' = Append(heard, x) /\ queue' = Append(queue, y)

LEMMA TwiceHolds ==
    ASSUME TurnTypes, SaysTwice, NEW w, Holds(Told, w) PROVE Holds(Told, w)'
  <1>1. PICK x, y \in Words : heard' = Append(heard, x) /\ queue' = Append(queue, y)
    BY DEF SaysTwice
  <1>2. heard \in Seq(Words) /\ queue \in Seq(Words)
    BY DEF TurnTypes
  <1>3. /\ Len(heard) \in Nat /\ Len(queue) \in Nat /\ Len(Told) = Len(heard) + Len(queue)
        /\ \A i \in 1..Len(Told) :
              Told[i] = IF i <= Len(heard) THEN heard[i] ELSE queue[i - Len(heard)]
    BY ToldIs
  <1>4. /\ heard' \in Seq(Words) /\ Len(heard') = Len(heard) + 1
        /\ queue' \in Seq(Words) /\ Len(queue') = Len(queue) + 1
        /\ \A i \in 1..Len(heard) : heard'[i] = heard[i]
        /\ \A i \in 1..Len(queue) : queue'[i] = queue[i]
    BY <1>1, <1>2
  <1>5. /\ Len(Told') = Len(heard') + Len(queue')
        /\ \A i \in 1..Len(Told') :
              Told'[i] = IF i <= Len(heard') THEN heard'[i] ELSE queue'[i - Len(heard')]
    BY <1>4 DEF Told
  <1>6. PICK i \in 1..Len(Told) : Told[i] = w
    BY DEF Holds
  <1>7. CASE i <= Len(heard)
    <2>1. i \in 1..Len(Told') /\ i \in 1..Len(heard) /\ i <= Len(heard')
      BY <1>3, <1>4, <1>5, <1>7
    <2>2. heard[i] = w
      BY <1>3, <1>6, <1>7
    <2>3. Told'[i] = heard'[i]
      BY <1>5, <2>1
    <2>4. Told'[i] = w
      BY <1>4, <2>1, <2>2, <2>3
    <2> QED BY <2>1, <2>4 DEF Holds
  <1>8. CASE ~(i <= Len(heard))
    <2>1. /\ i + 1 \in 1..Len(Told') /\ ~(i + 1 <= Len(heard'))
          /\ i - Len(heard) \in 1..Len(queue) /\ (i + 1) - Len(heard') = i - Len(heard)
      BY <1>3, <1>4, <1>5, <1>6, <1>8
    <2>2. Told'[i + 1] = queue'[(i + 1) - Len(heard')]
      BY <1>5, <2>1
    <2>3. Told'[i + 1] = queue'[i - Len(heard)]
      BY <2>1, <2>2
    <2>4. queue'[i - Len(heard)] = w
      BY <1>3, <1>4, <1>6, <1>8, <2>1
    <2> QED BY <2>1, <2>3, <2>4 DEF Holds
  <1> QED BY <1>7, <1>8

LEMMA TellsOne ==
    ASSUME PlaceInv, [Next]_vars, ~Worker
    PROVE  \/ UNCHANGED <<heard, queue>>
           \/ \E m \in Turns, w \in {"reply", "holding", "handoff"} : Says(Item(w, m))
           \/ SaysTwice
  <1> DEFINE Said(m) == \/ UNCHANGED <<heard, queue>>
                        \/ \E w \in {"reply", "holding", "handoff"} : Says(Item(w, m))
                        \/ SaysTwice
  <1>0. TurnTypes
    BY DEF PlaceInv
  <1>r. ASSUME NEW m \in Turns, NEW what \in {"inline", "holding", "silent", "handoff"},
               Responds(m, what), queue' = queue
        PROVE  Said(m)
    BY <1>0, <1>r, RespondsSays
  <1>w. \A m \in Turns : Queued(m) \in Words
    BY QueuedIsWord, ItemIsWord
  <1>q. \A m \in Turns : queue' = Append(queue, Queued(m)) /\ heard' = heard => Said(m)
    BY QueuedIsWord DEF Says
  <1>u. \A m \in Turns : UNCHANGED <<heard, queue>> => Said(m)
    OBVIOUS
  <1>h. \A m \in Turns : queue' = Append(queue, Item("handoff", m)) /\ heard' = heard => Said(m)
    BY DEF Says
  <1> HIDE DEF Said
  <1>1. ASSUME NEW m \in Turns, Arrive(m) \/ SendFlow(m) \/ Find(m) \/ Decide(m) \/ Quiet(m) \/ Admit(m)
               \/ Check(m) \/ ModelEnds(m) \/ ModelFails(m) \/ LaneWakes(m)
        PROVE  Said(m)
    BY <1>u, <1>1 DEF Arrive, SendFlow, Find, Decide, Quiet, Admit, Check, ModelEnds, ModelFails, LaneWakes, turnVars
  <1>2. ASSUME NEW m \in Turns, DeadlineWaiting(m) \/ Fold(m) \/ Deliver(m) \/ HeldEnds(m)
               \/ FindFails(m) \/ DeliverFails(m) \/ StartFails(m) \/ RecordFails(m) \/ Record(m)
        PROVE  Said(m)
    BY <1>u, <1>r, <1>2 DEF DeadlineWaiting, Fold, Deliver, HeldEnds, FindFails, DeliverFails,
       StartFails, RecordFails, RouteHandsOff, FailsAfterDecision, Record
  <1>3. ASSUME NEW m \in Turns, DeadlineModel(m) PROVE Said(m)
    <2>1. (IF SilentNow(m) THEN "silent" ELSE "holding") \in {"inline", "holding", "silent", "handoff"}
      OBVIOUS
    <2> QED BY <1>r, <1>3, <2>1 DEF DeadlineModel, RouteHandsOff
  <1>4. ASSUME NEW m \in Turns, Enqueue(m) \/ HandOff(m) \/ HandOffFails(m) PROVE Said(m)
    BY <1>u, <1>q, <1>h, <1>4 DEF Enqueue, HandOff, HandOffFails
  <1>5. ASSUME NEW m \in Turns, EnqueueFails(m) PROVE Said(m)
    <2>1. CASE queue' = queue
      BY <2>1, <1>5, <1>u, <1>r DEF EnqueueFails, FailsAfterDecision, RouteHandsOff
    <2>2. CASE queue' = Append(queue, Queued(m)) /\ heard' = heard
      BY <2>2, <1>q
    <2>3. CASE queue' = Append(queue, Queued(m)) /\ heard' # heard
      <3>1. ~Responded(m) /\ Responds(m, "inline")
        BY <1>5, <2>3 DEF EnqueueFails, FailsAfterDecision
      <3>2. \E w \in {"reply", "holding", "handoff"} : heard' = Append(heard, Item(w, m))
        BY <1>0, <3>1, RespondsTells
      <3> QED BY <2>3, <3>2, <1>w, ItemIsWord DEF SaysTwice, Said
    <2> QED BY <1>5, <2>1, <2>2, <2>3 DEF EnqueueFails
  <1>6. CASE Tick \/ Crash \/ UNCHANGED vars
    BY <1>6 DEF Tick, Crash, vars, turnVars
  <1> QED BY <1>1, <1>2, <1>3, <1>4, <1>5, <1>6 DEF Next, Step, Fails, Said

LEMMA InsertedIsHeld ==
    ASSUME TurnTypes, NEW p, NEW x, Inserted(p, x)
    PROVE  Holds(Told, x)' /\ \A y : Holds(Told, y) => Holds(Told, y)'
  <1>1. Len(Told) \in Nat /\ p \in 1..(Len(Told) + 1) /\ Len(Told') = Len(Told) + 1
    BY ToldIs DEF Inserted
  <1>2. Told'[p] = x
    BY <1>1 DEF Inserted
  <1>3. ASSUME NEW y, NEW i \in 1..Len(Told), Told[i] = y PROVE \E j \in 1..Len(Told') : Told'[j] = y
    <2>1. CASE i < p
      BY <2>1, <1>1, <1>3 DEF Inserted
    <2>2. CASE ~(i < p)
      <3>1. i + 1 \in 1..Len(Told') /\ ~(i + 1 < p) /\ i + 1 # p /\ (i + 1) - 1 = i
        BY <2>2, <1>1
      <3>2. Told'[i + 1] = Told[i]
        BY <3>1 DEF Inserted
      <3> QED BY <3>1, <3>2, <1>3
    <2> QED BY <2>1, <2>2
  <1> QED BY <1>1, <1>2, <1>3 DEF Holds

\* Nothing that was told, or queued to be, is lost.
LEMMA ToldGrows ==
    ASSUME PlaceInv, [Next]_vars, NEW y, Holds(Told, y) PROVE Holds(Told, y)'
  <1>0. TurnTypes
    BY DEF PlaceInv
  <1>1. CASE Worker
    <2>1. Told' = Told
      BY <1>0, <1>1, WorkerMoves
    <2> QED BY <2>1 DEF Holds
  <1>2. CASE UNCHANGED <<heard, queue>>
    <2>1. Told' = Told
      BY <1>2 DEF Told
    <2> QED BY <2>1 DEF Holds
  <1>3. ASSUME NEW m \in Turns, NEW w \in {"reply", "holding", "handoff"}, Says(Item(w, m)) PROVE Holds(Told, y)'
    <2>1. \E p : Inserted(p, Item(w, m))
      BY <1>0, <1>3, SaysInserts, ItemIsWord
    <2> QED BY <1>0, <2>1, InsertedIsHeld
  <1> QED BY <1>0, <1>1, <1>2, <1>3, TellsOne, TwiceHolds

SilenceOf(m) ==
    (faults <= 1 /\ pc[m] = "done" /\ response[m] = "silent") =>
        Answered(m) \/ GivenUp(m) \/ Holds(Told, Item("holding", m))

\* One turn's step leaves the others where they are, with the answers they have.
LEMMA OneTurnActs ==
    ASSUME PlaceInv, [Next]_vars
    PROVE  /\ faults' >= faults
           /\ \/ \A k \in Turns : /\ pc'[k] \in {pc[k], "lost"} /\ response'[k] = response[k]
                                  /\ result'[k] = result[k]
              \/ \E m \in Turns :
                    /\ Arrive(m) \/ SendFlow(m) \/ Step(m) \/ Fails(m)
                    /\ pc[m] # "done"
                    /\ \A k \in Turns : k # m => /\ pc'[k] \in {pc[k], "fold"} /\ response'[k] = response[k]
                                                 /\ result'[k] = result[k]
  <1> DEFINE Alone(m) == \A k \in Turns : k # m => /\ pc'[k] \in {pc[k], "fold"} /\ response'[k] = response[k]
                                                   /\ result'[k] = result[k]
             Same == \A k \in Turns : pc'[k] \in {pc[k], "lost"} /\ response'[k] = response[k]
                                      /\ result'[k] = result[k]
             Grow == faults' >= faults
  <1>t. /\ pc \in [Turns -> Places] /\ response \in [Turns -> {"none", "inline", "holding", "silent", "handoff"}]
        /\ result \in [Turns -> Results] /\ faults \in Nat
    BY DEF PlaceInv, TurnTypes
  <1> USE DEF answer
  <1>f. \A m \in Turns : FaultIn(m) \/ FaultAgain => Grow
    BY <1>t DEF FaultIn, FaultAgain
  <1>u. faults' = faults => Grow
    BY <1>t
  <1>g. ASSUME NEW m \in Turns, Over(m) \/ \E to \in Places : Goes(m, to)
        PROVE  \A k \in Turns : k # m => pc'[k] \in {pc[k], "fold"}
    BY <1>g, <1>t DEF Over, Goes
  <1>r. ASSUME NEW m \in Turns, \E what : Responds(m, what) \/ response' = [response EXCEPT ![m] = what]
        PROVE  \A k \in Turns : k # m => response'[k] = response[k]
    BY <1>r, <1>t DEF Responds
  <1> HIDE DEF Grow
  <1>1. ASSUME NEW m \in Turns, Arrive(m) \/ Find(m) PROVE Alone(m) /\ Grow /\ pc[m] # "done"
    BY <1>1, <1>t, <1>u DEF Arrive, Find, Goes
  <1>2. ASSUME NEW m \in Turns, SendFlow(m) PROVE Alone(m) /\ Grow /\ pc[m] # "done"
    BY <1>2, <1>t, <1>u DEF SendFlow
  <1>3. ASSUME NEW m \in Turns, Decide(m) \/ Quiet(m) \/ Admit(m) PROVE Alone(m) /\ Grow /\ pc[m] # "done"
    BY <1>3, <1>t, <1>u DEF Decide, Quiet, Admit, Goes
  <1>4. ASSUME NEW m \in Turns, Check(m) \/ ModelEnds(m) \/ ModelFails(m) PROVE Alone(m) /\ Grow /\ pc[m] # "done"
    BY <1>4, <1>t, <1>u, <1>f DEF Check, ModelEnds, ModelFails, Goes
  <1>5. ASSUME NEW m \in Turns, DeadlineWaiting(m) PROVE Alone(m) /\ Grow /\ pc[m] # "done"
    <2>1. pc' = pc /\ result' = result /\ pc[m] # "done" /\ \E what : Responds(m, what)
      BY <1>5 DEF DeadlineWaiting
    <2>2. Grow
      BY <1>5, <1>u, <1>f DEF DeadlineWaiting
    <2> QED BY <2>1, <2>2, <1>r
  <1>6. ASSUME NEW m \in Turns, DeadlineModel(m) PROVE Alone(m) /\ Grow /\ pc[m] # "done"
    <2>1. result' = result /\ pc[m] # "done" /\ (pc' = pc \/ Over(m)) /\ \E what : Responds(m, what)
      BY <1>6 DEF DeadlineModel, RouteHandsOff
    <2>2. Grow
      BY <1>6, <1>u, <1>f DEF DeadlineModel
    <2> QED BY <2>1, <2>2, <1>r, <1>g
  <1>7. ASSUME NEW m \in Turns, Fold(m) PROVE Alone(m) /\ Grow /\ pc[m] # "done"
    <2>1. result' = [result EXCEPT ![m] = "folded"] /\ pc[m] # "done" /\ Over(m)
          /\ (response' = response \/ \E what : Responds(m, what))
      BY <1>7 DEF Fold
    <2>2. Grow
      BY <1>7, <1>u DEF Fold
    <2> QED BY <2>1, <2>2, <1>r, <1>g, <1>t
  <1>8. ASSUME NEW m \in Turns, Record(m) \/ Deliver(m) \/ HeldEnds(m) \/ Enqueue(m) \/ HandOff(m) \/ HandOffFails(m)
        PROVE  Alone(m) /\ Grow /\ pc[m] # "done"
    <2>1. result' = result /\ pc[m] # "done" /\ (Over(m) \/ \E to \in Places : Goes(m, to))
          /\ (response' = response \/ \E what : Responds(m, what) \/ response' = [response EXCEPT ![m] = what])
      BY <1>8 DEF Record, Deliver, HeldEnds, Enqueue, HandOff, HandOffFails, Places, Statements
    <2>2. Grow
      BY <1>8, <1>u, <1>f DEF Record, Deliver, HeldEnds, Enqueue, HandOff, HandOffFails
    <2> QED BY <2>1, <2>2, <1>r, <1>g
  <1>9. ASSUME NEW m \in Turns, FindFails(m) \/ StartFails(m) \/ RecordFails(m) \/ DeliverFails(m) \/ EnqueueFails(m)
        PROVE  Alone(m) /\ Grow /\ pc[m] # "done"
    <2>1. result' = result /\ pc[m] # "done" /\ (Over(m) \/ \E to \in Places : Goes(m, to))
          /\ (response' = response \/ \E what : Responds(m, what))
      BY <1>9 DEF FindFails, StartFails, RecordFails, DeliverFails, EnqueueFails, RouteHandsOff, FailsAfterDecision,
         Places, Statements
    <2>2. Grow
      BY <1>9, <1>f DEF FindFails, StartFails, RecordFails, DeliverFails, EnqueueFails
    <2> QED BY <2>1, <2>2, <1>r, <1>g
  <1>10. ASSUME NEW m \in Turns, LaneWakes(m) PROVE Same /\ Grow
    BY <1>10, <1>u DEF LaneWakes, turnVars
  <1>11. ASSUME Tick \/ Worker \/ UNCHANGED vars PROVE Same /\ Grow
    <2>1. UNCHANGED <<pc, response, result, faults>>
      BY <1>11 DEF Tick, Worker, vars, turnVars
    <2> QED BY <2>1, <1>u
  <1>12. ASSUME Crash PROVE Same /\ Grow
    <2>1. faults' = faults + 1
      BY <1>12 DEF Crash
    <2>2. Grow
      BY <2>1, <1>t DEF Grow
    <2>3. /\ \A k \in Turns : pc'[k] = IF pc[k] \in {"away", "done"} THEN pc[k] ELSE "lost"
          /\ response' = response /\ result' = result
      BY <1>12 DEF Crash
    <2> QED BY <2>2, <2>3
  <1> HIDE DEF Alone, Same
  <1>a. ASSUME NEW m \in Turns, Step(m)
        PROVE  Grow /\ (Same \/ (pc[m] # "done" /\ Alone(m)))
    BY <1>a, <1>1, <1>3, <1>4, <1>5, <1>6, <1>7, <1>8, <1>10 DEF Step
  <1>b. ASSUME NEW m \in Turns, Fails(m)
        PROVE  Grow /\ pc[m] # "done" /\ Alone(m)
    BY <1>b, <1>8, <1>9 DEF Fails
  <1>13. Grow /\ (Same \/ \E m \in Turns : (Arrive(m) \/ SendFlow(m) \/ Step(m) \/ Fails(m)) /\ pc[m] # "done" /\ Alone(m))
    BY <1>1, <1>2, <1>a, <1>b, <1>11, <1>12 DEF Next
  <1> QED BY <1>13 DEF Grow, Same, Alone

LEMMA FilledStays ==
    ASSUME PlaceInv, [Next]_vars, NEW k \in Turns, SilenceOf(k),
           pc'[k] = "done" => pc[k] = "done", response'[k] = response[k], result'[k] = result[k]
    PROVE  SilenceOf(k)'
  <1>1. faults' >= faults /\ faults \in Nat /\ faults' \in Nat
    BY OneTurnActs, TypesStep DEF PlaceInv, TurnTypes
  <1>2. Answered(k) => Answered(k)'
    BY ToldGrows DEF Answered
  <1>3. Holds(Told, Item("holding", k)) => Holds(Told, Item("holding", k))'
    BY ToldGrows
  <1>4. GivenUp(k) => GivenUp(k)'
    BY DEF GivenUp
  <1> QED BY <1>1, <1>2, <1>3, <1>4 DEF SilenceOf

\* A turn that ends behind a silent response has been folded, was superseded, or has queued what it owes.
LEMMA EndsFilled ==
    ASSUME ResponseInv, [Next]_vars, NEW m \in Turns, Arrive(m) \/ SendFlow(m) \/ Step(m) \/ Fails(m), pc[m] # "done"
    PROVE  SilenceOf(m)'
  <1> USE DEF answer, request, contact, timers, call
  <1>0. PlaceInv /\ TurnTypes /\ TurnTypes' /\ ResponseOf(m)
    BY TypesStep DEF ResponseInv, PlaceInv
  <1>t. /\ pc \in [Turns -> Places] /\ response \in [Turns -> {"none", "inline", "holding", "silent", "handoff"}]
        /\ result \in [Turns -> Results] /\ faults \in Nat
    BY <1>0 DEF TurnTypes
  <1>p. \A to : to # "done" /\ Goes(m, to) => pc'[m] # "done"
    BY <1>t DEF Goes
  <1>n. pc'[m] # "done" => SilenceOf(m)'
    BY DEF SilenceOf
  <1>l. response'[m] # "silent" => SilenceOf(m)'
    BY DEF SilenceOf
  <1>g. GivenUp(m)' => SilenceOf(m)'
    BY DEF SilenceOf
  <1>r. ASSUME NEW what, what # "silent", Responds(m, what) \/ response' = [response EXCEPT ![m] = what]
        PROVE  SilenceOf(m)'
    BY <1>r, <1>t, <1>l DEF Responds
  <1>q. ASSUME NEW w \in {"reply", "holding", "handoff"}, queue' = Append(queue, Item(w, m)), heard' = heard
        PROVE  SilenceOf(m)'
    <2>1. \E p : Inserted(p, Item(w, m))
      BY <1>0, <1>q, SaysInserts, ItemIsWord DEF Says
    <2>2. Holds(Told, Item(w, m))'
      BY <1>0, <2>1, InsertedIsHeld
    <2> QED BY <2>2 DEF SilenceOf, Answered
  <1>d. \A to : Goes(m, to) /\ to # "done" => SilenceOf(m)'
    BY <1>p, <1>n
  <1> HIDE DEF SilenceOf, GivenUp
  <1>1. CASE Arrive(m) \/ SendFlow(m)
    BY <1>1, <1>n, <1>t DEF Arrive, SendFlow
  <1>2. CASE Find(m)
    BY <1>2, <1>n, <1>t DEF Find, Goes
  <1>3. CASE Decide(m) \/ Quiet(m) \/ Admit(m) \/ Check(m) \/ ModelEnds(m) \/ ModelFails(m)
    BY <1>3, <1>d DEF Decide, Quiet, Admit, Check, ModelEnds, ModelFails
  <1>4. CASE DeadlineWaiting(m)
    BY <1>4, <1>n DEF DeadlineWaiting
  <1>5. CASE DeadlineModel(m)
    <2>1. CASE pc' = pc
      BY <2>1, <1>n, <1>5
    <2>2. CASE RouteHandsOff(m)
      BY <2>2, <1>r DEF RouteHandsOff
    <2> QED BY <1>5, <2>1, <2>2 DEF DeadlineModel
  <1>6. CASE Fold(m)
    BY <1>6, <1>g, <1>t DEF Fold, GivenUp
  <1>7. CASE FindFails(m) \/ DeliverFails(m)
    BY <1>7, <1>r DEF FindFails, DeliverFails, RouteHandsOff
  <1>8. CASE StartFails(m)
    BY <1>8, <1>r, <1>d DEF StartFails, RouteHandsOff
  <1>9. CASE Record(m)
    <2>1. CASE result[m] = "superseded"
      BY <1>9, <2>1, <1>g DEF Record, GivenUp
    <2>2. CASE result[m] = "error" /\ response[m] = "holding"
      BY <1>9, <2>2, <1>l DEF Record
    <2>3. CASE result[m] # "superseded" /\ ~(result[m] = "error" /\ response[m] = "holding")
      BY <1>9, <2>3, <1>d DEF Record
    <2> QED BY <2>1, <2>2, <2>3
  <1>10. CASE RecordFails(m) \/ EnqueueFails(m)
    <2>1. CASE ~Responded(m)
      BY <1>10, <2>1, <1>r DEF RecordFails, EnqueueFails, FailsAfterDecision, RouteHandsOff
    <2>2. CASE Responded(m)
      <3>1. FailsAfterDecision(m) /\ response' = response
        BY <1>10, <2>2 DEF RecordFails, EnqueueFails, FailsAfterDecision
      <3> QED BY <2>2, <3>1, <1>d, <1>l DEF FailsAfterDecision
    <2> QED BY <2>1, <2>2
  <1>11. CASE Deliver(m) \/ HeldEnds(m)
    BY <1>11, <1>r, <1>d DEF Deliver, HeldEnds
  <1>12. CASE Enqueue(m)
    BY <1>12, <1>q, QueuedIsWord DEF Enqueue
  <1>13. CASE HandOff(m)
    BY <1>13, <1>q DEF HandOff
  <1>14. CASE HandOffFails(m)
    <2>1. pc[m] = "handoff" /\ faults' = faults + 1
      BY <1>14 DEF HandOffFails, FaultAgain
    <2>2. faults > 0
      BY <1>0, <2>1 DEF ResponseOf
    <2>3. ~(faults' <= 1)
      BY <2>1, <2>2, <1>t
    <2> QED BY <2>3 DEF SilenceOf
  <1>15. CASE LaneWakes(m)
    BY <1>15, <1>n DEF LaneWakes, turnVars
  <1> QED BY <1>1, <1>2, <1>3, <1>4, <1>5, <1>6, <1>7, <1>8, <1>9, <1>10, <1>11, <1>12, <1>13, <1>14, <1>15
          DEF Step, Fails

LEMMA SilenceStep == SilenceInv /\ [Next]_vars => SilenceInv'
  <1> SUFFICES ASSUME SilenceInv, [Next]_vars PROVE SilenceInv'
    OBVIOUS
  <1>1. ResponseInv /\ ResponseInv' /\ PlaceInv /\ \A k \in Turns : SilenceOf(k)
    BY ResponseStep DEF SilenceInv, ResponseInv, SilenceIsFilled, SilenceOf
  <1>2. \A k \in Turns : SilenceOf(k)'
    <2>1. CASE \A k \in Turns : /\ pc'[k] \in {pc[k], "lost"} /\ response'[k] = response[k]
                                /\ result'[k] = result[k]
      BY <1>1, <2>1, FilledStays
    <2>2. ASSUME NEW m \in Turns, Arrive(m) \/ SendFlow(m) \/ Step(m) \/ Fails(m), pc[m] # "done",
                 \A k \in Turns : k # m => /\ pc'[k] \in {pc[k], "fold"} /\ response'[k] = response[k]
                                           /\ result'[k] = result[k]
          PROVE  \A k \in Turns : SilenceOf(k)'
      <3>1. SilenceOf(m)'
        BY <1>1, <2>2, EndsFilled
      <3>2. ASSUME NEW k \in Turns, k # m PROVE SilenceOf(k)'
        BY <1>1, <2>2, <3>2, FilledStays
      <3> QED BY <3>1, <3>2
    <2> QED BY <1>1, <2>1, <2>2, OneTurnActs
  <1>3. SilenceIsFilled'
    BY <1>2 DEF SilenceIsFilled, SilenceOf
  <1> QED BY <1>1, <1>3 DEF SilenceInv

(***************************************************************************)
(* One failing statement never silences a contact: for any number of       *)
(* messages and any deadlines, a turn whose response was empty and that is *)
(* over has a reply, a handoff or a holding line queued or delivered,      *)
(* unless it left its message to a later turn (deferred.ts, delivery.ts,   *)
(* order.ts).                                                              *)
(***************************************************************************)
THEOREM SilenceFilled == Spec => []SilenceIsFilled
  <1>1. Init => SilenceInv
    BY ResponseInit DEF Init, SilenceInv, SilenceIsFilled
  <1>2. SilenceInv => SilenceIsFilled
    BY DEF SilenceInv
  <1> QED BY <1>1, <1>2, SilenceStep, PTL DEF Spec

-----------------------------------------------------------------------------
(* What the contact is told, in order and once *)

\* Without a fault: a step that tells nothing keeps the order of what was told.
LEMMA QuietKeepsTold ==
    ASSUME PlaceInv, [Next]_vars, ToldInv, faults = 0, Told' = Told,
           \A i \in 1..Len(queue') : \E j \in 1..Len(queue) : queue'[i] = queue[j],
           \A k \in Turns :
              /\ pc'[k] \notin {"handoff", "lost"}
              /\ response[k] # "none" => response'[k] # "none"
              /\ pc[k] = "done" => pc'[k] = "done"
              /\ pc[k] \in {"model", "record", "enqueue"} /\ response[k] # "none" =>
                    pc'[k] \in {"model", "record", "enqueue", "done"}
              /\ pc'[k] = "held" => queue' = <<>> \/ (pc[k] = "held" /\ (k \in bound' => k \in bound))
              /\ k \in bound' => k \in bound \/ pc[k] = "admit"
    PROVE  ToldInv'
  <1>0. /\ TurnTypes /\ TurnTypes' /\ \A k \in Turns : ToldOf(k) /\ HeldOf(k)
        /\ OneAnswer /\ RepliesInOrder
    BY TypesStep DEF PlaceInv, ToldInv
  <1>1. \A i \in 1..Len(Told) : Told[i].msg \in Turns
    BY <1>0, ToldIs
  <1>2. \A i \in 1..Len(Told) : Told[i].msg \in bound' => Told[i].msg \in bound
    BY <1>0, <1>1 DEF ToldOf
  <1>3. ASSUME NEW k \in Turns PROVE ToldOf(k)'
    BY <1>0, <1>3 DEF ToldOf
  <1>4. \A i \in 1..Len(queue) : \E j \in 1..Len(Told) : queue[i] = Told[j]
    <2>1. ASSUME NEW i \in 1..Len(queue) PROVE \E j \in 1..Len(Told) : queue[i] = Told[j]
      <3>1. (Len(heard) + i) \in 1..Len(Told) /\ ~(Len(heard) + i <= Len(heard)) /\ (Len(heard) + i) - Len(heard) = i
        BY <1>0, ToldIs
      <3>2. Told[Len(heard) + i] = queue[(Len(heard) + i) - Len(heard)]
        BY <1>0, <3>1, ToldIs
      <3> QED BY <3>1, <3>2
    <2> QED BY <2>1
  <1>5. ASSUME NEW k \in Turns PROVE HeldOf(k)'
    <2> SUFFICES ASSUME pc'[k] = "held", k \in bound', NEW i \in 1..Len(queue'), queue'[i].msg \in bound'
                 PROVE  queue'[i].msg > k \/ Outran(queue[i].msg, k)'
      BY DEF HeldOf
    <2>1. queue' # <<>>
      BY <1>0 DEF TurnTypes
    <2>2. pc[k] = "held" /\ k \in bound
      BY <2>1
    <2>3. PICK j \in 1..Len(queue) : queue'[i] = queue[j]
      OBVIOUS
    <2>4. queue[j].msg \in Turns /\ queue[j].msg \in bound
      BY <1>1, <1>2, <1>4, <2>3
    <2>5. queue[j].msg > k \/ Outran(queue[j].msg, k)
      BY <1>0, <2>2, <2>4 DEF HeldOf
    <2>6. queue[j].msg > k \/ OutranAfter(queue[j].msg, k)
      BY <2>4, <2>5, OutranStays
    <2> QED BY <2>3, <2>6 DEF Outran, OutranAfter
  <1>6. OneAnswer'
    BY <1>0 DEF OneAnswer
  <1>7. RepliesInOrder'
    <2>1. ASSUME NEW i \in 1..Len(Told), NEW j \in 1..Len(Told), i < j, Told[i].msg \in bound, Told[j].msg \in bound
          PROVE  \/ Told[i].msg < Told[j].msg
                 \/ Told[i].msg = Told[j].msg /\ Told[i].what = "holding"
                 \/ OutranAfter(Told[j].msg, Told[i].msg)
      BY <1>0, <1>1, <2>1, OutranStays DEF RepliesInOrder
    <2> QED BY <1>2, <2>1 DEF RepliesInOrder, Outran, OutranAfter
  <1> QED BY <1>3, <1>5, <1>6, <1>7 DEF ToldInv

\* A bound turn at work has been let in, and so passed no bound turn that is at work.
LEMMA WorksAlone ==
    ASSUME PlaceInv, NEW m \in Turns, m \in bound, pc[m] \notin {"done", "lost"},
           NEW k \in Turns, k \in bound, k > m
    PROVE  Outran(m, k)
  <1>1. m \in places /\ ready[k] # "no"
    BY DEF PlaceInv, PlaceOf
  <1> QED BY <1>1 DEF PlaceInv, LaneInv, OneAtATime

\* Without a fault: what a turn tells comes after what it follows, and is the one answer it gives.
LEMMA TellingKeepsTold ==
    ASSUME PlaceInv, [Next]_vars, ToldInv, faults = 0, NEW m \in Turns, NEW w \in {"reply", "holding", "handoff"},
           NEW p \in 1..(Len(Told) + 1), Inserted(p, Item(w, m)), bound' = bound,
           pc[m] \in {"model", "deliver", "held", "enqueue"}, response'[m] # "none",
           pc'[m] = "done" \/ (w = "holding" /\ pc'[m] = "model" /\ response[m] = "none"),
           \A k \in Turns : k # m => pc'[k] = pc[k] /\ response'[k] = response[k],
           (heard' = heard /\ queue' = Append(queue, Item(w, m))) \/ queue' = queue,
           m \in bound => \A j \in p..Len(Told) : Told[j].msg \in bound =>
                             Told[j].msg > m \/ Outran(Told[j].msg, m)
    PROVE  ToldInv'
  <1> DEFINE x == Item(w, m)
  <1>0. /\ TurnTypes /\ TurnTypes' /\ \A k \in Turns : pc[k] \notin {"handoff", "lost"} /\ ToldOf(k) /\ HeldOf(k)
        /\ OneAnswer /\ RepliesInOrder
    BY TypesStep DEF PlaceInv, ToldInv
  <1>x. x.msg = m /\ x.what = w
    BY DEF Item
  <1> HIDE DEF x
  <1>1. Len(Told) \in Nat /\ \A i \in 1..Len(Told) : Told[i].msg \in Turns
    BY <1>0, ToldIs
  <1>2. /\ Len(Told') = Len(Told) + 1
        /\ \A i \in 1..Len(Told') : Told'[i] = IF i < p THEN Told[i] ELSE IF i = p THEN x ELSE Told[i - 1]
    BY DEF Inserted, x
  <1>3. \A i \in 1..Len(Told') : \/ i = p /\ Told'[i] = x
                                 \/ i # p /\ \E j \in 1..Len(Told) : Told'[i] = Told[j] /\ (j = i \/ j = i - 1)
    BY <1>1, <1>2
  <1>4. \A i \in 1..Len(Told) : Told[i].msg = m => Told[i].what = "holding" /\ response[m] # "none"
    BY <1>0 DEF ToldOf
  <1>5. ASSUME NEW k \in Turns PROVE ToldOf(k)'
    <2>1. CASE k # m
      <3> SUFFICES ASSUME NEW i \in 1..Len(Told'), Told'[i].msg = k
                   PROVE  /\ response'[k] # "none"
                          /\ pc'[k] = "done" \/ (Told'[i].what = "holding" /\ pc'[k] \in {"model", "record", "enqueue"})
        BY DEF ToldOf
      <3>1. PICK j \in 1..Len(Told) : Told'[i] = Told[j]
        BY <1>3, <1>x, <2>1
      <3> QED BY <1>0, <2>1, <3>1 DEF ToldOf
    <2>2. CASE k = m
      <3> SUFFICES ASSUME NEW i \in 1..Len(Told'), Told'[i].msg = k
                   PROVE  /\ response'[k] # "none"
                          /\ pc'[k] = "done" \/ (Told'[i].what = "holding" /\ pc'[k] \in {"model", "record", "enqueue"})
        BY DEF ToldOf
      <3>1. Told'[i] = x \/ \E j \in 1..Len(Told) : Told'[i] = Told[j]
        BY <1>3
      <3> QED BY <1>4, <1>x, <2>2, <3>1
    <2> QED BY <2>1, <2>2
  <1>6. ASSUME NEW k \in Turns PROVE HeldOf(k)'
    <2> SUFFICES ASSUME pc'[k] = "held", k \in bound, NEW i \in 1..Len(queue'), queue'[i].msg \in bound
                 PROVE  queue'[i].msg > k \/ Outran(queue[i].msg, k)'
      BY DEF HeldOf
    <2>1. k # m /\ pc[k] = "held"
      OBVIOUS
    <2>2. CASE i \in 1..Len(queue) /\ queue'[i] = queue[i]
      <3>1. \E j \in 1..Len(Told) : queue[i] = Told[j]
        <4>1. (Len(heard) + i) \in 1..Len(Told) /\ ~(Len(heard) + i <= Len(heard)) /\ (Len(heard) + i) - Len(heard) = i
          BY <1>0, <2>2, ToldIs
        <4>2. Told[Len(heard) + i] = queue[(Len(heard) + i) - Len(heard)]
          BY <1>0, <4>1, ToldIs
        <4> QED BY <4>1, <4>2
      <3>2. queue[i].msg \in Turns
        BY <1>1, <3>1
      <3>3. queue[i].msg > k \/ Outran(queue[i].msg, k)
        BY <1>0, <2>1, <2>2 DEF HeldOf
      <3>4. queue[i].msg > k \/ OutranAfter(queue[i].msg, k)
        BY <3>2, <3>3, OutranStays
      <3> QED BY <2>2, <3>4 DEF Outran, OutranAfter
    <2>3. CASE queue'[i] = x
      <3>1. m \in bound /\ (m > k \/ k > m)
        BY <1>x, <2>1, <2>3 DEF Turns
      <3>2. m > k \/ Outran(m, k)
        BY <3>1, WorksAlone
      <3>3. m > k \/ OutranAfter(m, k)
        BY <3>2, OutranStays
      <3> QED BY <1>x, <2>3, <3>3 DEF Outran, OutranAfter
    <2>4. (i \in 1..Len(queue) /\ queue'[i] = queue[i]) \/ queue'[i] = x
      <3>1. queue \in Seq(Words)
        BY <1>0 DEF TurnTypes
      <3>2. CASE queue' = Append(queue, x)
        BY <3>1, <3>2
      <3>3. queue' = Append(queue, x) \/ queue' = queue
        BY DEF x
      <3> QED BY <3>1, <3>2, <3>3
    <2> QED BY <2>2, <2>3, <2>4
  <1>7. OneAnswer'
    <2> SUFFICES ASSUME NEW i \in 1..Len(Told'), NEW j \in 1..Len(Told'), i # j, Told'[i].msg = Told'[j].msg
                 PROVE  "holding" \in {Told'[i].what, Told'[j].what}
      BY DEF OneAnswer
    <2>1. CASE i = p
      <3>1. PICK b \in 1..Len(Told) : Told'[j] = Told[b]
        BY <1>3, <2>1
      <3> QED BY <1>2, <1>4, <1>x, <2>1, <3>1
    <2>2. CASE j = p
      <3>1. PICK a \in 1..Len(Told) : Told'[i] = Told[a]
        BY <1>3, <2>2
      <3> QED BY <1>2, <1>4, <1>x, <2>2, <3>1
    <2>3. CASE i # p /\ j # p
      <3> DEFINE a == IF i < p THEN i ELSE i - 1
                 b == IF j < p THEN j ELSE j - 1
      <3>1. a \in 1..Len(Told) /\ b \in 1..Len(Told) /\ a # b
        BY <1>1, <1>2, <2>3
      <3>2. Told'[i] = Told[a] /\ Told'[j] = Told[b]
        BY <1>1, <1>2, <2>3
      <3> HIDE DEF a, b
      <3> QED BY <1>0, <3>1, <3>2 DEF OneAnswer
    <2> QED BY <2>1, <2>2, <2>3
  <1>8. RepliesInOrder'
    <2> SUFFICES ASSUME NEW i \in 1..Len(Told'), NEW j \in 1..Len(Told'), i < j,
                        Told'[i].msg \in bound, Told'[j].msg \in bound
                 PROVE  \/ Told'[i].msg < Told'[j].msg
                        \/ Told'[i].msg = Told'[j].msg /\ Told'[i].what = "holding"
                        \/ OutranAfter(Told'[j].msg, Told'[i].msg)
      BY DEF RepliesInOrder, Outran, OutranAfter
    <2>1. CASE j = p
      <3>1. Told'[j] = x /\ i \in 1..Len(Told) /\ Told'[i] = Told[i]
        BY <1>1, <1>2, <2>1
      <3>2. m \in bound /\ Told[i].msg \in Turns /\ Told[i].msg \in bound
        BY <1>1, <1>x, <3>1
      <3>3. CASE Told[i].msg > m
        <4>1. Outran(m, Told[i].msg)
          BY <3>2, <3>3, WorksAlone
        <4>2. OutranAfter(m, Told[i].msg)
          BY <3>2, <4>1, OutranStays
        <4> QED BY <1>x, <3>1, <4>2
      <3>4. CASE Told[i].msg <= m
        BY <1>4, <1>x, <3>1, <3>2, <3>4 DEF Turns
      <3> QED BY <3>2, <3>3, <3>4 DEF Turns
    <2>2. CASE i = p
      <3>1. Told'[i] = x /\ (j - 1) \in p..Len(Told) /\ Told'[j] = Told[j - 1] /\ (j - 1) \in 1..Len(Told)
        BY <1>1, <1>2, <2>2
      <3>2. PICK b \in p..Len(Told) : b \in 1..Len(Told) /\ Told'[j] = Told[b]
        BY <3>1
      <3>3. m \in bound /\ Told[b].msg \in Turns /\ Told[b].msg \in bound
        BY <1>1, <1>x, <3>1, <3>2
      <3>4. Told[b].msg > m \/ Outran(Told[b].msg, m)
        BY <3>2, <3>3
      <3>5. Told[b].msg > m \/ OutranAfter(Told[b].msg, m)
        BY <3>3, <3>4, OutranStays
      <3> QED BY <1>x, <3>1, <3>2, <3>3, <3>5 DEF Turns
    <2>3. CASE i # p /\ j # p
      <3> DEFINE a == IF i < p THEN i ELSE i - 1
                 b == IF j < p THEN j ELSE j - 1
      <3>1. a \in 1..Len(Told) /\ b \in 1..Len(Told) /\ a < b
        BY <1>1, <1>2, <2>3
      <3>2. Told'[i] = Told[a] /\ Told'[j] = Told[b]
        BY <1>1, <1>2, <2>3
      <3> HIDE DEF a, b
      <3>3. /\ Told[a].msg \in Turns /\ Told[b].msg \in Turns
            /\ \/ Told[a].msg < Told[b].msg
               \/ Told[a].msg = Told[b].msg /\ Told[a].what = "holding"
               \/ Outran(Told[b].msg, Told[a].msg)
        BY <1>0, <1>1, <3>1, <3>2 DEF RepliesInOrder
      <3> QED BY <3>2, <3>3, OutranStays
    <2> QED BY <2>1, <2>2, <2>3
  <1>9. \A k \in Turns : pc'[k] \notin {"handoff", "lost"}
    BY <1>0
  <1> QED BY <1>5, <1>6, <1>7, <1>8, <1>9 DEF ToldInv

\* A step of turn m that tells nothing.
LEMMA QuietTurn ==
    ASSUME PlaceInv, [Next]_vars, ToldInv, faults = 0, NEW m \in Turns, UNCHANGED <<heard, queue>>,
           \A k \in Turns : k # m => pc'[k] \in {pc[k], "fold"} /\ (pc'[k] # pc[k] => pc[k] = "burst")
                                     /\ response'[k] = response[k] /\ (k \in bound' => k \in bound),
           m \in bound' => m \in bound \/ pc[m] = "admit",
           response[m] # "none" => response'[m] # "none",
           pc'[m] \notin {"handoff", "lost"}, pc[m] # "done",
           pc[m] \in {"model", "record", "enqueue"} /\ response[m] # "none" =>
              pc'[m] \in {"model", "record", "enqueue", "done"},
           pc'[m] = "held" => queue = <<>>
    PROVE  ToldInv'
  <1>1. Told' = Told
    BY DEF Told
  <1>2. \A k \in Turns : pc[k] \notin {"handoff", "lost"}
    BY DEF ToldInv
  <1>3. ASSUME NEW k \in Turns
        PROVE  /\ pc'[k] \notin {"handoff", "lost"}
               /\ response[k] # "none" => response'[k] # "none"
               /\ pc[k] = "done" => pc'[k] = "done"
               /\ pc[k] \in {"model", "record", "enqueue"} /\ response[k] # "none" =>
                     pc'[k] \in {"model", "record", "enqueue", "done"}
               /\ pc'[k] = "held" => queue' = <<>> \/ (pc[k] = "held" /\ (k \in bound' => k \in bound))
               /\ k \in bound' => k \in bound \/ pc[k] = "admit"
    <2>1. CASE k = m
      BY <2>1
    <2>2. CASE k # m
      BY <2>2, <1>2
    <2> QED BY <2>1, <2>2
  <1>4. \A i \in 1..Len(queue') : \E j \in 1..Len(queue) : queue'[i] = queue[j]
    OBVIOUS
  <1> QED BY <1>1, <1>3, <1>4, QuietKeepsTold

\* A step in which no turn moves.
LEMMA QuietRest ==
    ASSUME PlaceInv, [Next]_vars, ToldInv, faults = 0, UNCHANGED <<pc, response, bound>>,
           Told' = Told, \A i \in 1..Len(queue') : \E j \in 1..Len(queue) : queue'[i] = queue[j]
    PROVE  ToldInv'
  <1>1. \A k \in Turns : pc[k] \notin {"handoff", "lost"}
    BY DEF ToldInv
  <1> QED BY <1>1, QuietKeepsTold

OrderInv == ResponseInv /\ ToldInv

LEMMA OrderStep == OrderInv /\ [Next]_vars => OrderInv'
  <1> SUFFICES ASSUME OrderInv, [Next]_vars, faults' = 0 PROVE ToldInv'
    BY ResponseStep DEF OrderInv, ToldInv
  <1> USE DEF request, contact, timers, call, answer
  <1>0. /\ ResponseInv /\ PlaceInv /\ TurnTypes /\ TurnTypes' /\ ToldInv
        /\ \A k \in Turns : ResponseOf(k)
    BY TypesStep DEF OrderInv, ResponseInv, PlaceInv
  <1>t. /\ pc \in [Turns -> Places] /\ response \in [Turns -> {"none", "inline", "holding", "silent", "handoff"}]
        /\ result \in [Turns -> Results] /\ faults \in Nat /\ faults' \in Nat
    BY <1>0 DEF TurnTypes
  <1>z. faults = 0 /\ \A k \in Turns : pc[k] \notin {"handoff", "lost"}
    <2>1. faults' >= faults
      BY <1>0, OneTurnActs
    <2>2. faults = 0
      BY <2>1, <1>t
    <2> QED BY <2>2, <1>0 DEF ToldInv
  <1>f. /\ \A m \in Turns : ~FaultIn(m)
        /\ ~FaultAgain
    BY <1>t, <1>z DEF FaultIn, FaultAgain
  <1>1. ASSUME NEW m \in Turns, Arrive(m) \/ SendFlow(m) \/ Decide(m) \/ Quiet(m) \/ Check(m)
               \/ ModelEnds(m) \/ ModelFails(m)
        PROVE  ToldInv'
    <2>1. /\ pc[m] \in {"away", "wait", "burst", "check", "model"} /\ UNCHANGED <<heard, queue, bound, response>>
          /\ \/ pc' = pc \/ (pc[m] = "away" /\ pc' = [pc EXCEPT ![m] = "find"])
             \/ \E to \in {"fold", "burst", "admit", "record", "model"} :
                   pc' = [pc EXCEPT ![m] = to] /\ (pc[m] = "model" => to = "record")
      BY <1>1 DEF Arrive, SendFlow, Decide, Quiet, Check, ModelEnds, ModelFails, Goes
    <2>2. /\ \A k \in Turns : k # m => pc'[k] = pc[k]
          /\ pc'[m] \notin {"handoff", "lost", "held"}
          /\ pc[m] = "model" => pc'[m] \in {"record", "model"}
      BY <1>t, <2>1
    <2> QED BY <1>0, <1>z, <2>1, <2>2, QuietTurn
  <1>2. ASSUME NEW m \in Turns, Find(m) PROVE ToldInv'
    <2>1. /\ pc[m] = "find" /\ UNCHANGED <<heard, queue, bound, response>>
          /\ pc'[m] \in {"admit", "wait"}
          /\ \A k \in Turns : k # m => pc'[k] \in {pc[k], "fold"} /\ (pc'[k] # pc[k] => pc[k] = "burst")
      BY <1>2, <1>t DEF Find, Goes, Woken
    <2> QED BY <1>0, <1>z, <2>1, QuietTurn
  <1>3. ASSUME NEW m \in Turns, Admit(m) PROVE ToldInv'
    <2>1. /\ pc[m] = "admit" /\ UNCHANGED <<heard, queue, response>> /\ pc' = [pc EXCEPT ![m] = "check"]
          /\ bound' \in {bound, bound \union {m}}
      BY <1>3 DEF Admit, Goes
    <2> QED BY <1>0, <1>t, <1>z, <2>1, QuietTurn
  <1>4. ASSUME NEW m \in Turns, UNCHANGED <<heard, queue, bound>>, pc[m] \notin {"held", "done", "handoff", "lost"},
               response' = response \/ response' = [response EXCEPT ![m] = "silent"],
               \/ pc' = pc
               \/ \E to \in {"done", "deliver", "held", "enqueue"} :
                     /\ pc' = [pc EXCEPT ![m] = to]
                     /\ to = "held" => queue = <<>>
                     /\ to \in {"deliver", "held"} => response[m] = "none"
        PROVE  ToldInv'
    <2>1. \A k \in Turns : k # m => pc'[k] = pc[k] /\ response'[k] = response[k]
      BY <1>4, <1>t
    <2>2. /\ response[m] # "none" => response'[m] # "none"
          /\ pc'[m] \notin {"handoff", "lost"}
          /\ pc[m] \in {"model", "record", "enqueue"} /\ response[m] # "none" =>
                pc'[m] \in {"model", "record", "enqueue", "done"}
          /\ pc'[m] = "held" => queue = <<>>
      BY <1>4, <1>t
    <2> QED BY <1>0, <1>z, <1>4, <2>1, <2>2, QuietTurn
  <1>w. ASSUME NEW m \in Turns, NEW w \in {"reply", "holding", "handoff"}, NEW p \in 1..(Len(Told) + 1),
               Inserted(p, Item(w, m)), bound' = bound, pc[m] \in {"model", "deliver", "held", "enqueue"},
               response' \in [Turns -> {"none", "inline", "holding", "silent", "handoff"}], response'[m] # "none",
               \A k \in Turns : k # m => response'[k] = response[k],
               Over(m) \/ (w = "holding" /\ pc' = pc /\ pc[m] = "model" /\ response[m] = "none"),
               (heard' = heard /\ queue' = Append(queue, Item(w, m))) \/ queue' = queue,
               m \in bound => \A j \in p..Len(Told) : Told[j].msg \in bound =>
                                 Told[j].msg > m \/ Outran(Told[j].msg, m)
        PROVE  ToldInv'
    <2>1. /\ pc'[m] = "done" \/ (w = "holding" /\ pc'[m] = "model" /\ response[m] = "none")
          /\ \A k \in Turns : k # m => pc'[k] = pc[k]
      BY <1>t, <1>w DEF Over
    <2> QED BY <1>0, <1>z, <1>w, <2>1, TellingKeepsTold
  \* Said in the response: after what was heard, with what is queued behind it.
  <1>h. ASSUME NEW m \in Turns, NEW what \in {"inline", "holding"}, Responds(m, what), bound' = bound, queue' = queue,
               pc[m] \in {"model", "deliver", "held"},
               Over(m) \/ (what = "holding" /\ pc' = pc /\ pc[m] = "model" /\ response[m] = "none"),
               queue = <<>> \/ pc[m] = "held"
        PROVE  ToldInv'
    <2>1. PICK w \in {"reply", "holding", "handoff"} :
             heard' = Append(heard, Item(w, m)) /\ (what = "holding" => w = "holding")
      BY <1>0, <1>h, RespondsTells
    <2>2. Inserted(Len(heard) + 1, Item(w, m)) /\ Len(heard) + 1 \in 1..(Len(Told) + 1)
      BY <1>0, <1>h, <2>1, HeardGrows, ItemIsWord DEF Inserted
    <2>3. /\ response' \in [Turns -> {"none", "inline", "holding", "silent", "handoff"}]
          /\ response' = [response EXCEPT ![m] = what]
      BY <1>0, <1>h, RespondsTells
    <2>4. response'[m] # "none" /\ \A k \in Turns : k # m => response'[k] = response[k]
      BY <1>h, <1>t, <2>3
    <2>5. ASSUME m \in bound, NEW j \in (Len(heard) + 1)..Len(Told), Told[j].msg \in bound
          PROVE  Told[j].msg > m \/ Outran(Told[j].msg, m)
      <3>1. /\ Len(heard) \in Nat /\ Len(queue) \in Nat /\ Len(Told) = Len(heard) + Len(queue)
            /\ Told[j] = queue[j - Len(heard)]
        BY <1>0, <2>5, ToldIs
      <3>2. (j - Len(heard)) \in 1..Len(queue)
        BY <2>5, <3>1
      <3>3. queue # <<>>
        BY <3>2
      <3>4. HeldOf(m)
        BY <1>0, <1>z DEF ToldInv
      <3> QED BY <1>h, <2>5, <3>1, <3>2, <3>3, <3>4 DEF HeldOf
    <2> QED BY <1>h, <1>w, <2>1, <2>2, <2>3, <2>4, <2>5
  <1>5. ASSUME NEW m \in Turns, DeadlineWaiting(m) PROVE ToldInv'
    <2>1. Responds(m, "silent") /\ queue' = queue /\ bound' = bound /\ pc' = pc /\ pc[m] \in {"burst", "wait"}
      BY <1>5, <1>f DEF DeadlineWaiting
    <2>2. response' = [response EXCEPT ![m] = "silent"] /\ heard' = heard
      BY <1>0, <2>1, RespondsTells
    <2> QED BY <1>4, <2>1, <2>2
  <1>6. ASSUME NEW m \in Turns, DeadlineModel(m) PROVE ToldInv'
    <2>1. /\ pc[m] = "model" /\ response[m] = "none" /\ pc' = pc /\ bound' = bound /\ queue' = queue
          /\ Responds(m, IF SilentNow(m) THEN "silent" ELSE "holding")
      BY <1>6, <1>f DEF DeadlineModel, Responded
    <2>2. CASE SilentNow(m)
      <3>1. Responds(m, "silent")
        BY <2>1, <2>2
      <3>2. response' = [response EXCEPT ![m] = "silent"] /\ heard' = heard
        BY <1>0, <3>1, RespondsTells
      <3> QED BY <1>4, <2>1, <3>2
    <2>3. CASE ~SilentNow(m)
      <3>1. Responds(m, "holding") /\ queue = <<>>
        BY <2>1, <2>3 DEF SilentNow
      <3> QED BY <1>h, <2>1, <3>1
    <2> QED BY <2>2, <2>3
  <1>7. ASSUME NEW m \in Turns, Fold(m) PROVE ToldInv'
    <2>1. /\ pc[m] = "fold" /\ Over(m) /\ bound' = bound /\ queue' = queue
          /\ UNCHANGED <<response, heard>> \/ Responds(m, "silent")
      BY <1>7 DEF Fold
    <2>2. (response' = response \/ response' = [response EXCEPT ![m] = "silent"]) /\ heard' = heard
      BY <1>0, <2>1, RespondsTells
    <2> QED BY <1>4, <2>1, <2>2 DEF Over
  <1>8. ASSUME NEW m \in Turns, Record(m) PROVE ToldInv'
    <2>1. /\ pc[m] = "record" /\ UNCHANGED <<heard, queue, bound>>
          /\ response' = response \/ response' = [response EXCEPT ![m] = "silent"]
          /\ \E to \in {"done", "deliver", "enqueue"} :
                pc' = [pc EXCEPT ![m] = to] /\ (to = "deliver" => response[m] = "none")
      BY <1>8 DEF Record, Over, Goes, Responded
    <2> QED BY <1>4, <2>1
  <1>9. ASSUME NEW m \in Turns, Deliver(m) PROVE ToldInv'
    <2>1. pc[m] = "deliver" /\ bound' = bound /\ queue' = queue /\ response[m] = "none"
      BY <1>0, <1>9 DEF Deliver, ResponseOf
    <2>2. CASE Responds(m, "inline") /\ Over(m) /\ queue = <<>>
      BY <1>h, <2>1, <2>2
    <2>3. CASE UNCHANGED <<response, heard>> /\ \E to \in {"held", "enqueue"} : Goes(m, to) /\ (to = "held" => queue = <<>>)
      BY <1>4, <2>1, <2>3 DEF Goes
    <2> QED BY <1>9, <2>2, <2>3 DEF Deliver
  <1>10. ASSUME NEW m \in Turns, HeldEnds(m) PROVE ToldInv'
    BY <1>10, <1>h DEF HeldEnds
  <1>11. ASSUME NEW m \in Turns, Enqueue(m) PROVE ToldInv'
    <2>1. PICK w \in {"reply", "holding", "handoff"} : Queued(m) = Item(w, m)
      BY QueuedIsWord
    <2>2. /\ pc[m] = "enqueue" /\ queue' = Append(queue, Item(w, m)) /\ heard' = heard /\ bound' = bound /\ Over(m)
          /\ response' = IF response[m] # "none" THEN response ELSE [response EXCEPT ![m] = "silent"]
      BY <1>11, <2>1 DEF Enqueue, Responded
    <2>3. Len(Told) \in Nat /\ Inserted(Len(Told) + 1, Item(w, m))
      BY <1>0, <2>2, QueueGrows, ItemIsWord, ToldIs
    <2>4. /\ response' \in [Turns -> {"none", "inline", "holding", "silent", "handoff"}]
          /\ response'[m] # "none" /\ \A k \in Turns : k # m => response'[k] = response[k]
      BY <1>t, <2>2
    <2>5. Len(Told) + 1 \in 1..(Len(Told) + 1) /\ \A j \in (Len(Told) + 1)..Len(Told) : FALSE
      BY <2>3
    <2> QED BY <1>w, <2>2, <2>3, <2>4, <2>5
  <1>12. ASSUME NEW m \in Turns, HandOff(m) \/ HandOffFails(m) \/ FindFails(m) \/ StartFails(m) \/ RecordFails(m)
                                 \/ DeliverFails(m) \/ EnqueueFails(m)
         PROVE  FALSE
    BY <1>12, <1>f, <1>z DEF HandOff, HandOffFails, FindFails, StartFails, RecordFails, DeliverFails, EnqueueFails
  <1>13. ASSUME NEW m \in Turns, LaneWakes(m) PROVE ToldInv'
    BY <1>0, <1>13, <1>z, QuietRest DEF LaneWakes, turnVars, Told
  <1>14. CASE Worker
    <2>1. /\ Told' = Told /\ UNCHANGED <<pc, response, bound>>
          /\ \A i \in 1..Len(queue') : \E j \in 1..Len(queue) : queue'[i] = queue[j]
      BY <1>0, <1>14, WorkerMoves DEF Worker
    <2> QED BY <1>0, <1>z, <2>1, QuietRest
  <1>15. CASE Tick \/ UNCHANGED vars
    <2>1. UNCHANGED <<pc, response, bound, heard, queue>>
      BY <1>15 DEF Tick, vars, turnVars
    <2>2. Told' = Told
      BY <2>1 DEF Told
    <2> QED BY <1>0, <1>z, <2>1, <2>2, QuietRest
  <1>16. CASE Crash
    <2>1. faults' = faults + 1
      BY <1>16 DEF Crash
    <2> QED BY <2>1, <1>z
  <1> QED BY <1>1, <1>2, <1>3, <1>5, <1>6, <1>7, <1>8, <1>9, <1>10, <1>11, <1>12, <1>13, <1>14, <1>15, <1>16
          DEF Next, Step, Fails

LEMMA OrderHolds == Spec => []OrderInv
  <1>1. Init => OrderInv
    <2>1. Init => Told = <<>>
      BY DEF Init, Told
    <2> QED BY <2>1, ResponseInit DEF Init, OrderInv, ToldInv, ToldOf, HeldOf, OneAnswer, RepliesInOrder
  <1> QED BY <1>1, OrderStep, PTL DEF Spec

(***************************************************************************)
(* As long as nothing failed, what reaches a contact for the turns bound   *)
(* to them is in the order of their messages, for any number of messages,  *)
(* kinds, deadlines and flows: an inline reply, one held back for its flow *)
(* included, never passes a queued one (delivery.ts, deferred.ts).  With a *)
(* failure the route's handoff answers at once, and may.                   *)
(***************************************************************************)
THEOREM AnswersInOrder == Spec => [](faults = 0 => RepliesInOrder)
  <1>1. OrderInv => (faults = 0 => RepliesInOrder)
    BY DEF OrderInv, ToldInv
  <1> QED BY <1>1, OrderHolds, PTL

(***************************************************************************)
(* As long as nothing failed, a message gets one reply or handoff at most, *)
(* its response and the outbox together (delivery.ts).  With a failure of  *)
(* the read at the deadline the route hands the contact off, and the turn  *)
(* goes on to answer.                                                      *)
(***************************************************************************)
THEOREM AnsweredOnce == Spec => [](faults = 0 => OneAnswer)
  <1>1. OrderInv => (faults = 0 => OneAnswer)
    BY DEF OrderInv, ToldInv
  <1> QED BY <1>1, OrderHolds, PTL

=============================================================================
