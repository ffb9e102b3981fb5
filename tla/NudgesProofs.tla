---------------------------- MODULE NudgesProofs ----------------------------
(***************************************************************************)
(* Proofs about Nudges, for any number of messages, plans and failures:    *)
(* its types, with the one pending row and the one nudge in the worker's   *)
(* hands, that a follow-up has read what it follows, and that a nudge is   *)
(* queued once at most and never to a contact who has the link.            *)
(*                                                                         *)
(* That it is queued once needs that it is scheduled once: OnceInv follows *)
(* a turn's schedule statement from its actions to the outbox and back.    *)
(***************************************************************************)
EXTENDS Nudges, TLAPS, SequenceTheorems

\* A turn that has not recorded its message has none of a later one before it.
InTurn ==
    /\ \A j, m \in Turns : (j < m /\ pc[m] # "away") => pc[j] = "settled"
    /\ \A m \in Turns : pc[m] \in {"away", "arrived"} => recorded < m

\* The history is read after the first look, so it is at least as recent.
Looks ==
    /\ \A m \in Turns : npc[m] = "history" => seen[m] <= recorded
    /\ \A m \in Turns : npc[m] \in {"model", "latest"} => seen[m] <= read[m]
    /\ ReadsWhatItFollows

NudgesInv == TypeOK /\ InTurn /\ Looks

-----------------------------------------------------------------------------

\* The statements of a plan are statements.
LEMMA StepsAreStatements ==
    \A plan \in DOMAIN StepsOf : StepsOf[plan] \in Seq(Statements)
<1> SUFFICES ASSUME NEW plan \in {"none", "nudge", "link", "nudge_link", "link_nudge"}
             PROVE  StepsOf[plan] \in Seq(Statements)
    BY DEF StepsOf
<1>1. {"schedule", "link", "cancel", "record"} \subseteq Statements
  BY DEF Statements
<1>2. CASE plan = "none"
  BY <1>2 DEF StepsOf
<1>3. CASE plan = "nudge"
  BY <1>1, <1>3 DEF StepsOf
<1>4. CASE plan = "link"
  BY <1>1, <1>4 DEF StepsOf
<1>5. CASE plan = "nudge_link"
  BY <1>1, <1>5 DEF StepsOf
<1>6. CASE plan = "link_nudge"
  BY <1>1, <1>6 DEF StepsOf
<1> QED BY <1>2, <1>3, <1>4, <1>5, <1>6

\* A statement of an action or of an escalation keeps the types it touches, one pending
\* row included.
LEMMA PerformsTypes ==
    ASSUME TypeOK, NEW m \in Turns, NEW s \in Statements, Performs(m, s)
    PROVE  /\ nudge' \in [Turns -> Status]
           /\ \A j, k \in Turns : (nudge'[j] = "pending" /\ nudge'[k] = "pending") => j = k
           /\ due' \subseteq Turns /\ stale' \subseteq Turns /\ escalated' \subseteq Turns
           /\ linked' \in BOOLEAN
<1>1. CASE s = "schedule"
  BY <1>1 DEF TypeOK, Performs, Scheduled, Waiting, Status
<1>2. CASE s = "cancel"
  BY <1>2 DEF TypeOK, Performs, Cancelled, Waiting, Status
<1>3. CASE s \notin {"schedule", "cancel"}
  BY <1>3 DEF TypeOK, Performs
<1> QED BY <1>1, <1>2, <1>3

LEMMA TurnsAreNumbers ==
    /\ N \in Nat /\ Turns \subseteq Nat /\ Turns \subseteq 0..N /\ 0 \in 0..N /\ 0 \notin Turns
    /\ \A j, m \in Turns : j < m => j \in 1..m - 1
BY NudgesAssumption DEF Turns

LEMMA InitNudges == Init => NudgesInv
<1> SUFFICES ASSUME Init PROVE NudgesInv
    OBVIOUS
<1> USE DEF Init
<1>1. Nothing \in Found
  BY TurnsAreNumbers DEF Nothing, Found
<1>2. <<>> \in Seq(Statements) /\ <<>> \in Seq(Reply) /\ <<>> \in Seq(Deferred)
  OBVIOUS
<1>3. 0 \in 0..MaxFaults
  BY NudgesAssumption
<1>4. /\ nudge \in [Turns -> Status] /\ \A k \in Turns : nudge[k] # "pending"
      /\ npc \in [Turns -> NudgeStep] /\ \A k \in Turns : npc[k] = "idle"
  BY DEF Status, NudgeStep
<1>5. TypeOK
  BY <1>1, <1>2, <1>3, <1>4, TurnsAreNumbers DEF TypeOK
<1>6. InTurn
  BY TurnsAreNumbers DEF InTurn
<1>7. Looks
  BY DEF Looks, ReadsWhatItFollows
<1> QED BY <1>5, <1>6, <1>7 DEF NudgesInv

-----------------------------------------------------------------------------
\* The contact's turns

LEMMA ArriveInv == ASSUME NudgesInv, NEW m \in Turns, Arrive(m) PROVE NudgesInv'
<1> USE DEF NudgesInv, Arrive, outboxVars, marks, run
<1>0. /\ nudge' \in [Turns -> Status]
      /\ \A k \in Turns : nudge'[k] # "pending"
  BY DEF TypeOK, Cancelled, Waiting, Status
<1>1. TypeOK'
  BY <1>0 DEF TypeOK
<1>2. InTurn'
  BY TurnsAreNumbers DEF TypeOK, InTurn
<1>3. Looks'
  BY DEF Looks, ReadsWhatItFollows
<1> QED BY <1>1, <1>2, <1>3

LEMMA RecordMessageInv == ASSUME NudgesInv, NEW m \in Turns, RecordMessage(m) PROVE NudgesInv'
<1> USE DEF NudgesInv, RecordMessage, outboxVars, marks, run
<1>1. TypeOK'
  BY TurnsAreNumbers DEF TypeOK
<1>2. recorded < m
  BY DEF InTurn
<1>3. ASSUME NEW k \in Turns, pc'[k] \in {"away", "arrived"} PROVE m < k
  BY <1>3, TurnsAreNumbers DEF TypeOK, InTurn
<1>4. InTurn'
  BY <1>3, TurnsAreNumbers DEF TypeOK, InTurn
<1>5. Looks'
  BY <1>2, TurnsAreNumbers DEF TypeOK, Looks, ReadsWhatItFollows
<1> QED BY <1>1, <1>4, <1>5

LEMMA SettleInv == ASSUME NudgesInv, NEW m \in Turns, Settle(m) PROVE NudgesInv'
<1> USE DEF NudgesInv, Settle, marks, run
<1>1. ASSUME NEW plan \in Plans \ {"escalate"} PROVE StepsOf[plan] \in Seq(Statements)
  BY <1>1, StepsAreStatements, NudgesAssumption
<1>2. <<"cancel">> \in Seq(Statements) /\ <<"cancel", "mark">> \in Seq(Statements)
  BY DEF Statements
<1>3. \/ \E steps \in Seq(Statements) : todo' = [todo EXCEPT ![m] = steps] /\ queue' = queue
      \/ \E steps \in Seq(Statements) :
            todo' = todo /\ queue' = Append(queue, [turn |-> m, steps |-> steps])
  <2>1. CASE /\ \E steps \in {<<"cancel">>, <<"cancel", "mark">>} : todo' = [todo EXCEPT ![m] = steps]
             /\ UNCHANGED queue
    BY <1>2, <2>1
  <2>2. ASSUME NEW plan \in Plans \ {"escalate"},
               todo' = [todo EXCEPT ![m] = StepsOf[plan]] /\ UNCHANGED queue
        PROVE  \E steps \in Seq(Statements) : todo' = [todo EXCEPT ![m] = steps] /\ queue' = queue
    BY <1>1, <2>2
  <2>3. ASSUME NEW plan \in Plans \ {"escalate"},
               queue' = Append(queue, [turn |-> m, steps |-> StepsOf[plan]]) /\ UNCHANGED todo
        PROVE  \E steps \in Seq(Statements) :
                  todo' = todo /\ queue' = Append(queue, [turn |-> m, steps |-> steps])
    BY <1>1, <2>3
  <2> QED BY <2>1, <2>2, <2>3
<1>4. todo' \in [Turns -> Seq(Statements)] /\ queue' \in Seq(Reply)
  <2>1. \A steps \in Seq(Statements) : [turn |-> m, steps |-> steps] \in Reply
    BY DEF Reply
  <2>2. \A r \in Reply : Append(queue, r) \in Seq(Reply)
    BY DEF TypeOK
  <2>3. todo \in [Turns -> Seq(Statements)] /\ queue \in Seq(Reply)
    BY DEF TypeOK
  <2>4. \A steps \in Seq(Statements) : [todo EXCEPT ![m] = steps] \in [Turns -> Seq(Statements)]
    BY <2>3
  <2> HIDE DEF Settle, NudgesInv
  <2> QED BY <1>3, <2>1, <2>2, <2>3, <2>4
<1>0. pc' \in [Turns -> {"away", "arrived", "run", "escalating", "settled"}] /\
      \A k \in Turns : pc'[k] = pc[k] \/ (k = m /\ pc'[m] \in {"escalating", "settled"})
  BY DEF TypeOK
<1>5. TypeOK'
  BY <1>0, <1>4 DEF TypeOK
<1>6. InTurn'
  BY <1>0, TurnsAreNumbers DEF TypeOK, InTurn
<1>7. Looks'
  BY DEF Looks, ReadsWhatItFollows
<1> QED BY <1>5, <1>6, <1>7

LEMMA PerformInv == ASSUME NudgesInv, NEW m \in Turns, Perform(m) PROVE NudgesInv'
<1> USE DEF NudgesInv, Perform, outboxVars, run
<1>1. todo[m] \in Seq(Statements) /\ todo[m] # <<>>
  BY DEF TypeOK
<1>2. Head(todo[m]) \in Statements /\ Tail(todo[m]) \in Seq(Statements)
  BY <1>1, HeadTailProperties
<1>3. TypeOK'
  BY <1>2, PerformsTypes DEF TypeOK
<1>0. pc' \in [Turns -> {"away", "arrived", "run", "escalating", "settled"}] /\
      \A k \in Turns : pc'[k] = pc[k] \/ (pc[k] = "escalating" /\ pc'[k] = "settled")
  BY DEF TypeOK
<1>4. InTurn'
  BY <1>0, TurnsAreNumbers DEF TypeOK, InTurn
<1>5. Looks'
  BY DEF Looks, ReadsWhatItFollows
<1> QED BY <1>3, <1>4, <1>5

LEMMA DeliverInv == ASSUME NudgesInv, Deliver PROVE NudgesInv'
<1> USE DEF NudgesInv, Deliver, contactVars, marks, run
<1>1. Head(queue) \in Reply /\ Tail(queue) \in Seq(Reply)
  BY HeadTailProperties DEF TypeOK
<1>2. PICK steps \in {Head(queue).steps, <<"mark", "cancel">>} :
         doing' = [i \in 1..Len(steps) |-> [turn |-> Head(queue).turn, statement |-> steps[i]]]
  OBVIOUS
<1>3. steps \in Seq(Statements)
  <2>1. <<"mark", "cancel">> \in Seq(Statements)
    BY DEF Statements
  <2> QED BY <1>1, <2>1 DEF Reply
<1>4. Len(steps) \in Nat /\ \A i \in 1..Len(steps) : steps[i] \in Statements
  BY <1>3
<1>5. doing' \in Seq(Deferred)
  <2> DEFINE item(i) == [turn |-> Head(queue).turn, statement |-> steps[i]]
  <2>1. \A i \in 1..Len(steps) : item(i) \in Deferred
    BY <1>1, <1>4 DEF Reply, Deferred
  <2> HIDE DEF item
  <2>2. [i \in 1..Len(steps) |-> item(i)] \in Seq(Deferred)
    BY <2>1, <1>4
  <2> QED BY <1>2, <2>2 DEF item
<1>6. TypeOK'
  BY <1>1, <1>5 DEF TypeOK
<1>7. InTurn' /\ Looks'
  BY DEF InTurn, Looks, ReadsWhatItFollows
<1> QED BY <1>6, <1>7

LEMMA PerformDeferredInv == ASSUME NudgesInv, PerformDeferred PROVE NudgesInv'
<1> USE DEF NudgesInv, PerformDeferred, contactVars, run
<1>1. Head(doing) \in Deferred /\ Tail(doing) \in Seq(Deferred)
  BY HeadTailProperties DEF TypeOK
<1>2. Head(doing).turn \in Turns /\ Head(doing).statement \in Statements
  BY <1>1 DEF Deferred
<1>3. TypeOK'
  BY <1>1, <1>2, PerformsTypes DEF TypeOK
<1>4. InTurn' /\ Looks'
  BY DEF InTurn, Looks, ReadsWhatItFollows
<1> QED BY <1>3, <1>4

-----------------------------------------------------------------------------
\* The worker

LEMMA ComesDueInv == ASSUME NudgesInv, NEW m \in Turns, ComesDue(m) PROVE NudgesInv'
BY DEF NudgesInv, ComesDue, TypeOK, InTurn, Looks, ReadsWhatItFollows, contactVars, outboxVars,
       marks, run

LEMMA ClaimInv == ASSUME NudgesInv, NEW m \in Turns, Claim(m) PROVE NudgesInv'
<1> USE DEF NudgesInv, Claim, contactVars, outboxVars, marks
<1> DEFINE snap == [Nothing EXCEPT !.escalated = escalated, !.linked = linked]
<1>0. snap \in Found
  BY TurnsAreNumbers DEF TypeOK, Found, Nothing
<1>1. found' \in [Turns -> Found]
  BY <1>0 DEF TypeOK
<1>2. TypeOK'
  BY <1>1 DEF TypeOK, Idle, Status, NudgeStep
<1>3. InTurn'
  BY DEF InTurn
<1>4. Looks'
  BY DEF TypeOK, Looks, ReadsWhatItFollows
<1> QED BY <1>2, <1>3, <1>4

\* A step of the worker that goes on to the next one or ends the nudge, and neither looks nor
\* reads, keeps the invariant if the step it goes to is not one that follows a look.
LEMMA GoesOn ==
    ASSUME NudgesInv, NEW m \in Turns, npc[m] # "idle", NEW step \in NudgeStep,
           \/ GoesTo(m, step)
           \/ \E status \in {"cancelled", "skipped", "sent"} : Ends(m, status),
           \/ step \in {"idle", "stage", "limits", "answered", "skip"}
           \/ npc[m] = "model" /\ step = "latest"
           \/ npc[m] = "reply" /\ step = "enqueue"
           \/ npc[m] = "enqueue" /\ step = "finish",
           queue' \in Seq(Reply), sent' \in [Turns -> Nat], faults' \in 0..MaxFaults,
           UNCHANGED <<contactVars, doing, marks, due, seen, read, found, crashed>>
    PROVE  NudgesInv'
<1> USE DEF NudgesInv, contactVars, marks
<1>0. \/ npc' = [npc EXCEPT ![m] = step] /\ nudge' = nudge
      \/ /\ npc' = [npc EXCEPT ![m] = "idle"]
         /\ \E status \in Status \ {"pending"} : nudge' = [nudge EXCEPT ![m] = status]
  BY DEF GoesTo, Ends, Status
<1>1. npc' \in [Turns -> NudgeStep] /\ \A k \in Turns : k # m => npc'[k] = npc[k]
  <2>1. "idle" \in NudgeStep
    BY DEF NudgeStep
  <2> QED BY <1>0, <2>1 DEF TypeOK
<1>2. nudge' \in [Turns -> Status] /\ \A k \in Turns : nudge'[k] = "pending" => nudge[k] = "pending"
  BY <1>0 DEF TypeOK
<1>3. TypeOK'
  BY <1>1, <1>2 DEF TypeOK
<1>4. InTurn'
  BY DEF InTurn
<1>5. npc'[m] \in {step, "idle"}
  BY DEF TypeOK, GoesTo, Ends
<1>6. Looks'
  BY <1>1, <1>5 DEF TypeOK, Looks, ReadsWhatItFollows
<1> QED BY <1>3, <1>4, <1>6

LEMMA ReadAnsweredInv == ASSUME NudgesInv, NEW m \in Turns, ReadAnswered(m) PROVE NudgesInv'
<1> USE DEF NudgesInv, ReadAnswered, GoesTo, rest, contactVars, outboxVars, marks
<1>1. TypeOK'
  BY NudgesAssumption DEF TypeOK, NudgeStep
<1>2. InTurn'
  BY DEF InTurn
<1>3. Looks'
  BY NudgesAssumption DEF TypeOK, Looks, ReadsWhatItFollows
<1> QED BY <1>1, <1>2, <1>3

LEMMA ReadHistoryInv == ASSUME NudgesInv, NEW m \in Turns, ReadHistory(m) PROVE NudgesInv'
<1> USE DEF NudgesInv, ReadHistory, GoesTo, rest, contactVars, outboxVars, marks
<1>1. TypeOK'
  BY NudgesAssumption DEF TypeOK, NudgeStep
<1>2. InTurn'
  BY DEF InTurn
<1>3. Looks'
  BY NudgesAssumption DEF TypeOK, Looks, ReadsWhatItFollows
<1> QED BY <1>1, <1>2, <1>3

LEMMA CheckLatestInv == ASSUME NudgesInv, NEW m \in Turns, CheckLatest(m) PROVE NudgesInv'
<1> USE DEF NudgesInv, CheckLatest, rest, contactVars, outboxVars, marks
<1>0. found \in [Turns -> Found] /\ recorded \in 0..N
  BY DEF TypeOK
<1>1. found' \in [Turns -> Found] /\ found'[m].checked = recorded
  <2>1. found[m] \in Found
    BY <1>0
  <2>2. \A r \in Found : /\ [r EXCEPT !.checked = recorded] \in Found
                         /\ [r EXCEPT !.checked = recorded].checked = recorded
    BY <1>0 DEF Found
  <2>3. found' = [found EXCEPT ![m] = [found[m] EXCEPT !.checked = recorded]]
    OBVIOUS
  <2> HIDE DEF CheckLatest, NudgesInv
  <2> QED BY <1>0, <2>1, <2>2, <2>3
<1>2. npc' \in [Turns -> NudgeStep] /\ npc'[m] \in {"reply", "idle"}
  BY DEF TypeOK, GoesTo, Ends, NudgeStep
<1>3. \A k \in Turns : k # m => npc'[k] = npc[k] /\ found'[k] = found[k]
  BY DEF TypeOK, GoesTo, Ends
<1>4. nudge' \in [Turns -> Status] /\ \A k \in Turns : nudge'[k] = "pending" => nudge[k] = "pending"
  BY DEF TypeOK, GoesTo, Ends, Status
<1>5. TypeOK'
  <2>1. \A j, k \in Turns : (npc'[j] # "idle" /\ npc'[k] # "idle") => j = k
    BY <1>3 DEF TypeOK, GoesTo, Ends
  <2>2. \A j, k \in Turns : (nudge'[j] = "pending" /\ nudge'[k] = "pending") => j = k
    BY <1>4 DEF TypeOK
  <2> QED BY <1>1, <1>2, <1>4, <2>1, <2>2 DEF TypeOK
<1>6. InTurn'
  BY DEF InTurn
<1>7. npc'[m] = "reply" => recorded = seen[m] /\ seen[m] <= read[m]
  BY DEF TypeOK, GoesTo, Ends, Looks
<1>8. Looks'
  BY <1>1, <1>2, <1>3, <1>7 DEF TypeOK, Looks, ReadsWhatItFollows
<1> QED BY <1>5, <1>6, <1>8

\* What the worker queues is a reply.
LEMMA QueuesTypes ==
    ASSUME TypeOK, NEW m \in Turns, Queues(m)
    PROVE  queue' \in Seq(Reply) /\ sent' \in [Turns -> Nat]
<1>1. \A plan \in Plans \intersect {"none", "link"} : StepsOf[plan] \in Seq(Statements)
  BY StepsAreStatements, NudgesAssumption
<1> QED BY <1>1 DEF TypeOK, Queues, Reply

LEMMA RunOneInv == ASSUME NudgesInv, NEW m \in Turns, RunOne(m) PROVE NudgesInv'
<1> USE DEF rest, outboxVars, NudgeStep
<1> TypeOK
  BY DEF NudgesInv
<1>0. queue \in Seq(Reply) /\ sent \in [Turns -> Nat] /\ faults \in 0..MaxFaults
  BY DEF TypeOK
<1>1. CASE Load(m)
  BY <1>0, <1>1, GoesOn DEF Load
<1>2. CASE CheckStage(m)
  BY <1>0, <1>2, GoesOn DEF CheckStage
<1>3. CASE CheckLimits(m)
  BY <1>0, <1>3, GoesOn DEF CheckLimits
<1>4. CASE ReadAnswered(m)
  BY <1>4, ReadAnsweredInv
<1>5. CASE ReadHistory(m)
  BY <1>5, ReadHistoryInv
<1>6. CASE CallModel(m)
  BY <1>0, <1>6, GoesOn DEF CallModel
<1>7. CASE CheckLatest(m)
  BY <1>7, CheckLatestInv
<1>8. CASE RecordNudge(m)
  BY <1>0, <1>8, GoesOn DEF RecordNudge
<1>9. CASE Enqueue(m)
  BY <1>0, <1>9, QueuesTypes, GoesOn DEF Enqueue
<1>10. CASE Finish(m)
  BY <1>0, <1>10, GoesOn DEF Finish
<1>11. CASE Skip(m)
  BY <1>0, <1>11, GoesOn DEF Skip
<1> QED BY <1>1, <1>2, <1>3, <1>4, <1>5, <1>6, <1>7, <1>8, <1>9, <1>10, <1>11 DEF RunOne

LEMMA FailsInv == ASSUME NudgesInv, NEW m \in Turns, Fails(m) \/ SkipFails(m) PROVE NudgesInv'
<1> USE DEF rest, outboxVars, NudgeStep
<1> TypeOK
  BY DEF NudgesInv
<1>0. queue \in Seq(Reply) /\ sent \in [Turns -> Nat]
  BY DEF TypeOK
<1>1. faults' \in 0..MaxFaults
  BY NudgesAssumption DEF TypeOK, Fails, SkipFails
<1>2. CASE Fails(m)
  BY <1>0, <1>1, <1>2, QueuesTypes, GoesOn DEF Fails
<1>3. CASE SkipFails(m)
  BY <1>0, <1>1, <1>3, GoesOn DEF SkipFails
<1> QED BY <1>2, <1>3

LEMMA CrashInv == ASSUME NudgesInv, Crash PROVE NudgesInv'
<1> USE DEF NudgesInv, Crash, marks
<1>1. todo' \in [Turns -> Seq(Statements)] /\ doing' \in Seq(Deferred)
  OBVIOUS
<1>2. TypeOK'
  BY <1>1 DEF TypeOK, NudgeStep
<1>3. InTurn'
  BY TurnsAreNumbers DEF TypeOK, InTurn
<1>4. Looks'
  BY DEF Looks, ReadsWhatItFollows
<1> QED BY <1>2, <1>3, <1>4

-----------------------------------------------------------------------------

LEMMA NudgesInvariant == Spec => []NudgesInv
<1>1. Init => NudgesInv
  BY InitNudges
<1>2. NudgesInv /\ [Next]_vars => NudgesInv'
  <2> SUFFICES ASSUME NudgesInv, [Next]_vars PROVE NudgesInv'
    OBVIOUS
  <2>1. CASE UNCHANGED vars
    BY <2>1 DEF NudgesInv, TypeOK, InTurn, Looks, ReadsWhatItFollows, vars, contactVars, outboxVars,
                marks, run
  <2>2. CASE Next
    BY <2>2, ArriveInv, RecordMessageInv, SettleInv, PerformInv, DeliverInv, PerformDeferredInv,
       ComesDueInv, ClaimInv, RunOneInv, FailsInv, CrashInv DEF Next
  <2> QED BY <2>1, <2>2
<1> QED BY <1>1, <1>2, PTL DEF Spec

(***************************************************************************)
(* The types, with at most one pending row and at most one nudge in the    *)
(* worker's hands (store.ts: "at most one waits").                         *)
(***************************************************************************)
THEOREM NudgeTypes == Spec => []TypeOK
BY NudgesInvariant, PTL DEF NudgesInv

(***************************************************************************)
(* A follow-up that is recorded, queued or finished was written by a model *)
(* that was given every message the worker's last look found (worker.ts).  *)
(***************************************************************************)
THEOREM ReadFirst == Spec => []ReadsWhatItFollows
BY NudgesInvariant, PTL DEF NudgesInv, Looks
-----------------------------------------------------------------------------
\* Each nudge is scheduled, claimed and queued once

\* Where a turn's nudge is still to be scheduled: in its actions, in a reply of the outbox, and
\* in what the outbox's worker has left of the reply it delivered.
Schedules(steps) == {i \in 1..Len(steps) : steps[i] = "schedule"}
InTodo(m) == Schedules(todo[m])
InQueue(m) == {i \in 1..Len(queue) : queue[i].turn = m /\ Schedules(queue[i].steps) # {}}
InDoing(m) == {i \in 1..Len(doing) : doing[i].turn = m /\ doing[i].statement = "schedule"}

AtMostOne(S) == \A i, j \in S : i = j

\* A turn's nudge is to be scheduled in one place at most, and only before it is.
Once(m) ==
    /\ AtMostOne(InTodo(m)) /\ AtMostOne(InQueue(m)) /\ AtMostOne(InDoing(m))
    /\ InTodo(m) = {} \/ InQueue(m) = {}
    /\ InTodo(m) = {} \/ InDoing(m) = {}
    /\ InQueue(m) = {} \/ InDoing(m) = {}
    /\ InTodo(m) \union InQueue(m) \union InDoing(m) # {} => pc[m] = "settled" /\ nudge[m] = "none"
    /\ pc[m] # "settled" => nudge[m] = "none"

OnceInv ==
    /\ \A m \in Turns : Once(m)
    /\ \A i \in 1..Len(queue) : AtMostOne(Schedules(queue[i].steps))

\* The worker holds a running nudge that is not queued before its last step, and one that passed
\* the look at the stage was claimed before the link.
SentInv ==
    /\ \A m \in Turns :
         /\ npc[m] # "idle" => nudge[m] = "running"
         /\ npc[m] \notin {"idle", "finish", "skip"} => sent[m] = 0
         /\ npc[m] = "finish" => sent[m] = 1
         /\ nudge[m] \in {"none", "pending"} => sent[m] = 0
         /\ npc[m] \in {"limits", "answered", "history", "model", "latest", "reply", "enqueue"} =>
              ~found[m].linked
         /\ found[m].linked => linked
    /\ NeverSentTwice /\ LinkedIsSilent

LEMMA OnceInit == ASSUME Init PROVE OnceInv /\ SentInv
<1>1. /\ \A m \in Turns : InTodo(m) = {} /\ InQueue(m) = {} /\ InDoing(m) = {}
      /\ Len(queue) = 0
    BY DEF Init, InTodo, InQueue, InDoing, Schedules
<1>2. OnceInv
    BY <1>1 DEF Init, OnceInv, Once, AtMostOne
<1>3. SentInv
    BY DEF Init, SentInv, NeverSentTwice, LinkedIsSilent, Nothing
<1> QED BY <1>2, <1>3

\* A plan schedules one nudge at most, and what a nudge or an escalation leaves schedules none.
LEMMA PlansSchedule ==
    /\ \A plan \in DOMAIN StepsOf : AtMostOne(Schedules(StepsOf[plan]))
    /\ \A plan \in {"none", "link"} : Schedules(StepsOf[plan]) = {}
    /\ Schedules(<<"cancel">>) = {} /\ Schedules(<<"cancel", "mark">>) = {}
    /\ Schedules(<<"mark", "cancel">>) = {}
<1>1. ASSUME NEW plan \in {"none", "nudge", "link", "nudge_link", "link_nudge"}
      PROVE  AtMostOne(Schedules(StepsOf[plan]))
    <2>1. CASE plan = "none"
        BY <2>1 DEF StepsOf, Schedules, AtMostOne
    <2>2. CASE plan = "nudge"
        BY <2>2 DEF StepsOf, Schedules, AtMostOne
    <2>3. CASE plan = "link"
        BY <2>3 DEF StepsOf, Schedules, AtMostOne
    <2>4. CASE plan = "nudge_link"
        BY <2>4 DEF StepsOf, Schedules, AtMostOne
    <2>5. CASE plan = "link_nudge"
        BY <2>5 DEF StepsOf, Schedules, AtMostOne
    <2> QED BY <2>1, <2>2, <2>3, <2>4, <2>5
<1>2. DOMAIN StepsOf = {"none", "nudge", "link", "nudge_link", "link_nudge"}
    BY DEF StepsOf
<1>3. Schedules(StepsOf.none) = {} /\ Schedules(StepsOf.link) = {}
    BY DEF StepsOf, Schedules
<1>4. Schedules(<<"cancel">>) = {} /\ Schedules(<<"cancel", "mark">>) = {}
    BY DEF Schedules
<1>5. Schedules(<<"mark", "cancel">>) = {}
    BY DEF Schedules
<1>6. \A plan \in {"none", "link"} : Schedules(StepsOf[plan]) = {}
    BY <1>3
<1> QED BY <1>1, <1>2, <1>4, <1>5, <1>6

\* The statements after the first.
LEMMA TailSchedules ==
    ASSUME NEW s \in Seq(Statements), s # <<>>
    PROVE  /\ \A i \in Schedules(Tail(s)) : i + 1 \in Schedules(s) /\ i \in Nat \ {0}
           /\ Head(s) = "schedule" => 1 \in Schedules(s)
<1>1. /\ Tail(s) \in Seq(Statements) /\ Len(Tail(s)) = Len(s) - 1 /\ Len(s) \in Nat \ {0}
      /\ \A i \in 1..Len(Tail(s)) : Tail(s)[i] = s[i + 1]
      /\ Head(s) = s[1]
    BY HeadTailProperties
<1> QED BY <1>1 DEF Schedules

\* A turn whose nudge is to be scheduled nowhere, or where it was, but for what was taken off.
LEMMA OnceFrame ==
    ASSUME OnceInv, UNCHANGED <<todo, queue, doing>>,
           \A k \in Turns : pc[k] = "settled" => pc'[k] = "settled",
           \A k \in Turns : nudge'[k] = "none" <=> nudge[k] = "none"
    PROVE  OnceInv'
<1>1. /\ \A k \in Turns : InTodo(k)' = InTodo(k) /\ InQueue(k)' = InQueue(k) /\ InDoing(k)' = InDoing(k)
      /\ (\A i \in 1..Len(queue) : AtMostOne(Schedules(queue[i].steps)))'
    BY DEF InTodo, InQueue, InDoing, Schedules, OnceInv
<1>2. ASSUME NEW k \in Turns PROVE Once(k)'
    BY <1>1 DEF OnceInv, Once
<1> QED BY <1>1, <1>2 DEF OnceInv

\* A reply that is appended.
LEMMA AppendedQueue ==
    ASSUME queue \in Seq(Reply), NEW m \in Turns, NEW s \in Seq(Statements),
           queue' = Append(queue, [turn |-> m, steps |-> s]), OnceInv, AtMostOne(Schedules(s))
    PROVE  /\ (\A i \in 1..Len(queue) : AtMostOne(Schedules(queue[i].steps)))'
           /\ \A k \in Turns : k # m \/ Schedules(s) = {} => InQueue(k)' = InQueue(k)
           /\ InQueue(m) = {} => AtMostOne(InQueue(m)')
<1> DEFINE r == [turn |-> m, steps |-> s]
<1>1. r \in Reply /\ r.turn = m /\ r.steps = s
    BY DEF Reply
<1> HIDE DEF r
<1>2. /\ Len(queue') = Len(queue) + 1 /\ Len(queue) \in Nat
      /\ \A i \in 1..Len(queue) : queue'[i] = queue[i]
      /\ queue'[Len(queue) + 1] = r
    BY <1>1, AppendProperties DEF r
<1>3. (\A i \in 1..Len(queue) : AtMostOne(Schedules(queue[i].steps)))'
    <2>1. ASSUME NEW i \in 1..Len(queue') PROVE AtMostOne(Schedules(queue'[i].steps))
        <3>1. CASE i = Len(queue) + 1
            BY <1>1, <1>2, <3>1
        <3>2. CASE i \in 1..Len(queue)
            BY <1>2, <3>2 DEF OnceInv
        <3> QED BY <3>1, <3>2, <1>2
    <2> QED BY <2>1 DEF Schedules, AtMostOne
<1>4. \A k \in Turns : InQueue(k)' = {i \in 1..Len(queue') : queue'[i].turn = k /\ Schedules(queue'[i].steps) # {}}
    BY DEF InQueue, Schedules
<1>5. ASSUME NEW k \in Turns
      PROVE  InQueue(k)' = InQueue(k) \union (IF k = m /\ Schedules(s) # {} THEN {Len(queue) + 1} ELSE {})
    BY <1>1, <1>2, <1>4 DEF InQueue
<1> QED BY <1>3, <1>5 DEF AtMostOne

\* One statement of a turn's actions: only the first to schedule the turn's nudge changes which
\* nudges there are.
LEMMA PerformsNudge ==
    ASSUME TypeOK, NEW m \in Turns, NEW s \in Statements, Performs(m, s)
    PROVE  /\ \A k \in Turns : (k # m \/ s # "schedule") =>
                 \/ nudge'[k] = nudge[k]
                 \/ nudge[k] = "pending" /\ nudge'[k] \in {"replaced", "cancelled"}
           /\ s = "schedule" => nudge'[m] = "pending"
           /\ linked => linked'
<1>1. CASE s = "schedule"
    BY <1>1 DEF TypeOK, Performs, Scheduled, Waiting
<1>2. CASE s = "cancel"
    BY <1>2 DEF TypeOK, Performs, Cancelled, Waiting
<1>3. CASE s \notin {"schedule", "cancel"}
    BY <1>3 DEF TypeOK, Performs
<1> QED BY <1>1, <1>2, <1>3

LEMMA OnceSettle == ASSUME NudgesInv, OnceInv, NEW m \in Turns, Settle(m) PROVE OnceInv'
<1> USE DEF Settle, marks, run
<1>1. /\ queue \in Seq(Reply) /\ todo \in [Turns -> Seq(Statements)] /\ doing' = doing /\ nudge' = nudge
      /\ \A k \in Turns : InDoing(k)' = InDoing(k)
      /\ pc[m] = "run" /\ nudge[m] = "none" /\ pc \in [Turns -> {"away", "arrived", "run", "escalating", "settled"}]
    BY DEF NudgesInv, TypeOK, InDoing, OnceInv, Once
<1>2. InTodo(m) = {} /\ InQueue(m) = {} /\ InDoing(m) = {}
    BY <1>1 DEF OnceInv, Once
<1>3. /\ \A k \in Turns : k # m => todo'[k] = todo[k] /\ pc'[k] = pc[k]
      /\ \A k \in Turns : k # m => InTodo(k)' = InTodo(k)
    BY <1>1 DEF InTodo, Schedules
<1>4. InTodo(m)' = Schedules(todo'[m])
    BY DEF InTodo, Schedules
<1>5. ASSUME NEW steps \in {<<"cancel">>, <<"cancel", "mark">>}, todo' = [todo EXCEPT ![m] = steps],
             UNCHANGED queue, pc' = [pc EXCEPT ![m] = "escalating"]
      PROVE  OnceInv'
    <2>1. InTodo(m)' = {} /\ \A k \in Turns : InQueue(k)' = InQueue(k)
        BY <1>1, <1>4, <1>5, PlansSchedule DEF InQueue, Schedules
    <2>2. ASSUME NEW k \in Turns PROVE Once(k)'
        <3> HIDE DEF Settle
        <3>1. CASE k = m
            <4>1. pc'[m] = "escalating"
                BY <1>1, <1>5
            <4> QED BY <1>1, <1>2, <1>3, <1>5, <2>1, <3>1, <4>1 DEF Once, AtMostOne
        <3>2. CASE k # m
            BY <1>1, <1>3, <2>1, <3>2 DEF OnceInv, Once
        <3> QED BY <3>1, <3>2
    <2>3. (\A i \in 1..Len(queue) : AtMostOne(Schedules(queue[i].steps)))'
        BY <1>5 DEF OnceInv, Schedules, AtMostOne
    <2> HIDE DEF Settle
    <2> QED BY <2>2, <2>3 DEF OnceInv
<1>6. ASSUME NEW plan \in Plans \ {"escalate"}, pc' = [pc EXCEPT ![m] = "settled"],
             \/ todo' = [todo EXCEPT ![m] = StepsOf[plan]] /\ UNCHANGED queue
             \/ queue' = Append(queue, [turn |-> m, steps |-> StepsOf[plan]]) /\ UNCHANGED todo
      PROVE  OnceInv'
    <2> plan \in DOMAIN StepsOf
        BY <1>6, NudgesAssumption
    <2>1. StepsOf[plan] \in Seq(Statements) /\ AtMostOne(Schedules(StepsOf[plan]))
        BY StepsAreStatements, PlansSchedule
    <2>2. CASE todo' = [todo EXCEPT ![m] = StepsOf[plan]] /\ UNCHANGED queue
        <3>1. AtMostOne(InTodo(m)') /\ \A k \in Turns : InQueue(k)' = InQueue(k)
            BY <1>1, <1>4, <2>1, <2>2 DEF InQueue, Schedules
        <3>2. ASSUME NEW k \in Turns PROVE Once(k)'
            <4> HIDE DEF Settle
            <4>1. CASE k = m
                <5>1. pc'[m] = "settled"
                    BY <1>1, <1>6
                <5> QED BY <1>1, <1>2, <1>3, <1>6, <3>1, <4>1, <5>1 DEF Once, AtMostOne
            <4>2. CASE k # m
                BY <1>1, <1>2, <1>3, <1>6, <3>1, <4>2 DEF OnceInv, Once, AtMostOne
            <4> QED BY <4>1, <4>2
        <3>3. (\A i \in 1..Len(queue) : AtMostOne(Schedules(queue[i].steps)))'
            BY <2>2 DEF OnceInv, Schedules, AtMostOne
        <3> HIDE DEF Settle
        <3> QED BY <3>2, <3>3 DEF OnceInv
    <2>3. CASE queue' = Append(queue, [turn |-> m, steps |-> StepsOf[plan]]) /\ UNCHANGED todo
        <3>1. /\ (\A i \in 1..Len(queue) : AtMostOne(Schedules(queue[i].steps)))'
              /\ \A k \in Turns : k # m => InQueue(k)' = InQueue(k)
              /\ AtMostOne(InQueue(m)')
            BY <1>1, <1>2, <2>1, <2>3, AppendedQueue
        <3>2. InTodo(m)' = {}
            BY <1>2, <2>3 DEF InTodo, Schedules
        <3>3. ASSUME NEW k \in Turns PROVE Once(k)'
            <4> HIDE DEF Settle
            <4>1. CASE k = m
                <5>1. pc'[m] = "settled"
                    BY <1>1, <1>6
                <5> QED BY <1>1, <1>2, <1>3, <1>6, <3>1, <3>2, <4>1, <5>1 DEF Once, AtMostOne
            <4>2. CASE k # m
                BY <1>1, <1>3, <3>1, <4>2 DEF OnceInv, Once
            <4> QED BY <4>1, <4>2
        <3> HIDE DEF Settle
        <3> QED BY <3>1, <3>3 DEF OnceInv
    <2> HIDE DEF Settle
    <2> QED BY <1>6, <2>2, <2>3
<1> QED BY <1>5, <1>6

LEMMA OncePerform == ASSUME NudgesInv, OnceInv, NEW m \in Turns, Perform(m) PROVE OnceInv'
<1> USE DEF Perform, outboxVars, run
<1>1. /\ todo \in [Turns -> Seq(Statements)] /\ TypeOK
      /\ todo[m] \in Seq(Statements) /\ todo[m] # <<>>
      /\ pc \in [Turns -> {"away", "arrived", "run", "escalating", "settled"}]
    BY DEF NudgesInv, TypeOK
<1> DEFINE s == Head(todo[m])
<1>2. s \in Statements /\ Performs(m, s)
    BY <1>1, HeadTailProperties
<1>3. /\ todo'[m] = Tail(todo[m]) /\ \A k \in Turns : k # m => todo'[k] = todo[k]
      /\ \A k \in Turns : pc[k] = "settled" => pc'[k] = "settled"
      /\ queue' = queue /\ doing' = doing
    BY <1>1
<1>4. \A k \in Turns : /\ InQueue(k)' = InQueue(k) /\ InDoing(k)' = InDoing(k)
                       /\ k # m => InTodo(k)' = InTodo(k)
    BY <1>3 DEF InQueue, InDoing, InTodo, Schedules
<1>5. InTodo(m)' = Schedules(Tail(todo[m])) /\ InTodo(m) = Schedules(todo[m])
    BY <1>3 DEF InTodo, Schedules
<1>6. /\ \A i \in InTodo(m)' : i + 1 \in InTodo(m) /\ i \in Nat \ {0}
      /\ s = "schedule" => 1 \in InTodo(m)
    BY <1>1, <1>5, TailSchedules
<1>7. (\A i \in 1..Len(queue) : AtMostOne(Schedules(queue[i].steps)))'
    BY <1>3 DEF OnceInv, Schedules, AtMostOne
<1>8. /\ \A k \in Turns : (k # m \/ s # "schedule") => (nudge'[k] = "none" <=> nudge[k] = "none")
      /\ s = "schedule" => nudge'[m] = "pending"
    BY <1>1, <1>2, PerformsNudge
<1> HIDE DEF s, Perform
<1>9. Once(m)
    BY DEF OnceInv
<1>10. AtMostOne(InTodo(m)') /\ (InTodo(m) = {} => InTodo(m)' = {})
    BY <1>6, <1>9 DEF Once, AtMostOne
<1>11. ASSUME s = "schedule" PROVE InTodo(m)' = {} /\ InQueue(m) = {} /\ InDoing(m) = {} /\ pc[m] = "settled"
    BY <1>6, <1>9, <1>11 DEF Once, AtMostOne
<1>12. Once(m)'
    <2>1. CASE s = "schedule"
        BY <1>11, <2>1, <1>4, <1>3 DEF Once, AtMostOne
    <2>2. CASE s # "schedule"
        BY <1>10, <2>2, <1>3, <1>4, <1>8, <1>9 DEF Once, AtMostOne
    <2> QED BY <2>1, <2>2
<1>13. ASSUME NEW k \in Turns, k # m PROVE Once(k)'
    BY <1>13, <1>3, <1>4, <1>8 DEF OnceInv, Once, AtMostOne
<1> QED BY <1>7, <1>12, <1>13 DEF OnceInv

LEMMA OnceDeliver == ASSUME NudgesInv, OnceInv, Deliver PROVE OnceInv'
<1> USE DEF Deliver, contactVars, marks, run
<1>1. queue \in Seq(Reply) /\ queue # <<>> /\ doing = <<>> /\ todo' = todo /\ pc' = pc /\ nudge' = nudge
    BY DEF NudgesInv, TypeOK
<1>2. PICK steps \in {Head(queue).steps, <<"mark", "cancel">>} :
         doing' = [i \in 1..Len(steps) |-> [turn |-> Head(queue).turn, statement |-> steps[i]]]
    OBVIOUS
<1>3. /\ queue' = Tail(queue) /\ Head(queue) = queue[1] /\ Head(queue) \in Reply
      /\ Len(queue') = Len(queue) - 1 /\ Len(queue) \in Nat \ {0}
      /\ \A i \in 1..Len(queue') : queue'[i] = queue[i + 1]
    BY <1>1, HeadTailProperties
<1>4. steps \in Seq(Statements)
    <2>1. <<"mark", "cancel">> \in Seq(Statements)
        BY DEF Statements
    <2> QED BY <1>2, <1>3, <2>1 DEF Reply
<1>5. /\ Len(doing') = Len(steps) /\ Len(steps) \in Nat
      /\ \A i \in 1..Len(steps) : doing'[i].turn = Head(queue).turn /\ doing'[i].statement = steps[i]
    BY <1>2, <1>4
<1> DEFINE h == Head(queue).turn
<1>6. \A k \in Turns : InDoing(k)' = IF k = h THEN Schedules(steps) ELSE {}
    BY <1>5 DEF InDoing, Schedules
<1>7. \A k \in Turns : InQueue(k)' = {i \in 1..Len(queue') : queue'[i].turn = k /\ Schedules(queue'[i].steps) # {}}
    BY DEF InQueue, Schedules
<1>8. ASSUME NEW k \in Turns, NEW i \in InQueue(k)' PROVE i + 1 \in InQueue(k) /\ i \in Nat \ {0}
    BY <1>8, <1>3, <1>7 DEF InQueue
<1>9. AtMostOne(Schedules(steps)) /\ (Schedules(steps) # {} => 1 \in InQueue(h) /\ h \in Turns)
    <2>1. 1 \in 1..Len(queue) /\ h \in Turns
        BY <1>3 DEF Reply
    <2>2. AtMostOne(Schedules(Head(queue).steps)) /\ (Schedules(Head(queue).steps) # {} => 1 \in InQueue(h))
        BY <1>3, <2>1 DEF OnceInv, InQueue
    <2>3. CASE steps = Head(queue).steps
        BY <2>1, <2>2, <2>3
    <2>4. CASE steps = <<"mark", "cancel">>
        BY <2>4, PlansSchedule DEF AtMostOne
    <2> QED BY <1>2, <2>3, <2>4
<1>10. \A k \in Turns : InTodo(k)' = InTodo(k)
    BY <1>1 DEF InTodo, Schedules
<1>11. (\A i \in 1..Len(queue) : AtMostOne(Schedules(queue[i].steps)))'
    <2>1. ASSUME NEW i \in 1..Len(queue') PROVE AtMostOne(Schedules(queue'[i].steps))
        BY <1>3 DEF OnceInv
    <2> QED BY <2>1 DEF Schedules, AtMostOne
<1> HIDE DEF Deliver, h
<1>12. ASSUME NEW k \in Turns PROVE Once(k)'
    <2>1. Once(k)
        BY DEF OnceInv
    <2>2. AtMostOne(InQueue(k)') /\ (InQueue(k) = {} => InQueue(k)' = {})
        BY <1>8, <2>1 DEF Once, AtMostOne
    <2>3. CASE k = h /\ Schedules(steps) # {}
        <3>1. InQueue(k)' = {} /\ InTodo(k) = {} /\ pc[k] = "settled" /\ nudge[k] = "none"
            BY <2>1, <2>3, <1>8, <1>9 DEF Once, AtMostOne
        <3> QED BY <3>1, <1>1, <1>6, <1>9, <1>10 DEF Once, AtMostOne
    <2>4. CASE ~(k = h /\ Schedules(steps) # {})
        <3>1. InDoing(k)' = {}
            BY <2>4, <1>6
        <3> QED BY <3>1, <2>1, <2>2, <1>1, <1>10 DEF Once, AtMostOne
    <2> QED BY <2>3, <2>4
<1> QED BY <1>11, <1>12 DEF OnceInv

LEMMA OncePerformDeferred == ASSUME NudgesInv, OnceInv, PerformDeferred PROVE OnceInv'
<1> USE DEF PerformDeferred, contactVars, run
<1>1. doing \in Seq(Deferred) /\ doing # <<>> /\ TypeOK
    BY DEF NudgesInv, TypeOK
<1> DEFINE h == Head(doing).turn
           s == Head(doing).statement
<1>2. /\ doing' = Tail(doing) /\ Head(doing) = doing[1] /\ Head(doing) \in Deferred
      /\ Len(doing') = Len(doing) - 1 /\ Len(doing) \in Nat \ {0}
      /\ \A i \in 1..Len(doing') : doing'[i] = doing[i + 1]
    BY <1>1, HeadTailProperties
<1>3. h \in Turns /\ s \in Statements /\ Performs(h, s)
    BY <1>2 DEF Deferred
<1>4. /\ \A k \in Turns : (k # h \/ s # "schedule") => (nudge'[k] = "none" <=> nudge[k] = "none")
      /\ s = "schedule" => nudge'[h] = "pending"
    BY <1>1, <1>3, PerformsNudge
<1>5. todo' = todo /\ queue' = queue /\ pc' = pc
    OBVIOUS
<1>6. \A k \in Turns : InTodo(k)' = InTodo(k) /\ InQueue(k)' = InQueue(k)
    BY <1>5 DEF InTodo, InQueue, Schedules
<1>7. ASSUME NEW k \in Turns
      PROVE  InDoing(k)' = {i \in 1..Len(doing') : doing'[i].turn = k /\ doing'[i].statement = "schedule"}
    BY DEF InDoing
<1>8. ASSUME NEW k \in Turns, NEW i \in InDoing(k)' PROVE i + 1 \in InDoing(k) /\ i \in Nat \ {0}
    BY <1>8, <1>2, <1>7 DEF InDoing
<1>9. s = "schedule" => 1 \in InDoing(h)
    BY <1>2 DEF InDoing
<1>10. (\A i \in 1..Len(queue) : AtMostOne(Schedules(queue[i].steps)))'
    BY <1>5 DEF OnceInv, Schedules, AtMostOne
<1> HIDE DEF PerformDeferred, h, s
<1>11. ASSUME NEW k \in Turns PROVE Once(k)'
    <2>1. Once(k)
        BY DEF OnceInv
    <2>2. AtMostOne(InDoing(k)') /\ (InDoing(k) = {} => InDoing(k)' = {})
        BY <1>8, <2>1 DEF Once, AtMostOne
    <2>3. CASE k = h /\ s = "schedule"
        <3>1. InDoing(k)' = {} /\ InTodo(k) = {} /\ InQueue(k) = {} /\ pc[k] = "settled"
            BY <2>1, <2>3, <1>8, <1>9 DEF Once, AtMostOne
        <3> QED BY <3>1, <1>5, <1>6 DEF Once, AtMostOne
    <2>4. CASE ~(k = h /\ s = "schedule")
        BY <2>1, <2>2, <2>4, <1>4, <1>5, <1>6 DEF Once, AtMostOne
    <2> QED BY <2>3, <2>4
<1> QED BY <1>10, <1>11 DEF OnceInv

\* What a nudge queues schedules nothing.
LEMMA OnceQueues ==
    ASSUME NudgesInv, OnceInv, NEW m \in Turns, Queues(m), UNCHANGED <<todo, doing, pc>>,
           \A k \in Turns : nudge'[k] = "none" <=> nudge[k] = "none"
    PROVE  OnceInv'
<1>1. PICK plan \in Plans \intersect {"none", "link"} :
         queue' = Append(queue, [turn |-> m, steps |-> StepsOf[plan]])
    BY DEF Queues
<1>2. /\ StepsOf[plan] \in Seq(Statements) /\ Schedules(StepsOf[plan]) = {}
      /\ AtMostOne(Schedules(StepsOf[plan]))
    <2>1. plan \in DOMAIN StepsOf
        BY <1>1, NudgesAssumption
    <2> QED BY <2>1, <1>1, StepsAreStatements, PlansSchedule
<1>3. /\ (\A i \in 1..Len(queue) : AtMostOne(Schedules(queue[i].steps)))'
      /\ \A k \in Turns : InQueue(k)' = InQueue(k)
    BY <1>1, <1>2, AppendedQueue DEF NudgesInv, TypeOK
<1>4. \A k \in Turns : InTodo(k)' = InTodo(k) /\ InDoing(k)' = InDoing(k)
    BY DEF InTodo, InDoing, Schedules
<1>5. ASSUME NEW k \in Turns PROVE Once(k)'
    BY <1>3, <1>4 DEF OnceInv, Once
<1> QED BY <1>3, <1>5 DEF OnceInv

LEMMA OnceWorker ==
    ASSUME NudgesInv, OnceInv, SentInv, NEW m \in Turns, RunOne(m) \/ Fails(m) \/ SkipFails(m)
    PROVE  OnceInv'
<1>1. nudge \in [Turns -> Status] /\ npc[m] # "idle" /\ nudge[m] = "running"
    <2>1. npc[m] # "idle"
        BY DEF RunOne, Load, CheckStage, CheckLimits, ReadAnswered, ReadHistory, CallModel, CheckLatest,
               RecordNudge, Enqueue, Finish, Skip, Fails, SkipFails
    <2> QED BY <2>1 DEF NudgesInv, TypeOK, SentInv
<1>2. ASSUME \/ nudge' = nudge
             \/ \E status \in {"cancelled", "skipped", "sent"} : nudge' = [nudge EXCEPT ![m] = status]
      PROVE  \A k \in Turns : nudge'[k] = "none" <=> nudge[k] = "none"
    BY <1>1, <1>2
<1>3. /\ UNCHANGED <<todo, doing, pc>>
      /\ \/ nudge' = nudge
         \/ \E status \in {"cancelled", "skipped", "sent"} : nudge' = [nudge EXCEPT ![m] = status]
      /\ UNCHANGED queue \/ Queues(m)
    BY DEF RunOne, Load, CheckStage, CheckLimits, ReadAnswered, ReadHistory, CallModel, CheckLatest,
           RecordNudge, Enqueue, Finish, Skip, Fails, SkipFails, GoesTo, Ends, rest, contactVars, outboxVars
<1> QED BY <1>2, <1>3, OnceFrame, OnceQueues

LEMMA OnceStep == ASSUME NudgesInv, OnceInv, SentInv, [Next]_vars PROVE OnceInv'
<1>1. ASSUME NEW m \in Turns, Arrive(m) PROVE OnceInv'
    <2>1. /\ UNCHANGED <<todo, queue, doing>> /\ nudge' = Cancelled
          /\ \A k \in Turns : pc[k] = "settled" => pc'[k] = "settled"
        BY <1>1 DEF Arrive, outboxVars, NudgesInv, TypeOK
    <2>2. \A k \in Turns : nudge'[k] = "none" <=> nudge[k] = "none"
        BY <2>1 DEF Cancelled, Waiting
    <2> QED BY <2>1, <2>2, OnceFrame
<1>2. ASSUME NEW m \in Turns, RecordMessage(m) PROVE OnceInv'
    <2>1. /\ UNCHANGED <<todo, queue, doing, nudge>>
          /\ \A k \in Turns : pc[k] = "settled" => pc'[k] = "settled"
        BY <1>2 DEF RecordMessage, outboxVars, NudgesInv, TypeOK
    <2> QED BY <2>1, OnceFrame
<1>3. ASSUME NEW m \in Turns, ComesDue(m) \/ Claim(m) PROVE OnceInv'
    <2>1. /\ UNCHANGED <<todo, queue, doing, pc>>
          /\ nudge[m] = "pending"
          /\ nudge' = nudge \/ nudge' = [nudge EXCEPT ![m] = "running"]
        BY <1>3 DEF ComesDue, Claim, contactVars, outboxVars
    <2>2. \A k \in Turns : nudge'[k] = "none" <=> nudge[k] = "none"
        BY <2>1 DEF NudgesInv, TypeOK
    <2> QED BY <2>1, <2>2, OnceFrame
<1>4. ASSUME Crash PROVE OnceInv'
    <2>1. /\ queue' = queue /\ nudge' = nudge /\ doing' = <<>> /\ todo' = [m \in Turns |-> <<>>]
          /\ pc' = [m \in Turns |-> IF pc[m] = "away" THEN "away" ELSE "settled"]
        BY <1>4 DEF Crash
    <2>2. \A k \in Turns : InTodo(k)' = {} /\ InDoing(k)' = {} /\ InQueue(k)' = InQueue(k)
        BY <2>1 DEF InTodo, InDoing, InQueue, Schedules
    <2>3. ASSUME NEW k \in Turns PROVE Once(k)'
        BY <2>1, <2>2 DEF OnceInv, Once, AtMostOne
    <2>4. (\A i \in 1..Len(queue) : AtMostOne(Schedules(queue[i].steps)))'
        BY <2>1 DEF OnceInv, Schedules, AtMostOne
    <2> QED BY <2>3, <2>4 DEF OnceInv
<1>5. CASE UNCHANGED vars
    <2>1. UNCHANGED <<todo, queue, doing, pc, nudge>>
        BY <1>5 DEF vars, contactVars, outboxVars
    <2> QED BY <2>1, OnceFrame
<1> QED BY <1>1, <1>2, <1>3, <1>4, <1>5, OnceSettle, OncePerform, OnceDeliver, OncePerformDeferred, OnceWorker
        DEF Next

\* Whatever is not the worker's own step leaves its nudge alone.
LEMMA SentFrame ==
    ASSUME SentInv, UNCHANGED <<npc, found, sent>>, linked => linked',
           \A k \in Turns :
              \/ nudge'[k] = nudge[k]
              \/ nudge[k] \in {"none", "pending"} /\ nudge'[k] \in {"pending", "replaced", "cancelled"}
    PROVE  SentInv'
BY DEF SentInv, NeverSentTwice, LinkedIsSilent

LEMMA SentStep == ASSUME NudgesInv, OnceInv, SentInv, [Next]_vars PROVE SentInv'
<1>1. ASSUME NEW m \in Turns, Arrive(m) \/ RecordMessage(m) \/ Settle(m) \/ ComesDue(m) PROVE SentInv'
    <2>1. UNCHANGED <<npc, found, sent, linked>> /\ (nudge' = nudge \/ nudge' = Cancelled)
        BY <1>1 DEF Arrive, RecordMessage, Settle, ComesDue, run, marks
    <2> QED BY <2>1, SentFrame DEF Cancelled, Waiting
<1>2. ASSUME NEW m \in Turns, Perform(m) PROVE SentInv'
    <2>1. UNCHANGED <<npc, found, sent>> /\ Performs(m, Head(todo[m])) /\ todo[m] # <<>>
        BY <1>2 DEF Perform, run
    <2>2. todo[m] \in Seq(Statements) /\ TypeOK
        BY DEF NudgesInv, TypeOK
    <2>3. Head(todo[m]) \in Statements
        BY <2>1, <2>2, HeadTailProperties
    <2>4. Head(todo[m]) = "schedule" => nudge[m] = "none"
        <3>1. Head(todo[m]) = "schedule" => InTodo(m) # {}
            BY <2>1, <2>2, TailSchedules DEF InTodo
        <3> QED BY <3>1 DEF OnceInv, Once
    <2> QED BY <2>1, <2>2, <2>3, <2>4, PerformsNudge, SentFrame
<1>3. CASE Deliver
    <2>1. UNCHANGED <<npc, found, sent, linked, nudge>>
        BY <1>3 DEF Deliver, run, marks
    <2> QED BY <2>1, SentFrame
<1>4. CASE PerformDeferred
    <2> DEFINE h == Head(doing).turn
               s == Head(doing).statement
    <2>1. UNCHANGED <<npc, found, sent>> /\ Performs(h, s) /\ doing # <<>>
        BY <1>4 DEF PerformDeferred, run
    <2>2. doing \in Seq(Deferred) /\ TypeOK
        BY DEF NudgesInv, TypeOK
    <2>3. Head(doing) \in Deferred /\ Head(doing) = doing[1] /\ 1 \in 1..Len(doing)
        BY <2>1, <2>2, HeadTailProperties
    <2>4. h \in Turns /\ s \in Statements
        BY <2>3 DEF Deferred
    <2>5. s = "schedule" => nudge[h] = "none"
        <3>1. s = "schedule" => InDoing(h) # {}
            BY <2>3 DEF InDoing
        <3> QED BY <2>4, <3>1 DEF OnceInv, Once
    <2> HIDE DEF h, s
    <2> QED BY <2>1, <2>2, <2>4, <2>5, PerformsNudge, SentFrame
<1>5. ASSUME NEW m \in Turns, Claim(m) PROVE SentInv'
    <2>1. /\ nudge[m] = "pending" /\ UNCHANGED <<sent, linked>>
          /\ nudge' = [nudge EXCEPT ![m] = "running"] /\ npc' = [npc EXCEPT ![m] = "load"]
          /\ found' = [found EXCEPT ![m] = [Nothing EXCEPT !.escalated = escalated, !.linked = linked]]
        BY <1>5 DEF Claim, marks
    <2>2. nudge \in [Turns -> Status] /\ npc \in [Turns -> NudgeStep] /\ found \in [Turns -> Found]
        BY DEF NudgesInv, TypeOK
    <2>3. [Nothing EXCEPT !.escalated = escalated, !.linked = linked].linked = linked
        BY DEF Nothing
    <2>4. /\ nudge'[m] = "running" /\ npc'[m] = "load" /\ found'[m].linked = linked
          /\ \A k \in Turns : k # m => nudge'[k] = nudge[k] /\ npc'[k] = npc[k] /\ found'[k] = found[k]
        BY <2>1, <2>2, <2>3
    <2> QED BY <2>1, <2>4 DEF SentInv, NeverSentTwice, LinkedIsSilent
<1>6. ASSUME NEW m \in Turns, RunOne(m) \/ Fails(m) \/ SkipFails(m) PROVE SentInv'
    <2>1. /\ nudge \in [Turns -> Status] /\ npc \in [Turns -> NudgeStep] /\ sent \in [Turns -> Nat]
          /\ found \in [Turns -> Found]
        BY DEF NudgesInv, TypeOK
    <2>2. linked' = linked
        BY <1>6 DEF RunOne, Load, CheckStage, CheckLimits, ReadAnswered, ReadHistory, CallModel, CheckLatest,
               RecordNudge, Enqueue, Finish, Skip, Fails, SkipFails, rest, marks
    <2>3. \A k \in Turns : found'[k].linked = found[k].linked
        <3>1. CASE CheckLatest(m)
            <4>1. found' = [found EXCEPT ![m] = [found[m] EXCEPT !.checked = recorded]]
                BY <3>1 DEF CheckLatest
            <4>2. found[m] \in Found
                BY <2>1
            <4>3. [found[m] EXCEPT !.checked = recorded].linked = found[m].linked
                BY <4>2 DEF Found
            <4> QED BY <2>1, <4>1, <4>3
        <3>2. CASE ~CheckLatest(m)
            BY <1>6, <3>2 DEF RunOne, Load, CheckStage, CheckLimits, ReadAnswered, ReadHistory, CallModel,
               RecordNudge, Enqueue, Finish, Skip, Fails, SkipFails
        <3> QED BY <3>1, <3>2
    <2>4. \A k \in Turns : k # m => nudge'[k] = nudge[k] /\ npc'[k] = npc[k] /\ sent'[k] = sent[k]
        BY <1>6, <2>1 DEF RunOne, Load, CheckStage, CheckLimits, ReadAnswered, ReadHistory, CallModel, CheckLatest,
               RecordNudge, Enqueue, Finish, Skip, Fails, SkipFails, GoesTo, Ends, Queues, rest
    <2>5. \/ /\ npc'[m] = "idle" /\ nudge'[m] \in {"cancelled", "skipped"} /\ sent' = sent /\ npc[m] # "finish"
          \/ /\ npc[m] = "stage" /\ npc'[m] = "limits" /\ nudge' = nudge /\ sent' = sent /\ ~linked
          \/ /\ npc[m] \in {"load", "limits", "answered", "history", "model", "latest", "reply"}
             /\ npc'[m] \in {"answered", "history", "model", "latest", "reply", "enqueue", "stage"}
             /\ npc'[m] = "stage" \/ npc[m] # "load"
             /\ nudge' = nudge /\ sent' = sent
          \/ /\ npc[m] = "enqueue" /\ npc'[m] = "finish" /\ nudge' = nudge /\ sent'[m] = sent[m] + 1
          \/ /\ npc[m] = "finish" /\ npc'[m] = "idle" /\ nudge'[m] = "sent" /\ sent' = sent
          \/ /\ npc[m] \notin {"idle", "skip"} /\ npc'[m] = "skip" /\ nudge' = nudge
             /\ sent' = sent \/ (npc[m] = "enqueue" /\ sent'[m] = sent[m] + 1)
          \/ /\ npc[m] = "skip" /\ npc'[m] = "idle" /\ nudge' = nudge /\ sent' = sent
        <3> USE DEF GoesTo, Ends, rest
        <3>1. CASE Load(m) \/ CheckStage(m) \/ CheckLimits(m)
            BY <2>1, <3>1 DEF Load, CheckStage, CheckLimits
        <3>2. CASE ReadAnswered(m) \/ ReadHistory(m) \/ RecordNudge(m)
            BY <2>1, <3>2 DEF ReadAnswered, ReadHistory, RecordNudge
        <3>3. CASE CallModel(m) \/ CheckLatest(m)
            BY <2>1, <3>3 DEF CallModel, CheckLatest
        <3>4. CASE Enqueue(m) \/ Finish(m)
            BY <2>1, <3>4 DEF Enqueue, Finish, Queues
        <3>5. CASE Skip(m) \/ SkipFails(m)
            BY <2>1, <3>5 DEF Skip, SkipFails
        <3>6. CASE Fails(m)
            BY <2>1, <3>6 DEF Fails, Queues
        <3> QED BY <1>6, <3>1, <3>2, <3>3, <3>4, <3>5, <3>6 DEF RunOne
    <2>6. npc[m] # "idle" => nudge[m] = "running"
        BY DEF SentInv
    <2>7. SentInv'
        BY <2>1, <2>2, <2>3, <2>4, <2>5, <2>6 DEF SentInv, NeverSentTwice, LinkedIsSilent
    <2> QED BY <2>7
<1>7. CASE Crash
    <2>1. UNCHANGED <<found, sent, linked, nudge>> /\ npc' = [m \in Turns |-> "idle"]
        BY <1>7 DEF Crash, marks
    <2> QED BY <2>1 DEF SentInv, NeverSentTwice, LinkedIsSilent
<1>8. CASE UNCHANGED vars
    <2>1. UNCHANGED <<npc, found, sent, linked, nudge>>
        BY <1>8 DEF vars, run, marks
    <2> QED BY <2>1, SentFrame
<1> QED BY <1>1, <1>2, <1>3, <1>4, <1>5, <1>6, <1>7, <1>8 DEF Next

LEMMA SentInvariant == Spec => [](NudgesInv /\ OnceInv /\ SentInv)
<1>1. Init => OnceInv /\ SentInv
    BY OnceInit
<1>2. NudgesInv /\ OnceInv /\ SentInv /\ [Next]_vars => OnceInv' /\ SentInv'
    BY OnceStep, SentStep
<1> QED BY <1>1, <1>2, NudgesInvariant, PTL DEF Spec

(***************************************************************************)
(* A nudge claimed with the payment link on record is never queued,        *)
(* whichever of the turn's statements came first: the look at the stage    *)
(* when it is due (checks.ts) reads what only ever becomes true.           *)
(***************************************************************************)
THEOREM LinkSilences == Spec => []LinkedIsSilent
BY SentInvariant, PTL DEF SentInv

(***************************************************************************)
(* Through failures before and after the outbox's insert and a crash at    *)
(* any statement, a nudge is queued once at most, and recorded as sent     *)
(* only if it was (worker.ts runOne, store.ts).                            *)
(***************************************************************************)
THEOREM SentOnce == Spec => []NeverSentTwice
BY SentInvariant, PTL DEF SentInv

=============================================================================
