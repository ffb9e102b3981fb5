------------------------------- MODULE Nudges -------------------------------
(***************************************************************************)
(* The follow-ups of one contact (src/nudge/): scheduled by the actions of *)
(* a turn (performer.ts), cancelled by what makes them wrong (admission.ts,*)
(* recorder.ts, the outbox's worker), and run when due by a worker that    *)
(* checks, calls the model, checks again and queues (worker.ts, checks.ts).*)
(*                                                                         *)
(* The contact's own turns run one at a time (TurnLanes), a turn's actions *)
(* follow its text: in the process once its response is out, or when the   *)
(* outbox has delivered its reply.  A nudge is numbered by the turn whose  *)
(* action scheduled it.  One step is one statement.  That time passes is   *)
(* ComesDue; the window, the caps and the human takeover, which depend on  *)
(* nothing modelled here, are a choice.                                    *)
(***************************************************************************)
EXTENDS Integers, Sequences, FiniteSets

CONSTANTS N,         \* messages the contact writes
          Plans,     \* what a turn may have staged, or that it escalates
          MaxFaults, \* statements of the worker that may fail
          Crashes    \* whether the process may die, once

Turns == 1..N

\* The statements a staged action is performed with: a payment link's stage write
\* cancels a pending nudge, and what was performed is recorded after the last action.
StepsOf ==
    [none       |-> <<>>,
     nudge      |-> <<"schedule">>,
     link       |-> <<"link", "cancel", "record">>,
     nudge_link |-> <<"schedule", "link", "cancel", "record">>,
     link_nudge |-> <<"link", "cancel", "schedule", "record">>]

ASSUME NudgesAssumption ==
    /\ N \in Nat /\ MaxFaults \in Nat
    /\ Plans \subseteq DOMAIN StepsOf \union {"escalate"}
    /\ Crashes \in BOOLEAN

VARIABLES pc,        \* where each of the contact's turns is
          todo,      \* statements a turn has left to perform in the process
          queue,     \* replies in the outbox with the statements that follow their text
          doing,     \* what the outbox's worker has left of the reply it delivered
          recorded,  \* the last of the contact's messages that has its row
          escalated, \* the turns that have marked the conversation escalated
          linked,    \* a payment link's stage write is on record
          nudge,     \* each nudge's status
          due,       \* the nudges whose time has come
          stale,     \* those scheduled before the conversation was last escalated
          npc,       \* where the worker is in a nudge it has claimed
          seen,      \* answeredBefore: the last message before the nudge's model call
          read,      \* the last message in the history its model was given
          sent,      \* how often each nudge was queued
          faults, crashed,
          found      \* what was so when a nudge was claimed, and last checked

contactVars == <<pc, todo, recorded>>
outboxVars == <<queue, doing>>
marks == <<escalated, linked, stale>>
run == <<npc, seen, read, found>>
vars == <<contactVars, outboxVars, marks, run, nudge, due, sent, faults, crashed>>

Status == {"none", "pending", "replaced", "running", "sent", "skipped", "cancelled"}
Statements == {"schedule", "link", "cancel", "record", "mark"}
NudgeStep == {"idle", "load", "stage", "limits", "answered", "history", "model", "latest",
              "reply", "enqueue", "finish", "skip"}

Reply == [turn : Turns, steps : Seq(Statements)]
Deferred == [turn : Turns, statement : Statements]
Found == [escalated : SUBSET Turns, linked : BOOLEAN, checked : 0..N]

TypeOK ==
    /\ pc \in [Turns -> {"away", "arrived", "run", "escalating", "settled"}]
    /\ todo \in [Turns -> Seq(Statements)]
    /\ queue \in Seq(Reply) /\ doing \in Seq(Deferred)
    /\ recorded \in 0..N
    /\ escalated \subseteq Turns /\ stale \subseteq Turns /\ linked \in BOOLEAN
    /\ nudge \in [Turns -> Status] /\ due \subseteq Turns
    /\ npc \in [Turns -> NudgeStep]
    /\ seen \in [Turns -> 0..N] /\ read \in [Turns -> 0..N] /\ found \in [Turns -> Found]
    /\ sent \in [Turns -> Nat]
    /\ faults \in 0..MaxFaults /\ crashed \in BOOLEAN
    \* held by the partial unique index on pending rows
    /\ \A j, k \in Turns : (nudge[j] = "pending" /\ nudge[k] = "pending") => j = k
    /\ \A j, k \in Turns : (npc[j] # "idle" /\ npc[k] # "idle") => j = k

Nothing == [escalated |-> {}, linked |-> FALSE, checked |-> 0]

Init ==
    /\ pc = [m \in Turns |-> "away"]
    /\ todo = [m \in Turns |-> <<>>]
    /\ queue = <<>> /\ doing = <<>>
    /\ recorded = 0
    /\ escalated = {} /\ linked = FALSE /\ stale = {}
    /\ nudge = [m \in Turns |-> "none"]
    /\ due = {}
    /\ npc = [m \in Turns |-> "idle"]
    /\ seen = [m \in Turns |-> 0] /\ read = [m \in Turns |-> 0]
    /\ sent = [m \in Turns |-> 0]
    /\ faults = 0 /\ crashed = FALSE
    /\ found = [m \in Turns |-> Nothing]

-----------------------------------------------------------------------------
\* The nudges table (store.ts)

Waiting == {m \in Turns : nudge[m] = "pending"}

\* NudgeStore.cancel: the pending one, not one the worker has claimed.
Cancelled == [m \in Turns |-> IF m \in Waiting THEN "cancelled" ELSE nudge[m]]

\* NudgeStore.schedule: an upsert on the conversation's pending row.
Scheduled(m) ==
    [k \in Turns |-> IF k = m THEN "pending"
                     ELSE IF k \in Waiting THEN "replaced" ELSE nudge[k]]

\* One statement of turn m's actions (conversation/actions.ts, performer.ts), or of an
\* escalation (recorder.ts).
Performs(m, statement) ==
    /\ nudge' = CASE statement = "schedule" -> Scheduled(m)
                  [] statement = "cancel"   -> Cancelled
                  [] OTHER                  -> nudge
    /\ due' = IF statement = "schedule" THEN due \ {m} ELSE due
    /\ stale' = CASE statement = "schedule" -> stale \ {m}
                  [] statement = "mark"     -> {k \in Turns : nudge[k] # "none"}
                  [] OTHER                  -> stale
    /\ escalated' = IF statement = "mark" THEN escalated \union {m} ELSE escalated
    /\ linked' = (linked \/ statement = "record")

-----------------------------------------------------------------------------
\* The contact's own turns

\* A turn admitted once the one before it has settled: the message cancels what waits.
Arrive(m) ==
    /\ pc[m] = "away"
    /\ \A k \in 1..m - 1 : pc[k] = "settled"
    /\ nudge' = Cancelled
    /\ pc' = [pc EXCEPT ![m] = "arrived"]
    /\ UNCHANGED <<todo, recorded, outboxVars, marks, run, due, sent, faults, crashed>>

RecordMessage(m) ==
    /\ pc[m] = "arrived"
    /\ recorded' = m
    /\ pc' = [pc EXCEPT ![m] = "run"]
    /\ UNCHANGED <<todo, outboxVars, marks, run, nudge, due, sent, faults, crashed>>

\* The turn settles: it escalates, which marks the conversation if it is bound, or its
\* actions follow its text on either path.
Settle(m) ==
    /\ pc[m] = "run"
    /\ \/ /\ "escalate" \in Plans
          /\ \E steps \in {<<"cancel">>, <<"cancel", "mark">>} : todo' = [todo EXCEPT ![m] = steps]
          /\ pc' = [pc EXCEPT ![m] = "escalating"]
          /\ UNCHANGED queue
       \/ \E plan \in Plans \ {"escalate"} :
             /\ pc' = [pc EXCEPT ![m] = "settled"]
             /\ \/ todo' = [todo EXCEPT ![m] = StepsOf[plan]] /\ UNCHANGED queue
                \/ queue' = Append(queue, [turn |-> m, steps |-> StepsOf[plan]]) /\ UNCHANGED todo
    /\ UNCHANGED <<recorded, doing, marks, run, nudge, due, sent, faults, crashed>>

\* A statement of an escalation, or of the actions performed after the response.
Perform(m) ==
    /\ todo[m] # <<>>
    /\ Performs(m, Head(todo[m]))
    /\ todo' = [todo EXCEPT ![m] = Tail(@)]
    /\ pc' = IF pc[m] = "escalating" /\ Len(todo[m]) = 1
             THEN [pc EXCEPT ![m] = "settled"] ELSE pc
    /\ UNCHANGED <<recorded, outboxVars, run, sent, faults, crashed>>

\* The outbox delivers its oldest reply, whose actions follow, or dead-letters it past
\* the channel's window, which escalates.
Deliver ==
    /\ queue # <<>> /\ doing = <<>>
    /\ \E steps \in {Head(queue).steps, <<"mark", "cancel">>} :
          doing' = [i \in 1..Len(steps) |-> [turn |-> Head(queue).turn, statement |-> steps[i]]]
    /\ queue' = Tail(queue)
    /\ UNCHANGED <<contactVars, marks, run, nudge, due, sent, faults, crashed>>

PerformDeferred ==
    /\ doing # <<>>
    /\ Performs(Head(doing).turn, Head(doing).statement)
    /\ doing' = Tail(doing)
    /\ UNCHANGED <<contactVars, queue, run, sent, faults, crashed>>

-----------------------------------------------------------------------------
\* The worker (worker.ts runOne)

ComesDue(m) ==
    /\ nudge[m] = "pending" /\ m \notin due
    /\ due' = due \union {m}
    /\ UNCHANGED <<contactVars, outboxVars, marks, run, nudge, sent, faults, crashed>>

Idle == \A m \in Turns : npc[m] = "idle"

Claim(m) ==
    /\ Idle
    /\ nudge[m] = "pending" /\ m \in due
    /\ nudge' = [nudge EXCEPT ![m] = "running"]
    /\ npc' = [npc EXCEPT ![m] = "load"]
    /\ found' = [found EXCEPT ![m] = [Nothing EXCEPT !.escalated = escalated, !.linked = linked]]
    /\ UNCHANGED <<contactVars, outboxVars, marks, seen, read, due, sent, faults, crashed>>

GoesTo(m, step) == npc' = [npc EXCEPT ![m] = step] /\ UNCHANGED nudge

Ends(m, status) ==
    /\ npc' = [npc EXCEPT ![m] = "idle"]
    /\ nudge' = [nudge EXCEPT ![m] = status]

rest == <<contactVars, outboxVars, marks, due, sent, crashed>>

\* The conversation is read: escalated since the nudge was scheduled, or not.
Load(m) ==
    /\ npc[m] = "load"
    /\ IF m \in stale THEN Ends(m, "cancelled") ELSE GoesTo(m, "stage")
    /\ UNCHANGED <<rest, seen, read, found, faults>>

\* Mutant: the funnel's stage is not looked at when the nudge is due.
CheckNoStage(m) ==
    /\ npc[m] = "stage"
    /\ GoesTo(m, "limits")
    /\ UNCHANGED <<rest, seen, read, found, faults>>

CheckStage(m) ==
    /\ npc[m] = "stage"
    /\ IF linked THEN Ends(m, "cancelled") ELSE GoesTo(m, "limits")
    /\ UNCHANGED <<rest, seen, read, found, faults>>

\* The window, the caps, a person's takeover and the rate limit.
CheckLimits(m) ==
    /\ npc[m] = "limits"
    /\ Ends(m, "cancelled") \/ GoesTo(m, "answered")
    /\ UNCHANGED <<rest, seen, read, found, faults>>

ReadAnswered(m) ==
    /\ npc[m] = "answered"
    /\ seen' = [seen EXCEPT ![m] = recorded]
    /\ GoesTo(m, "history")
    /\ UNCHANGED <<rest, read, found, faults>>

ReadHistory(m) ==
    /\ npc[m] = "history"
    /\ read' = [read EXCEPT ![m] = recorded]
    /\ GoesTo(m, "model")
    /\ UNCHANGED <<rest, seen, found, faults>>

\* Mutant: a failed call ends the nudge's turn without ending the nudge.
ModelForgets(m) ==
    /\ npc[m] = "model"
    /\ GoesTo(m, "latest") \/ GoesTo(m, "idle")
    /\ UNCHANGED <<rest, seen, read, found, faults>>

\* The model writes the follow-up, declines it, or its call fails or is aborted.
CallModel(m) ==
    /\ npc[m] = "model"
    /\ GoesTo(m, "latest") \/ Ends(m, "skipped")
    /\ UNCHANGED <<rest, seen, read, found, faults>>

\* Mutant: nobody looks whether the contact wrote while the model ran.
CheckNothing(m) ==
    /\ npc[m] = "latest"
    /\ GoesTo(m, "reply") \/ Ends(m, "skipped")
    /\ found' = [found EXCEPT ![m].checked = recorded]
    /\ UNCHANGED <<rest, seen, read, faults>>

\* The contact may have written while the model ran; if not, a declined one is dropped.
CheckLatest(m) ==
    /\ npc[m] = "latest"
    /\ \/ recorded > seen[m] /\ Ends(m, "cancelled")
       \/ recorded = seen[m] /\ (GoesTo(m, "reply") \/ Ends(m, "skipped"))
    /\ found' = [found EXCEPT ![m].checked = recorded]
    /\ UNCHANGED <<rest, seen, read, faults>>

RecordNudge(m) ==
    /\ npc[m] = "reply"
    /\ GoesTo(m, "enqueue")
    /\ UNCHANGED <<rest, seen, read, found, faults>>

\* Its reply goes to the outbox with what it staged, which is never a nudge.
Queues(m) ==
    /\ \E plan \in Plans \intersect {"none", "link"} :
          queue' = Append(queue, [turn |-> m, steps |-> StepsOf[plan]])
    /\ sent' = [sent EXCEPT ![m] = @ + 1]

Enqueue(m) ==
    /\ npc[m] = "enqueue"
    /\ Queues(m)
    /\ GoesTo(m, "finish")
    /\ UNCHANGED <<contactVars, doing, marks, due, seen, read, found, faults, crashed>>

Finish(m) ==
    /\ npc[m] = "finish"
    /\ Ends(m, "sent")
    /\ UNCHANGED <<rest, seen, read, found, faults>>

\* A statement fails, the insert into the outbox before or after it committed: the
\* error ends the nudge as skipped.
Fails(m) ==
    /\ npc[m] \notin {"idle", "skip", "model"}
    /\ faults < MaxFaults
    /\ faults' = faults + 1
    /\ GoesTo(m, "skip")
    /\ \/ UNCHANGED <<queue, sent>>
       \/ npc[m] = "enqueue" /\ Queues(m)
    /\ UNCHANGED <<contactVars, doing, marks, due, seen, read, found, crashed>>

\* Mutant: a nudge that failed goes back to wait.
SkipRetries(m) ==
    /\ npc[m] = "skip"
    /\ Ends(m, "pending")
    /\ UNCHANGED <<rest, seen, read, found, faults>>

Skip(m) ==
    /\ npc[m] = "skip"
    /\ Ends(m, "skipped")
    /\ UNCHANGED <<rest, seen, read, found, faults>>

\* That statement fails too: the error leaves the batch, and the row stays claimed.
SkipFails(m) ==
    /\ npc[m] = "skip"
    /\ faults < MaxFaults
    /\ faults' = faults + 1
    /\ GoesTo(m, "idle")
    /\ UNCHANGED <<rest, seen, read, found>>

\* The process dies with the turns, actions and nudge it was at.
Crash ==
    /\ Crashes /\ ~crashed
    /\ crashed' = TRUE
    /\ pc' = [m \in Turns |-> IF pc[m] = "away" THEN "away" ELSE "settled"]
    /\ todo' = [m \in Turns |-> <<>>]
    /\ doing' = <<>>
    /\ npc' = [m \in Turns |-> "idle"]
    /\ UNCHANGED <<recorded, queue, marks, nudge, due, seen, read, found, sent, faults>>

RunOne(m) ==
    \/ Load(m) \/ CheckStage(m) \/ CheckLimits(m) \/ ReadAnswered(m) \/ ReadHistory(m)
    \/ CallModel(m) \/ CheckLatest(m) \/ RecordNudge(m) \/ Enqueue(m) \/ Finish(m) \/ Skip(m)

Next ==
    \/ \E m \in Turns :
          \/ Arrive(m) \/ RecordMessage(m) \/ Settle(m) \/ Perform(m)
          \/ ComesDue(m) \/ Claim(m) \/ RunOne(m) \/ Fails(m) \/ SkipFails(m)
    \/ Deliver \/ PerformDeferred \/ Crash

Spec == Init /\ [][Next]_vars

\* Time passes, the worker polls, and each of a claimed nudge's statements and its model
\* call end.  Nothing is assumed of the contact or of the outbox.
FairSpec ==
    /\ Spec
    /\ \A m \in Turns : WF_vars(ComesDue(m)) /\ WF_vars(Claim(m)) /\ WF_vars(RunOne(m))

-----------------------------------------------------------------------------
\* Properties

(***************************************************************************)
(* The follow-up never talks over a message it has not read: whatever the  *)
(* contact had written by the worker's last look was in the history its    *)
(* model was given (worker.ts: "a follow-up on top of it would talk over   *)
(* it").  The two looks and the history are three statements apart.        *)
(***************************************************************************)
ReadsWhatItFollows ==
    \A m \in Turns : npc[m] \in {"reply", "enqueue", "finish"} => read[m] >= found[m].checked

(***************************************************************************)
(* A contact who has the payment link is not followed up, whichever came   *)
(* first, the nudge or the link: one claimed when the link was on record   *)
(* is never queued (specs/025, "in either order").                         *)
(***************************************************************************)
LinkedIsSilent == \A m \in Turns : sent[m] > 0 => ~found[m].linked

(***************************************************************************)
(* A nudge is queued once at most, through failures and crashes, and one   *)
(* recorded as sent was queued: "the nudge is lost, never sent twice"      *)
(* (specs/025).                                                            *)
(***************************************************************************)
NeverSentTwice ==
    \A m \in Turns : sent[m] <= 1 /\ (nudge[m] = "sent" => sent[m] = 1)

(***************************************************************************)
(* A nudge that is scheduled is settled in the end, unless the database    *)
(* failed or the process died: replaced, cancelled, skipped or sent.       *)
(***************************************************************************)
EveryNudgeSettles ==
    \A m \in Turns : nudge[m] \in {"pending", "running"} ~>
        nudge[m] \notin {"pending", "running"} \/ faults > 0 \/ crashed

(***************************************************************************)
(* As specs/025 says of an escalation, it is checked at due time "because  *)
(* a nudge and the turn that makes it wrong can be performed in either     *)
(* order": a nudge claimed after a later turn of the contact escalated is  *)
(* never queued.                                                           *)
(***************************************************************************)
EscalatedIsSilent ==
    \A m \in Turns : sent[m] > 0 => ~\E n \in found[m].escalated : n > m

=============================================================================
