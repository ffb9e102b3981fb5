---------------------------- MODULE ContactTurns ----------------------------
(***************************************************************************)
(* What becomes of one contact's messages: the order of their turns        *)
(* (src/turn/order.ts), the turn itself (handler.ts, admission.ts,         *)
(* prechecks.ts), the race against the deadline, what is recorded          *)
(* (recorder.ts) and where the reply goes (delivery.ts, deferred.ts,       *)
(* fold.ts).  The lane is TurnLanes; the outbox is its promise, replies    *)
(* delivered one after the other in the order they were queued.            *)
(*                                                                         *)
(* One step is one awaited statement or one timer, so the steps of turns   *)
(* that overlap interleave as the event loop interleaves them.  The model  *)
(* is a choice of how its call ends.  Time passes in ticks; a timer is     *)
(* never late, and a statement takes no whole tick unless SlowDb.          *)
(***************************************************************************)
EXTENDS TurnLanes, Sequences

CONSTANTS RaceDeadline,  \* ticks from the arrival to the race's deadline
          ModelAbort,    \* ticks from the model call to its abort
          BurstWindows,  \* what rules.burstWindowMs may be, in ticks, 0 for none
          FlowPlays,     \* ticks a flow the model sends plays
          HistoryLimit,  \* how many of the latest rows a turn reads
          FoldBursts,    \* rules.foldBursts
          Enforced,      \* CONTACT_TOKENS_ENFORCED
          SlowDb,        \* a statement may take ticks
          Kinds,         \* the kinds of message the contact writes ("over": a
                         \* text whose turn finds the contact over a limit)
          Tokens,        \* whether the contact may have a token at first
          Endings,       \* how a model call may end by itself
          Aborts,        \* whether a model call may outlast its bound
          MaxFaults,     \* statements that may fail
          Crashes        \* whether the process may die

ASSUME TurnsAssumption ==
    /\ MaxWait = ModelAbort + RaceDeadline
    /\ RaceDeadline \in Nat \ {0} /\ ModelAbort \in Nat /\ ModelAbort > RaceDeadline
    /\ FlowPlays \in Nat
    /\ BurstWindows \subseteq 0..RaceDeadline
    /\ Kinds \subseteq {"text", "over", "media", "keyword", "opening"}
    /\ Endings \subseteq {"reply", "flow", "escalate", "fallback"}
    /\ Tokens \subseteq BOOLEAN

VARIABLES window,    \* the tenant's burst window
          kind,      \* what each message is
          carries,   \* the messages that carry the contact's token
          issued,    \* the contact has been issued a token
          known,     \* the turns whose first read found the conversation
          exists,    \* the conversation's row exists
          bound,     \* the turns admitted into the contact's own history
          pc,        \* where each turn is
          response,  \* what the request was answered with
          result,    \* how the turn's answer was decided
          race,      \* ticks left of the race
          timer,     \* ticks left of the burst window or of the model call
          plays,     \* ticks left of the flow the turn sent
          sent,      \* the turns that sent a flow
          history,   \* the rows later turns read, in order
          read,      \* how many of them each turn's model was given
          queue,     \* replies queued for the contact and not yet delivered
          heard,     \* what has reached the contact, in order
          escalated, \* the conversation is marked escalated
          faults     \* statements that have failed

turnVars == <<window, kind, carries, issued, known, exists, bound, pc, response, result, race,
              timer, plays, sent, history, read, queue, heard, escalated, faults>>
vars == <<laneVars, turnVars>>

\* Groups of variables, to say what a step leaves alone.
request == <<window, kind, carries, known>>
contact == <<issued, exists, escalated>>
timers == <<race, timer, plays>>
call == <<sent, read>>
answer == <<response, result>>

Row(who, m) == [who |-> who, msg |-> m]
Item(what, m) == [what |-> what, msg |-> m]
Told == heard \o queue
Holds(seq, item) == \E i \in 1..Len(seq) : seq[i] = item

Results == {"none", "folded", "scripted", "denied", "reply", "escalate", "fallback",
            "error", "superseded"}
Statements == {"find", "fold", "admit", "check", "record", "deliver", "enqueue", "handoff"}
Places == Statements \union {"away", "wait", "burst", "model", "held", "done", "lost"}

TypeOK ==
    /\ LaneTypeOK
    /\ window \in BurstWindows
    /\ kind \in [Turns -> Kinds \union {"none"}] /\ carries \subseteq Turns
    /\ issued \in BOOLEAN /\ exists \in BOOLEAN /\ escalated \in BOOLEAN
    /\ known \subseteq Turns /\ sent \subseteq Turns /\ bound \subseteq Turns
    /\ pc \in [Turns -> Places]
    /\ response \in [Turns -> {"none", "inline", "holding", "silent", "handoff"}]
    /\ result \in [Turns -> Results]
    /\ race \in [Turns -> 0..RaceDeadline]
    /\ timer \in [Turns -> 0..ModelAbort]
    /\ plays \in [Turns -> 0..FlowPlays]
    /\ \A i \in 1..Len(history) : history[i] \in [who : {"user", "agent"}, msg : Turns]
    /\ read \in [Turns -> Nat]
    /\ \A i \in 1..Len(Told) :
          Told[i] \in [what : {"reply", "holding", "handoff"}, msg : Turns]
    /\ faults \in Nat

Init ==
    /\ LaneInit
    /\ window \in BurstWindows
    /\ kind = [m \in Turns |-> "none"]
    /\ issued \in Tokens
    /\ exists = issued
    /\ carries = {} /\ known = {} /\ sent = {} /\ bound = {}
    /\ pc = [m \in Turns |-> "away"]
    /\ response = [m \in Turns |-> "none"]
    /\ result = [m \in Turns |-> "none"]
    /\ race = [m \in Turns |-> 0]
    /\ timer = [m \in Turns |-> 0]
    /\ plays = [m \in Turns |-> 0]
    /\ history = <<>> /\ queue = <<>> /\ heard = <<>>
    /\ read = [m \in Turns |-> 0]
    /\ escalated = FALSE
    /\ faults = 0

-----------------------------------------------------------------------------
\* What the steps are made of

\* Who the request is, as far as the token says (a first contact has none yet).
Binding(m) == IF ~issued THEN "first" ELSE IF m \in carries THEN "bound" ELSE "unbound"
Enters(m) == Binding(m) # "unbound" \/ ~Enforced
ReadsHistory(m) == Binding(m) = "bound" \/ ~Enforced

Foldable(m) == kind[m] \in {"text", "over"}
\* Mutant: the scripted opening counts as an answer to what was written before it.
AnswersAny(m) == kind[m] \in Kinds

Answers(m) == kind[m] # "opening"

Responded(m) == response[m] # "none"

\* A turn that is over gives its place up, if it still has one.
Over(m) ==
    /\ pc' = [pc EXCEPT ![m] = "done"]
    /\ IF m \in places THEN Leave(m) ELSE UNCHANGED laneVars

Goes(m, to) == pc' = [pc EXCEPT ![m] = to] /\ UNCHANGED laneVars

\* The request's response, which a turn gives at most once.
Responds(m, what) ==
    /\ response' = [response EXCEPT ![m] = what]
    /\ heard' = CASE what = "inline"  -> Append(heard, Item(
                                            IF result[m] \in {"escalate", "denied", "error"}
                                            THEN "handoff" ELSE "reply", m))
                  [] what = "holding" -> Append(heard, Item("holding", m))
                  [] what = "handoff" -> Append(heard, Item("handoff", m))
                  [] OTHER            -> heard

\* A statement fails: the error reaches the route, which hands the contact to a
\* person, or, once the response has gone out, whoever still can (C6).
FaultIn(m) == faults < MaxFaults /\ faults' = faults + 1

\* A turn is handed off because a statement failed: the same outage may go on, beyond MaxFaults.
FaultAgain == MaxFaults > 0 /\ faults' = faults + 1

RouteHandsOff(m) ==
    /\ Over(m)
    /\ Responds(m, "handoff")

-----------------------------------------------------------------------------
\* The order of the contact's turns (order.ts)

\* The request arrives: its place is taken and its deadline set before any read.
\* It may carry the contact's token once there is one.
Arrive(m) ==
    /\ pc[m] = "away"
    /\ Enter(m)
    /\ pc' = [pc EXCEPT ![m] = "find"]
    /\ race' = [race EXCEPT ![m] = RaceDeadline]
    /\ \E k \in Kinds : kind' = [kind EXCEPT ![m] = k]
    /\ carries' \in (IF issued THEN {carries, carries \union {m}} ELSE {carries})
    /\ UNCHANGED <<window, contact, known, bound, answer, timer, plays, call, history, queue,
                  heard, faults>>

\* A turn that claims wakes every earlier one waiting out its burst window.
Woken(m) == {k \in places : k < m /\ pc[k] = "burst"}

Find(m) ==
    /\ pc[m] = "find"
    /\ known' = IF exists THEN known \union {m} ELSE known
    /\ \/ /\ Enforced /\ Binding(m) = "unbound"
          /\ pc' = [pc EXCEPT ![m] = "admit"]
          /\ Leave(m)
       \/ /\ ~(Enforced /\ Binding(m) = "unbound")
          /\ IF ReadsHistory(m) /\ Answers(m)
             THEN /\ Claim(m)
                  /\ pc' = [k \in Turns |-> IF k = m THEN "wait"
                                            ELSE IF k \in Woken(m) THEN "fold" ELSE pc[k]]
             ELSE Goes(m, "wait")
    /\ UNCHANGED <<window, kind, carries, contact, bound, answer, timers, call, history, queue,
                  heard, faults>>

FindFails(m) ==
    /\ pc[m] = "find"
    /\ FaultIn(m)
    /\ RouteHandsOff(m)
    /\ UNCHANGED <<request, contact, bound, result, timers, call, history, queue>>

\* Its place comes up: the contact wrote on while it waited, or may still.
Decide(m) ==
    /\ pc[m] = "wait"
    /\ ready[m] # "no"
    /\ LET folding == ReadsHistory(m) /\ Foldable(m)
           follows == Followed(m) /\ (m \in waited \/ window > 0) IN
       \/ /\ folding /\ follows
          /\ Goes(m, "fold")
          /\ UNCHANGED timer
       \/ /\ folding /\ ~follows /\ window > 0
          /\ Goes(m, "burst")
          /\ timer' = [timer EXCEPT ![m] = window]
       \/ /\ ~folding \/ (~follows /\ window = 0)
          /\ Goes(m, "admit")
          /\ UNCHANGED timer
    /\ UNCHANGED <<request, contact, bound, answer, race, plays, call, history, queue,
                  heard, faults>>

\* The burst window passed in silence.
Quiet(m) ==
    /\ pc[m] = "burst"
    /\ timer[m] = 0
    /\ Goes(m, "admit")
    /\ UNCHANGED <<request, contact, bound, answer, timers, call, history, queue, heard,
                  faults>>

\* Still undecided at its deadline: answered silently, to run or fold later.  The
\* conversation it names is read when its first read found none, and a failure
\* there is the route's, though the turn goes on.
DeadlineWaiting(m) ==
    /\ pc[m] = "burst" \/ (pc[m] = "wait" /\ ready[m] = "no")
    /\ race[m] = 0
    /\ ~Responded(m)
    /\ \/ Responds(m, "silent") /\ UNCHANGED faults
       \/ m \notin known /\ FaultIn(m) /\ Responds(m, "handoff")
    /\ UNCHANGED <<laneVars, request, contact, bound, pc, result, timers, call, history,
                  queue>>

-----------------------------------------------------------------------------
\* A folded message (fold.ts)

Fold(m) ==
    /\ pc[m] = "fold"
    /\ exists' = TRUE
    /\ history' = Append(history, Row("user", m))
    /\ result' = [result EXCEPT ![m] = "folded"]
    /\ IF Responded(m) THEN UNCHANGED <<response, heard>> ELSE Responds(m, "silent")
    /\ Over(m)
    /\ UNCHANGED <<request, issued, bound, timers, call, queue, escalated, faults>>

\* A failure before the run, or in a fold or an admission.
StartFails(m) ==
    /\ pc[m] \in {"fold", "admit", "check"}
    /\ FaultIn(m)
    /\ history' \in {history} \union
                    (IF pc[m] = "admit" /\ Enters(m) THEN {Append(history, Row("user", m))}
                     ELSE {})
    /\ IF Responded(m) THEN Goes(m, "handoff") /\ UNCHANGED <<response, heard>>
                       ELSE RouteHandsOff(m)
    /\ UNCHANGED <<request, contact, bound, result, timers, call, queue>>

-----------------------------------------------------------------------------
\* Admission, the checks before the model, and the model call (handler.ts)

\* The token is read again: only a bound message enters history, and a contact
\* or a request without the token is issued one.
Admit(m) ==
    /\ pc[m] = "admit"
    /\ exists' = TRUE
    /\ issued' = TRUE
    /\ bound' = IF Enters(m) THEN bound \union {m} ELSE bound
    /\ history' = IF Enters(m) THEN Append(history, Row("user", m)) ELSE history
    /\ Goes(m, "check")
    /\ UNCHANGED <<request, answer, timers, call, queue, heard, escalated, faults>>

\* The opening sentinel is answered by script, a keyword and a contact over a limit
\* by a person; the rest goes to the model with the history as it is now.
Check(m) ==
    /\ pc[m] = "check"
    /\ \/ /\ kind[m] \in {"opening", "keyword", "over"}
          /\ result' = [result EXCEPT ![m] = IF kind[m] = "opening" THEN "scripted"
                                             ELSE "denied"]
          /\ Goes(m, "record")
          /\ UNCHANGED <<timer, read>>
       \/ /\ kind[m] \in {"text", "media"}
          /\ timer' = [timer EXCEPT ![m] = ModelAbort]
          /\ read' = [read EXCEPT ![m] = IF ReadsHistory(m) THEN Len(history) ELSE 0]
          /\ Goes(m, "model")
          /\ UNCHANGED result
    /\ UNCHANGED <<request, contact, bound, response, race, plays, sent, history, queue,
                  heard, faults>>

\* A flow the model calls is sent while its call runs.
SendFlow(m) ==
    /\ pc[m] = "model"
    /\ "flow" \in Endings
    /\ m \notin sent
    /\ sent' = sent \union {m}
    /\ plays' = [plays EXCEPT ![m] = FlowPlays]
    /\ UNCHANGED <<laneVars, request, contact, bound, pc, answer, race, timer, history,
                  read, queue, heard, faults>>

\* The response to a lost race: nothing while a flow plays or a reply is queued.
SilentNow(m) == plays[m] > 0 \/ Responded(m) \/ queue # <<>>

\* Mutant: the turn's place is given up with the response, not once it has settled.
DeadlineModelLeaves(m) ==
    /\ pc[m] = "model"
    /\ race[m] = 0
    /\ ~Responded(m)
    /\ Responds(m, IF SilentNow(m) THEN "silent" ELSE "holding")
    /\ IF m \in places THEN Leave(m) ELSE UNCHANGED laneVars
    /\ UNCHANGED <<request, contact, bound, pc, result, timers, call, history, queue, faults>>

DeadlineModel(m) ==
    /\ pc[m] = "model"
    /\ race[m] = 0
    /\ ~Responded(m)
    /\ \/ /\ Responds(m, IF SilentNow(m) THEN "silent" ELSE "holding")
          /\ UNCHANGED <<laneVars, pc, faults>>
       \/ plays[m] = 0 /\ FaultIn(m) /\ RouteHandsOff(m)
    /\ UNCHANGED <<request, contact, bound, result, timers, call, history, queue>>

\* The contact wrote past a reply that nothing of has reached them yet.
Supersedes(m) ==
    /\ FoldBursts
    /\ kind[m] # "media"
    /\ m \in places /\ Followed(m)
    /\ m \notin sent

ModelEnds(m) ==
    /\ pc[m] = "model"
    /\ \E ending \in Endings \ {"flow"} :
          /\ ending = "fallback" => kind[m] = "media"
          /\ result' = [result EXCEPT ![m] =
                            IF ending = "reply" /\ Supersedes(m) THEN "superseded" ELSE ending]
    /\ timer' = [timer EXCEPT ![m] = 0]
    /\ Goes(m, "record")
    /\ UNCHANGED <<request, contact, bound, response, race, plays, call, history, queue,
                  heard, faults>>

\* The call is aborted at its bound, or a transcript could not be written.
ModelFails(m) ==
    /\ pc[m] = "model"
    /\ \/ Aborts /\ timer[m] = 0 /\ UNCHANGED faults
       \/ kind[m] = "media" /\ FaultIn(m)
    /\ result' = [result EXCEPT ![m] = "error"]
    /\ timer' = [timer EXCEPT ![m] = 0]
    /\ Goes(m, "record")
    /\ UNCHANGED <<request, contact, bound, response, race, plays, call, history, queue,
                  heard>>

-----------------------------------------------------------------------------
\* Recording the answer (recorder.ts), inline or after a lost race (deferred.ts)

Escalates(m) == result[m] \in {"escalate", "denied", "error"}

\* A failed call of a lost race leaves a row only if a flow of it went out.
LeavesRow(m) == ~(result[m] = "error" /\ Responded(m) /\ m \notin sent)

\* Where the turn goes once recorded: a superseded reply goes nowhere, and a failed
\* call whose contact has been given a holding line ends with it.
Record(m) ==
    /\ pc[m] = "record"
    /\ history' = IF m \in bound /\ LeavesRow(m) /\ result[m] # "superseded"
                  THEN Append(history, Row("agent", m)) ELSE history
    /\ escalated' = (escalated \/ (m \in bound /\ Escalates(m)
                                   /\ ~(result[m] = "error" /\ Responded(m))))
    /\ \/ /\ result[m] = "superseded"
          /\ IF Responded(m) THEN UNCHANGED <<response, heard>>
             ELSE UNCHANGED heard /\ response' = [response EXCEPT ![m] = "silent"]
          /\ Over(m)
       \/ /\ result[m] = "error" /\ response[m] = "holding"
          /\ Over(m)
          /\ UNCHANGED <<response, heard>>
       \/ /\ result[m] # "superseded" /\ ~(result[m] = "error" /\ response[m] = "holding")
          /\ Goes(m, IF Responded(m) THEN "enqueue" ELSE "deliver")
          /\ UNCHANGED <<response, heard>>
    /\ UNCHANGED <<request, issued, exists, bound, result, timers, call, queue, faults>>

\* Mutant: a turn that fails after its response is over, whatever the response was.
FailsQuietly(m) ==
    IF ~Responded(m) THEN RouteHandsOff(m) ELSE Over(m) /\ UNCHANGED <<response, heard>>

\* A failure while recording or queueing: an unanswered request is the route's, a
\* contact given nothing is handed off, and one given a holding line has that.
FailsAfterDecision(m) ==
    IF ~Responded(m) THEN RouteHandsOff(m)
    ELSE /\ IF response[m] = "holding" THEN Over(m) ELSE Goes(m, "handoff")
         /\ UNCHANGED <<response, heard>>

RecordFails(m) ==
    /\ pc[m] = "record"
    /\ FaultIn(m)
    /\ history' \in {history} \union
                    (IF m \in bound /\ LeavesRow(m) /\ result[m] # "superseded"
                     THEN {Append(history, Row("agent", m))} ELSE {})
    /\ FailsAfterDecision(m)
    /\ UNCHANGED <<request, contact, bound, result, timers, call, queue>>

-----------------------------------------------------------------------------
\* Where the reply goes (delivery.ts)

\* Mutant: an answer in time goes inline without looking at the queue.
DeliverInline(m) ==
    /\ pc[m] = "deliver"
    /\ Responds(m, "inline")
    /\ Over(m)
    /\ UNCHANGED <<request, contact, bound, result, timers, call, history, queue, faults>>

\* Mutant: an answer is held for its flow without looking at the deadline.
DeliverHeld(m) ==
    /\ pc[m] = "deliver"
    /\ \/ /\ queue = <<>> /\ plays[m] = 0
          /\ Responds(m, "inline")
          /\ Over(m)
       \/ /\ queue = <<>> /\ plays[m] > 0
          /\ Goes(m, "held")
          /\ UNCHANGED <<response, heard>>
       \/ /\ queue # <<>>
          /\ Goes(m, "enqueue")
          /\ UNCHANGED <<response, heard>>
    /\ UNCHANGED <<request, contact, bound, result, timers, call, history, queue, faults>>

\* Inline, held inline while the flow plays, or through the outbox.
Deliver(m) ==
    /\ pc[m] = "deliver"
    /\ \/ /\ queue = <<>> /\ plays[m] = 0
          /\ Responds(m, "inline")
          /\ Over(m)
       \/ /\ queue = <<>> /\ plays[m] > 0 /\ plays[m] <= race[m]
          /\ Goes(m, "held")
          /\ UNCHANGED <<response, heard>>
       \/ /\ queue # <<>> \/ plays[m] > race[m]
          /\ Goes(m, "enqueue")
          /\ UNCHANGED <<response, heard>>
    /\ UNCHANGED <<request, contact, bound, result, timers, call, history, queue,
                  faults>>

DeliverFails(m) ==
    /\ pc[m] = "deliver"
    /\ FaultIn(m)
    /\ RouteHandsOff(m)
    /\ UNCHANGED <<request, contact, bound, result, timers, call, history, queue>>

HeldEnds(m) ==
    /\ pc[m] = "held"
    /\ plays[m] = 0
    /\ Responds(m, "inline")
    /\ Over(m)
    /\ UNCHANGED <<request, contact, bound, result, timers, call, history, queue,
                  faults>>

\* What a turn queues: its reply, the handoff it escalated with, or the holding
\* line a silent response held back from a call that then failed.
Queued(m) ==
    Item(CASE result[m] = "error" /\ Responded(m)        -> "holding"
           [] result[m] \in {"escalate", "denied", "error"} -> "handoff"
           [] OTHER                                        -> "reply", m)

\* Mutant: the response to a queued reply is not silent.
EnqueueLoud(m) ==
    /\ pc[m] = "enqueue"
    /\ queue' = Append(queue, Queued(m))
    /\ IF Responded(m) THEN UNCHANGED <<response, heard>> ELSE Responds(m, "inline")
    /\ Over(m)
    /\ UNCHANGED <<request, contact, bound, result, timers, call, history, faults>>

\* Mutant: a reply that lost the race is recorded and not queued.
EnqueueInTime(m) ==
    /\ pc[m] = "enqueue"
    /\ IF Responded(m) THEN UNCHANGED <<queue, response>>
       ELSE queue' = Append(queue, Queued(m)) /\ response' = [response EXCEPT ![m] = "silent"]
    /\ Over(m)
    /\ UNCHANGED <<request, contact, bound, result, timers, call, history, heard, faults>>

Enqueue(m) ==
    /\ pc[m] = "enqueue"
    /\ queue' = Append(queue, Queued(m))
    /\ IF Responded(m) THEN UNCHANGED response
       ELSE response' = [response EXCEPT ![m] = "silent"]
    /\ Over(m)
    /\ UNCHANGED <<request, contact, bound, result, timers, call, history, heard,
                  faults>>

\* Early is better than never: an inline turn's reply then goes out now.  The insert may have
\* been committed, and only its answer lost: the reply is then queued as well.
EnqueueFails(m) ==
    /\ pc[m] = "enqueue"
    /\ FaultIn(m)
    /\ queue' \in {queue, Append(queue, Queued(m))}
    /\ IF Responded(m) THEN FailsAfterDecision(m)
       ELSE Responds(m, "inline") /\ Over(m)
    /\ UNCHANGED <<request, contact, bound, result, timers, call, history>>

\* A turn that failed after its silent response is handed to a person through the
\* outbox; marking the conversation may fail by itself, or go undone because the answer
\* to the insert was lost.
HandOff(m) ==
    /\ pc[m] = "handoff"
    /\ queue' = Append(queue, Item("handoff", m))
    /\ \/ escalated' = TRUE /\ UNCHANGED faults
       \/ FaultAgain /\ UNCHANGED escalated
    /\ Over(m)
    /\ UNCHANGED <<request, issued, exists, bound, answer, timers, call, history,
                  heard>>

HandOffFails(m) ==
    /\ pc[m] = "handoff"
    /\ FaultAgain
    /\ Over(m)
    /\ UNCHANGED <<request, contact, bound, answer, timers, call, history, queue,
                  heard>>

-----------------------------------------------------------------------------
\* The rest of the system

\* The worker delivers the oldest queued reply.
Worker ==
    /\ queue # <<>>
    /\ heard' = Append(heard, Head(queue))
    /\ queue' = Tail(queue)
    /\ UNCHANGED <<laneVars, request, contact, bound, pc, answer, timers, call, history,
                  faults>>

LaneWakes(m) == (ComesUp(m) \/ Expires(m)) /\ UNCHANGED turnVars

Timed(m) ==
    \/ ~Responded(m) /\ pc[m] \in {"wait", "burst", "model"} /\ race[m] = 0
    \/ pc[m] \in {"burst", "model"} /\ timer[m] = 0
    \/ pc[m] = "held" /\ plays[m] = 0
    \/ pc[m] = "wait" /\ ready[m] # "no"

Less(f) == [m \in Turns |-> IF f[m] > 0 THEN f[m] - 1 ELSE 0]

Tick ==
    /\ LaneTick
    /\ \A m \in Turns : ~Timed(m) /\ (SlowDb \/ pc[m] \notin Statements)
    /\ race' = Less(race)
    /\ timer' = Less(timer)
    /\ plays' = Less(plays)
    /\ UNCHANGED <<request, contact, bound, pc, answer, call, history, queue, heard,
                  faults>>

\* The process dies, which counts as one of the faults: its requests are never answered, and its
\* lanes are gone.
Crash ==
    /\ Crashes /\ faults < MaxFaults
    /\ faults' = faults + 1
    /\ \E m \in Turns : pc[m] \notin {"away", "done", "lost"}
    /\ pc' = [m \in Turns |-> IF pc[m] \in {"away", "done"} THEN pc[m] ELSE "lost"]
    /\ places' = {}
    /\ ready' = [m \in Turns |-> IF m <= entered /\ ready[m] = "no" THEN "ready" ELSE ready[m]]
    /\ UNCHANGED <<entered, claimed, waited, wait, request, contact, bound, answer,
                  timers, call, history, queue, heard>>

Step(m) ==
    \/ Find(m) \/ Decide(m) \/ Quiet(m) \/ DeadlineWaiting(m)
    \/ Fold(m) \/ Admit(m) \/ Check(m) \/ DeadlineModel(m)
    \/ ModelEnds(m) \/ ModelFails(m) \/ Record(m)
    \/ Deliver(m) \/ HeldEnds(m) \/ Enqueue(m) \/ HandOff(m)
    \/ LaneWakes(m)

Fails(m) ==
    \/ FindFails(m) \/ StartFails(m) \/ RecordFails(m) \/ DeliverFails(m)
    \/ EnqueueFails(m) \/ HandOffFails(m)

Next ==
    \/ \E m \in Turns : Arrive(m) \/ SendFlow(m) \/ Step(m) \/ Fails(m)
    \/ Worker \/ Tick \/ Crash

Spec == Init /\ [][Next]_vars

\* The event loop runs what is due, every statement and model call ends, requests
\* keep their turn, and the worker keeps polling.
FairSpec ==
    /\ Spec
    /\ \A m \in Turns : WF_vars(Step(m))
    /\ WF_vars(Worker)
    /\ WF_vars(Tick)

-----------------------------------------------------------------------------
\* Properties

GivenUp(m) == result[m] \in {"folded", "superseded"}

\* What the contact has been told, or will be, in the end: not a holding line.
Answered(m) == Holds(Told, Item("reply", m)) \/ Holds(Told, Item("handoff", m))

\* n was given m's message: it is among the latest rows n read.
Reads(n, m) ==
    \E i \in 1..read[n] : i > read[n] - HistoryLimit /\ history[i] = Row("user", m)

\* The turn n speaks for m: as a person will, or having read what m says.
SpeaksFor(n, m) ==
    \/ Holds(Told, Item("handoff", n))
    \/ result[n] = "reply" /\ Holds(Told, Item("reply", n)) /\ Reads(n, m)

(***************************************************************************)
(* The contact's history has their messages and the agent's replies in the *)
(* order they happened: no turn's message is recorded before an earlier    *)
(* turn's reply is, nor its reply before an earlier message (specs/037),   *)
(* unless a wait ended at its bound.                                       *)
(***************************************************************************)
HistoryInOrder ==
    \A i, j \in 1..Len(history) : i < j =>
        \/ history[i].msg <= history[j].msg
        \/ Outran(history[j].msg, history[i].msg)

(***************************************************************************)
(* What reaches the contact for their own turns, inline or through the     *)
(* outbox, is in the order of their messages: no inline reply passes one   *)
(* that is queued, and no holding line comes after what it held for        *)
(* (specs/037, "A reply never overtakes an earlier one").                  *)
(***************************************************************************)
RepliesInOrder ==
    \A i, j \in 1..Len(Told) :
        (i < j /\ Told[i].msg \in bound /\ Told[j].msg \in bound) =>
            \/ Told[i].msg < Told[j].msg
            \/ Told[i].msg = Told[j].msg /\ Told[i].what = "holding"
            \/ Outran(Told[j].msg, Told[i].msg)

\* A later turn answers m: it has claimed its place and is under way, or it spoke.
LaterAnswers(m) ==
    \E n \in claimed : n > m /\ (n \in places \/ SpeaksFor(n, m) \/ Outran(m, n))

(***************************************************************************)
(* One failing statement never silences a contact: a turn answered with    *)
(* nothing has a reply or a handoff queued or delivered, or left its       *)
(* message to a later turn (C6; order.ts, deferred.ts handOffSilent).      *)
(***************************************************************************)
SilenceIsFilled ==
    \A m \in Turns : (faults <= 1 /\ pc[m] = "done" /\ response[m] = "silent") =>
        Answered(m) \/ GivenUp(m) \/ Holds(Told, Item("holding", m))

(***************************************************************************)
(* A message gets one reply or handoff at most, whatever path it takes:    *)
(* the inline path and the outbox never both answer it, and the response   *)
(* itself carries at most one thing (delivery.ts).                         *)
(***************************************************************************)
OneAnswer ==
    \A i, j \in 1..Len(Told) :
        (i # j /\ Told[i].msg = Told[j].msg) => "holding" \in {Told[i].what, Told[j].what}

(***************************************************************************)
(* The response never waits past the deadline: with statements that take   *)
(* no time, no tick passes over an unanswered request whose race is over,  *)
(* whatever it waits for, the lane, the burst window, the model or a flow  *)
(* it plays out (C7).                                                      *)
(***************************************************************************)
AnsweredInTime ==
    [][Tick => \A m \in Turns :
                  pc[m] \notin {"away", "done", "lost"} /\ ~Responded(m) => race[m] > 0]_vars

(***************************************************************************)
(* Every message is answered in the end: by its own turn, by a later one   *)
(* that read it, or by handing the contact to a person; unless a statement *)
(* failed or the process died, or the model call of the turn it was left   *)
(* to failed (SilenceIsFilled) or was a scripted fallback.  A message that *)
(* has arrived stays so: that all are answered again and again means that  *)
(* each is, in the end.                                                    *)
(***************************************************************************)
EveryMessageAnswered ==
    []<>(\A m \in Turns : pc[m] # "away" =>
            \/ Holds(heard, Item("reply", m)) \/ Holds(heard, Item("handoff", m))
            \/ \E n \in Turns : n > m /\ SpeaksFor(n, m) /\ queue = <<>>
            \/ faults > 0
            \/ \E n \in Turns : n >= m /\ result[n] \in {"error", "fallback"})

(***************************************************************************)
(* As specs/046 says of folded messages, "The contact's latest turn reads  *)
(* every folded message from history and answers them together".           *)
(***************************************************************************)
FoldedAreAnswered ==
    \A m \in Turns : (pc[m] = "done" /\ result[m] = "folded") => LaterAnswers(m)

=============================================================================
