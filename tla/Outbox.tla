------------------------------- MODULE Outbox -------------------------------
(***************************************************************************)
(* The Postgres outbox (src/outbox/queue.ts) and the workers that drain it *)
(* (src/outbox/worker.ts).  A row is a deferred reply or the retry of a    *)
(* contact token's write.  Rows are numbered in the order of created_at;   *)
(* the contact and the kind of the r-th row are fixed in the initial state *)
(* and only become visible when the row is enqueued.                       *)
(*                                                                         *)
(* One SQL statement is one step, except the claim: its row locks are held *)
(* from the scan (ClaimScan) to the commit (ClaimCommit), and SKIP LOCKED  *)
(* makes the locked rows invisible to another worker's claim, not to the   *)
(* subquery that looks for earlier replies.                                *)
(***************************************************************************)
EXTENDS Integers, FiniteSets

CONSTANTS
    Contacts,     \* subscriber ids of one tenant
    Workers,      \* processes running OutboxWorker.start
    NRows,        \* bound: rows ever enqueued
    BatchSize,    \* opts.batchSize, the LIMIT of a claim
    MaxAttempts,  \* MAX_ATTEMPTS
    Backoff,      \* Backoff[a]: ticks of min(300, 2 ** a) seconds
    Holds,        \* delays of notBefore a reply may be enqueued with
    TokenDelay,   \* TOKEN_RETRY_DELAY_MS in ticks
    Kinds,        \* the kinds of rows enqueued
    Faults        \* which of "claim", "db", "crash", "stop" happen

Rows == 1 .. NRows

ASSUME OutboxAssumption ==
    /\ NRows \in Nat
    /\ BatchSize \in Nat \ {0}
    /\ MaxAttempts \in Nat \ {0}
    /\ Backoff \in [1 .. MaxAttempts -> Nat]
    /\ Holds \subseteq Nat
    /\ TokenDelay \in Nat
    /\ Kinds \subseteq {"reply", "contact_token"}
    /\ Faults \subseteq {"claim", "db", "crash", "stop"}

VARIABLES
    contact, kind,     \* the columns a row is written with
    status, attempts, due,
    now,               \* the database's clock
    mode,              \* mode[w]: the process of worker w
    locked,            \* locked[w]: rows locked by w's uncommitted claim
    held,              \* held[w]: rows claimed by w and not yet begun
    cur, phase,        \* cur[w][c], phase[w][c]: the row of contact c that w is at, and where
    sends,             \* sends[r]: times the row's text reached the contact
    acted,             \* acted[r]: what was recorded of its deferred actions
    escalated          \* contacts whose conversation was marked escalated

table == <<contact, kind, status, attempts, due>>
effects == <<sends, acted, escalated>>
vars == <<table, now, mode, locked, held, cur, phase, effects>>

Status == {"absent", "pending", "delivering", "delivered", "failed"}
Mode == {"running", "stopping", "stopped", "crashed"}
Failing == {"retry", "refused", "closed"}
InHand == {"accepted", "acting", "burying", "escalating"} \union Failing
Phase == {"next", "pushing", "releasing"} \union InHand

TypeOK ==
    /\ contact \in [Rows -> Contacts]
    /\ kind \in [Rows -> {"reply", "contact_token"}]
    /\ status \in [Rows -> Status]
    /\ attempts \in [Rows -> Nat]
    /\ due \in [Rows -> Nat]
    /\ now \in Nat
    /\ mode \in [Workers -> Mode]
    /\ locked \in [Workers -> SUBSET Rows]
    /\ held \in [Workers -> SUBSET Rows]
    /\ cur \in [Workers -> [Contacts -> Rows \union {0}]]
    /\ phase \in [Workers -> [Contacts -> Phase]]
    /\ sends \in [Rows -> Nat]
    /\ acted \in [Rows -> {"none", "performed", "dropped"}]
    /\ escalated \subseteq Contacts

Init ==
    /\ contact \in [Rows -> Contacts]
    /\ kind \in [Rows -> Kinds]
    /\ status = [r \in Rows |-> "absent"]
    /\ attempts = [r \in Rows |-> 0]
    /\ due = [r \in Rows |-> 0]
    /\ now = 0
    /\ mode = [w \in Workers |-> "running"]
    /\ locked = [w \in Workers |-> {}]
    /\ held = [w \in Workers |-> {}]
    /\ cur = [w \in Workers |-> [c \in Contacts |-> 0]]
    /\ phase = [w \in Workers |-> [c \in Contacts |-> "next"]]
    /\ sends = [r \in Rows |-> 0]
    /\ acted = [r \in Rows |-> "none"]
    /\ escalated = {}

-----------------------------------------------------------------------------
(* The queue *)

IsReply(r) == kind[r] = "reply"

Earlier(q, r) == q < r /\ IsReply(q) /\ IsReply(r) /\ contact[q] = contact[r]

\* A contact's replies that are pending or being delivered.
QueuedReplies(c) ==
    {r \in Rows : contact[r] = c /\ IsReply(r) /\ status[r] \in {"pending", "delivering"}}

\* GREATEST of two times.
Later(t, u) == IF t < u THEN u ELSE t

\* t is the latest of the times in S.
IsLatest(t, S) == t \in S /\ \A u \in S : u <= t

\* The id the next insert takes.
NextRow(r) == status[r] = "absent" /\ \A q \in 1 .. r - 1 : status[q] # "absent"

\* OutboxQueue.enqueue: behind every reply already queued for the contact.
Enqueue(r) ==
    /\ NextRow(r) /\ IsReply(r)
    /\ \E hold \in Holds :
          LET times == {now + hold} \union {due[q] : q \in QueuedReplies(contact[r])}
          IN  \E t \in times : IsLatest(t, times) /\ due' = [due EXCEPT ![r] = t]
    /\ status' = [status EXCEPT ![r] = "pending"]
    /\ UNCHANGED <<contact, kind, attempts, now, mode, locked, held, cur, phase, effects>>

\* ContactTokens.issue: the retry of a token's write, cancelled if the write lands first.
EnqueueToken(r) ==
    /\ NextRow(r) /\ ~IsReply(r)
    /\ due' = [due EXCEPT ![r] = now + TokenDelay]
    /\ status' = [status EXCEPT ![r] = "pending"]
    /\ UNCHANGED <<contact, kind, attempts, now, mode, locked, held, cur, phase, effects>>

Locked(r) == \E w \in Workers : r \in locked[w]

TokenWritten(r) ==
    /\ status[r] = "pending" /\ ~IsReply(r) /\ ~Locked(r)
    /\ status' = [status EXCEPT ![r] = "delivered"]
    /\ UNCHANGED <<contact, kind, attempts, due, now, mode, locked, held, cur, phase, effects>>

\* Mutant: a dead-lettered reply still holds back the contact's later ones.
ClaimableBehindFailed(r) ==
    /\ status[r] = "pending" /\ due[r] <= now
    /\ \A q \in Rows : Earlier(q, r) =>
          /\ status[q] \notin {"delivering", "failed"}
          /\ status[q] = "pending" => due[q] <= now

\* The WHERE clause of claimBatch.
Claimable(r) ==
    /\ status[r] = "pending" /\ due[r] <= now
    /\ \A q \in Rows : Earlier(q, r) =>
          /\ status[q] # "delivering"
          /\ status[q] = "pending" => due[q] <= now

ClaimedFirst(q, r) == due[q] < due[r] \/ (due[q] = due[r] /\ q < r)

\* Mutant: FOR UPDATE without SKIP LOCKED, and without waiting.
BatchLockedToo ==
    LET free == {r \in Rows : Claimable(r)}
    IN  {r \in free : Cardinality({q \in free : ClaimedFirst(q, r)}) < BatchSize}

\* ORDER BY next_attempt_at, created_at FOR UPDATE SKIP LOCKED LIMIT BatchSize.
Batch ==
    LET free == {r \in Rows : Claimable(r) /\ ~Locked(r)}
    IN  {r \in free : Cardinality({q \in free : ClaimedFirst(q, r)}) < BatchSize}

Idle(w) == held[w] = {} /\ locked[w] = {} /\ \A c \in Contacts : phase[w][c] = "next"

ClaimScan(w) ==
    /\ mode[w] = "running" /\ Idle(w)
    /\ Batch # {}
    /\ locked' = [locked EXCEPT ![w] = Batch]
    /\ UNCHANGED <<table, now, mode, held, cur, phase, effects>>

SetClaimed(w) ==
    /\ status' = [r \in Rows |-> IF r \in locked[w] THEN "delivering" ELSE status[r]]
    /\ attempts' = [r \in Rows |-> IF r \in locked[w] THEN attempts[r] + 1 ELSE attempts[r]]
    /\ locked' = [locked EXCEPT ![w] = {}]
    /\ UNCHANGED <<contact, kind, due, now, mode, cur, phase, effects>>

ClaimCommit(w) ==
    /\ locked[w] # {}
    /\ SetClaimed(w)
    /\ held' = [held EXCEPT ![w] = locked[w]]

\* The connection fails under the claim: rolled back, or committed and its answer lost.
ClaimFault(w) ==
    /\ "claim" \in Faults
    /\ locked[w] # {}
    /\ \/ /\ locked' = [locked EXCEPT ![w] = {}]
          /\ UNCHANGED <<table, now, mode, held, cur, phase, effects>>
       \/ SetClaimed(w) /\ UNCHANGED held

-----------------------------------------------------------------------------
(* One contact's chain inside drainOnce.  The rows claimed come back in the *)
(* order they were written, so the chain's next row is its least.           *)

Rest(w, c) == {r \in held[w] : contact[r] = c}

IsHead(w, c, r) == r \in Rest(w, c) /\ \A q \in Rest(w, c) : r <= q

Goto(w, c, p) == phase' = [phase EXCEPT ![w][c] = p]

\* The chain goes on to the contact's next row.
Finish(w, c) ==
    /\ Goto(w, c, "next")
    /\ cur' = [cur EXCEPT ![w][c] = 0]
    /\ UNCHANGED held

\* An exception leaves the chain; allSettled lets the others finish.
Reject(w, c) ==
    /\ Goto(w, c, "next")
    /\ cur' = [cur EXCEPT ![w][c] = 0]
    /\ held' = [held EXCEPT ![w] = @ \ Rest(w, c)]

\* deliver(): the channel accepts the row, refuses it for good, or fails in a way
\* worth retrying; an error leaves open whether the text reached the contact.
Attempt(w, c) ==
    /\ mode[w] = "running"
    /\ phase[w][c] = "next"
    /\ \E r \in held[w] :
       /\ IsHead(w, c, r)
       /\ held' = [held EXCEPT ![w] = @ \ {r}]
       /\ cur' = [cur EXCEPT ![w][c] = r]
       /\ \/ /\ sends' = [sends EXCEPT ![r] = @ + 1]
             /\ \E p \in {"accepted", "retry", "refused"} : Goto(w, c, p)
          \/ /\ \E p \in {"retry", "refused"} : Goto(w, c, p)
             /\ UNCHANGED sends
    /\ UNCHANGED <<table, now, mode, locked, acted, escalated>>

\* checkWindow: Meta's window closed before the reply was sent.
WindowClosed(w, c) ==
    /\ mode[w] = "running"
    /\ phase[w][c] = "next"
    /\ \E r \in held[w] :
       /\ IsHead(w, c, r) /\ IsReply(r)
       /\ held' = [held EXCEPT ![w] = @ \ {r}]
       /\ cur' = [cur EXCEPT ![w][c] = r]
       /\ Goto(w, c, "closed")
    /\ UNCHANGED <<table, now, mode, locked, effects>>

SetStatus(r, s) ==
    /\ status' = [status EXCEPT ![r] = s]
    /\ UNCHANGED <<contact, kind, attempts, due>>

\* Mutant: the deferred actions run before the row is marked.
ActThenMark(w, c) ==
    /\ phase[w][c] = "accepted"
    /\ acted' = [acted EXCEPT ![cur[w][c]] = "performed"]
    /\ SetStatus(cur[w][c], "delivered")
    /\ Finish(w, c)
    /\ UNCHANGED <<now, mode, locked, sends, escalated>>

MarkDelivered(w, c) ==
    /\ phase[w][c] = "accepted"
    /\ SetStatus(cur[w][c], "delivered")
    /\ IF IsReply(cur[w][c])
       THEN Goto(w, c, "acting") /\ UNCHANGED <<cur, held>>
       ELSE Finish(w, c)
    /\ UNCHANGED <<now, mode, locked, effects>>

\* A failed markDelivered is caught like a failed delivery, whether or not it committed.
MarkDeliveredFault(w, c) ==
    /\ "db" \in Faults
    /\ phase[w][c] = "accepted"
    /\ SetStatus(cur[w][c], "delivered") \/ UNCHANGED table
    /\ Goto(w, c, "retry")
    /\ UNCHANGED <<now, mode, locked, held, cur, effects>>

PerformDeferred(w, c) ==
    /\ phase[w][c] = "acting"
    /\ acted' = [acted EXCEPT ![cur[w][c]] = "performed"]
    /\ Finish(w, c)
    /\ UNCHANGED <<table, now, mode, locked, sends, escalated>>

\* Mutant: an attempt too many.
ExhaustedLate(w, c) == phase[w][c] # "retry" \/ attempts[cur[w][c]] > MaxAttempts

Exhausted(w, c) == phase[w][c] # "retry" \/ attempts[cur[w][c]] >= MaxAttempts

\* markFailed's first statement.
SetFailed(w, c) ==
    LET r == cur[w][c] IN
    IF Exhausted(w, c)
    THEN SetStatus(r, "failed")
    ELSE /\ status' = [status EXCEPT ![r] = "pending"]
         /\ due' = [due EXCEPT ![r] = now + Backoff[attempts[r]]]
         /\ UNCHANGED <<contact, kind, attempts>>

MarkFailed(w, c) ==
    /\ phase[w][c] \in Failing
    /\ SetFailed(w, c)
    /\ Goto(w, c, IF ~Exhausted(w, c) THEN "pushing"
                  ELSE IF phase[w][c] = "closed" THEN "escalating" ELSE "burying")
    /\ UNCHANGED <<now, mode, locked, held, cur, effects>>

MarkFailedFault(w, c) ==
    /\ "db" \in Faults
    /\ phase[w][c] \in Failing
    /\ SetFailed(w, c) \/ UNCHANGED table
    /\ Reject(w, c)
    /\ UNCHANGED <<now, mode, locked, effects>>

\* markFailed's second statement: the contact's later replies move back with it.
\* The update waits for rows another worker's claim has locked.
LaterReplies(r) == {q \in QueuedReplies(contact[r]) : Earlier(r, q)}

\* Mutant: without markFailed's second statement.
PushNone(r) == UNCHANGED table

SetPushed(r) ==
    /\ due' = [q \in Rows |-> IF q \in LaterReplies(r) THEN Later(due[q], due[r]) ELSE due[q]]
    /\ UNCHANGED <<contact, kind, status, attempts>>

\* Mutant: the chain goes on after a reply that waits out its retry.
PushAndGoOn(w, c) ==
    /\ phase[w][c] = "pushing"
    /\ SetPushed(cur[w][c])
    /\ Finish(w, c)
    /\ UNCHANGED <<now, mode, locked, effects>>

PushLater(w, c) ==
    /\ phase[w][c] = "pushing"
    /\ \A q \in LaterReplies(cur[w][c]) : ~Locked(q)
    /\ SetPushed(cur[w][c])
    /\ IF IsReply(cur[w][c])
       THEN Goto(w, c, "releasing") /\ UNCHANGED <<cur, held>>
       ELSE Finish(w, c)
    /\ UNCHANGED <<now, mode, locked, effects>>

PushFault(w, c) ==
    /\ "db" \in Faults
    /\ phase[w][c] = "pushing"
    /\ \A q \in LaterReplies(cur[w][c]) : ~Locked(q)
    /\ SetPushed(cur[w][c]) \/ UNCHANGED table
    /\ Reject(w, c)
    /\ UNCHANGED <<now, mode, locked, effects>>

\* OutboxQueue.release of the rest of the contact's rows.
SetReleased(w, c) ==
    LET back == {r \in Rest(w, c) : status[r] = "delivering"} IN
    /\ status' = [r \in Rows |-> IF r \in back THEN "pending" ELSE status[r]]
    /\ attempts' = [r \in Rows |-> IF r \in back THEN attempts[r] - 1 ELSE attempts[r]]
    /\ UNCHANGED <<contact, kind, due>>

\* The rest goes back: after a reply that waits out its retry, or because of a stop.
HandsBack(w, c) ==
    \/ phase[w][c] = "releasing"
    \/ phase[w][c] = "next" /\ mode[w] = "stopping" /\ Rest(w, c) # {}

\* Mutant: the chain ends without handing its rest back.
EndChain(w, c) ==
    /\ HandsBack(w, c)
    /\ Reject(w, c)
    /\ UNCHANGED <<table, now, mode, locked, effects>>

Release(w, c) ==
    /\ HandsBack(w, c)
    /\ SetReleased(w, c)
    /\ Reject(w, c)
    /\ UNCHANGED <<now, mode, locked, effects>>

ReleaseFault(w, c) ==
    /\ "db" \in Faults
    /\ HandsBack(w, c)
    /\ SetReleased(w, c) \/ UNCHANGED table
    /\ Reject(w, c)
    /\ UNCHANGED <<now, mode, locked, effects>>

\* dropDeferred, and escalateUndelivered when the window had closed.  Both log
\* their own errors and let the chain go on.
Bury(w, c) ==
    /\ phase[w][c] \in {"burying", "escalating"}
    /\ \/ /\ acted' = IF IsReply(cur[w][c])
                      THEN [acted EXCEPT ![cur[w][c]] = "dropped"] ELSE acted
          /\ escalated' = IF phase[w][c] = "escalating" THEN escalated \union {c} ELSE escalated
       \/ /\ "db" \in Faults
          /\ UNCHANGED <<acted, escalated>>
    /\ Finish(w, c)
    /\ UNCHANGED <<table, now, mode, locked, sends>>

-----------------------------------------------------------------------------
(* The process and the clock *)

\* The stop function: no new batch, and each chain ends after its current row.
Stop(w) ==
    /\ "stop" \in Faults
    /\ mode[w] = "running"
    /\ mode' = [mode EXCEPT ![w] = "stopping"]
    /\ UNCHANGED <<table, now, locked, held, cur, phase, effects>>

\* The stop function returns: the batch in flight has settled.
StopReturns(w) ==
    /\ mode[w] = "stopping" /\ Idle(w)
    /\ mode' = [mode EXCEPT ![w] = "stopped"]
    /\ UNCHANGED <<table, now, locked, held, cur, phase, effects>>

\* The process dies; an uncommitted claim is rolled back.
Crash(w) ==
    /\ "crash" \in Faults
    /\ mode[w] \in {"running", "stopping"}
    /\ mode' = [mode EXCEPT ![w] = "crashed"]
    /\ locked' = [locked EXCEPT ![w] = {}]
    /\ held' = [held EXCEPT ![w] = {}]
    /\ cur' = [cur EXCEPT ![w] = [c \in Contacts |-> 0]]
    /\ phase' = [phase EXCEPT ![w] = [c \in Contacts |-> "next"]]
    /\ UNCHANGED <<table, now, effects>>

Restart(w) ==
    /\ mode[w] \in {"stopped", "crashed"}
    /\ mode' = [mode EXCEPT ![w] = "running"]
    /\ UNCHANGED <<table, now, locked, held, cur, phase, effects>>

\* Time passes while some pending row waits for it.  Passing otherwise changes nothing
\* that a step compares.
Tick ==
    /\ \E r \in Rows : status[r] = "pending" /\ due[r] > now
    /\ now' = now + 1
    /\ UNCHANGED <<table, mode, locked, held, cur, phase, effects>>

ChainStep(w, c) ==
    \/ Attempt(w, c)
    \/ WindowClosed(w, c)
    \/ MarkDelivered(w, c)
    \/ MarkDeliveredFault(w, c)
    \/ PerformDeferred(w, c)
    \/ MarkFailed(w, c)
    \/ MarkFailedFault(w, c)
    \/ PushLater(w, c)
    \/ PushFault(w, c)
    \/ Release(w, c)
    \/ ReleaseFault(w, c)
    \/ Bury(w, c)

Next ==
    \/ \E r \in Rows : Enqueue(r) \/ EnqueueToken(r) \/ TokenWritten(r)
    \/ \E w \in Workers :
          \/ ClaimScan(w) \/ ClaimCommit(w) \/ ClaimFault(w)
          \/ Stop(w) \/ StopReturns(w) \/ Crash(w) \/ Restart(w)
          \/ \E c \in Contacts : ChainStep(w, c)
    \/ Tick

Spec == Init /\ [][Next]_vars

\* A running worker polls, awaits each statement and each send to their end, and time passes;
\* a database that fails some claims does not fail every one.
Fairness ==
    /\ WF_vars(Tick)
    /\ \A w \in Workers :
          /\ WF_vars(ClaimScan(w))
          /\ SF_vars(ClaimCommit(w))
          /\ \A c \in Contacts : WF_vars(ChainStep(w, c))

FairSpec == Spec /\ Fairness

-----------------------------------------------------------------------------
(* Properties *)

\* Row r is claimed by w and its delivery is not over.
InDelivery(w, r) ==
    \/ r \in held[w]
    \/ \E c \in Contacts :
          cur[w][c] = r /\ phase[w][c] \in InHand

\* No row is claimed by two workers at once: what SKIP LOCKED is there for
\* (queue.ts:124-126, ADR-0004), with claims that overlap, connections that fail and
\* processes that die and come back.
OneClaimPerRow ==
    \A w, v \in Workers : w # v =>
        /\ locked[w] \intersect locked[v] = {}
        /\ \A r \in Rows : ~(InDelivery(w, r) /\ (InDelivery(v, r) \/ r \in locked[v]))

\* A row is sent at most MAX_ATTEMPTS times, however its claims were released, its
\* outcomes lost and its worker restarted; a row still pending has an attempt left.
BoundedSends ==
    \A r \in Rows :
        /\ sends[r] <= attempts[r] /\ attempts[r] <= MaxAttempts
        /\ status[r] = "pending" => attempts[r] < MaxAttempts

\* Why the two above hold: a locked row is pending and in one claim only, and a row in a
\* worker's hands is not pending and was claimed once more often than it was sent.
LockedRows ==
    \A w \in Workers : \A r \in locked[w] :
        /\ status[r] = "pending"
        /\ \A v \in Workers : v # w => r \notin locked[v]

HeldRows ==
    \A w \in Workers : \A r \in held[w] : status[r] = "delivering" /\ sends[r] < attempts[r]

CurrentRow(w, c) ==
    /\ phase[w][c] # "next" => cur[w][c] \in Rows
    /\ phase[w][c] \in InHand =>
          /\ contact[cur[w][c]] = c
          /\ cur[w][c] \notin held[w]
          /\ status[cur[w][c]] \in {"delivering", "delivered", "failed"}
          /\ attempts[cur[w][c]] > 0

CurrentRows == \A w \in Workers, c \in Contacts : CurrentRow(w, c)

HandsApart ==
    \A w, v \in Workers : \A r \in Rows : InDelivery(w, r) /\ InDelivery(v, r) => w = v

UnwrittenRows == \A r \in Rows : status[r] = "absent" => attempts[r] = 0

ClaimInv == UnwrittenRows /\ LockedRows /\ HeldRows /\ CurrentRows /\ HandsApart /\ BoundedSends

\* A reply's deferred actions are performed only after its text went out, and are settled
\* once: performed or dropped, never both and never twice (worker.ts:95-100).
ActionsOnce ==
    [][\A r \in Rows : acted'[r] # acted[r] =>
          /\ acted[r] = "none"
          /\ acted'[r] = "performed" => sends[r] > 0 /\ status[r] = "delivered"
          /\ acted'[r] = "dropped" => status[r] = "failed"]_vars

\* No reply is sent while an earlier one to its contact is still queued
\* (specs/037, "A reply never overtakes an earlier one").
NoOvertaking ==
    \A w \in Workers, c \in Contacts :
        phase[w][c] \in {"accepted", "acting"} =>
            \A q \in Rows : Earlier(q, cur[w][c]) => status[q] \in {"delivered", "failed"}

\* A row being delivered is in some live worker's hands: nothing else reclaims it.
NoneStranded ==
    \A r \in Rows : status[r] = "delivering" => \E w \in Workers : InDelivery(w, r)

\* With one worker, no crash and no database failure, the queue is a first-in first-out
\* channel per contact that transmits a reply at most MAX_ATTEMPTS times (ReplyFifo).
FateOf(s) ==
    CASE s = "absent" -> "unwritten"
      [] s \in {"pending", "delivering"} -> "queued"
      [] s = "delivered" -> "delivered"
      [] s = "failed" -> "dead"

Fate == [r \in Rows |-> FateOf(status[r])]

Fifo == INSTANCE ReplyFifo WITH fate <- Fate, copies <- sends

FifoSpec == Fifo!Spec

\* An error ended the row's claim or chain before its outcome was stored: nothing reclaims it,
\* and it holds back the contact's later replies (specs/002:223).
Stranded(r) == status[r] = "delivering" /\ \A w \in Workers : ~InDelivery(w, r)

\* However claims overlap, fail and are rolled back, a queued row is delivered or
\* dead-lettered in the end, unless a worker is stopped or dies before that, or an earlier row
\* of its contact, or itself, was stranded.
EveryRowSettles ==
    \A r \in Rows : status[r] = "pending" ~>
        \/ status[r] \in {"delivered", "failed"}
        \/ \E q \in Rows : q <= r /\ contact[q] = contact[r] /\ Stranded(q)
        \/ \E w \in Workers : mode[w] # "running"
=============================================================================
