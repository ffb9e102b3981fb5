# Formal model of the ManyChat AI agent

TLA+ modules for the parts of this repository where order, concurrency and failure decide
whether it is correct: the turn a contact's message becomes, what the model does and says in it,
the outbox that delivers what the response could not carry, the tokens that bind a contact, the
nudges sent later, the learning job and its playbook, and the process that holds all of these.
TLC checks the modules on small instances; TLAPS proves the theorems for every value of the
constants.

Paths below are those of the repository (`src/outbox/queue.ts` and so on).

## 1. Inventory

| Component | State it keeps | Operations | Interacts with |
|---|---|---|---|
| Turn lanes (`src/conversation/turns.ts`) | per-contact chain of waits, the messages that entered it | `enter`, `followed`, `quiet`, `leave`, `claim`, `gone` | turn order |
| Turn order (`src/turn/order.ts`) | none of its own; one activation per request | `handle`: wait, claim, race, fold, hand off, leave | lanes, handler, fold, delivery |
| Turn handler (`src/turn/*.ts`) | the conversation and turn rows, counters | `handle`, `run`, `settle`, `answer`, `deliver`, `fold`, media | store, budget, outbox, runner, client |
| Server routes and error handler (`src/server.ts`) | none | message and plugin routes, rate hook, error answer | configuration, turn order |
| Outbox queue (`src/outbox/queue.ts`) | the `outbox` table | `enqueue`, `hasQueuedReply`, `claimBatch`, `release`, `markDelivered`, `markFailed` | handler, nudges, tokens, worker |
| Outbox worker (`src/outbox/worker.ts`) | the claimed batch, `running`, `stopping` | `drainOnce`, `process`, `performDeferred`, `start`, stop | queue, client, plugin channels, tokens, store, nudges |
| Conversation store (`src/conversation/store.ts`) | `conversations`, `turns` | `startTurn`, `record*`, `resolveStaged`, `claimOpening`, `markEscalated` | handler, worker, nudges |
| Budget (`src/conversation/budget.ts`) | rate and spend counters | `checkRateLimit`, `checkBudget`, `recordSpend`, `checkTurnCap` | prechecks, nudges |
| Contact tokens (`src/conversation/tokens.ts`) | current and previous hash, generation, issue time | `bindingFor`, `issue`, `replaceUnwritten` | admission, outbox, client |
| Nudges (`src/nudge/`) | the `nudges` table | `schedule`, `cancel`, `claimDue`, `runOne`, `finish` | handler, store, outbox, runner |
| Action stage (`src/agent/tools/stage.ts`, `src/agent/flows.ts`) | the turn's staged and sent actions | `stage`, `send`, `settled`, `survivors` | runner, client, store |
| Agent runner (`src/agent/runner.ts`, `langgraph-runner.ts`, `guardrails.ts`) | the graph's state, the cached prompt | the model, tools and reply nodes, the rewrite, `applyGuardrails` | model, stage, reads |
| Plugin and contact reads (`src/plugins/reads.ts`, `src/agent/contact.ts`) | a turn's read budget | `read` | runner, plugins |
| ManyChat client (`src/channels/manychat/client.ts`) | per-contact send lanes | `sendText`, `writeToken`, `perform` | worker, tokens |
| Media (`src/media/`, `src/turn/media.ts`) | none | resolve, transcribe, split, fall back | handler, budget |
| Configuration (`src/config/loader.ts`, `src/contracts/config/`) | the current snapshot | `load`, the checks across files, `reload` | server, runner, job |
| Learning job (`src/learning/job.ts`, `cohort.ts`, `analyst.ts`, `proposals.ts`) | `learning_runs`, proposals, the run in flight | `claimRun`, cohort, transcripts, analyst, proposals, `finishRun`, stop | store, model, process |
| Playbook (`src/learning/store.ts`, `cli.ts`, `gate.ts`, `playbook.ts`) | proposals, versions, eval records, the polled version | review, evaluate, activate, refresh | command line, servers |
| Process (`src/main.ts`) | what is started, the loops, the shutdown | boot, signals, `shutdown` | everything |
| Plugins loader, observability, model adapters, command lines, evals | files, traces | offline or pure I/O | - |

### What is hard about each

* **Lanes and order.** Requests of one contact overlap; each waits for the one before it, but
  no longer than a bound, gives its lane up on every failure, and may be folded into a later
  message. Every message must end in exactly one of: an inline response, a queued reply, a
  hand-off, or an answer by a later turn.
* **The race.** The model's answer races a deadline; the loser's reply is settled later, behind
  whatever is queued by then, and a process may die in between.
* **Outbox.** Claims overlap, rows go back for retries, a stop interrupts a paced chain, and the
  database fails between the statements that keep the order.
* **Tokens.** The write of a token to the contact's field is asynchronous, may be lost or
  acknowledged too late, and is retried with a fresh token.
* **Nudges.** A nudge runs while the contact may write, be escalated or be answered.
* **Stage.** What a turn does to the contact is partly sent during the turn, partly staged and
  performed after its text, by the response's process or by the outbox worker; requests are
  refused, or land and are answered too late; the model call is aborted with a request in flight.
  A flow must go out once, the opening first, the funnel stage only forward.
* **What is said.** The reply must be reached before the graph's limit whatever tools are called;
  it is written under a notice of what the turn did, and may be rewritten; each guardrail changes
  what the next one reads.
* **Sends.** Two messages of a contact share one field at ManyChat, which a flow reads when it runs:
  a failed or abandoned call leaves the field and the flow of different messages.
* **Configuration.** Files are edited while they are read one after another; a request runs on the
  rules it was given while the prompt it uses is built from what is current later.
* **Learning.** The week is claimed by several processes and by hand; contacts go on writing and
  paying while their transcripts are read; versions are created, approved and retired while
  servers poll for the active one and commands swap it.
* **Shutdown.** Each part is stopped and waited for in turn while requests, batches, sends and a run
  are in flight, and an iteration that failed rejects the wait.

## 2. Plan

Written, in this order: `Outbox` with `ReplyFifo`; `TurnLanes`; `ContactTurns`; `Nudges`;
`ContactTokens`; `TurnActions`; `Playbook`; `AgentTurn`; `TenantConfig`, `Service`, `ReplySends`
and `InsightJob`, composed in `Process`; and the proofs of all of them, in eight modules.

Left:

1. the conversation's offering and its column, tags and repeatable flows in `TurnActions`; the limit
   of the history read back;
2. abstract specifications: a contact's lane as a lock, implemented by `TurnLanes` when no wait ends
   at its bound; the playbook as a register that activation writes and the servers read;
3. theorems: with those abstract specifications, that the lane and the playbook implement them. Each
   safety property that a passing run checks has its theorem; what a run checks besides is liveness.

## 3. Modules

| Module | Models | Composes |
|---|---|---|
| `Outbox` | `src/outbox/queue.ts`, `src/outbox/worker.ts`, the retry job of `tokens.ts` | implements `ReplyFifo` |
| `ReplyFifo` | what the queue promises one contact: replies in order, each sent at most `MAX_ATTEMPTS` times | - |
| `TurnLanes` | `src/conversation/turns.ts` | - |
| `ContactTurns` | `src/turn/*.ts`, the message route and the error handler of `src/server.ts` | extends `TurnLanes` |
| `Nudges` | `src/nudge/*.ts` and what schedules and cancels a nudge | - |
| `ContactTokens` | `src/conversation/tokens.ts`, the issue in `admission.ts`, the retry in the outbox worker | - |
| `TurnActions` | `src/agent/tools/`, `src/agent/flows.ts`, `src/conversation/actions.ts`, the rows of `recorder.ts` and `store.ts` | - |
| `AgentTurn` | `src/agent/langgraph-runner.ts`, `runner.ts`, `guardrails.ts`, `turn.ts`, the reads of `src/plugins/reads.ts` and `src/agent/contact.ts` | - |
| `Playbook` | `src/learning/store.ts`, `cli.ts`, `gate.ts`, `playbook.ts`, the evals that record a verdict | - |
| `TenantConfig` | the checks of `src/config/loader.ts` and `src/contracts/config/`, the sections of `src/agent/prompt.ts` | - |
| `Service` | `src/server.ts`, the load and the reload, the prompt cache, `prechecks.ts`, `budget.ts`, media | extends `TenantConfig` |
| `ReplySends` | `src/channels/manychat/client.ts`: `sendText`, `sendEach` | - |
| `InsightJob` | `src/learning/job.ts`, `cohort.ts`, `analyst.ts`, `proposals.ts`, the rows of a run | - |
| `Process` | `src/main.ts`, the loops of the two workers, `src/learning/wiring.ts` | extends `Service`, `InsightJob`, `ReplySends` |
| `OutboxProofs`, `ContactTurnsProofs`, `NudgesProofs`, `ContactTokensProofs`, `TurnActionsProofs`, `AgentTurnProofs`, `PlaybookProofs`, `ProcessProofs` | theorems | extend the module they are named for, and with it those it extends |
| `MCOutbox`, `MCContactTurns`, `MCNudges`, `MCContactTokens`, `MCTurnActions`, `MCAgentTurn`, `MCPlaybook`, `MCProcess` | constants for TLC | extend the module they instantiate |

A definition whose comment begins with `Mutant:` is the definition below it with a plausible bug.
Nothing uses it: it is there to be put in that definition's place, and then the property it is
paired with in `PROJECT.json` fails. The component modules keep the names of the code, and
`PROJECT.json` gives the lines of each definition. Each module has one type invariant at most; it
documents the state, and is part of the inductive invariants where a proof needs it. No run lists
one; two theorems state one.

### Outbox

A row's `status`, `attempts`, `due` (`next_attempt_at`) are the columns of the table; rows are
numbered by `created_at`. Every SQL statement is a step. The claim is two, `ClaimScan` and
`ClaimCommit`, because its row locks are held in between, another worker's `SKIP LOCKED` passes
over them, and the subquery that looks for an earlier reply reads the row as committed.
`markFailed` is two as well (`MarkFailed`, then `PushLater`). A claimed batch is run as one chain
per contact (`cur`, `phase`): attempt, mark, deferred actions, next row, or hand the rest back. A
delivery succeeds, fails, or is refused because the window is closed. Faults: `claim` (the
connection fails inside a claim), `db` (a statement fails), `crash`, `stop`. The two-word promise
of the queue, `ReplyFifo`, has a fate per row and the number of times it was sent; the refinement
mapping (`Fifo`) reads both off the table.

### Turn lanes and turns

`TurnLanes` numbers a contact's turns in the order of arrival. A turn waits for the tail of the one
before it, which settles when that turn has been let in *and* has left; the wait ends after
`MaxWait` in any case. `ContactTurns` runs a turn over it, statement by statement: arrival, the
first read, the decision to run or fold, admission (conversation, token, user row), prechecks,
history, the model call raced against the deadline, the row of the reply, and its way out: in
the response, held back for a flow, silently with the reply queued, as a holding line, or as a
handoff. `pc[m]` is where turn `m` is, `response[m]` what its request got, `result[m]` how its
answer was decided, `heard` what reached the contact. The outbox is its promise here: queued
replies arrive one after the other, in order. Binding is whether a message carries a token
(`carries`) and what the conversation has (`issued`, `exists`).

### Nudges

A turn stages what it stages (`Plans`); its actions are statements performed in the process after
the response (`todo`) or by the outbox worker after the delivery (`doing`), or it escalates. The
worker claims a due nudge and goes through `npc`: the conversation, the funnel stage, the limits,
`answeredBefore`, the history, the model, the second look, the row, the outbox, the finish. A
failed statement leads to `skip`, and a failure of that leaves the row `running`. The contact's
own turns are ordered (the lanes), the outbox delivers in order (`ReplyFifo`).

### Contact tokens

A token is random, so what matters of one is which hash of the conversation it matches: `current`,
`previous`, or none (`old`). Issuing and replacing relabel the tokens in the field, in flight and
carried by requests. `write` is the issuing turn's write, `late` those given up that may land yet,
`job` the retry of this generation and of the one before, `worker` what the outbox worker does
with one. A job of the generation before those is followed no more: an issue puts a worker that
is still at it to rest. The outbox's rows are reduced to these two jobs.

### Turn actions

A turn is the contact's own in its lane, one outside the lanes, or a nudge (`kind`). It reads what
the contact has from the rows before it (`facts`, `ContactActions`), its model calls tools one
after the other, and each call stages actions or sends flows (`order`, with the state of each
entry; `queue`, the flows the call has yet to send; `hand`, the actions being performed now).
One step is one request to ManyChat, or one statement. A request is performed, refused, or lands
and is answered too late; an action is a chain of requests (the payment link, its stage write,
the event of that stage), which stops at the first that is not performed. The row (`rows`, `known`)
says what was performed; what is staged is performed after the text (`kept`) and the row resolved.
`field`, `got` and `fired` are what ManyChat has. `landed` and `beside` only serve the properties:
what reached the contact of an entry, and which turns were not over when this one read the rows.
Turns do overlap: what one has deferred is performed while the next calls. `BelievedIsTrue` is about
what the turn after them reads, and relaxes the stage, and only the stage, for the writes of two
turns that overlapped.

### The reply

`AgentTurn` runs the graph: `at` is the node, `calls` and `steps` count against the recursion limit
and `MAX_STEPS`, `todo` is what the tools node has left, `reads` and `latest` are the read budget and
what was read. A draft is any of `Drafts`: its messages are sequences of lines, and a line is what
some guardrail tells apart (a field echoed, a working note, a marker of the prompt, a link, a question,
one too long). `facts` is what the turn did, `told` the notices a draft was written under; a draft
with a note is rewritten once, under a notice of its own. The guardrails are operators in the
order of the code, each over what the one before it left. `history` is what the next turn of the
conversation compares its reply with.

### Playbook

Each review session, command and server is a process on the same database; one step is one
statement, or one transaction when the code holds one. A version is refused for the number of its
insights, or for their length (`TooLong`); a number that is not on the list retires nothing, and an
answer that is no number makes the version it would change again. `timeline` is the order of what the clock
stamps: versions created, and activated last. A version is its insights, since the content hash
makes the same insights the same row. A session may be cut off between two statements; a server's
polls may overlap, fail and resolve out of order.

### Configuration and requests

A file in `TenantConfig` is a record of what the checks tell apart; `Refused` (in `Service`) is what a
load is refused for, `AgreesWithItself` what holds of a configuration that passed.
In `Service` a load reads one file per step (`reading`) while `Edit` changes what is on disk, and
swaps `config` at its end or leaves it. A request (`request[s]`) goes from its arrival, where its
handler takes rules and tools, through the rate limit, the daily cap, the media of its message and
the model to its answer; the prompt is built from the configuration and the playbook of the moment the
model is called (`cached` is the runner's cache). A race that is lost answers the caller and
leaves the turn running (`late`).

### The weekly run

A row of `runs` holds the columns and where the process that claimed it has come to: the cohort,
one contact's transcript per step while contacts go on writing (`Writes`) and paying (`Pays`), the
cut to what a call may cost, the analyst's output, the proposals that cite what was read, the
status. `inFlight` is the promise the stop waits for, per process; the command line is one more.

### The process

`booted` counts the steps of `BootOrder` done, and says what may happen: a request needs the server to
listen, a reload the signal handler. `worker` is the loop of each worker: an iteration is open or it
ended, well (`settled`) or rejected. `stopping` walks `StopOrder`; `Returns` is what each stop waits
for and `Rejects` when that wait throws, which nothing catches; the traces are closed last, which
waits for nothing that is modelled. `ReplySends` gives the open outbox
iteration its sends: each message is a field write, a flow trigger and a gap, in the contact's lane;
`shown` is what the contact was shown, with what was meant.

## 4. Runs

| Run | Instance | Shows |
|---|---|---|
| `outbox_order` | 1 worker, 1 contact, 3 rows, batch of 2, retries, holds, stops | no reply overtakes an earlier one; no row is left `delivering`; the queue implements `ReplyFifo` |
| `outbox_faults` | 2 fair workers, 2 rows, every fault | no row in two hands; sends are bounded; deferred actions run at most once; every row settles unless a fault stranded it or one before it |
| `turns_order` | 3 messages: text, media, opening; with or without token and burst window | turns run one at a time; history and replies keep their order; one answer each |
| `turns_faults` | 2 messages, 4 kinds, 3 endings, one failed statement and the hand-off after it, aborts, a crash, flows that outlast the deadline | a silent response is filled; the response is in time; every message is answered or its failure told |
| `nudges` | 2 turns, every plan, 2 failed statements, a crash | never twice, never after the link, never over an unread message; each settles |
| `tokens` | 2 requests at a time, 3 faults | a retry does not race its write; tokens that are held bind; the contact ends bound |
| `actions` | 2 turns of any kind, apart or overlapping, a cap of 2, a funnel of 3 stages, one fault | the cap holds; the opening goes once; the rows say what was sent and what the contact has |
| `learning` | 4 histories of up to 3 versions; a review, 2 commands, a server with 2 overlapping reads, one interruption | no approval is in no version; no version goes live but evaluated against what its command read as live; servers follow what is live |
| `agent` | 2 turns, 75 drafts, 2 calls, 2 reads, 3 steps | the reply is reached within the limit; it says nothing internal and the link it owes; its notice is true |
| `process` | one process in nine scenarios (below) | what is served passed every check; the prompt follows it; the cap is overshot by what was in flight; one run a week, whose proposals and labels are grounded; a clean exit leaves nothing open; each message is read as it was written |
| `nudges_escalated` | 2 turns, no fault | **violated**: a nudge scheduled behind the outbox, after the next turn escalated, is sent |
| `learning_retired` | a fresh playbook, 2 proposals, one reviewer | **violated**: a retired insight comes back in the next version |

The two violated properties are what a document of the repository says; the `findings` of
`PROJECT.json` quote it. The modules reach more states that a document or comment
excludes. They are stated, and kept without a run of their own:

* two workers: one sends a contact's later reply while the other claims the earlier one
  (`queue.ts:124-126,151-152`). `NoOvertaking` under `MCOutboxTwoWorkers.cfg`, module `MCOutbox`;
* a text folded into a media turn whose media cannot be read is answered by nobody
  (`specs/046:34-35`, `order.ts:92`). `FoldedAreAnswered` under `MCContactTurnsFolded.cfg`, module
  `MCContactTurns`;
* a shutdown that ends in a rejected wait leaves the other batch open (`worker.ts:299`,
  `specs/026:82`, `specs/052:172`), and may leave a run of its own `running` (`job.ts:175-180`,
  `specs/031:258-260`). `StoppedIsDrained` and `StoppedIsRecorded` in `Process`;
* a request's prompt is built from a configuration loaded after its rules were taken
  (`specs/044:137-138`, `runner.ts:405-406`). `SnapshotKept` in `Process`;
* a run that fails after the analyst was paid may have no cost on its row (`specs/031:255-256`).
  `PaidIsRecorded` in `InsightJob`;
* the appended closing question is not checked for markers of the prompt (`guardrails.ts:235`), so
  one can be said. `NoMarkerIsSaid` in `AgentTurn`;
* a database error in `markFailed` or `release` leaves rows `delivering` after a stop
  (`worker.ts:243-244` says none is left);
* a crash between recording and queueing a deferred reply (`schema.ts:124-125` says one transaction);
* a third turn whose wait ends at its bound behind two healthy ones (`specs/037:62-65`);
* a model call aborted after the holding line went out: nothing follows it (`specs/002:113-115`);
* a stage write that one turn deferred lands after the payment link of the next: the contact falls back
  from `link_sent`, while the next turn reads `link_sent` from the rows (`specs/023:60`, "The stage only
  moves forward"; `stageFloor` in `agent/tools/turn.ts` looks at the rows and at its own turn).
  `StageMovesOn` under `MCTurnActionsForward.cfg`, module `MCTurnActions`;
* a version that its command compared with the active one may replace another, which a second command
  put there in between (`specs/031:176`; `store.ts:292` does not look again). `GoesLiveEvaluated` holds
  the record to what the command read;
* when the second statement of `markFailed` fails, the contact's later replies stay due before the
  one that failed (`queue.ts:238`), and nothing restores the order;
* a nudge turn that stages the payment link and then a stage write: performed in that order, the
  write takes the contact back from `link_sent` (`specs/023:60`; `stageFloor` in
  `agent/tools/turn.ts:146` does not count the link's own write while it is staged);
* a flow that the loop over a step's calls sends after the abort of the model call is in no row,
  so the next turn may send it again (`RecordedIsSent` excepts it);
* two entries of the catalog may carry one id: the loader checks the ids of the other lists, and
  compares the number of an enum's values with that of the catalog's ids, so a tool can be served
  with a value that the catalog lacks (`loader.ts:112-124`). The proof of `ServedAgrees` found it.
  `ServedIsSound` under `MCProcessTwins.cfg`, module `MCProcess`.

To see one of those that name a configuration, run `tlc -config <file>.cfg <module>`; for another
that names a property, add it to the invariants of the module's configuration.

### Bounds, and why they are enough

* Outbox: three replies are the fewest where a retry has a reply before and one behind it, and a
  batch of two then leaves one unclaimed. Two attempts have a first, a last and a retry between.
  Exclusion and attempts need two workers and two rows; both are also proved for any number.
* Turns: `RaceDeadline` 1, `ModelAbort` 2, so a call may end before the deadline, at it, after it
  and at its abort. With three messages a turn has one before it to wait for and one after it that
  folds or supersedes it; every order of three turns' statements is explored.
  `HistoryLimit` is 10 as in the code and does not bite with three messages.
  One statement fails (`MaxFaults`); the hand-off that follows a failure may fail as well
  (`FaultAgain`), since an outage lasts.
* Nudges: two turns are the fewest where one performs its actions after the next has arrived; two
  faults are the fewest where the statement that skips a failed nudge fails.
* Tokens: an hour is 4 ticks, the retry delay 2, a write 1, which keeps their order. Two
  requests overlap; three faults let a write and both attempts of its retry fail.
* Turn actions: two turns are the fewest where one reads the rows of the other, or runs beside it.
  A cap of two is the smallest that a call with two actions can reach in the middle; a funnel
  of three stages has a first, one with a tied flow and an event, and `link_sent`. One fault is
  enough for each property to need its exceptions; two turns with one fault are 6.4 million states.
* Playbook: two commands are the fewest that race, two reads the fewest that resolve out of order,
  and three versions the fewest with which a first activation and a rollback may each swap between the
  other's read and its swap. `MCInit` picks one of four histories. Nothing was live yet, or one version
  was: a review, an evaluation, one command. Two were: a review makes a third, which one command
  activates while another brings the first back. Three were: both commands bring one back.
* Agent: two turns are the fewest where a reply repeats the one before. The drafts trip each guardrail alone,
  and before and after another that changes what it reads. Two calls a step, a limit of three
  steps and two reads let the limit, the budget and the forced reply each be met; the limit is proved for
  any number.
* Process: everything a process does at once is out of reach of enumeration, so `Bounds` holds nine
  scenarios, and the initial state picks one. Each frees the few things that meet in the
  properties: three edits across two loads; an edit, a load, a new playbook version and two
  requests; three requests over two hours with a lost race and audio; one request of every text
  with a hook, a fault and a lost race; two requests, a batch, a fault and a signal; two sends, to one contact or
  two, without and one with a signal; two runs over two weeks; a run with a
  contact that writes or pays, a fault and a signal. Caps of 2 let the third request be the one
  refused. Two files' edits between two reads are the fewest that make a load see a mix. The boot,
  its failure and the reads of each file are free in every scenario.

Deadlock is checked except where the system really may stop: in the nudge runs, where the contact
may have written all messages and nothing waits; in `actions` and `agent`, where all turns may be
over; in the playbook runs, where everyone may have finished. The real processes go on polling, or
wait for the next message, there. In `Process` the same is the step `Over`, so that a shutdown
that waits for something that cannot happen is a deadlock: it is only allowed once the process
has ended, or before it was told to stop.

### Fairness

* Outbox: `Tick`, each claim's scan and each chain's next statement, weakly: the worker loop polls,
  and awaits every statement and send, each bounded by a timeout. The claim's commit, strongly: a
  connection fails now and then, not at every commit. Enqueueing, stopping and failing are not fair.
* Turns: every step of an arrived turn, the outbox worker, and time, weakly: statements and
  model calls end (`MODEL_ABORT_MS`). That the contact writes is not assumed.
* Nudges: time passes, the worker claims and each of its statements ends. Nothing is assumed of the
  contact or of the outbox.
* Tokens: writes end, the worker and time go on, a request that is sent is handled; and the
  contact writes again, since only a message without a binding token has another one issued.
* Playbook: each server polls and its polls end. Nothing is assumed of people.

`Process`, `AgentTurn` and `TurnActions` state no liveness: their safety does not need it.

## 5. What is proved

Each theorem holds for every value of the constants that the module's own assumption admits; what a
theorem asks beyond that is named below.

* `OutboxProofs`, from `OutboxAssumption`. `TypeCorrect`, `ClaimsApart` and `SendsBounded` rest on
  `TypeOK /\ ClaimInv`: a row locked by an uncommitted claim is pending and in nobody's hands, a row
  in a chain is `delivering` and in that worker's hands alone, and a row's sends are at most its
  attempts. `OneClaimPerRow` and `BoundedSends` are not inductive alone: without the status of the
  rows in hand a second claim could take them. `ActedOnce` adds `OutcomeInv`, that an outcome is
  stored before the actions run or are dropped. These hold under every fault. `ClaimedIsInHand`
  needs that no statement fails and no process dies (`NoneFails`): else a row does stay
  `delivering`. `InOrder` and the refinement `ImplementsFifo` need one worker and that `markFailed`
  is not cut in two (`OneWorker`, `MovesTogether`), which are the cases section 4 lists as broken
  without them; stops and failed claims are allowed, though the run has only the stops. Their
  invariant, `OrderInv`, says that a claim takes a reply only with every earlier one, that a chain
  is at its contact's first open reply, and that due times keep the order, save between the two
  statements of `markFailed`.
* `ContactTurnsProofs`, from `LaneAssumption` and `TurnsAssumption`. `TurnsRunOneAtATime` is of the
  lane alone, as any caller may use it: a turn let in by its turn (`ready`, not `expired`) has all
  earlier ones let in and gone, save where a wait ended at its bound (`LaneInv`). `LetInInOrder` is
  the same of the handler's turns. The others need where a turn is joined to its place: one that is
  bound works in its place until it is done (`PlaceInv`). From it, `RowsInOrder`; `ResponseInTime`
  (a reply held for its flow is still in time, `ResponseInv`), for statements that take no tick
  (`~SlowDb`); `SilenceFilled`; and `AnswersInOrder` and `AnsweredOnce`, whose `ToldInv` says what a
  turn can have told the contact from each of its places, and what may be queued beside a reply that
  is held. The last two are stated for `faults = 0`: the route's hand-off after a failure answers at
  once, past the queue, and a turn goes on after its request failed.
* `NudgesProofs`, from `NudgesAssumption`. `NudgeTypes` and `ReadFirst` rest on two facts beside the
  types: turns arrive in order, so `recorded` only grows (`InTurn`); and the history is read after
  the first look at the conversation, so what the model was given is no older than that look
  (`Looks`). The second look either finds what the first found, or the nudge goes no further.
  `SentOnce` needs that a nudge is scheduled once: `OnceInv` follows a turn's schedule statement
  from the actions to the outbox and back. `LinkSilences` needs what the first look found
  (`SentInv`).
* `ContactTokensProofs`, from `TokensAssumption`: a write is shorter than the delay of its retry,
  and that than the time to the next issue. `ReplacedAfterItsWrite`: the write in flight is the
  current token's, it began at the issue, and its retry is due after its end (`WriteInv`).
  `TokensGoOnBinding`: an issue meets no write in flight, so what the worker writes is the current
  token or the one before it (`WorkerInv`); and unless a write that was taken for failed may have
  landed, a current token that anyone holds was written by a job that is over, so no retry replaces
  it (`HeldInv`).
* `TurnActionsProofs`, from `ActionsAssumption`. `ActionsStayCapped` and `OpeningGoesOnce`: only a
  turn with `FlowSends` that is under way has flows left to send (`SendersOnly`); what is in hand
  has a request of its chain left, and what is staged was not tried before the row (`InHand`); at
  most one entry of all turns is the opening, it was claimed and never staged (`OpeningsApart`); and
  once the contact has it, nobody has it in hand (`OpeningGiven`). That a call may stage an action
  and send a flow at once is why the cap needs a lemma on what one entry adds to the count.
  `RowTellsWhatWasSent`: what is sent is in hand until its group is answered, what is performed
  after the text was staged (`SentInv`), and the rest of a row is told (`RecordInv`).
  `ReadIsWhatTheContactHas` is about any turns: unless two overlapped, their stage writes land in the
  order of the rows, so that a write that landed later is that of a later row, or of a turn that was
  under way with it (`LandInv`).
* `AgentTurnProofs`, from `AgentAssumption`. `EveryTurnReplies`: the graph's limit is not checked by
  a counter of its own; the invariant bounds the supersteps by the model calls, two for each, so the
  forced reply comes before the limit for any `MAX_STEPS` of at least two. `NoticeIsTrue`: nothing
  the turn did changes between the last draft and the reply. `NothingInternalSaid` and `LinkSaid`
  are mostly about the guardrails as functions of a draft: what each takes out, and that no later
  one puts it back. The guardrails take messages away one set at a time, so some of these lemmas are
  by induction on a finite set, which the module derives for its own use from the pigeonhole
  principle (`SetInduction`).
* `PlaybookProofs`, from `PlaybookAssumption`. `ApprovalsKept` and `LiveWasEvaluated` rest on the
  timeline: no step takes a created version out of it, nor the activation of one but to put it last.
  So the version that a review wrote is there when it marks the proposal (`SessionInv`); what a
  command read as live was live, its candidate is still among the versions, and past the gate it was
  live before or is evaluated against what the command read, whatever other commands and changes of the suite come between
  (`CommandInv`). `OneIsLive` is in the types: the index on `active` refuses a second row.
* `ProcessProofs`, from `ServiceAssumption`, `FilesAssumption`, `InsightAssumption` and
  `ProcessAssumption`, whatever the rest of the process does. `MessagesReadAsWritten` needs the
  most: one send of a contact is under way at a time (`Paced`); the field holds the text of each
  flow that is still to run (`Aimed`), which a failed call keeps true because the gap after it is
  waited for; no text shown lies ahead of its send (`Behind`); and what was shown is in order
  (`InOrder`). `WeekRunsOnce`: a row keeps its week until it fails. `NothingIsLeftOpen`: `StopInv`
  carries along `StopOrder` what each step waited for: the nudge loop told to stop and asleep, then
  the outbox's, its last iteration settled, so that no reply is half sent when the callers are
  waited for, and nobody waits while the traces are closed. `PromptsAreCurrent`: a cached prompt was built whole from one configuration and one
  version (`CacheIsWhole`). `OvershootIsBounded`: what may still be spent past the guard is counted
  with what is (`SpendInv`). `ServedAgrees`: a load judges each file by what it has read, not by
  what the files hold by then (`LoadInv`); it needs that no catalog lists an id twice
  (`DistinctOfferings`), which the loader does not check, and is false without. `ProposalsGrounded`
  and `LabelsTrue`: what a run may cite is settled before it stores a proposal (`EvidenceInv`).

Only model-checked: liveness. `EveryRowSettles`, `EveryMessageAnswered`, `EveryNudgeSettles`,
`ContactIsBound` and `ServersFollow` need fairness and `ENABLED`, which the prover does not handle.
The safety theorems they would start from (the types, the one pending nudge, the lanes) are those
above. The two violated properties, and those section 4 states as broken, have no theorem, of
course.

## 6. Abstractions and what is left out

* One SQL statement is one atomic step, except the claim's locks. A statement takes no tick unless
  `SlowDb`; no run sets it.
* A statement that fails may have been committed all the same in `Outbox`, in `ContactTokens`, and in
  `ContactTurns` for the rows and the outbox. Elsewhere what failed did not take place.
* In `ContactTurns` admission (the conversation, its token, the user row), a fold and the recording of
  a reply are one step each. A turn with rows to write is in its place of the lane, so that no
  other turn that waits for its own reads between them. When one fails (`StartFails`, `RecordFails`)
  the row may have been written; that only the conversation or the token was made is left out.
* In `Nudges` a payment link stays on record: `linked` is not taken back. The code reads the last stage
  that was performed, which a write of a lower one may follow (the two cases in section 4); a
  nudge checked after that is not cancelled.
* Timers fire on their tick, and a call that is due ends before time goes on.
* The window of a channel, caps, keywords and a person's takeover are choices in `ContactTurns` and
  `Nudges`; the caps and keywords are computed in `Service`. What the model answers is a choice in all modules.
* A flow's hold on a queued reply (`notBefore`) is in `Outbox`; in `ContactTurns` queued replies
  arrive in order at any time. The retry of a token's write is a row in `Outbox`, with its effect
  in `ContactTokens`.
* One server process runs a contact's turns: two replicas keep separate lanes, which the
  code does not order either (specs/037).
* `Nudges` follows one contact: a batch with several contacts' nudges, and two workers, whose
  claims the partial index and `SKIP LOCKED` keep apart, are left out.
* `TurnActions` leaves out the offering field, tags, fields without a role, repeatable flows, lookups,
  plugin tools, and the limit on the history that is read back. The burst window, queueing and
  retries of the reply are a wait before the staged actions are performed, or their loss (`Drop`).
* `AgentTurn` takes a line for what some guardrail tells apart, and a tool call for the fact it
  leaves behind. The wording of the prompt and of the notices is left out.
* `TenantConfig` has the checks that relate two files or two entries. The shape of single fields is the
  schemas' alone.
* `Service` takes fetching, transcribing and splitting media as their outcomes. A request's turn runs beside any
  other: the order of one contact's is `ContactTurns`.
* `ReplySends` takes a flow to have shown its message by the end of the gap after its trigger, and a
  call that was given up to have taken effect by then or never. ManyChat promises neither; the
  code's gap is chosen for it.
* `Process`: `app.close` waits for requests without an answer, and a turn whose race was lost is cut
  off by the exit, as in the code. Inside an iteration of a worker are `Outbox` and `Nudges`.
* `InsightJob` reads one contact per step; the masking of transcripts is left out.

### Not modelled

* Plugin loading (`src/plugins/loader.ts`) checks third-party code once, at boot, and leaves no
  state behind that changes: a failure is a failed step of the boot in `Process`.
* Observability (`src/observability/`): logs, redaction and traces decide nothing.
* The adapters to model providers and the scripted double: a call answers, fails or is given
  up, as each module that makes one has it.
* The command lines, the backfill and the eval harness are sequential offline programs; where they write
  what a server reads, that write is in `Playbook` or `InsightJob`.
* The text of the prompt, of the transcripts and of their masking: string building whose correctness is a
  matter of wording.
