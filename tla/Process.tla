------------------------------ MODULE Process ------------------------------
(***************************************************************************)
(* One server process from its start to its end (src/main.ts): what it     *)
(* starts and in which order, the requests it answers and the              *)
(* configuration it reloads (Service), the loops of its two workers        *)
(* (src/outbox/worker.ts, src/nudge/worker.ts) and the client the outbox's *)
(* replies go through (ReplySends), its weekly learning job (InsightJob,   *)
(* src/learning/wiring.ts), and the shutdown that stops each of them and   *)
(* waits.                                                                  *)
(*                                                                         *)
(* What a worker does in an iteration is in Outbox and Nudges: here an     *)
(* iteration is open, or ended well or badly.                              *)
(***************************************************************************)
EXTENDS Service, InsightJob, ReplySends

CONSTANTS Self,    \* this process, of Processes
          Bounds   \* what may happen around it: bounds of the instance, chosen once

ASSUME ProcessAssumption == Self \in Processes

VARIABLES booted,    \* how many steps of BootOrder are done
          worker,    \* each worker's loop
          stopping,  \* where the shutdown has come to; "no" before a signal
          exit       \* how the process ended; "none" while it runs

processVars == <<booted, worker, stopping, exit>>
vars == <<serviceVars, jobVars, clientVars, processVars>>

-----------------------------------------------------------------------------
\* Starting

BootOrder == <<"config", "plugins", "server", "migrations", "outbox", "nudges", "learning",
               "signals", "listen">>

Started(part) == \E i \in 1 .. booted : BootOrder[i] = part
Running == exit = "none"

\* A worker's loop starts with an iteration.
BootStep ==
    /\ Running /\ booted < Len(BootOrder)
    /\ booted' = booted + 1
    /\ worker' = [w \in DOMAIN worker |-> IF w = BootOrder[booted + 1]
                                          THEN [worker[w] EXCEPT !.at = "open"] ELSE worker[w]]
    /\ UNCHANGED <<serviceVars, jobVars, clientVars, stopping, exit>>

\* main rejects: the process ends where it is.
BootFails ==
    /\ Running /\ booted < Len(BootOrder) /\ left.faults > 0 /\ stopping = "no"
    /\ left' = [left EXCEPT !.faults = @ - 1]
    /\ exit' = "failed"
    /\ JobKilled(Self)
    /\ UNCHANGED <<configVars, promptVars, request, moneyVars, clientVars, booted, worker, stopping>>

-----------------------------------------------------------------------------
\* The workers

\* A reply being sent holds the outbox's iteration open.
Sending == \E k \in DOMAIN sends : ~Settled(k)

\* "settled" is whether the last iteration's promise resolved.
IterationEnds(w) ==
    /\ Running /\ worker[w].at = "open" /\ (w = "outbox" => ~Sending)
    /\ worker' = [worker EXCEPT ![w].at = "asleep", ![w].settled = TRUE]
    /\ UNCHANGED <<serviceVars, jobVars, clientVars, booted, stopping, exit>>

IterationFails(w) ==
    /\ Running /\ worker[w].at = "open" /\ left.faults > 0
    /\ left' = [left EXCEPT !.faults = @ - 1]
    /\ worker' = [worker EXCEPT ![w].at = "asleep", ![w].settled = FALSE]
    /\ UNCHANGED <<configVars, promptVars, request, moneyVars, jobVars, clientVars, booted, stopping, exit>>

\* A loop whose stop was called ends here.
Wakes(w) ==
    /\ Running /\ worker[w].at = "asleep" /\ worker[w].running /\ left.batches > 0
    /\ left' = [left EXCEPT !.batches = @ - 1]
    /\ worker' = [worker EXCEPT ![w].at = "open"]
    /\ UNCHANGED <<configVars, promptVars, request, moneyVars, jobVars, clientVars, booted, stopping, exit>>

-----------------------------------------------------------------------------
\* Stopping: learning, nudges, outbox, app.close, the traces still queued, exit

StopOrder == <<"learning", "nudges", "outbox", "close", "tracing">>

\* A step of the shutdown begins: the next part is told to stop.
Calls(step) ==
    /\ stopping' = step
    /\ worker' = IF step \in DOMAIN worker THEN [worker EXCEPT ![step].running = FALSE] ELSE worker

Signal ==
    /\ Running /\ Started("signals") /\ stopping = "no" /\ left.signals > 0
    /\ left' = [left EXCEPT !.signals = @ - 1]
    /\ Calls("learning") /\ StopJob(Self)
    /\ UNCHANGED <<configVars, promptVars, request, moneyVars, clientVars, booted, exit>>

\* A request whose caller waits for an answer.
Unanswered(s) == request[s].at \notin {"idle", "answered"} /\ ~request[s].late

\* Mutant: a worker's stop ends its loop and waits for nothing.
ReturnsAtOnce(step) ==
    CASE step = "learning" -> StopReturns(Self)
      [] step = "close" -> \A s \in Slots : ~Unanswered(s)
      [] OTHER -> TRUE

\* What each stop waits for. The upload of the traces is cut off at its deadline and never rejects.
Returns(step) ==
    CASE step = "learning" -> StopReturns(Self)
      [] step \in DOMAIN worker -> worker[step].at # "open"
      [] step = "close" -> \A s \in Slots : ~Unanswered(s)
      [] OTHER -> TRUE

\* The iteration the stop awaited was rejected, when it was waited for or before.
Rejects(step) == step \in DOMAIN worker /\ ~worker[step].settled

StopStep ==
    /\ Running /\ stopping # "no" /\ Returns(stopping)
    /\ \E i \in DOMAIN StopOrder :
         /\ StopOrder[i] = stopping
         /\ IF Rejects(stopping)
            THEN \* nothing catches the shutdown's promise: the process ends
                 /\ exit' = "crashed" /\ UNCHANGED <<worker, stopping>>
            ELSE IF i = Len(StopOrder) THEN exit' = "clean" /\ UNCHANGED <<worker, stopping>>
            ELSE Calls(StopOrder[i + 1]) /\ exit' = exit
    /\ IF exit' = "none" THEN UNCHANGED jobVars ELSE JobKilled(Self)
    /\ UNCHANGED <<serviceVars, clientVars, booted>>

-----------------------------------------------------------------------------
\* What runs meanwhile

Listening == Started("listen") /\ stopping \notin {"close", "tracing"}

\* A request arrives while the process listens; the configuration is reloaded on SIGHUP.
ServiceStep ==
    /\ Running /\ Started("server")
    /\ \/ Started("signals") /\ (Reload \/ ReadFile \/ Edit)
       \/ NextHour
       \/ Started("learning") /\ PlaybookMoves
       \/ \E s \in Slots :
            \/ Listening /\ Arrive(s)
            \/ CheckRateLimit(s) \/ CheckBudget(s) \/ ReadMedia(s) \/ Run(s) \/ Answers(s)
            \/ Fails(s) \/ LoseRace(s) \/ Throws(s) \/ Respond(s) \/ Finish(s)
    /\ UNCHANGED <<jobVars, clientVars, processVars>>

\* The job reads the configuration of now: without a learning block it is disabled.
Learns == Started("learning") /\ config.rules.learning /\ HasMark(config.tools, "funnel")

\* Runs of the command line are looked at from there on too.
JobStep ==
    /\ Running /\ Started("learning")
    /\ \/ \E c \in Movers : Writes(c) \/ Pays(c)
       \/ NextWeek
       \/ \E p \in Processes : (p = Self => Learns) /\ Tick(p)
       \/ \E forced \in BOOLEAN : RunNow(forced)
       \/ \E r \in DOMAIN runs : RunStep(r)
    /\ UNCHANGED <<serviceVars, clientVars, processVars>>

\* The outbox's iteration sends the contacts' replies; the flows run at ManyChat.
ClientStep ==
    /\ Running
    /\ \/ /\ worker["outbox"].at = "open" /\ left.sends > Len(sends)
          /\ \E c \in Subscribers, channel \in Channels, messages \in 1 .. 2 :
               sendText(c, channel, messages)
       \/ \E k \in DOMAIN sends : SendStep(k)
       \/ \E c \in Subscribers : Shows(c)
    /\ UNCHANGED <<serviceVars, jobVars, processVars>>

\* The instance is over: the process has ended, or has used what its bounds allow.
Over ==
    /\ ~Running \/ stopping = "no"
    /\ UNCHANGED vars

Init ==
    /\ ServiceInit /\ JobInit /\ ClientInit
    /\ \E b \in Bounds : left = b.service /\ may = b.job
    /\ booted = 0 /\ stopping = "no" /\ exit = "none"
    /\ worker = [w \in {"outbox", "nudges"} |->
                    [at |-> "unstarted", settled |-> TRUE, running |-> TRUE]]

Next ==
    \/ BootStep \/ BootFails
    \/ \E w \in DOMAIN worker : IterationEnds(w) \/ IterationFails(w) \/ Wakes(w)
    \/ Signal \/ StopStep \/ ServiceStep \/ JobStep \/ ClientStep \/ Over

Spec == Init /\ [][Next]_vars

-----------------------------------------------------------------------------
\* Properties

Open == {w \in DOMAIN worker : worker[w].at = "open"}

\* A process that exits 0 leaves nothing open: no caller waits, no row or nudge is in a worker's
\* hands, and no reply is half sent (main.ts: shutdown).
ExitsClean == exit = "clean" => Open = {} /\ ~Sending /\ \A s \in Slots : ~Unanswered(s)

\* A process that was told to stop ends without a batch in a worker's hands: each stop function
\* finishes the batch in flight.
StoppedIsDrained == stopping # "no" /\ ~Running => Open = {}

\* A process that was told to stop leaves none of its runs running.
StoppedIsRecorded ==
    stopping # "no" /\ ~Running => \A r \in DOMAIN runs : runs[r].by = Self => runs[r].status \in Ended

\* A turn runs under the configuration its handler was given.
SnapshotKept == \A s \in Slots : request[s].at = "model" => request[s].under[1] = request[s].given
=============================================================================
