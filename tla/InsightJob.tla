----------------------------- MODULE InsightJob -----------------------------
(***************************************************************************)
(* The weekly learning job (src/learning/job.ts, cohort.ts, analyst.ts,    *)
(* proposals.ts): each process checks every hour whether the week's run is *)
(* still to claim, and a person may run or force one from the command      *)
(* line.  A run reads its cohort one contact at a time while the contacts  *)
(* go on writing and paying, fits the transcripts to what it may cost, and *)
(* stores the proposals that cite what the analyst was shown.              *)
(*                                                                         *)
(* What becomes of a proposal is in Playbook, the process that stops a run *)
(* in Process.                                                             *)
(***************************************************************************)
EXTENDS Integers, Sequences, FiniteSets

CONSTANTS Processes,           \* server processes, each with a timer
          Contacts,            \* the tenant's contacts, numbered from the newest last turn
          Movers,              \* those of them who write or pay meanwhile: a bound of the instance
          Beginnings,          \* what the contacts have done as the instance starts
          MIN_PER_SIDE, MAX_PER_SIDE, MAX_PROPOSALS_PER_RUN,
          OutputCost,          \* the price of the whole output limit, in transcripts
          MaxRunCost,          \* learning.maxRunCostUsd, in transcripts
          Outputs              \* what the analyst may propose: sequences of proposals

ASSUME InsightAssumption ==
    /\ {MIN_PER_SIDE, MAX_PER_SIDE, MAX_PROPOSALS_PER_RUN} \subseteq Nat \ {0}
    /\ {OutputCost, MaxRunCost} \subseteq Nat
    /\ IsFiniteSet(Processes) /\ Contacts \subseteq Nat /\ IsFiniteSet(Contacts)
    /\ Beginnings \subseteq [Contacts -> [offered : BOOLEAN, settled : BOOLEAN, paid : BOOLEAN]]

VARIABLES runs,       \* learning_runs, and where the process that claimed each has come to
          inFlight,   \* the run each process's stop would wait for: job.ts's inFlight; 0 is none
          aborted,    \* the processes whose stop has been called
          week,       \* the ISO week
          contact,    \* what each contact has done
          proposals,  \* insight_proposals
          may         \* runs, weeks, moves and faults still to come: the bounds of the instance

jobVars == <<runs, inFlight, aborted, week, contact, proposals, may>>

Ended == {"completed", "insufficient", "skipped_budget", "failed"}

\* A person's command runs no timer and is never stopped.
Cli == "cli"

\* The turns a transcript is made of: bound, and not superseded.
ReadableTurn(c) == <<c, "read">>
transcriptTurns(cs) == {ReadableTurn(c) : c \in cs}

-----------------------------------------------------------------------------
\* The contacts

Uses(bound) == may[bound] > 0 /\ may' = [may EXCEPT ![bound] = @ - 1]

\* The contact writes again: the last turn is no longer settled.
Writes(c) ==
    /\ contact[c].settled /\ Uses("moves")
    /\ contact' = [contact EXCEPT ![c].settled = FALSE]
    /\ UNCHANGED <<runs, inFlight, aborted, week, proposals>>

Pays(c) ==
    /\ ~contact[c].paid /\ Uses("moves")
    /\ contact' = [contact EXCEPT ![c].paid = TRUE]
    /\ UNCHANGED <<runs, inFlight, aborted, week, proposals>>

NextWeek ==
    /\ Uses("weeks")
    /\ week' = week + 1
    /\ UNCHANGED <<runs, inFlight, aborted, contact, proposals>>

-----------------------------------------------------------------------------
\* Claiming

\* The contacts of each label.
Nobody == [converted |-> {}, not_converted |-> {}]

\* "status" and "recorded" (the cost) are the row's; "at" is where its process is; "unread" is who
\* of the cohort is left to read, "heard" who was labelled what, "input" what the analyst is sent,
\* "due" the status on its way to the row, "paidBefore" who had paid when the run was claimed.
Claimed(by, forced) ==
    [by |-> by, week |-> week, forced |-> forced, status |-> "running", recorded |-> 0,
     at |-> "cohort", unread |-> {}, heard |-> Nobody, input |-> Nobody, output |-> <<>>,
     due |-> "none", cost |-> 0, paid |-> 0,
     paidBefore |-> {c \in Contacts : contact[c].paid}]

\* Mutant: the claim is of the process's own runs.
TakenByMe(by) == \E i \in DOMAIN runs : runs[i].week = week /\ ~runs[i].forced /\ runs[i].by = by

\* The unique index: an unforced run of the week exists.
Taken(by) == \E i \in DOMAIN runs : runs[i].week = week /\ ~runs[i].forced

claimRun(by, forced) ==
    IF ~forced /\ Taken(by) THEN UNCHANGED <<runs, may>>
    ELSE Uses("runs") /\ runs' = Append(runs, Claimed(by, forced))

\* The timer: the promise the stop waits for is replaced, whether the week was claimed or not.
Tick(p) ==
    /\ p \notin aborted
    /\ claimRun(p, FALSE)
    /\ inFlight' = [inFlight EXCEPT ![p] = IF runs' = runs THEN 0 ELSE Len(runs')]
    /\ UNCHANGED <<aborted, week, contact, proposals>>

RunNow(forced) ==
    /\ claimRun(Cli, forced)
    /\ UNCHANGED <<inFlight, aborted, week, contact, proposals>>

-----------------------------------------------------------------------------
\* A run

InRun(r, place) == runs[r].status = "running" /\ runs[r].at = place
Changed(run, changes) ==
    [name \in DOMAIN run |-> IF name \in DOMAIN changes THEN changes[name] ELSE run[name]]
Advances(r, changes) == runs' = [runs EXCEPT ![r] = Changed(@, changes)]
RunOnly == UNCHANGED <<inFlight, aborted, week, contact, proposals>>
Stopped(r) == runs[r].by \in aborted
Fault == Uses("faults")

\* Offered in the window, and settled.
findCohort(r) ==
    /\ InRun(r, "cohort")
    /\ Advances(r, [unread |-> {c \in Contacts : contact[c].offered /\ contact[c].settled},
                    at |-> "labels"])
    /\ UNCHANGED may /\ RunOnly

Heard(r, c, label) == [runs[r].heard EXCEPT ![label] = @ \union {c}]

\* Mutant: a contact whose read fails has no tag.
ReadFailsUntagged(r, c) == [unread |-> runs[r].unread \ {c}, heard |-> Heard(r, c, "not_converted")]

\* A read that fails drops the contact; a stopped one ends the run.
ReadFails(r, c) == [unread |-> runs[r].unread \ {c}]

labelCohort(r) ==
    /\ InRun(r, "labels")
    /\ \E c \in runs[r].unread :
         LET label == IF contact[c].paid THEN "converted" ELSE "not_converted"
         IN  /\ \A d \in runs[r].unread : c <= d
             /\ IF Stopped(r) THEN Advances(r, [at |-> "failing"]) /\ UNCHANGED may
                ELSE \/ /\ Advances(r, [unread |-> runs[r].unread \ {c}, heard |-> Heard(r, c, label)])
                        /\ UNCHANGED may
                     \/ Advances(r, ReadFails(r, c)) /\ Fault
    /\ RunOnly

\* The newest of a side.
Newest(side) == {c \in side : Cardinality({d \in side : d < c}) < MAX_PER_SIDE}
Enough(input) == \A label \in DOMAIN input : Cardinality(input[label]) >= MIN_PER_SIDE

Size(input) == Cardinality(input.converted) + Cardinality(input.not_converted)
worstCaseUsd(input) == Size(input) + OutputCost

\* The k-th candidate: the oldest of each side dropped in turn, the converted side first.
Candidate(input, k) ==
    LET dropped(side, n) == {c \in side : Cardinality({d \in side : d > c}) >= n}
    IN  [converted |-> dropped(input.converted, (k + 1) \div 2),
         not_converted |-> dropped(input.not_converted, k \div 2)]

\* It fits, and no candidate before it had too few.
Fits(input, k) == /\ worstCaseUsd(Candidate(input, k)) <= MaxRunCost
                  /\ \A j \in 0 .. k : Enough(Candidate(input, j))

\* The first candidate that fits, or none.
fitToBudget(input) ==
    LET drops == {k \in 0 .. Size(input) : Fits(input, k)}
    IN  IF drops = {} THEN <<>>
        ELSE <<Candidate(input, CHOOSE k \in drops : \A j \in drops : k <= j)>>

\* The sides are counted, then cut to size and to what the call may cost.
Chooses(r) ==
    /\ InRun(r, "labels") /\ runs[r].unread = {}
    /\ LET all == runs[r].heard
           fit == fitToBudget([label \in DOMAIN all |-> Newest(all[label])])
       IN  Advances(r, IF ~Enough(all) THEN [at |-> "finish", due |-> "insufficient"]
                   ELSE IF fit = <<>> THEN [at |-> "finish", due |-> "skipped_budget"]
                   ELSE [at |-> "analyst", input |-> fit[1]])
    /\ UNCHANGED may /\ RunOnly

\* An answer is paid for, valid or not; a call that fails, or that a stop aborts, is not.
propose(r) ==
    /\ InRun(r, "analyst")
    /\ LET cost == worstCaseUsd(runs[r].input)
       IN  \/ \E output \in Outputs :
                Advances(r, [at |-> "accept", output |-> output, cost |-> cost, paid |-> cost])
           \/ Advances(r, [at |-> "finish", due |-> "failed", cost |-> cost, paid |-> cost])
           \/ Advances(r, [at |-> "finish", due |-> "failed"])
    /\ UNCHANGED may /\ RunOnly

\* Mutant: what is known is every contact that was labelled.
knownTurnsOfHeard(run) == transcriptTurns(run.heard.converted \union run.heard.not_converted)

\* The turns the analyst was shown.
knownTurns(run) == transcriptTurns(run.input.converted \union run.input.not_converted)

\* Those that pass the refusals, the analyst's first up to the cap.
acceptProposals(run) ==
    LET passing == {i \in DOMAIN run.output : /\ run.output[i].tactic
                                              /\ run.output[i].turnIds \subseteq knownTurns(run)}
    IN  {i \in passing : Cardinality({j \in passing : j < i}) < MAX_PROPOSALS_PER_RUN}

\* One insert holds them all.
addProposals(r) ==
    /\ InRun(r, "accept")
    /\ proposals' = proposals \union
            {[run |-> r, nth |-> i, turnIds |-> runs[r].output[i].turnIds] :
                i \in acceptProposals(runs[r])}
    /\ Advances(r, [at |-> "finish", due |-> "completed", output |-> <<>>])
    /\ UNCHANGED <<inFlight, aborted, week, contact, may>>

\* What was heard is forgotten with the run.
Ends(r, status, cost) ==
    Advances(r, [status |-> status, recorded |-> cost, at |-> "done", unread |-> {},
                 heard |-> Nobody, due |-> "none", cost |-> 0])

\* The row, with what the call cost.
finishRun(r) ==
    /\ InRun(r, "finish")
    /\ Ends(r, runs[r].due, runs[r].cost)
    /\ UNCHANGED may /\ RunOnly

\* A statement fails: the run is to be recorded as failed.
StatementFails(r) ==
    /\ runs[r].at \in {"cohort", "labels", "accept", "finish"} /\ InRun(r, runs[r].at)
    /\ runs[r].at = "labels" => runs[r].unread = {}
    /\ Fault
    /\ Advances(r, [at |-> "failing"])
    /\ RunOnly

\* The catch: failed, with no counts and no cost.
RecordsFailed(r) ==
    /\ InRun(r, "failing")
    /\ Ends(r, "failed", 0)
    /\ UNCHANGED may /\ RunOnly

\* Not even that is written: the row stays running.
NeverRecorded(r) ==
    /\ InRun(r, "failing") /\ Fault
    /\ Ends(r, "running", 0)
    /\ RunOnly

-----------------------------------------------------------------------------
\* Stopping

\* The stop aborts the reads and the call, and waits for inFlight.
StopJob(p) ==
    /\ p \notin aborted
    /\ aborted' = aborted \union {p}
    /\ UNCHANGED <<runs, inFlight, week, contact, proposals, may>>

StopReturns(p) == p \in aborted /\ (inFlight[p] # 0 => runs[inFlight[p]].at = "done")

\* The process is gone, and with it the runs it was in.
JobKilled(p) ==
    /\ runs' = [r \in DOMAIN runs |-> IF runs[r].by = p THEN [runs[r] EXCEPT !.at = "done"]
                                      ELSE runs[r]]
    /\ inFlight' = [inFlight EXCEPT ![p] = 0]
    /\ aborted' = aborted \union {p}
    /\ UNCHANGED <<week, contact, proposals, may>>

-----------------------------------------------------------------------------

JobInit ==
    /\ runs = <<>> /\ inFlight = [p \in Processes |-> 0] /\ aborted = {} /\ week = 1
    /\ contact \in Beginnings
    /\ proposals = {}

RunStep(r) ==
    \/ findCohort(r) \/ labelCohort(r) \/ Chooses(r) \/ propose(r) \/ addProposals(r)
    \/ finishRun(r) \/ StatementFails(r) \/ RecordsFailed(r) \/ NeverRecorded(r)

-----------------------------------------------------------------------------
\* Properties

\* Only the command line's --force runs a week twice, whichever processes and people ask, and
\* whatever became of the first run (store.ts: claimRun, learning_runs_week_uq).
OneRunAWeek ==
    \A i, j \in DOMAIN runs : i # j /\ runs[i].week = runs[j].week => runs[i].forced \/ runs[j].forced

\* Every stored proposal cites only turns the analyst read: of the contacts whose transcripts were
\* left after the cut, and never a turn the contact did not get (proposals.ts: proposalRefusal).
Grounded ==
    \A p \in proposals :
        p.turnIds \subseteq UNION {{ReadableTurn(c) : c \in runs[p.run].input[label]} :
                                     label \in {"converted", "not_converted"}}

\* A contact is taken for one who did not convert only if the tag was looked for and was missing:
\* never one who had paid before the run, whose read failed (cohort.ts: labelCohort).
LabelsAreReadings ==
    \A r \in DOMAIN runs :
        /\ runs[r].input.not_converted \intersect runs[r].paidBefore = {}
        /\ \A c \in runs[r].input.converted : contact[c].paid

\* A run that ended has the cost of its call on its row (specs/031).
PaidIsRecorded == \A r \in DOMAIN runs : runs[r].status \in Ended => runs[r].recorded = runs[r].paid
=============================================================================
