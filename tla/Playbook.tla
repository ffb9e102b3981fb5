------------------------------ MODULE Playbook ------------------------------
(***************************************************************************)
(* The playbook of one tenant (src/learning/): the analyst's proposals are *)
(* approved, rejected and retired in review sessions (cli.ts, store.ts), a *)
(* version goes live by a command behind the eval gate (gate.ts), and each *)
(* server keeps the live version it last read (playbook.ts).               *)
(*                                                                         *)
(* Every session, command and server is a process of its own on the same   *)
(* database; one step is one statement.  A version is its insights: the    *)
(* content hash makes the same insights the same row.  Of the clock only   *)
(* the order of what it stamps is kept, in timeline.                       *)
(***************************************************************************)
EXTENDS Integers, Sequences, FiniteSets, SequencesExt

CONSTANTS Insights,       \* texts a proposal may hold or be edited to
          Proposed,       \* those a proposal is written with
          Reviewers, Commands, Servers,
          Starts,         \* the versions that may have been live before, the last one still
          Cases,          \* the asserted cases of the eval suite
          MaxInsights,    \* MAX_PLAYBOOK_INSIGHTS
          TooLong,        \* versions of more than MAX_PLAYBOOK_CHARS
          MaxVersions, MaxCommands, MaxEvals, MaxSuites, \* bounds of the instance
          MaxReads,       \* refreshes of a server that may overlap
          MaxFaults       \* reads that may fail and servers that may restart

ASSUME PlaybookAssumption ==
    /\ Proposed \subseteq Insights /\ Insights # {}
    /\ \A start \in Starts : start \in Seq(SeqOf(Insights, MaxInsights)) /\ IsInjective(start)
    /\ {MaxInsights, MaxVersions, MaxCommands, MaxEvals, MaxSuites, MaxReads, MaxFaults} \subseteq Nat

VARIABLES proposals,   \* each proposal's status; a proposal is known by the text it was written with
          text,        \* the text a proposal was approved with
          timeline,    \* versions created, and activated last, in the order of their time stamps
          active,      \* the rows marked active
          suite,       \* which version of the eval suite is checked in
          records,     \* eval records: the version, the suite and the cases that failed; the newest of a kind is read
          session,     \* where each review is
          command,     \* where each activation is
          commands,    \* activations begun
          evals,       \* runs of the suite that were recorded
          loaded,      \* the version each server renders into its prompts
          reads,       \* what a server's refreshes have read and not yet returned
          faults

reviewVars == <<proposals, text, session>>
gateVars == <<active, suite, records, command, commands, evals>>
serverVars == <<loaded, reads, faults>>
vars == <<reviewVars, timeline, gateVars, serverVars>>

Version == SeqOf(Insights, MaxInsights)
Event == [what : {"created", "activated"}, version : Version]
NoPlaybook == <<>>   \* the hash of the prompt with no playbook, no row has it unless all is retired

Session ==
    [at : {"away", "ask", "reject", "active", "newest", "create", "mark", "shown"},
     todo : SUBSET Insights, for : {"approve", "show", "retire"}, on : Insights, edit : Insights,
     older : SUBSET Version, saw : SUBSET Version, base : SUBSET Version, index : Nat]
Command ==
    [at : {"away", "active", "records", "clear", "lock", "set"}, candidate : Version,
     rollback : BOOLEAN, live : SUBSET Version, held : SUBSET Version]
Record == [version : Version, playbook : BOOLEAN, suite : 1..MaxSuites, failed : SUBSET Cases,
           newest : BOOLEAN]

-----------------------------------------------------------------------------
\* The versions table (store.ts)

Created(version) == [what |-> "created", version |-> version]
Activated(version) == [what |-> "activated", version |-> version]

Versions == {v \in Version : Contains(timeline, Created(v))}
WasActive == {v \in Versions : Contains(timeline, Activated(v))}
Position(event) == CHOOSE i \in DOMAIN timeline : timeline[i] = event

\* The rows a read of the active version finds created before it was activated.
OlderThan(live) ==
    {v \in Versions : \E a \in live : Position(Created(v)) < Position(Activated(a))}

Newest == {v \in Versions : \A w \in Versions : Position(Created(w)) <= Position(Created(v))}

\* LearningStore.reviewBase: the newest row, unless it is older than the active row's activation.
ReviewBase(saw, older) == IF Newest \subseteq older THEN saw ELSE Newest

InsightsOf(base) == IF base = {} THEN <<>> ELSE CHOOSE v \in base : TRUE

\* LearningStore.createVersion: the row there is, or a new one.
CreateVersion(version) ==
    timeline' = IF version \in Versions THEN timeline ELSE Append(timeline, Created(version))

-----------------------------------------------------------------------------
\* A review session (cli.ts review, store.ts approve, reject, retire)

Pending == {p \in Proposed : proposals[p] = "pending"}

Away == [at |-> "away", todo |-> {}, for |-> "show", on |-> CHOOSE p \in Insights : TRUE,
         edit |-> CHOOSE p \in Insights : TRUE, older |-> {}, saw |-> {}, base |-> {}, index |-> 0]

\* What a step needs no more is forgotten: it goes on from Away.
Goes(r, to) == session' = [session EXCEPT ![r] = to]

\* A run of the learning job stores a proposal.
Propose(p) ==
    /\ proposals[p] = "none"
    /\ proposals' = [proposals EXCEPT ![p] = "pending"]
    /\ UNCHANGED <<text, session, timeline, gateVars, serverVars>>

Open(r) ==
    /\ session[r].at = "away"
    /\ Goes(r, [Away EXCEPT !.at = "ask", !.todo = Pending])
    /\ UNCHANGED <<proposals, text, timeline, gateVars, serverVars>>

Skip(r) == \E p \in session[r].todo :
    /\ session[r].at = "ask"
    /\ Goes(r, [session[r] EXCEPT !.todo = @ \ {p}])
    /\ UNCHANGED <<proposals, text, timeline, gateVars, serverVars>>

\* The proposal is read again; one no longer pending, or a text refused, is asked about again.
Answer(r) == \E p \in session[r].todo \cap Pending :
    /\ session[r].at = "ask"
    /\ \/ \E edit \in Insights :
            Goes(r, [session[r] EXCEPT !.at = "active", !.for = "approve", !.on = p, !.edit = edit])
       \/ Goes(r, [session[r] EXCEPT !.at = "reject", !.on = p])
    /\ UNCHANGED <<proposals, text, timeline, gateVars, serverVars>>

\* The proposal is dealt with.
Asked(r) == Goes(r, [Away EXCEPT !.at = "ask", !.todo = session[r].todo \ {session[r].on}])

Reject(r) ==
    /\ session[r].at = "reject"
    /\ proposals' = [proposals EXCEPT ![session[r].on] = "rejected"]
    /\ Asked(r)
    /\ UNCHANGED <<text, timeline, gateVars, serverVars>>

\* No proposal is left, so the playbook under review is read and shown.
Answered(r) ==
    /\ session[r].at = "ask" /\ session[r].todo = {}
    /\ Goes(r, [Away EXCEPT !.at = "active"])
    /\ UNCHANGED <<proposals, text, timeline, gateVars, serverVars>>

ReadActive(r) ==
    /\ session[r].at = "active"
    /\ Goes(r, [session[r] EXCEPT !.at = "newest", !.saw = active, !.older = OlderThan(active)])
    /\ UNCHANGED <<proposals, text, timeline, gateVars, serverVars>>

ReadNewest(r) ==
    LET s == session[r]
        base == ReviewBase(s.saw, s.older)
        size == Len(InsightsOf(base))
        creates == [s EXCEPT !.at = "create", !.saw = {}, !.older = {}, !.base = base]
    IN /\ s.at = "newest"
       /\ \/ s.for = "approve" /\ Goes(r, creates)
          \/ s.for = "show" /\ size > 0 /\ Goes(r, [Away EXCEPT !.at = "shown", !.base = base])
          \/ s.for = "show" /\ size = 0 /\ Goes(r, Away)
          \/ s.for = "retire" /\ s.index <= size /\ Goes(r, creates)
          \/ s.for = "retire" /\ s.index > size /\ Goes(r, [Away EXCEPT !.at = "active"])
       /\ UNCHANGED <<proposals, text, timeline, gateVars, serverVars>>

\* The number answers the list shown; the base is read again before it is applied.  A number that
\* is not on the list is refused, and an answer that is none retires nothing.
Retire(r) ==
    /\ session[r].at = "shown"
    /\ \/ \E i \in DOMAIN InsightsOf(session[r].base) :
            Goes(r, [session[r] EXCEPT !.at = "active", !.for = "retire", !.index = i])
       \/ Goes(r, [Away EXCEPT !.at = "active"])
    /\ UNCHANGED <<proposals, text, timeline, gateVars, serverVars>>

Close(r) ==
    /\ session[r].at = "shown"
    /\ Goes(r, Away)
    /\ UNCHANGED <<proposals, text, timeline, gateVars, serverVars>>

\* The insights the change makes of the base that was read.
Changed(r) ==
    LET insights == InsightsOf(session[r].base)
    IN IF session[r].for = "approve" THEN Append(insights, session[r].edit)
       ELSE RemoveAt(insights, session[r].index)

\* A version over a bound is a ReviewError, and asked about again.
playbookRefusal(version) == Len(version) > MaxInsights \/ version \in TooLong

Create(r) ==
    LET s == session[r]
    IN /\ s.at = "create"
       /\ IF playbookRefusal(Changed(r))
          THEN Goes(r, [Away EXCEPT !.at = "ask", !.todo = s.todo]) /\ UNCHANGED timeline
          ELSE /\ Cardinality(Versions \union {Changed(r)}) <= MaxVersions
               /\ CreateVersion(Changed(r))
               /\ Goes(r, IF s.for = "approve" THEN [s EXCEPT !.at = "mark", !.base = {}]
                          ELSE [s EXCEPT !.at = "active", !.for = "show"])
       /\ UNCHANGED <<proposals, text, gateVars, serverVars>>

\* Mutant: the proposal is marked with the text it was written with.
MarkUnedited(r) ==
    /\ session[r].at = "mark"
    /\ proposals' = [proposals EXCEPT ![session[r].on] = "approved"]
    /\ Asked(r)
    /\ UNCHANGED <<text, timeline, gateVars, serverVars>>

\* The update is by the proposal's id, whatever its status has become.
MarkApproved(r) ==
    /\ session[r].at = "mark"
    /\ proposals' = [proposals EXCEPT ![session[r].on] = "approved"]
    /\ text' = [text EXCEPT ![session[r].on] = session[r].edit]
    /\ Asked(r)
    /\ UNCHANGED <<timeline, gateVars, serverVars>>

\* The terminal is closed, or a statement fails, between two statements.
Quit(r) ==
    /\ session[r].at # "away"
    /\ Goes(r, Away)
    /\ UNCHANGED <<proposals, text, timeline, gateVars, serverVars>>

Review(r) ==
    \/ Open(r) \/ Skip(r) \/ Answer(r) \/ Reject(r) \/ Answered(r) \/ ReadActive(r) \/ ReadNewest(r)
    \/ Retire(r) \/ Close(r) \/ Create(r) \/ MarkApproved(r) \/ Quit(r)

-----------------------------------------------------------------------------
\* The eval suite and its records (evals/runner.ts)

ChangeSuite ==
    /\ suite < MaxSuites
    /\ suite' = suite + 1
    /\ UNCHANGED <<reviewVars, timeline, active, records, command, commands, evals, serverVars>>

\* A real model's run of the suite with a version in the prompt, or with none.  A mock model's
\* run writes no record.
Eval == \E failed \in SUBSET Cases, base \in {{}} \union {{v} : v \in Versions} :
    LET k == [version |-> InsightsOf(base), playbook |-> base # {}, suite |-> suite,
              failed |-> failed, newest |-> TRUE]
        Replaces(old) == [k EXCEPT !.failed = old.failed] = old
    IN /\ evals < MaxEvals
       /\ evals' = evals + 1
       /\ records' = {IF Replaces(old) THEN [old EXCEPT !.newest = FALSE] ELSE old : old \in records}
                      \union {k}
       /\ UNCHANGED <<reviewVars, timeline, active, suite, command, commands, serverVars>>

\* The newest record of a version, or of the prompt with no playbook, for the current suite.
Latest(base) ==
    {k \in records : k.newest /\ k.suite = suite /\ k.version = InsightsOf(base) /\ k.playbook = (base # {})}

\* Mutant: every version is compared with the prompt that has no playbook.
NoRegressionAtAll(own, baseline) == own # {} /\ baseline # {}

\* No case fails that does not fail under the baseline.
NoRegression(own, baseline) ==
    \E k \in own, b \in baseline : k.failed \subseteq b.failed

-----------------------------------------------------------------------------
\* insights:activate (cli.ts activate, gate.ts, store.ts activate)

Idle == [at |-> "away", candidate |-> NoPlaybook, rollback |-> FALSE, live |-> {}, held |-> {}]
Moves(c, to) == command' = [command EXCEPT ![c] = to]
Ends(c) == Moves(c, Idle)

FindVersion(c) == \E v \in Versions \ active :
    /\ command[c].at = "away" /\ commands < MaxCommands
    /\ commands' = commands + 1
    /\ Moves(c, [Idle EXCEPT !.at = "active", !.candidate = v, !.rollback = v \in WasActive])
    /\ UNCHANGED <<reviewVars, timeline, active, suite, records, evals, serverVars>>

ReadLive(c) ==
    /\ command[c].at = "active"
    /\ Moves(c, [command[c] EXCEPT !.at = "records", !.live = active])
    /\ UNCHANGED <<reviewVars, timeline, active, suite, records, commands, evals, serverVars>>

\* activationGate: a version that was live before is a rollback, and skips the records.
ActivationGate(c) ==
    \/ command[c].rollback
    \/ NoRegression(Latest({command[c].candidate}), Latest(command[c].live))

Gate(c) ==
    /\ command[c].at = "records"
    /\ IF ActivationGate(c) THEN Moves(c, [command[c] EXCEPT !.at = "clear"]) ELSE Ends(c)
    /\ UNCHANGED <<reviewVars, timeline, active, suite, records, commands, evals, serverVars>>

\* The transaction's first update finds the active rows as they are when it starts ...
Clear(c) ==
    /\ command[c].at = "clear"
    /\ Moves(c, [command[c] EXCEPT !.at = "lock", !.held = active])
    /\ UNCHANGED <<reviewVars, timeline, active, suite, records, commands, evals, serverVars>>

\* ... waits for another transaction's lock on them, and keeps those still active.
Lock(c) ==
    /\ command[c].at = "lock"
    /\ \A d \in Commands : command[d].at = "set" => command[d].held \cap command[c].held = {}
    /\ Moves(c, [command[c] EXCEPT !.at = "set", !.held = @ \cap active])
    /\ UNCHANGED <<reviewVars, timeline, active, suite, records, commands, evals, serverVars>>

\* The version's activated_at is written over.
ActivatedLast(version) ==
    LET now == Activated(version)
    IN Append(IF version \in WasActive THEN RemoveAt(timeline, Position(now)) ELSE timeline, now)

\* The second update and the commit, or the unique index's refusal and the rollback.
Set(c) ==
    LET rows == (active \ command[c].held) \union {command[c].candidate}
    IN /\ command[c].at = "set"
       /\ Ends(c)
       /\ IF Cardinality(rows) > 1 THEN UNCHANGED <<timeline, active>>
          ELSE /\ active' = rows
               /\ timeline' = ActivatedLast(command[c].candidate)
       /\ UNCHANGED <<reviewVars, suite, records, commands, evals, serverVars>>

\* The command dies, and its transaction with it.
Abort(c) ==
    /\ command[c].at # "away"
    /\ Ends(c)
    /\ UNCHANGED <<reviewVars, timeline, active, suite, records, commands, evals, serverVars>>

Activate(c) ==
    \/ FindVersion(c) \/ ReadLive(c) \/ Gate(c) \/ Clear(c) \/ Lock(c) \/ Set(c) \/ Abort(c)

-----------------------------------------------------------------------------
\* A server's copy (playbook.ts PlaybookSource): the timer's refreshes may overlap

Refresh(s) ==
    /\ Cardinality(reads[s]) < MaxReads
    /\ reads' = [reads EXCEPT ![s] = @ \union {active}]
    /\ UNCHANGED <<reviewVars, timeline, gateVars, loaded, faults>>

\* Mutant: a version is loaded once.
RefreshedOnce(s) == \E live \in reads[s] :
    /\ reads' = [reads EXCEPT ![s] = @ \ {live}]
    /\ loaded' = [loaded EXCEPT ![s] = IF @ = {} THEN live ELSE @]
    /\ UNCHANGED <<reviewVars, timeline, gateVars, faults>>

Refreshed(s) == \E live \in reads[s] :
    /\ reads' = [reads EXCEPT ![s] = @ \ {live}]
    /\ loaded' = [loaded EXCEPT ![s] = live]
    /\ UNCHANGED <<reviewVars, timeline, gateVars, faults>>

\* A failed refresh keeps the version already loaded.
RefreshFails(s) == \E live \in reads[s] :
    /\ faults < MaxFaults
    /\ faults' = faults + 1
    /\ reads' = [reads EXCEPT ![s] = @ \ {live}]
    /\ UNCHANGED <<reviewVars, timeline, gateVars, loaded>>

\* A server starts with no playbook until its first refresh.
Restart(s) ==
    /\ faults < MaxFaults
    /\ faults' = faults + 1
    /\ reads' = [reads EXCEPT ![s] = {}]
    /\ loaded' = [loaded EXCEPT ![s] = {}]
    /\ UNCHANGED <<reviewVars, timeline, gateVars>>

Serve(s) == Refresh(s) \/ Refreshed(s) \/ RefreshFails(s) \/ Restart(s)

-----------------------------------------------------------------------------
\* What the versions that were live before have left, each evaluated against the first suite
\* as the prompt with no playbook was.
Started(start, failed) ==
    /\ timeline = [i \in 1..(2 * Len(start)) |->
                     IF i % 2 = 1 THEN Created(start[(i + 1) \div 2]) ELSE Activated(start[i \div 2])]
    /\ active = IF start = <<>> THEN {} ELSE {Last(start)}
    /\ records = {[version |-> v, playbook |-> v # NoPlaybook, suite |-> 1, failed |-> failed, newest |-> TRUE] :
                     v \in Range(start) \union {NoPlaybook}}
    /\ loaded = [s \in Servers |-> active]

Init ==
    /\ \E start \in Starts, failed \in SUBSET Cases : Started(start, failed)
    /\ proposals \in [Proposed -> {"none", "rejected"}]
    /\ text = [p \in Proposed |-> p]
    /\ suite \in 1..MaxSuites
    /\ session = [r \in Reviewers |-> Away]
    /\ command = [c \in Commands |-> Idle]
    /\ commands \in 0..MaxCommands /\ evals \in 0..MaxEvals
    /\ reads = [s \in Servers |-> {}]
    /\ faults \in 0..MaxFaults

Next ==
    \/ \E p \in Proposed : Propose(p)
    \/ \E r \in Reviewers : Review(r)
    \/ \E c \in Commands : Activate(c)
    \/ \E s \in Servers : Serve(s)
    \/ Eval \/ ChangeSuite

Spec == Init /\ [][Next]_vars

\* A server's timer goes on and its reads return.
Fairness == \A s \in Servers : WF_vars(Refresh(s)) /\ WF_vars(Refreshed(s))

FairSpec == Spec /\ Fairness

-----------------------------------------------------------------------------
\* Properties

\* One version is live at a time, whatever commands run at once (db/schema.ts, the partial
\* unique index; LearningStore.activate).
TypeOK ==
    /\ proposals \in [Proposed -> {"none", "pending", "approved", "rejected"}]
    /\ text \in [Proposed -> Insights]
    /\ timeline \in Seq(Event) /\ IsInjective(timeline)
    /\ active \subseteq WasActive /\ Cardinality(active) <= 1
    /\ suite \in 1..MaxSuites /\ records \subseteq Record
    /\ session \in [Reviewers -> Session] /\ command \in [Commands -> Command]
    /\ commands \in 0..MaxCommands /\ evals \in 0..MaxEvals /\ faults \in 0..MaxFaults
    /\ loaded \in [Servers -> SUBSET Version] /\ reads \in [Servers -> SUBSET SUBSET Version]

\* An approval is never lost: the text a proposal was approved with, edited or not, is in a
\* version somebody can activate, whatever sessions run at once or are closed half way.
ApprovedIsInAVersion ==
    \A p \in Proposed : proposals[p] = "approved" => \E v \in Versions : Contains(v, text[p])

\* A version goes live for the first time only if it was evaluated, against one suite with what its
\* command read as live, and failed no case that passed: also when the suite, the records or the
\* live version changed between that read and the swap (gate.ts, activationGate).
GoesLiveEvaluated ==
    [][\A v \in active' \ WasActive : \E c \in Commands : \E own, base \in records :
          /\ command[c].at = "set" /\ command[c].candidate = v /\ command[c].live \subseteq WasActive
          /\ own.playbook /\ own.version = v /\ own.suite = base.suite /\ own.failed \subseteq base.failed
          /\ base.playbook = (command[c].live # {}) /\ base.version = InsightsOf(command[c].live)]_vars

\* Every server ends up with the live version, although a slow refresh may bring an older one
\* back for a while (playbook.ts, refresh).
ServersFollow == <>[](\A s \in Servers : loaded[s] = active)

\* What a review shows after a retirement is the playbook with that insight retired: the
\* change a review makes is what its next change is applied to (store.ts, reviewBase).
RetiredStaysOut ==
    [][\A r \in Reviewers :
          (session[r].at = "newest" /\ session[r].index # 0 /\ session[r].for = "show" /\ session'[r].at = "shown")
          => InsightsOf(session'[r].base) = RemoveAt(InsightsOf(session[r].base), session[r].index)]_vars

=============================================================================
