---------------------------- MODULE ContactTokens ----------------------------
(***************************************************************************)
(* A contact's token (src/conversation/tokens.ts): what the conversation   *)
(* holds the hashes of, what the contact's ManyChat field holds, the       *)
(* writes between the two, and their retries through the outbox.           *)
(*                                                                         *)
(* Every token is fresh and random, so all that matters of one is which of *)
(* the conversation's hashes it matches: the current one, the previous     *)
(* one, or neither any more ("old").  Issuing and replacing relabel what   *)
(* is held and in flight.  The retry jobs are those of the current         *)
(* generation and of the one before it.  Time passes in ticks.             *)
(***************************************************************************)
EXTENDS Integers, FiniteSets

CONSTANTS Requests,     \* requests that name the contact, at one time
          Callers,      \* "contact": with what their field holds; "other": with nothing
          ReissueAfter, \* REISSUE_AFTER_MS in ticks
          RetryDelay,   \* TOKEN_RETRY_DELAY_MS in ticks
          WriteTimeout, \* the client's bound on a write, in ticks
          Backoff,      \* ticks a failed retry waits
          MaxAttempts,  \* MAX_ATTEMPTS of the outbox
          MaxFaults     \* what may go wrong

ASSUME TokensAssumption ==
    /\ Callers \subseteq {"contact", "other"}
    /\ {ReissueAfter, RetryDelay, WriteTimeout, Backoff, MaxAttempts, MaxFaults} \subseteq Nat
    /\ WriteTimeout < RetryDelay /\ RetryDelay < ReissueAfter /\ MaxAttempts > 0

VARIABLES issued,  \* the conversation has a token's hash
          age,     \* ticks since tokenIssuedAt, up to the hour that matters
          field,   \* the token in the contact's field
          write,   \* the issuing turn's write, in flight
          late,    \* tokens whose write was given up and may still land
          job,     \* the retry of the current generation's write, and of the one before
          worker,  \* the job the outbox's worker is at, where, and its write
          request, \* each request: where it is and the token it carries
          faults,
          unsure   \* a write may have landed that was taken for failed

vars == <<issued, age, field, write, late, job, worker, request, faults, unsure>>

Token == {"none", "current", "previous", "old"}
Generation == {"current", "earlier"}
Write == [token : Token, left : 0..WriteTimeout]
NoWrite == [token |-> "none", left |-> 0]
NoJob == [status |-> "absent", due |-> 0, attempts |-> 0]
AtRest == [job |-> "none", step |-> "rest", write |-> NoWrite]

TypeOK ==
    /\ issued \in BOOLEAN /\ unsure \in BOOLEAN
    /\ age \in 0..ReissueAfter
    /\ field \in Token /\ late \subseteq Token \ {"none"}
    /\ write \in Write
    /\ job \in [Generation -> [status : {"absent", "pending", "delivering", "delivered", "failed"},
                               due : Nat, attempts : 0..MaxAttempts]]
    /\ worker \in [job : Generation \union {"none"},
                   step : {"rest", "claimed", "writing", "superseded"}, write : Write]
    /\ request \in [Requests -> [pc : {"away", "sent", "admitted"}, carries : Token,
                                 binding : {"none", "first", "bound", "unbound"}]]
    /\ faults \in 0..MaxFaults

Init ==
    /\ issued = FALSE
    /\ age = ReissueAfter
    /\ field = "none"
    /\ write = NoWrite
    /\ late = {}
    /\ job = [g \in Generation |-> NoJob]
    /\ worker = AtRest
    /\ request = [r \in Requests |-> [pc |-> "away", carries |-> "none", binding |-> "none"]]
    /\ faults = 0
    /\ unsure = FALSE

-----------------------------------------------------------------------------
\* Tokens and what matches them

Binds(token) == token \in {"current", "previous"}

\* bindingFor
BindingFor(token) ==
    IF ~issued THEN "first" ELSE IF Binds(token) THEN "bound" ELSE "unbound"

\* The current token becomes the previous one.
OnIssue(token) ==
    CASE token = "current" -> "previous" [] token = "none" -> "none" [] OTHER -> "old"

\* Mutant: a replaced token becomes the previous one too, in place of what the field holds.
ReplaceShifts(token) ==
    CASE token = "current" -> "previous" [] token = "none" -> "none" [] OTHER -> "old"

\* The current token is replaced, and the previous one left alone.
OnReplace(token) == IF token = "current" THEN "old" ELSE token

Carried(Relabel(_)) ==
    [r \in Requests |-> [request[r] EXCEPT !.carries = Relabel(@)]]

-----------------------------------------------------------------------------
\* Requests (src/turn/admission.ts)

Send(r) ==
    /\ request[r].pc = "away"
    /\ \E who \in Callers :
          request' = [request EXCEPT ![r] =
              [pc |-> "sent", carries |-> IF who = "contact" THEN field ELSE "none",
               binding |-> "none"]]
    /\ UNCHANGED <<issued, age, field, write, late, job, worker, faults, unsure>>

\* The token state is read; only a request that is bound is done with it.
Admit(r) ==
    /\ request[r].pc = "sent"
    /\ LET binding == BindingFor(request[r].carries) IN
       request' = [request EXCEPT ![r] =
           [pc |-> IF binding = "bound" THEN "away" ELSE "admitted",
            carries |-> IF binding = "bound" THEN "none" ELSE @.carries, binding |-> binding]]
    /\ UNCHANGED <<issued, age, field, write, late, job, worker, faults, unsure>>

\* Mutant: a contact is issued a token once.
DueOnce == ~issued

Due == ~issued \/ age = ReissueAfter

\* Mutant: the retry may run at once.
FreshJobNow == [status |-> "pending", due |-> 0, attempts |-> 0]

FreshJob == [status |-> "pending", due |-> RetryDelay, attempts |-> 0]

\* ContactTokens.issue: one transaction, then the write starts.
Issues(r) ==
    /\ Due
    /\ issued' = TRUE
    /\ age' = 0
    /\ field' = OnIssue(field)
    /\ write' = [token |-> "current", left |-> WriteTimeout]
    /\ late' = {OnIssue(token) : token \in late}
                 \union (IF write = NoWrite THEN {} ELSE {OnIssue(write.token)})
    /\ job' = [current |-> FreshJob, earlier |-> job["current"]]
    /\ worker' = IF worker.job = "current"
                 THEN [worker EXCEPT !.job = "earlier", !.write.token = OnIssue(@)]
                 ELSE AtRest   \* it may be at the retry of a generation that is followed no more
    /\ request' = [Carried(OnIssue) EXCEPT ![r] =
                      [pc |-> "away", carries |-> "none", binding |-> @.binding]]

Issue(r) ==
    /\ request[r].pc = "admitted"
    /\ \/ Issues(r)
       \/ /\ ~Due
          /\ request' = [request EXCEPT ![r] =
                            [pc |-> "away", carries |-> "none", binding |-> @.binding]]
          /\ UNCHANGED <<issued, age, field, write, late, job, worker>>
    /\ UNCHANGED <<faults, unsure>>

-----------------------------------------------------------------------------
\* The issuing turn's write (ManyChat is external: it takes a write, or does not)

FaultHappens == faults < MaxFaults /\ faults' = faults + 1

InFlight == write # NoWrite

\* The write lands and its job, if nobody has claimed it, is cancelled.
WriteLands ==
    /\ InFlight
    /\ field' = write.token
    /\ write' = NoWrite
    /\ job' = IF job["current"].status = "pending"
              THEN [job EXCEPT !["current"].status = "delivered"] ELSE job
    /\ UNCHANGED <<issued, age, late, worker, request, faults, unsure>>

\* It is refused; or it lands and the answer is lost, or it is given up and may land yet.
WriteFails ==
    /\ InFlight
    /\ FaultHappens
    /\ write' = NoWrite
    /\ \/ UNCHANGED <<field, late, unsure>>
       \/ field' = write.token /\ unsure' = TRUE /\ UNCHANGED late
       \/ late' = late \union {write.token} /\ unsure' = TRUE /\ UNCHANGED field
    /\ UNCHANGED <<issued, age, job, worker, request>>

LandsLate ==
    /\ \E token \in late : field' = token /\ late' = late \ {token}
    /\ UNCHANGED <<issued, age, write, job, worker, request, faults, unsure>>

\* The contact's field is cleared.
FieldCleared ==
    /\ FaultHappens
    /\ field' = "none"
    /\ UNCHANGED <<issued, age, write, late, job, worker, request, unsure>>

-----------------------------------------------------------------------------
\* The outbox's worker (src/outbox/worker.ts deliver)

Claim(g) ==
    /\ worker = AtRest
    /\ job[g].status = "pending" /\ job[g].due = 0
    /\ job' = [job EXCEPT ![g].status = "delivering", ![g].attempts = @ + 1]
    /\ worker' = [AtRest EXCEPT !.job = g, !.step = "claimed"]
    /\ UNCHANGED <<issued, age, field, write, late, request, faults, unsure>>

\* replaceUnwritten: a fresh token for the same generation, or a newer issue has its own.
Replace ==
    /\ worker.step = "claimed"
    /\ IF worker.job = "current"
       THEN /\ worker' = [worker EXCEPT !.step = "writing",
                             !.write = [token |-> "current", left |-> WriteTimeout]]
            /\ field' = OnReplace(field)
            /\ late' = {OnReplace(token) : token \in late}
            /\ write' = [write EXCEPT !.token = OnReplace(@)]
            /\ request' = Carried(OnReplace)
       ELSE /\ worker' = [worker EXCEPT !.step = "superseded"]
            /\ UNCHANGED <<field, late, write, request>>
    /\ UNCHANGED <<issued, age, job, faults, unsure>>

Marks(status) ==
    /\ worker' = AtRest
    /\ job' = [job EXCEPT ![worker.job] =
                  [@ EXCEPT !.status = status, !.due = IF status = "pending" THEN Backoff ELSE 0]]

Spent == job[worker.job].attempts >= MaxAttempts

RetryLands ==
    /\ \/ worker.step = "writing" /\ field' = worker.write.token
       \/ worker.step = "superseded" /\ UNCHANGED field
    /\ Marks("delivered")
    /\ UNCHANGED <<issued, age, write, late, request, faults, unsure>>

RetryFails ==
    /\ worker.step = "writing"
    /\ FaultHappens
    /\ Marks(IF Spent THEN "failed" ELSE "pending")
    /\ \/ UNCHANGED <<field, late, unsure>>
       \/ field' = worker.write.token /\ unsure' = TRUE /\ UNCHANGED late
       \/ late' = late \union {worker.write.token} /\ unsure' = TRUE /\ UNCHANGED field
    /\ UNCHANGED <<issued, age, write, request>>

\* The process dies: a claimed job stays claimed, and a write in flight may land.
Crash ==
    /\ FaultHappens
    /\ late' = (late \union {write.token, worker.write.token}) \ {"none"}
    /\ unsure' = TRUE
    /\ write' = NoWrite
    /\ worker' = AtRest
    /\ request' = [r \in Requests |-> [pc |-> "away", carries |-> "none", binding |-> "none"]]
    /\ UNCHANGED <<issued, age, field, job>>

Less(ticks) == IF ticks > 0 THEN ticks - 1 ELSE 0

\* Time passes; the client gives a write up in time, and a statement takes no tick.
Tick ==
    /\ worker.step \in {"rest", "writing"}
    /\ InFlight => write.left > 0
    /\ worker.step = "writing" => worker.write.left > 0
    /\ age' = IF age < ReissueAfter THEN age + 1 ELSE age
    /\ write' = [write EXCEPT !.left = Less(@)]
    /\ worker' = [worker EXCEPT !.write.left = Less(@)]
    /\ job' = [g \in Generation |-> [job[g] EXCEPT !.due = Less(@)]]
    /\ UNCHANGED <<issued, field, late, request, faults, unsure>>

Handle(r) == Admit(r) \/ Issue(r)

Work == (\E g \in Generation : Claim(g)) \/ Replace \/ RetryLands \/ RetryFails

Next ==
    \/ \E r \in Requests : Send(r) \/ Handle(r)
    \/ WriteLands \/ WriteFails \/ LandsLate \/ FieldCleared
    \/ Work \/ Crash \/ Tick

Spec == Init /\ [][Next]_vars

\* Writes end, the worker polls, time passes, requests are handled, and the contact
\* keeps writing.
FairSpec ==
    /\ Spec
    /\ WF_vars(WriteLands) /\ WF_vars(Work) /\ WF_vars(Tick)
    /\ \A r \in Requests : WF_vars(Handle(r)) /\ WF_vars(Send(r))

-----------------------------------------------------------------------------
\* Properties

(***************************************************************************)
(* The worker never replaces a token whose write is still in flight        *)
(* (tokens.ts, TOKEN_RETRY_DELAY_MS): what lands after the replacement     *)
(* would be a token that no longer binds.                                  *)
(***************************************************************************)
NeverReplacedInFlight ==
    [][Replace /\ worker.job = "current" => ~InFlight]_vars

(***************************************************************************)
(* A token that binds, in the field or on its way in a request, goes on    *)
(* binding until it is the previous one and another is issued: "a message  *)
(* sent before the new token landed still binds".  Retries of a write that *)
(* failed never cost the contact the token they hold, unless the failure   *)
(* hid a write that landed.                                                *)
(***************************************************************************)
HeldTokensBind ==
    [][/\ (field = "current" /\ ~unsure) => field' \in {"current", "previous", "none"}
       /\ field = "previous" => (Binds(field') \/ field' = "none" \/ unsure
                                 \/ \E r \in Requests : Issues(r))
       /\ \A r \in Requests :
             LET token == request[r].carries IN
             (Binds(token) /\ request'[r].pc = "sent" /\ ~unsure) =>
                 \/ Binds(request'[r].carries)
                 \/ token = "previous" /\ \E k \in Requests : Issues(k)]_vars

(***************************************************************************)
(* Whatever was lost, landed late, cleared or cut off, in the end the      *)
(* contact's field holds a token that binds, and goes on holding one.      *)
(***************************************************************************)
ContactIsBound == <>[]Binds(field)

=============================================================================
