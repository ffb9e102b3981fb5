------------------------- MODULE ContactTokensProofs -------------------------
(***************************************************************************)
(* Proofs about ContactTokens, for any number of requests, attempts and    *)
(* faults and any delays in their order: no token is replaced while its    *)
(* write is in flight, and a token that binds, in the contact's field or   *)
(* in a request on its way, goes on binding.                               *)
(*                                                                         *)
(* Both come from the delays.  A write ends before its retry is due, so    *)
(* the retry is still pending while the write is in flight; and long       *)
(* before the next issue is due, so an issue meets neither the write of    *)
(* the one before nor two generations of a retry's.                        *)
(***************************************************************************)
EXTENDS ContactTokens, TLAPS

\* The issuing turn's write is of the current token, and its retry, untouched, waits for longer.
WriteInv ==
    InFlight =>
        /\ write.token = "current" /\ issued /\ age + write.left = WriteTimeout
        /\ job["current"].status = "pending" /\ job["current"].due > write.left

\* The job the worker is at is its alone, and what it writes binds: an issue in the meantime
\* makes it the previous token, and another comes only when it is over.
WorkerInv ==
    /\ worker.job = "none" <=> worker.step = "rest"
    /\ worker.job = "current" => job["current"].status = "delivering"
    /\ worker.step = "superseded" => worker.job = "earlier"
    /\ worker.step # "writing" => worker.write = NoWrite
    /\ worker.step = "writing" =>
        \/ worker.job = "current" /\ worker.write.token = "current"
        \/ /\ worker.job = "earlier" /\ worker.write.token = "previous"
           /\ issued /\ age + worker.write.left <= WriteTimeout

JobInv == \A g \in Generation : job[g].status = "pending" => job[g].attempts < MaxAttempts

\* Unless a write landed unnoticed, nothing lands late, and a current token that is held, or
\* on its way in a request, was written by a job that is over.
HeldInv ==
    /\ \A r \in Requests : request[r].pc = "away" => request[r].carries = "none"
    /\ ~unsure => late = {}
    /\ (~unsure /\ (field = "current" \/ \E r \in Requests : request[r].carries = "current"))
       => job["current"].status = "delivered"

TokensInv == TypeOK /\ WriteInv /\ WorkerInv /\ JobInv /\ HeldInv

-----------------------------------------------------------------------------

\* What the relabelling makes of a token.
LEMMA Relabelled ==
    ASSUME NEW token \in Token
    PROVE  /\ OnIssue(token) \in Token \ {"current"} /\ OnReplace(token) \in Token
           /\ OnIssue(token) = "none" <=> token = "none"
           /\ OnReplace(token) = "none" <=> token = "none"
           /\ token = "current" => OnIssue(token) = "previous"
           /\ OnReplace(token) # "current"
           /\ token # "current" => OnReplace(token) = token
  BY DEF OnIssue, OnReplace, Token

LEMMA Constants ==
    /\ {ReissueAfter, RetryDelay, WriteTimeout, Backoff, MaxAttempts, MaxFaults} \subseteq Nat
    /\ WriteTimeout < RetryDelay /\ RetryDelay < ReissueAfter /\ MaxAttempts > 0
  BY TokensAssumption

LEMMA NoWriteTyped == NoWrite \in Write
  BY Constants DEF NoWrite, Write, Token

\* An issue finds no write in flight, neither its own kind's nor a retry's of a token before.
LEMMA IssueIsAlone ==
    ASSUME TokensInv, Due
    PROVE  ~InFlight /\ ~(worker.step = "writing" /\ worker.job = "earlier")
<1>1. /\ age \in Nat /\ write.left \in Nat /\ worker.write.left \in Nat
  BY Constants DEF TokensInv, TypeOK, Write
<1>2. ~issued \/ age > WriteTimeout
  BY Constants DEF Due
<1>3. ~InFlight
  BY <1>1, <1>2, Constants DEF TokensInv, WriteInv
<1>4. ASSUME worker.step = "writing", worker.job = "earlier"
      PROVE  FALSE
  <2>1. issued /\ age + worker.write.left <= WriteTimeout
    BY <1>4 DEF TokensInv, WorkerInv
  <2> QED BY <1>1, <1>2, <2>1, Constants
<1> QED BY <1>3, <1>4

LEMMA InitTokens == Init => TokensInv
<1> SUFFICES ASSUME Init PROVE TokensInv
    OBVIOUS
<1>1. TypeOK
  <2>1. worker \in [job : Generation \union {"none"},
                   step : {"rest", "claimed", "writing", "superseded"}, write : Write]
    BY NoWriteTyped DEF Init, AtRest
  <2>2. job \in [Generation -> [status : {"absent", "pending", "delivering", "delivered", "failed"},
                               due : Nat, attempts : 0..MaxAttempts]]
    BY Constants DEF Init, NoJob
  <2>3. /\ issued \in BOOLEAN /\ unsure \in BOOLEAN /\ field \in Token /\ late \subseteq Token \ {"none"}
        /\ write \in Write
    BY NoWriteTyped DEF Init, Token
  <2>5. age \in 0..ReissueAfter /\ faults \in 0..MaxFaults
    BY Constants DEF Init
  <2>4. request \in [Requests -> [pc : {"away", "sent", "admitted"}, carries : Token,
                                 binding : {"none", "first", "bound", "unbound"}]]
    BY DEF Init, Token
  <2> QED BY <2>1, <2>2, <2>3, <2>4, <2>5 DEF TypeOK
<1>2. WriteInv
  BY DEF Init, WriteInv, InFlight
<1>3. WorkerInv
  BY DEF Init, WorkerInv, AtRest
<1>4. JobInv /\ HeldInv
  BY DEF Init, JobInv, HeldInv, NoJob
<1> QED BY <1>1, <1>2, <1>3, <1>4 DEF TokensInv

-----------------------------------------------------------------------------
\* Requests

LEMMA SendStep ==
    ASSUME TokensInv, NEW r \in Requests, Send(r)
    PROVE  TokensInv'
<1>0. TypeOK /\ UNCHANGED <<issued, age, field, write, late, job, worker, faults, unsure>>
  BY DEF TokensInv, Send
<1>1. PICK token \in {field, "none"} :
        request' = [request EXCEPT ![r] = [pc |-> "sent", carries |-> token, binding |-> "none"]]
  <2>1. PICK who \in Callers :
          request' = [request EXCEPT ![r] =
              [pc |-> "sent", carries |-> IF who = "contact" THEN field ELSE "none", binding |-> "none"]]
    BY DEF Send
  <2> QED BY <2>1
<1>2. TypeOK'
  <2>1. token \in Token
    BY <1>0 DEF TypeOK, Token
  <2> QED BY <1>0, <1>1, <2>1 DEF TypeOK
<1>3. WriteInv' /\ WorkerInv' /\ JobInv'
  BY <1>0 DEF TokensInv, WriteInv, WorkerInv, JobInv, InFlight
<1>4. /\ request'[r] = [pc |-> "sent", carries |-> token, binding |-> "none"]
      /\ \A q \in Requests : q # r => request'[q] = request[q]
  BY <1>0, <1>1 DEF TypeOK
<1>5. HeldInv'
  BY <1>0, <1>1, <1>4 DEF TokensInv, HeldInv
<1> QED BY <1>2, <1>3, <1>5 DEF TokensInv

\* A request that is done with, or read: its token is gone, or the same.
LEMMA RequestStep ==
    ASSUME TokensInv, NEW r \in Requests, NEW to \in [pc : {"away", "sent", "admitted"}, carries : Token,
                                                      binding : {"none", "first", "bound", "unbound"}],
           request' = [request EXCEPT ![r] = to],
           to.carries \in {"none", request[r].carries}, to.pc = "away" => to.carries = "none",
           UNCHANGED <<issued, age, field, write, late, job, worker, faults, unsure>>
    PROVE  TokensInv'
<1>0. TypeOK
  BY DEF TokensInv
<1>1. request'[r] = to /\ \A q \in Requests : q # r => request'[q] = request[q]
  BY <1>0 DEF TypeOK
<1>2. TypeOK'
  BY <1>0, <1>1 DEF TypeOK
<1>3. WriteInv' /\ WorkerInv' /\ JobInv'
  BY DEF TokensInv, WriteInv, WorkerInv, JobInv, InFlight
<1>4. HeldInv'
  BY <1>1 DEF TokensInv, HeldInv
<1> QED BY <1>2, <1>3, <1>4 DEF TokensInv

LEMMA AdmitStep ==
    ASSUME TokensInv, NEW r \in Requests, Admit(r)
    PROVE  TokensInv'
<1> DEFINE binding == BindingFor(request[r].carries)
           to == [pc |-> IF binding = "bound" THEN "away" ELSE "admitted",
                  carries |-> IF binding = "bound" THEN "none" ELSE request[r].carries, binding |-> binding]
<1>1. binding \in {"first", "bound", "unbound"}
  BY DEF BindingFor
<1>2. request[r].carries \in Token /\ "none" \in Token
  BY DEF TokensInv, TypeOK, Token
<1> HIDE DEF binding
<1>3. to \in [pc : {"away", "sent", "admitted"}, carries : Token,
              binding : {"none", "first", "bound", "unbound"}]
  BY <1>1, <1>2
<1>4. to.carries \in {"none", request[r].carries} /\ (to.pc = "away" => to.carries = "none")
  OBVIOUS
<1>5. /\ request' = [request EXCEPT ![r] = to]
      /\ UNCHANGED <<issued, age, field, write, late, job, worker, faults, unsure>>
  BY DEF Admit, TokensInv, TypeOK, binding
<1> HIDE DEF to
<1> QED BY <1>3, <1>4, <1>5, RequestStep

LEMMA IssuesStep ==
    ASSUME TokensInv, NEW r \in Requests, Issues(r), UNCHANGED <<faults, unsure>>
    PROVE  TokensInv'
<1>0. TypeOK
  BY DEF TokensInv
<1>1. Due /\ ~InFlight /\ ~(worker.step = "writing" /\ worker.job = "earlier")
  BY IssueIsAlone DEF Issues
<1>2. /\ issued' = TRUE /\ age' = 0 /\ field' = OnIssue(field)
      /\ write' = [token |-> "current", left |-> WriteTimeout]
      /\ late' = {OnIssue(token) : token \in late}
      /\ job' = [current |-> FreshJob, earlier |-> job["current"]]
  BY <1>1 DEF Issues, InFlight
<1>3. \/ worker.job # "current" /\ worker' = AtRest
      \/ /\ worker.job = "current"
         /\ worker' = [worker EXCEPT !.job = "earlier", !.write.token = OnIssue(worker.write.token)]
  <2>1. \/ worker.job # "current" /\ worker' = AtRest
        \/ worker.job = "current" /\ worker' = [worker EXCEPT !.job = "earlier", !.write.token = OnIssue(@)]
    BY DEF Issues
  <2> QED BY <1>0, <2>1 DEF TypeOK
<1>10. ASSUME worker.job = "current"
       PROVE  /\ worker'.job = "earlier" /\ worker'.step = worker.step
              /\ worker'.write = [worker.write EXCEPT !.token = OnIssue(worker.write.token)]
              /\ worker' \in [job : {"earlier"}, step : {"rest", "claimed", "writing", "superseded"},
                              write : {worker'.write}]
  <2>1. worker' = [worker EXCEPT !.job = "earlier", !.write.token = OnIssue(worker.write.token)]
    BY <1>3, <1>10
  <2> QED BY <1>0, <2>1 DEF TypeOK
<1>4. /\ \A q \in Requests : q # r => request'[q] = [request[q] EXCEPT !.carries = OnIssue(@)]
      /\ request'[r].pc = "away" /\ request'[r].carries = "none"
      /\ request' \in [Requests -> [pc : {"away", "sent", "admitted"}, carries : Token,
                                    binding : {"none", "first", "bound", "unbound"}]]
  <2> DEFINE shifted == Carried(OnIssue)
             Request == [pc : {"away", "sent", "admitted"}, carries : Token,
                         binding : {"none", "first", "bound", "unbound"}]
  <2>1. shifted = [q \in Requests |-> [request[q] EXCEPT !.carries = OnIssue(@)]]
    BY DEF Carried
  <2>2. \A q \in Requests : OnIssue(request[q].carries) \in Token
    BY <1>0, Relabelled DEF TypeOK
  <2>3. shifted \in [Requests -> Request]
    <3>1. ASSUME NEW q \in Requests
          PROVE  [request[q] EXCEPT !.carries = OnIssue(@)] \in Request
      BY <1>0, <2>2 DEF TypeOK
    <3> QED BY <2>1, <3>1
  <2>4. request' = [shifted EXCEPT ![r] = [pc |-> "away", carries |-> "none", binding |-> @.binding]]
    BY DEF Issues
  <2>5. \A q \in Requests : shifted[q] = [request[q] EXCEPT !.carries = OnIssue(@)]
    BY <2>1
  <2> HIDE DEF shifted
  <2>6. [pc |-> "away", carries |-> "none", binding |-> shifted[r].binding] \in Request
    BY <2>3 DEF Token
  <2> QED BY <2>3, <2>4, <2>5, <2>6
<1>5. TypeOK'
  <2>1. field' \in Token
    BY <1>0, <1>2, Relabelled DEF TypeOK
  <2>2. late' \subseteq Token \ {"none"}
    BY <1>0, <1>2, Relabelled DEF TypeOK
  <2>3. write' \in Write /\ age' \in 0..ReissueAfter
    BY <1>2, Constants DEF Write, Token
  <2>4. job' \in [Generation -> [status : {"absent", "pending", "delivering", "delivered", "failed"},
                                 due : Nat, attempts : 0..MaxAttempts]]
    BY <1>0, <1>2, Constants DEF TypeOK, FreshJob, Generation
  <2>5. worker' \in [job : Generation \union {"none"},
                     step : {"rest", "claimed", "writing", "superseded"}, write : Write]
    <3>1. OnIssue(worker.write.token) \in Token
      BY <1>0, Relabelled DEF TypeOK, Write
    <3>2. [worker.write EXCEPT !.token = OnIssue(worker.write.token)] \in Write
      BY <1>0, <3>1 DEF TypeOK, Write
    <3>3. CASE worker.job # "current"
      BY <1>3, <3>3, NoWriteTyped DEF AtRest
    <3>4. CASE worker.job = "current"
      BY <1>10, <3>2, <3>4 DEF Generation
    <3> QED BY <3>3, <3>4
  <2> QED BY <1>0, <1>2, <1>4, <2>1, <2>2, <2>3, <2>4, <2>5 DEF TypeOK
<1>6. WriteInv'
  BY <1>2, Constants DEF WriteInv, FreshJob
<1>7. WorkerInv'
  <2>1. CASE worker.job # "current"
    BY <1>3, <2>1 DEF WorkerInv, AtRest
  <2>2. CASE worker.job = "current"
    <3>1. /\ worker'.job = "earlier" /\ worker'.step = worker.step
          /\ worker'.write.left = worker.write.left /\ worker'.write.token = OnIssue(worker.write.token)
      BY <1>0, <1>10, <2>2 DEF TypeOK, Write
    <3>2. worker.step # "rest"
      BY <2>2 DEF TokensInv, WorkerInv
    <3>3. CASE worker.step = "writing"
      <4>1. worker.write.token = "current"
        BY <1>1, <3>3 DEF TokensInv, WorkerInv
      <4>2. worker'.write.token = "previous"
        BY <3>1, <4>1, Relabelled DEF Token
      <4>3. age' + worker'.write.left <= WriteTimeout
        BY <1>0, <1>2, <3>1, Constants DEF TypeOK, Write
      <4> QED BY <1>2, <3>1, <3>3, <4>2, <4>3 DEF WorkerInv
    <3>4. CASE worker.step # "writing"
      <4>1. worker.write = NoWrite
        BY <3>4 DEF TokensInv, WorkerInv
      <4>2. OnIssue("none") = "none"
        BY Relabelled DEF Token
      <4>3. worker'.write = NoWrite
        BY <1>10, <2>2, <4>1, <4>2 DEF NoWrite
      <4> QED BY <3>1, <3>2, <3>4, <4>3 DEF WorkerInv
    <3> QED BY <3>3, <3>4
  <2> QED BY <2>1, <2>2
<1>8. JobInv'
  BY <1>0, <1>2, Constants DEF TokensInv, JobInv, FreshJob, Generation, TypeOK
<1>9. HeldInv'
  <2>1. field' # "current"
    BY <1>0, <1>2, Relabelled DEF TypeOK
  <2>2. ASSUME NEW q \in Requests
        PROVE  /\ request'[q].carries # "current"
               /\ request'[q].pc = "away" => request'[q].carries = "none"
    <3>1. CASE q = r
      BY <1>4, <3>1
    <3>2. CASE q # r
      <4>1. request'[q].carries = OnIssue(request[q].carries) /\ request'[q].pc = request[q].pc
            /\ request[q].carries \in Token
        BY <1>0, <1>4, <3>2 DEF TypeOK
      <4> QED BY <4>1, Relabelled DEF TokensInv, HeldInv
    <3> QED BY <3>1, <3>2
  <2>3. ~unsure' => late' = {}
    BY <1>2 DEF TokensInv, HeldInv
  <2> QED BY <2>1, <2>2, <2>3 DEF HeldInv
<1> QED BY <1>5, <1>6, <1>7, <1>8, <1>9 DEF TokensInv

LEMMA IssueStep ==
    ASSUME TokensInv, NEW r \in Requests, Issue(r)
    PROVE  TokensInv'
<1>1. CASE Issues(r)
  BY <1>1, IssuesStep DEF Issue
<1>2. CASE ~Issues(r)
  <2> DEFINE to == [pc |-> "away", carries |-> "none", binding |-> request[r].binding]
  <2>1. /\ request' = [request EXCEPT ![r] = to]
        /\ UNCHANGED <<issued, age, field, write, late, job, worker, faults, unsure>>
    BY <1>2 DEF Issue, TokensInv, TypeOK
  <2>2. to \in [pc : {"away", "sent", "admitted"}, carries : Token,
                binding : {"none", "first", "bound", "unbound"}]
    BY DEF TokensInv, TypeOK, Token
  <2>3. to.carries \in {"none", request[r].carries} /\ (to.pc = "away" => to.carries = "none")
    OBVIOUS
  <2> HIDE DEF to
  <2> QED BY <2>1, <2>2, <2>3, RequestStep
<1> QED BY <1>1, <1>2

-----------------------------------------------------------------------------
\* Writes

LEMMA WriteLandsStep ==
    ASSUME TokensInv, WriteLands
    PROVE  TokensInv'
<1>0. TypeOK /\ UNCHANGED <<issued, age, late, worker, request, faults, unsure>>
  BY DEF TokensInv, WriteLands
<1>1. write.token = "current" /\ job["current"].status = "pending"
  BY DEF TokensInv, WriteInv, WriteLands
<1>2. /\ field' = "current" /\ write' = NoWrite
      /\ job' = [job EXCEPT !["current"].status = "delivered"]
  BY <1>1 DEF WriteLands
<1>3. job'["current"].status = "delivered" /\ job'["earlier"] = job["earlier"]
  BY <1>0, <1>2 DEF TypeOK, Generation
<1>4. TypeOK'
  <2>1. field' \in Token /\ write' \in Write
    BY <1>2, NoWriteTyped DEF Token
  <2>2. job' \in [Generation -> [status : {"absent", "pending", "delivering", "delivered", "failed"},
                                 due : Nat, attempts : 0..MaxAttempts]]
    BY <1>0, <1>2 DEF TypeOK
  <2> QED BY <1>0, <2>1, <2>2 DEF TypeOK
<1>5. WriteInv'
  BY <1>2 DEF WriteInv, InFlight
<1>6. WorkerInv'
  BY <1>0, <1>1, <1>3 DEF TokensInv, WorkerInv
<1>7. JobInv'
  BY <1>3 DEF TokensInv, JobInv, Generation
<1>8. HeldInv'
  BY <1>0, <1>3 DEF TokensInv, HeldInv
<1> QED BY <1>4, <1>5, <1>6, <1>7, <1>8 DEF TokensInv

\* What a write that failed may leave behind, of either kind.
Leaves(token) ==
    \/ UNCHANGED <<field, late, unsure>>
    \/ field' = token /\ unsure' = TRUE /\ UNCHANGED late
    \/ late' = late \union {token} /\ unsure' = TRUE /\ UNCHANGED field

LEMMA LeavesHeld ==
    ASSUME TokensInv, NEW token \in Token \ {"none"}, Leaves(token),
           UNCHANGED request, job'["current"].status = "delivered" \/ job["current"].status # "delivered"
    PROVE  /\ field' \in Token /\ late' \subseteq Token \ {"none"} /\ unsure' \in BOOLEAN
           /\ HeldInv'
<1>1. field \in Token /\ late \subseteq Token \ {"none"} /\ unsure \in BOOLEAN
  BY DEF TokensInv, TypeOK
<1>2. field' \in Token /\ late' \subseteq Token \ {"none"} /\ unsure' \in BOOLEAN
  BY <1>1 DEF Leaves
<1>3. HeldInv'
  <2>1. CASE UNCHANGED <<field, late, unsure>>
    BY <2>1 DEF TokensInv, HeldInv
  <2>2. CASE unsure' = TRUE
    BY <2>2 DEF TokensInv, HeldInv
  <2> QED BY <2>1, <2>2 DEF Leaves
<1> QED BY <1>2, <1>3

LEMMA FaultTyped ==
    ASSUME TypeOK, FaultHappens
    PROVE  faults' \in 0..MaxFaults
  BY Constants DEF TypeOK, FaultHappens

LEMMA WriteFailsStep ==
    ASSUME TokensInv, WriteFails
    PROVE  TokensInv'
<1>0. TypeOK /\ UNCHANGED <<issued, age, job, worker, request>> /\ write' = NoWrite
  BY DEF TokensInv, WriteFails
<1>1. write.token = "current"
  BY DEF TokensInv, WriteInv, WriteFails
<1>2. Leaves("current")
  BY <1>1 DEF Leaves, WriteFails
<1>3. /\ field' \in Token /\ late' \subseteq Token \ {"none"} /\ unsure' \in BOOLEAN /\ HeldInv'
  BY <1>0, <1>2, LeavesHeld DEF Token
<1>4. faults' \in 0..MaxFaults
  BY <1>0, FaultTyped DEF WriteFails
<1>5. TypeOK'
  BY <1>0, <1>3, <1>4, NoWriteTyped DEF TypeOK
<1>6. WriteInv'
  BY <1>0 DEF WriteInv, InFlight
<1>7. WorkerInv' /\ JobInv'
  BY <1>0 DEF TokensInv, WorkerInv, JobInv
<1> QED BY <1>3, <1>5, <1>6, <1>7 DEF TokensInv

LEMMA LandsLateStep ==
    ASSUME TokensInv, LandsLate
    PROVE  TokensInv'
<1>0. TypeOK /\ UNCHANGED <<issued, age, write, job, worker, request, faults, unsure>>
  BY DEF TokensInv, LandsLate
<1>1. PICK token \in late : field' = token /\ late' = late \ {token}
  BY DEF LandsLate
<1>2. TypeOK'
  BY <1>0, <1>1 DEF TypeOK
<1>3. WriteInv' /\ WorkerInv' /\ JobInv'
  BY <1>0 DEF TokensInv, WriteInv, WorkerInv, JobInv, InFlight
<1>4. HeldInv'
  BY <1>0, <1>1 DEF TokensInv, HeldInv
<1> QED BY <1>2, <1>3, <1>4 DEF TokensInv

LEMMA FieldClearedStep ==
    ASSUME TokensInv, FieldCleared
    PROVE  TokensInv'
<1>0. /\ TypeOK /\ UNCHANGED <<issued, age, write, late, job, worker, request, unsure>>
      /\ field' = "none" /\ FaultHappens
  BY DEF TokensInv, FieldCleared
<1>1. TypeOK'
  BY <1>0, FaultTyped DEF TypeOK, Token
<1>2. WriteInv' /\ WorkerInv' /\ JobInv'
  BY <1>0 DEF TokensInv, WriteInv, WorkerInv, JobInv, InFlight
<1>3. HeldInv'
  BY <1>0 DEF TokensInv, HeldInv
<1> QED BY <1>1, <1>2, <1>3 DEF TokensInv

-----------------------------------------------------------------------------
\* The outbox's worker

LEMMA ClaimStep ==
    ASSUME TokensInv, NEW g \in Generation, Claim(g)
    PROVE  TokensInv'
<1>0. /\ TypeOK /\ UNCHANGED <<issued, age, field, write, late, request, faults, unsure>>
      /\ worker = AtRest /\ job[g].status = "pending" /\ job[g].due = 0
  BY DEF TokensInv, Claim
<1>1. /\ job' = [job EXCEPT ![g].status = "delivering", ![g].attempts = @ + 1]
      /\ worker' = [job |-> g, step |-> "claimed", write |-> NoWrite]
  BY DEF Claim, AtRest
<1>2. job[g].attempts \in 0..MaxAttempts /\ job[g].attempts < MaxAttempts
  BY <1>0 DEF TypeOK, TokensInv, JobInv
<1>3. /\ job'[g].status = "delivering" /\ job'[g].attempts = job[g].attempts + 1
      /\ job'[g].due = job[g].due /\ \A h \in Generation : h # g => job'[h] = job[h]
      /\ job' \in [Generation -> [status : {"absent", "pending", "delivering", "delivered", "failed"},
                                  due : Nat, attempts : 0..MaxAttempts]]
  <2>1. job[g].attempts + 1 \in 0..MaxAttempts
    BY <1>2, Constants
  <2>2. job' = [job EXCEPT ![g] = [job[g] EXCEPT !.status = "delivering", !.attempts = job[g].attempts + 1]]
    BY <1>0, <1>1 DEF TypeOK
  <2> QED BY <1>0, <2>1, <2>2 DEF TypeOK
<1>4. TypeOK'
  <2>1. worker' \in [job : Generation \union {"none"},
                     step : {"rest", "claimed", "writing", "superseded"}, write : Write]
    BY <1>1, NoWriteTyped
  <2> QED BY <1>0, <1>3, <2>1 DEF TypeOK
<1>5. WriteInv'
  <2>1. InFlight => g # "current"
    <3> SUFFICES ASSUME InFlight, g = "current" PROVE FALSE
        OBVIOUS
    <3>1. job["current"].due > write.left /\ write.left \in Nat /\ job["current"].due = 0
      BY <1>0, Constants DEF TokensInv, WriteInv, TypeOK, Write
    <3> QED BY <3>1
  <2> QED BY <1>0, <1>3, <2>1 DEF TokensInv, WriteInv, InFlight, Generation
<1>6. WorkerInv'
  BY <1>1, <1>3 DEF WorkerInv, Generation
<1>7. JobInv'
  BY <1>3 DEF TokensInv, JobInv
<1>8. HeldInv'
  BY <1>0, <1>3 DEF TokensInv, HeldInv, Generation
<1> QED BY <1>4, <1>5, <1>6, <1>7, <1>8 DEF TokensInv

\* The retry of the current generation is at work only when the write it retries has ended.
LEMMA ReplacedHasEnded ==
    ASSUME TokensInv, worker.job = "current"
    PROVE  ~InFlight /\ job["current"].status = "delivering"
  BY DEF TokensInv, WriteInv, WorkerInv

LEMMA ReplaceStep ==
    ASSUME TokensInv, Replace
    PROVE  TokensInv'
<1>0. TypeOK /\ worker.step = "claimed" /\ UNCHANGED <<issued, age, job, faults, unsure>>
  BY DEF TokensInv, Replace
<1>1. worker.write = NoWrite
  BY <1>0 DEF TokensInv, WorkerInv
<1>2. CASE worker.job = "current"
  <2>1. write = NoWrite /\ job["current"].status = "delivering"
    BY <1>2, ReplacedHasEnded DEF InFlight
  <2>2. /\ worker' = [worker EXCEPT !.step = "writing",
                        !.write = [token |-> "current", left |-> WriteTimeout]]
        /\ field' = OnReplace(field) /\ late' = {OnReplace(token) : token \in late}
        /\ write' = [write EXCEPT !.token = OnReplace(@)]
        /\ request' = Carried(OnReplace)
    BY <1>2 DEF Replace
  <2>3. write' = NoWrite
    <3>1. OnReplace("none") = "none"
      BY Relabelled DEF Token
    <3> QED BY <2>1, <2>2, <3>1 DEF NoWrite
  <2>4. /\ \A q \in Requests : request'[q].carries = OnReplace(request[q].carries)
                               /\ request'[q].pc = request[q].pc
        /\ request' \in [Requests -> [pc : {"away", "sent", "admitted"}, carries : Token,
                                      binding : {"none", "first", "bound", "unbound"}]]
    <3>1. request' = [q \in Requests |-> [request[q] EXCEPT !.carries = OnReplace(@)]]
      BY <2>2 DEF Carried
    <3>2. \A q \in Requests : OnReplace(request[q].carries) \in Token
      BY <1>0, Relabelled DEF TypeOK
    <3>3. ASSUME NEW q \in Requests
          PROVE  /\ [request[q] EXCEPT !.carries = OnReplace(@)] \in
                       [pc : {"away", "sent", "admitted"}, carries : Token,
                        binding : {"none", "first", "bound", "unbound"}]
                 /\ [request[q] EXCEPT !.carries = OnReplace(@)].carries = OnReplace(request[q].carries)
                 /\ [request[q] EXCEPT !.carries = OnReplace(@)].pc = request[q].pc
      BY <1>0, <3>2 DEF TypeOK
    <3> QED BY <3>1, <3>3
  <2>5. /\ worker'.job = "current" /\ worker'.step = "writing"
        /\ worker'.write = [token |-> "current", left |-> WriteTimeout]
        /\ worker' \in [job : Generation \union {"none"},
                        step : {"rest", "claimed", "writing", "superseded"}, write : Write]
    <3>1. [token |-> "current", left |-> WriteTimeout] \in Write
      BY Constants DEF Write, Token
    <3> QED BY <1>0, <1>2, <2>2, <3>1 DEF TypeOK
  <2>6. field' \in Token /\ late' \subseteq Token \ {"none"}
    BY <1>0, <2>2, Relabelled DEF TypeOK
  <2>7. TypeOK'
    BY <1>0, <2>3, <2>4, <2>5, <2>6, NoWriteTyped DEF TypeOK
  <2>8. WriteInv' /\ WorkerInv' /\ JobInv'
    BY <1>0, <2>1, <2>3, <2>5 DEF TokensInv, WriteInv, WorkerInv, JobInv, InFlight
  <2>9. HeldInv'
    <3>1. field' # "current" /\ \A q \in Requests : request'[q].carries # "current"
      <4>1. field \in Token /\ \A q \in Requests : request[q].carries \in Token
        BY <1>0 DEF TypeOK
      <4>2. \A token \in Token : OnReplace(token) # "current"
        BY Relabelled
      <4> QED BY <2>2, <2>4, <4>1, <4>2
    <3>2. ASSUME NEW q \in Requests, request'[q].pc = "away"
          PROVE  request'[q].carries = "none"
      <4>1. request[q].carries = "none"
        BY <2>4, <3>2 DEF TokensInv, HeldInv
      <4> QED BY <2>4, <4>1, Relabelled DEF Token
    <3>3. ~unsure' => late' = {}
      BY <1>0, <2>2 DEF TokensInv, HeldInv
    <3> QED BY <3>1, <3>2, <3>3 DEF HeldInv
  <2> QED BY <2>7, <2>8, <2>9 DEF TokensInv
<1>3. CASE worker.job # "current"
  <2>1. worker' = [worker EXCEPT !.step = "superseded"] /\ UNCHANGED <<field, late, write, request>>
    BY <1>3 DEF Replace
  <2>2. worker.job = "earlier"
    BY <1>0, <1>3 DEF TokensInv, WorkerInv, TypeOK, Generation
  <2>3. /\ worker'.job = "earlier" /\ worker'.step = "superseded" /\ worker'.write = NoWrite
        /\ worker' \in [job : Generation \union {"none"},
                        step : {"rest", "claimed", "writing", "superseded"}, write : Write]
    BY <1>0, <1>1, <2>1, <2>2 DEF TypeOK
  <2>4. TypeOK'
    BY <1>0, <2>1, <2>3 DEF TypeOK
  <2>5. WriteInv' /\ WorkerInv' /\ JobInv' /\ HeldInv'
    BY <1>0, <2>1, <2>3 DEF TokensInv, WriteInv, WorkerInv, JobInv, HeldInv, InFlight
  <2> QED BY <2>4, <2>5 DEF TokensInv
<1> QED BY <1>2, <1>3

\* A job's row is marked, and the worker is done with it.
LEMMA MarksStep ==
    ASSUME TokensInv, NEW status \in {"pending", "delivered", "failed"}, Marks(status),
           worker.job # "none", status = "pending" => ~Spent,
           UNCHANGED <<issued, age, write>>
    PROVE  /\ worker' \in [job : Generation \union {"none"},
                           step : {"rest", "claimed", "writing", "superseded"}, write : Write]
           /\ job' \in [Generation -> [status : {"absent", "pending", "delivering", "delivered", "failed"},
                                       due : Nat, attempts : 0..MaxAttempts]]
           /\ WriteInv' /\ WorkerInv' /\ JobInv'
           /\ job'[worker.job].status = status
           /\ worker.job = "earlier" => job'["current"] = job["current"]
<1>0. TypeOK /\ worker.job \in Generation /\ worker' = AtRest
  BY DEF TokensInv, TypeOK, Marks
<1>1. job[worker.job] \in [status : {"absent", "pending", "delivering", "delivered", "failed"},
                           due : Nat, attempts : 0..MaxAttempts]
  BY <1>0 DEF TypeOK
<1>2. PICK due \in Nat :
        job' = [job EXCEPT ![worker.job] = [job[worker.job] EXCEPT !.status = status, !.due = due]]
  <2>1. job' = [job EXCEPT ![worker.job] =
                  [@ EXCEPT !.status = status, !.due = IF status = "pending" THEN Backoff ELSE 0]]
    BY DEF Marks
  <2>2. (IF status = "pending" THEN Backoff ELSE 0) \in Nat
    BY Constants
  <2> QED BY <1>0, <2>1, <2>2 DEF TypeOK
<1>3. /\ job'[worker.job].status = status /\ job'[worker.job].attempts = job[worker.job].attempts
      /\ \A h \in Generation : h # worker.job => job'[h] = job[h]
      /\ job' \in [Generation -> [status : {"absent", "pending", "delivering", "delivered", "failed"},
                                  due : Nat, attempts : 0..MaxAttempts]]
  BY <1>0, <1>1, <1>2 DEF TypeOK
<1>4. worker' \in [job : Generation \union {"none"},
                   step : {"rest", "claimed", "writing", "superseded"}, write : Write]
  BY <1>0, NoWriteTyped DEF AtRest
<1>5. WriteInv'
  <2>1. InFlight => worker.job # "current"
    BY ReplacedHasEnded
  <2> QED BY <1>0, <1>3, <2>1 DEF TokensInv, WriteInv, InFlight, Generation
<1>6. WorkerInv'
  BY <1>0 DEF WorkerInv, AtRest
<1>7. JobInv'
  <2>1. status = "pending" => job[worker.job].attempts < MaxAttempts
    BY <1>1, Constants DEF Spent
  <2> QED BY <1>3, <2>1 DEF TokensInv, JobInv
<1> QED BY <1>0, <1>3, <1>4, <1>5, <1>6, <1>7 DEF Generation

\* What the worker writes binds.
LEMMA WorkerWrites ==
    ASSUME TokensInv, worker.step = "writing"
    PROVE  /\ worker.job # "none"
           /\ \/ worker.job = "current" /\ worker.write.token = "current"
              \/ worker.job = "earlier" /\ worker.write.token = "previous"
  BY DEF TokensInv, WorkerInv

LEMMA RetryLandsStep ==
    ASSUME TokensInv, RetryLands
    PROVE  TokensInv'
<1>0. TypeOK /\ Marks("delivered") /\ UNCHANGED <<issued, age, write, late, request, faults, unsure>>
  BY DEF TokensInv, RetryLands
<1>1. worker.job \in Generation
  BY <1>0 DEF TokensInv, WorkerInv, TypeOK, RetryLands
<1>2. /\ worker' \in [job : Generation \union {"none"},
                      step : {"rest", "claimed", "writing", "superseded"}, write : Write]
      /\ job' \in [Generation -> [status : {"absent", "pending", "delivering", "delivered", "failed"},
                                  due : Nat, attempts : 0..MaxAttempts]]
      /\ WriteInv' /\ WorkerInv' /\ JobInv'
      /\ job'[worker.job].status = "delivered"
      /\ worker.job = "earlier" => job'["current"] = job["current"]
  BY <1>0, <1>1, MarksStep DEF Generation
<1>3. \/ worker.job = "current" /\ field' = "current"
      \/ worker.job = "earlier" /\ field' \in {"previous", field}
  <2>1. CASE worker.step = "writing"
    BY <2>1, WorkerWrites DEF RetryLands
  <2>2. CASE worker.step = "superseded"
    BY <2>2 DEF RetryLands, TokensInv, WorkerInv
  <2> QED BY <2>1, <2>2 DEF RetryLands
<1>4. TypeOK'
  <2>1. field' \in Token
    BY <1>0, <1>3 DEF TypeOK, Token
  <2> QED BY <1>0, <1>2, <2>1 DEF TypeOK
<1>5. HeldInv'
  BY <1>0, <1>2, <1>3 DEF TokensInv, HeldInv
<1> QED BY <1>2, <1>4, <1>5 DEF TokensInv

LEMMA RetryFailsStep ==
    ASSUME TokensInv, RetryFails
    PROVE  TokensInv'
<1>0. TypeOK /\ worker.step = "writing" /\ UNCHANGED <<issued, age, write, request>>
  BY DEF TokensInv, RetryFails
<1> DEFINE status == IF Spent THEN "failed" ELSE "pending"
<1>1. worker.job # "none" /\ worker.write.token \in Token \ {"none"}
  BY <1>0, WorkerWrites DEF Token
<1>2. Marks(status) /\ Leaves(worker.write.token) /\ FaultHappens
  BY DEF RetryFails, Leaves
<1>3. status \in {"pending", "delivered", "failed"} /\ (status = "pending" => ~Spent)
  OBVIOUS
<1> HIDE DEF status
<1>4. /\ worker' \in [job : Generation \union {"none"},
                      step : {"rest", "claimed", "writing", "superseded"}, write : Write]
      /\ job' \in [Generation -> [status : {"absent", "pending", "delivering", "delivered", "failed"},
                                  due : Nat, attempts : 0..MaxAttempts]]
      /\ WriteInv' /\ WorkerInv' /\ JobInv'
      /\ worker.job = "earlier" => job'["current"] = job["current"]
  BY <1>0, <1>1, <1>2, <1>3, MarksStep
<1>5. job'["current"].status = "delivered" \/ job["current"].status # "delivered"
  <2>1. CASE worker.job = "current"
    BY <2>1, ReplacedHasEnded
  <2>2. CASE worker.job = "earlier"
    BY <1>4, <2>2
  <2> QED BY <1>0, <2>1, <2>2, WorkerWrites
<1>6. field' \in Token /\ late' \subseteq Token \ {"none"} /\ unsure' \in BOOLEAN /\ HeldInv'
  BY <1>0, <1>1, <1>2, <1>5, LeavesHeld
<1>7. faults' \in 0..MaxFaults
  BY <1>0, <1>2, FaultTyped
<1>8. TypeOK'
  BY <1>0, <1>4, <1>6, <1>7 DEF TypeOK
<1> QED BY <1>4, <1>6, <1>8 DEF TokensInv

-----------------------------------------------------------------------------
\* Crashes and time

LEMMA CrashStep ==
    ASSUME TokensInv, Crash
    PROVE  TokensInv'
<1>0. /\ TypeOK /\ UNCHANGED <<issued, age, field, job>> /\ unsure' = TRUE
      /\ write' = NoWrite /\ worker' = AtRest
  BY DEF TokensInv, Crash
<1>1. request' = [r \in Requests |-> [pc |-> "away", carries |-> "none", binding |-> "none"]]
  BY DEF Crash
<1>2. TypeOK'
  <2>1. late' \subseteq Token \ {"none"}
    BY <1>0 DEF Crash, TypeOK, Write
  <2>2. worker' \in [job : Generation \union {"none"},
                     step : {"rest", "claimed", "writing", "superseded"}, write : Write]
    BY <1>0, NoWriteTyped DEF AtRest
  <2>3. faults' \in 0..MaxFaults
    BY <1>0, FaultTyped DEF Crash
  <2>4. request' \in [Requests -> [pc : {"away", "sent", "admitted"}, carries : Token,
                                   binding : {"none", "first", "bound", "unbound"}]]
    BY <1>1 DEF Token
  <2> QED BY <1>0, <2>1, <2>2, <2>3, <2>4, NoWriteTyped DEF TypeOK
<1>3. WriteInv' /\ WorkerInv' /\ JobInv'
  BY <1>0 DEF TokensInv, WriteInv, WorkerInv, JobInv, InFlight, AtRest
<1>4. HeldInv'
  BY <1>0, <1>1 DEF HeldInv
<1> QED BY <1>2, <1>3, <1>4 DEF TokensInv

LEMMA TickStep ==
    ASSUME TokensInv, Tick
    PROVE  TokensInv'
<1>0. TypeOK /\ UNCHANGED <<issued, field, late, request, faults, unsure>>
  BY DEF TokensInv, Tick
<1>1. /\ age \in Nat /\ age <= ReissueAfter /\ write \in Write /\ write.left \in Nat
      /\ worker.write \in Write /\ worker.write.left \in Nat
      /\ ReissueAfter \in Nat /\ WriteTimeout \in Nat /\ WriteTimeout < ReissueAfter
  BY <1>0, Constants DEF TypeOK, Write
<1>2. \A n \in Nat : Less(n) \in Nat /\ Less(n) <= n /\ (n > 0 => Less(n) = n - 1) /\ (n = 0 => Less(n) = 0)
  BY DEF Less
<1>3. age' = (IF age < ReissueAfter THEN age + 1 ELSE age) /\ age' \in 0..ReissueAfter
  BY <1>1 DEF Tick
<1>4. /\ write'.token = write.token /\ write'.left = Less(write.left) /\ write' \in Write
      /\ write = NoWrite => write' = NoWrite
  <2>1. write' = [write EXCEPT !.left = Less(write.left)]
    BY <1>1 DEF Tick, Write
  <2>2. Less(write.left) \in 0..WriteTimeout
    BY <1>1, <1>2 DEF Write
  <2>3. write = NoWrite => write' = NoWrite
    BY <1>2, <2>1 DEF NoWrite
  <2> QED BY <1>1, <2>1, <2>2, <2>3 DEF Write
<1>5. /\ worker'.job = worker.job /\ worker'.step = worker.step
      /\ worker'.write = [worker.write EXCEPT !.left = Less(worker.write.left)]
      /\ worker' \in [job : Generation \union {"none"},
                      step : {"rest", "claimed", "writing", "superseded"}, write : {worker'.write}]
  <2>1. worker' = [worker EXCEPT !.write.left = Less(@)]
    BY DEF Tick
  <2>2. worker' = [worker EXCEPT !.write.left = Less(worker.write.left)]
    BY <1>0, <2>1 DEF TypeOK
  <2> QED BY <1>0, <2>2 DEF TypeOK
<1>6. /\ worker'.write \in Write /\ worker'.write.token = worker.write.token
      /\ worker'.write.left = Less(worker.write.left)
      /\ worker.write = NoWrite => worker'.write = NoWrite
  <2>1. Less(worker.write.left) \in 0..WriteTimeout
    BY <1>1, <1>2 DEF Write
  <2>2. worker.write = NoWrite => worker'.write = NoWrite
    BY <1>2, <1>5 DEF NoWrite
  <2> QED BY <1>1, <1>5, <2>1, <2>2 DEF Write
<1>7. /\ \A g \in Generation : /\ job'[g].status = job[g].status /\ job'[g].attempts = job[g].attempts
                               /\ job'[g].due = Less(job[g].due)
      /\ job' \in [Generation -> [status : {"absent", "pending", "delivering", "delivered", "failed"},
                                  due : Nat, attempts : 0..MaxAttempts]]
  <2>1. job' = [g \in Generation |-> [job[g] EXCEPT !.due = Less(@)]]
    BY DEF Tick
  <2>2. \A g \in Generation : Less(job[g].due) \in Nat
    BY <1>0, <1>2 DEF TypeOK
  <2> QED BY <1>0, <2>1, <2>2 DEF TypeOK
<1>8. TypeOK'
  <2>1. worker' \in [job : Generation \union {"none"},
                     step : {"rest", "claimed", "writing", "superseded"}, write : Write]
    BY <1>5, <1>6
  <2> QED BY <1>0, <1>3, <1>4, <1>7, <2>1 DEF TypeOK
<1>9. WriteInv'
  <2> SUFFICES ASSUME InFlight'
               PROVE  /\ write'.token = "current" /\ issued' /\ age' + write'.left = WriteTimeout
                      /\ job'["current"].status = "pending" /\ job'["current"].due > write'.left
      BY DEF WriteInv
  <2>1. InFlight
    BY <1>4 DEF InFlight
  <2>2. /\ write.token = "current" /\ issued /\ age + write.left = WriteTimeout
        /\ job["current"].status = "pending" /\ job["current"].due > write.left /\ write.left > 0
    BY <2>1 DEF TokensInv, WriteInv, Tick
  <2>3. age' = age + 1 /\ write'.left = write.left - 1
    BY <1>1, <1>2, <1>3, <1>4, <2>2
  <2>4. job["current"].due \in Nat /\ job'["current"].due = job["current"].due - 1
    BY <1>0, <1>1, <1>2, <1>7, <2>2 DEF TypeOK, Generation
  <2> QED BY <1>0, <1>1, <1>4, <1>7, <2>2, <2>3, <2>4 DEF Generation
<1>10. WorkerInv'
  <2>1. CASE worker.step # "writing"
    <3>1. worker'.write = NoWrite
      BY <1>6, <2>1 DEF TokensInv, WorkerInv
    <3> QED BY <1>5, <1>7, <2>1, <3>1 DEF TokensInv, WorkerInv, Generation
  <2>2. CASE worker.step = "writing"
    <3>1. worker.write.left > 0 /\ worker'.write.left = worker.write.left - 1
      BY <1>1, <1>2, <1>6, <2>2 DEF Tick
    <3>2. CASE worker.job = "current"
      BY <1>5, <1>6, <1>7, <2>2, <3>2 DEF TokensInv, WorkerInv, Generation
    <3>3. CASE worker.job = "earlier"
      <4>1. worker.write.token = "previous" /\ issued /\ age + worker.write.left <= WriteTimeout
        BY <2>2, <3>3 DEF TokensInv, WorkerInv
      <4>2. age' + worker'.write.left <= WriteTimeout
        BY <1>1, <1>3, <3>1, <4>1
      <4> QED BY <1>0, <1>5, <1>6, <2>2, <3>3, <4>1, <4>2 DEF WorkerInv
    <3> QED BY <2>2, <3>2, <3>3, WorkerWrites
  <2> QED BY <2>1, <2>2
<1>11. JobInv'
  BY <1>7 DEF TokensInv, JobInv
<1>12. HeldInv'
  BY <1>0, <1>7 DEF TokensInv, HeldInv, Generation
<1> QED BY <1>8, <1>9, <1>10, <1>11, <1>12 DEF TokensInv

-----------------------------------------------------------------------------
\* Theorems

LEMMA TokensStep ==
    ASSUME TokensInv, [Next]_vars
    PROVE  TokensInv'
<1>1. ASSUME NEW r \in Requests, Send(r) \/ Handle(r)
      PROVE  TokensInv'
  BY <1>1, SendStep, AdmitStep, IssueStep DEF Handle
<1>2. CASE WriteLands \/ WriteFails \/ LandsLate \/ FieldCleared
  BY <1>2, WriteLandsStep, WriteFailsStep, LandsLateStep, FieldClearedStep
<1>3. CASE Work
  BY <1>3, ClaimStep, ReplaceStep, RetryLandsStep, RetryFailsStep DEF Work
<1>4. CASE Crash \/ Tick
  BY <1>4, CrashStep, TickStep
<1>5. CASE UNCHANGED vars
  BY <1>5 DEF TokensInv, TypeOK, WriteInv, WorkerInv, JobInv, HeldInv, InFlight, vars
<1> QED BY <1>1, <1>2, <1>3, <1>4, <1>5 DEF Next

LEMMA TokensInvariant == Spec => []TokensInv
<1>1. Init => TokensInv
  BY InitTokens
<1>2. TokensInv /\ [Next]_vars => TokensInv'
  BY TokensStep
<1> QED BY <1>1, <1>2, PTL DEF Spec

\* A retry never replaces a token whose own write may still land, for any delays in the order
\* of the code's (tokens.ts, TOKEN_RETRY_DELAY_MS over the client's timeout).
THEOREM ReplacedAfterItsWrite == Spec => NeverReplacedInFlight
<1>1. TokensInv /\ [Next]_vars => [Replace /\ worker.job = "current" => ~InFlight]_vars
  BY ReplacedHasEnded
<1> QED BY <1>1, TokensInvariant, PTL DEF Spec, NeverReplacedInFlight

\* What the contact holds, or has sent a message with, goes on binding: an issue makes the current
\* token the previous one, which binds until the next, and a retry replaces only a token nobody
\* holds, unless a write that was taken for failed had landed (tokens.ts, issue, replaceUnwritten).
THEOREM TokensGoOnBinding == Spec => HeldTokensBind
<1>1. ASSUME TokensInv, Next
      PROVE  /\ (field = "current" /\ ~unsure) => field' \in {"current", "previous", "none"}
             /\ field = "previous" => (Binds(field') \/ field' = "none" \/ unsure
                                       \/ \E r \in Requests : Issues(r))
             /\ \A r \in Requests :
                   LET token == request[r].carries IN
                   (Binds(token) /\ request'[r].pc = "sent" /\ ~unsure) =>
                       \/ Binds(request'[r].carries)
                       \/ token = "previous" /\ \E k \in Requests : Issues(k)
  <2> DEFINE FieldBinds ==
               /\ (field = "current" /\ ~unsure) => field' \in {"current", "previous", "none"}
               /\ field = "previous" => (Binds(field') \/ field' = "none" \/ unsure
                                         \/ \E r \in Requests : Issues(r))
             CarriedBinds(r) ==
               (Binds(request[r].carries) /\ request'[r].pc = "sent" /\ ~unsure) =>
                   \/ Binds(request'[r].carries)
                   \/ request[r].carries = "previous" /\ \E k \in Requests : Issues(k)
  <2> SUFFICES FieldBinds /\ \A r \in Requests : CarriedBinds(r)
      OBVIOUS
  <2>0. TypeOK /\ HeldInv
    BY <1>1 DEF TokensInv
  <2>1. ASSUME field' \in {field, "current", "previous", "none"}
        PROVE  FieldBinds
    BY <2>1 DEF Binds
  <2>2. ASSUME NEW q \in Requests, Issues(q)
        PROVE  FieldBinds /\ \A r \in Requests : CarriedBinds(r)
    <3>1. field = "current" => field' = "previous"
      BY <2>2, Relabelled DEF Issues, Token
    <3>2. FieldBinds
      BY <2>2, <3>1
    <3>3. ASSUME NEW r \in Requests, request[r].carries = "current", request'[r].pc = "sent"
          PROVE  request'[r].carries = "previous"
      <4>1. request' = [Carried(OnIssue) EXCEPT ![q] =
                          [pc |-> "away", carries |-> "none", binding |-> @.binding]]
        BY <2>2 DEF Issues
      <4>2. Carried(OnIssue) = [k \in Requests |-> [request[k] EXCEPT !.carries = OnIssue(@)]]
        BY DEF Carried
      <4>3. r # q
        BY <3>3, <4>1, <4>2
      <4>4. request'[r] = [request[r] EXCEPT !.carries = OnIssue(@)]
        BY <4>1, <4>2, <4>3
      <4>5. request'[r].carries = OnIssue("current")
        BY <2>0, <3>3, <4>4 DEF TypeOK
      <4> QED BY <4>5, Relabelled DEF Token
    <3>4. \A r \in Requests : CarriedBinds(r)
      BY <2>2, <3>3 DEF Binds
    <3> QED BY <3>2, <3>4
  <2>3. ASSUME NEW q \in Requests, Send(q) \/ Admit(q) \/ (Issue(q) /\ ~Issues(q))
        PROVE  FieldBinds /\ \A r \in Requests : CarriedBinds(r)
    <3>1. UNCHANGED field
      BY <2>3 DEF Send, Admit, Issue
    <3>2. ASSUME NEW r \in Requests
          PROVE  CarriedBinds(r)
      <4>1. CASE r # q
        <5>1. request'[r] = request[r]
          BY <2>0, <2>3, <4>1 DEF Send, Admit, Issue, TypeOK
        <5> QED BY <5>1
      <4>2. CASE r = q /\ Send(q)
        <5>1. request[r].carries = "none"
          BY <2>0, <4>2 DEF Send, HeldInv
        <5> QED BY <5>1 DEF Binds
      <4>3. CASE r = q /\ Admit(q)
        <5>1. request'[r].pc # "sent"
          BY <2>0, <4>3 DEF Admit, TypeOK
        <5> QED BY <5>1
      <4>4. CASE r = q /\ Issue(q) /\ ~Issues(q)
        <5>1. request'[r].pc # "sent"
          BY <2>0, <4>4 DEF Issue, TypeOK
        <5> QED BY <5>1
      <4> QED BY <2>3, <4>1, <4>2, <4>3, <4>4
    <3> QED BY <2>1, <3>1, <3>2
  <2>4. ASSUME UNCHANGED request
        PROVE  \A r \in Requests : CarriedBinds(r)
    BY <2>4
  <2>5. CASE WriteLands \/ WriteFails
    <3>1. write.token = "current"
      BY <1>1, <2>5 DEF TokensInv, WriteInv, WriteLands, WriteFails
    <3>2. field' \in {field, "current"} /\ UNCHANGED request
      BY <2>5, <3>1 DEF WriteLands, WriteFails
    <3> QED BY <2>1, <2>4, <3>2
  <2>6. CASE LandsLate
    <3>1. unsure /\ UNCHANGED request
      BY <2>0, <2>6 DEF LandsLate, HeldInv
    <3> QED BY <2>4, <3>1
  <2>7. CASE FieldCleared
    <3>1. field' = "none" /\ UNCHANGED request
      BY <2>7 DEF FieldCleared
    <3> QED BY <2>1, <2>4, <3>1
  <2>8. CASE Replace
    <3>1. CASE worker.job = "current"
      <4>1. job["current"].status # "delivered"
        BY <1>1, <3>1, ReplacedHasEnded
      <4>2. ~unsure => field # "current" /\ \A r \in Requests : request[r].carries # "current"
        BY <2>0, <4>1 DEF HeldInv
      <4>3. field' = OnReplace(field) /\ request' = Carried(OnReplace)
        BY <2>8, <3>1 DEF Replace
      <4>4. ~unsure => field' = field
        BY <2>0, <4>2, <4>3, Relabelled DEF TypeOK
      <4>5. ASSUME NEW r \in Requests, ~unsure
            PROVE  request'[r].carries = request[r].carries
        <5>1. request' = [k \in Requests |-> [request[k] EXCEPT !.carries = OnReplace(@)]]
          BY <4>3 DEF Carried
        <5>2. request'[r].carries = OnReplace(request[r].carries)
          BY <2>0, <5>1 DEF TypeOK
        <5> QED BY <2>0, <4>2, <4>5, <5>2, Relabelled DEF TypeOK
      <4> QED BY <4>4, <4>5 DEF Binds
    <3>2. CASE worker.job # "current"
      <4>1. UNCHANGED <<field, request>>
        BY <2>8, <3>2 DEF Replace
      <4> QED BY <2>1, <2>4, <4>1
    <3> QED BY <3>1, <3>2
  <2>9. CASE RetryLands \/ RetryFails
    <3>1. field' \in {field, "current", "previous"} /\ UNCHANGED request
      BY <1>1, <2>9, WorkerWrites DEF RetryLands, RetryFails
    <3> QED BY <2>1, <2>4, <3>1
  <2>10. CASE Tick \/ \E g \in Generation : Claim(g)
    <3>1. UNCHANGED <<field, request>>
      BY <2>10 DEF Tick, Claim
    <3> QED BY <2>1, <2>4, <3>1
  <2>11. CASE Crash
    <3>1. field' = field /\ \A r \in Requests : request'[r].pc = "away"
      BY <2>11 DEF Crash
    <3> QED BY <2>1, <3>1
  <2>12. ASSUME NEW q \in Requests, Send(q) \/ Handle(q)
         PROVE  FieldBinds /\ \A r \in Requests : CarriedBinds(r)
    BY <2>2, <2>3, <2>12 DEF Handle
  <2> HIDE DEF FieldBinds, CarriedBinds
  <2> QED BY <1>1, <2>5, <2>6, <2>7, <2>8, <2>9, <2>10, <2>11, <2>12 DEF Next, Work
<1>2. TokensInv /\ [Next]_vars =>
        [/\ (field = "current" /\ ~unsure) => field' \in {"current", "previous", "none"}
         /\ field = "previous" => (Binds(field') \/ field' = "none" \/ unsure
                                   \/ \E r \in Requests : Issues(r))
         /\ \A r \in Requests :
               LET token == request[r].carries IN
               (Binds(token) /\ request'[r].pc = "sent" /\ ~unsure) =>
                   \/ Binds(request'[r].carries)
                   \/ token = "previous" /\ \E k \in Requests : Issues(k)]_vars
  BY <1>1
<1> QED BY <1>2, TokensInvariant, PTL DEF Spec, HeldTokensBind

=============================================================================
