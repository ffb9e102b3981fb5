----------------------------- MODULE ReplyFifo -----------------------------
(***************************************************************************)
(* What the outbox promises (specs/037 "A reply never overtakes an earlier *)
(* one", specs/002): a contact's replies are transmitted and settled in    *)
(* the order they were written, each at most MaxAttempts times, and one is *)
(* delivered only if it was transmitted.  A contact token's write is       *)
(* ordered with nothing.                                                   *)
(***************************************************************************)
EXTENDS Naturals

CONSTANTS Contacts, Rows, Kinds, MaxAttempts

VARIABLES contact, kind, fate, copies

vars == <<contact, kind, fate, copies>>

Init ==
    /\ contact \in [Rows -> Contacts]
    /\ kind \in [Rows -> Kinds]
    /\ fate = [r \in Rows |-> "unwritten"]
    /\ copies = [r \in Rows |-> 0]

\* Every reply written to r's contact before r is settled.
Turn(r) ==
    kind[r] = "reply" =>
        \A q \in Rows : (q < r /\ kind[q] = "reply" /\ contact[q] = contact[r])
                            => fate[q] \in {"delivered", "dead"}

Write(r) ==
    /\ fate[r] = "unwritten"
    /\ \A q \in Rows : q < r => fate[q] # "unwritten"
    /\ fate' = [fate EXCEPT ![r] = "queued"]
    /\ UNCHANGED <<contact, kind, copies>>

Transmit(r) ==
    /\ fate[r] = "queued" /\ Turn(r)
    /\ copies[r] < MaxAttempts
    /\ copies' = [copies EXCEPT ![r] = @ + 1]
    /\ UNCHANGED <<contact, kind, fate>>

Deliver(r) ==
    /\ fate[r] = "queued" /\ Turn(r)
    /\ kind[r] = "reply" => copies[r] > 0
    /\ fate' = [fate EXCEPT ![r] = "delivered"]
    /\ UNCHANGED <<contact, kind, copies>>

GiveUp(r) ==
    /\ fate[r] = "queued" /\ Turn(r)
    /\ fate' = [fate EXCEPT ![r] = "dead"]
    /\ UNCHANGED <<contact, kind, copies>>

Next == \E r \in Rows : Write(r) \/ Transmit(r) \/ Deliver(r) \/ GiveUp(r)

Spec == Init /\ [][Next]_vars
=============================================================================
