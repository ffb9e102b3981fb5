----------------------------- MODULE TurnLanes -----------------------------
(***************************************************************************)
(* One contact's lane (src/conversation/turns.ts): its turns run one at a  *)
(* time, in the order their requests arrived.  Lanes of different contacts *)
(* share nothing, so one is enough.  Turns are numbered in arrival order.  *)
(*                                                                         *)
(* A turn enters on arrival and is given the tail of the turn before it to *)
(* wait for.  A tail settles once its turn's own wait is over AND the turn *)
(* has left.  The wait itself ends after MaxWait, whatever the tail does.  *)
(***************************************************************************)
EXTENDS Integers, FiniteSets

CONSTANTS N,        \* how many requests of the contact arrive
          MaxWait   \* the bound of a wait, in ticks

ASSUME LaneAssumption == N \in Nat /\ MaxWait \in Nat

VARIABLES entered,  \* the last turn to have entered
          places,   \* the turns that have entered and not left
          claimed,  \* those that said they will answer the contact
          waited,   \* those that found an earlier turn's tail unsettled
          ready,    \* how each turn's wait ended, "no" before it has
          wait      \* what is left of each turn's bounded wait

laneVars == <<entered, places, claimed, waited, ready, wait>>

Turns == 1..N

Left(m) == m \in 1..entered /\ m \notin places

\* Mutant: the tail is the promise of leaving, whether or not the turn was ever let in.
LeftOnly(m) == Left(m)

TailSettled(m) == ready[m] # "no" /\ Left(m)

Followed(m) == \E n \in places : n > m /\ n \in claimed

LaneTypeOK ==
    /\ entered \in 0..N
    /\ places \subseteq 1..entered
    /\ claimed \subseteq 1..entered
    /\ waited \subseteq 2..entered
    /\ ready \in [Turns -> {"no", "ready", "expired"}]
    /\ wait \in [Turns -> 0..MaxWait]

LaneInit ==
    /\ entered = 0
    /\ places = {}
    /\ claimed = {}
    /\ waited = {}
    /\ ready = [m \in Turns |-> "no"]
    /\ wait = [m \in Turns |-> 0]

\* The map of tails holds the last turn's until it settles, then nothing.
Enter(m) ==
    /\ m = entered + 1
    /\ m \in Turns
    /\ entered' = m
    /\ places' = places \union {m}
    /\ LET first == entered = 0 \/ TailSettled(entered) IN
       /\ waited' = IF first THEN waited ELSE waited \union {m}
       /\ ready' = IF first THEN [ready EXCEPT ![m] = "ready"] ELSE ready
       /\ wait' = IF first THEN wait ELSE [wait EXCEPT ![m] = MaxWait]
    /\ UNCHANGED claimed

Claim(m) ==
    /\ m \in places
    /\ claimed' = claimed \union {m}
    /\ UNCHANGED <<entered, places, waited, ready, wait>>

Leave(m) ==
    /\ m \in places
    /\ places' = places \ {m}
    /\ UNCHANGED <<entered, claimed, waited, ready, wait>>

\* The tail waited for has settled, with or without a place of one's own left.
ComesUp(m) ==
    /\ m \in waited
    /\ ready[m] = "no"
    /\ TailSettled(m - 1)
    /\ ready' = [ready EXCEPT ![m] = "ready"]
    /\ UNCHANGED <<entered, places, claimed, waited, wait>>

Expires(m) ==
    /\ m \in waited
    /\ ready[m] = "no"
    /\ wait[m] = 0
    /\ ready' = [ready EXCEPT ![m] = "expired"]
    /\ UNCHANGED <<entered, places, claimed, waited, wait>>

\* Timers of the event loop are not late: a wait at its bound ends before time passes.
WaitsDue == \E m \in waited : ready[m] = "no" /\ (wait[m] = 0 \/ TailSettled(m - 1))

PassWaits ==
    wait' = [m \in Turns |-> IF wait[m] > 0 /\ ready[m] = "no" THEN wait[m] - 1 ELSE 0]

LaneTick ==
    /\ ~WaitsDue
    /\ PassWaits
    /\ UNCHANGED <<entered, places, claimed, waited, ready>>

-----------------------------------------------------------------------------
\* The lane under any caller that enters each turn once and leaves at most once.

LaneNext ==
    \/ \E m \in Turns : Enter(m) \/ Claim(m) \/ Leave(m) \/ ComesUp(m) \/ Expires(m)
    \/ LaneTick

LaneSpec == LaneInit /\ [][LaneNext]_laneVars

\* Between the turns m and n a wait ended at its bound.
Outran(m, n) == \E k \in (m + 1)..n : ready[k] = "expired"

(***************************************************************************)
(* A turn is let in only when every earlier turn has left, even one still  *)
(* waiting, unless a wait in between ended at its bound (specs/037, "Turns *)
(* that enter history run one at a time"): a turn that leaves before its   *)
(* own wait is over, as one without the contact's token does, must not let *)
(* the next turn past those before it.                                     *)
(***************************************************************************)
OneAtATime ==
    \A n \in Turns : ready[n] # "no" =>
        \A m \in places : m < n => Outran(m, n)

=============================================================================
