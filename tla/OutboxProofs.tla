---------------------------- MODULE OutboxProofs ----------------------------
(***************************************************************************)
(* For any number of workers, rows and contacts, and under every fault     *)
(* that Outbox models: the claims of the workers never share a row, no row *)
(* is sent more than MAX_ATTEMPTS times, and the deferred actions of one   *)
(* are settled once.  With no fault no row is stranded.  With one worker,  *)
(* and no failure between the two statements of markFailed, no reply       *)
(* overtakes an earlier one and the queue implements ReplyFifo.            *)
(***************************************************************************)
EXTENDS Outbox, TLAPS, FiniteSetTheorems

OutboxInv == TypeOK /\ ClaimInv

\* The initial table is empty and every worker idle.
LEMMA InitInv == Init => OutboxInv
<1> SUFFICES ASSUME Init PROVE OutboxInv
    OBVIOUS
<1> USE OutboxAssumption DEF Init
<1>1. TypeOK
  <2>1. kind \in [Rows -> {"reply", "contact_token"}]
    OBVIOUS
  <2> QED
    BY <2>1 DEF TypeOK, Status, Mode, Phase
<1>2. LockedRows /\ HeldRows
  BY DEF LockedRows, HeldRows
<1>3. CurrentRows /\ HandsApart
  BY DEF CurrentRows, CurrentRow, HandsApart, InDelivery, InHand, Failing
<1>4. BoundedSends /\ UnwrittenRows
  BY DEF BoundedSends, UnwrittenRows
<1> QED
  BY <1>1, <1>2, <1>3, <1>4 DEF OutboxInv, ClaimInv

\* The row the chain of contact c is at is in nobody else's hands and in no claim.
Mine(w, c) ==
    /\ cur[w][c] \in Rows
    /\ contact[cur[w][c]] = c
    /\ status[cur[w][c]] \in {"delivering", "delivered", "failed"}
    /\ attempts[cur[w][c]] > 0
    /\ \A v \in Workers : cur[w][c] \notin held[v] /\ cur[w][c] \notin locked[v]
    /\ \A v \in Workers, d \in Contacts :
          phase[v][d] \in InHand /\ cur[v][d] = cur[w][c] => v = w /\ d = c

LEMMA CurrentIsMine ==
    ASSUME OutboxInv, NEW w \in Workers, NEW c \in Contacts, phase[w][c] \in InHand
    PROVE  Mine(w, c)
<1> USE DEF OutboxInv, ClaimInv
<1>1. CurrentRow(w, c) /\ phase[w][c] # "next"
  BY DEF CurrentRows, InHand, Failing
<1>2. cur[w][c] \in Rows
  BY <1>1 DEF CurrentRow
<1>3. InDelivery(w, cur[w][c])
  BY DEF InDelivery
<1>4. ASSUME NEW v \in Workers, cur[w][c] \in held[v] PROVE FALSE
  BY <1>1, <1>2, <1>3, <1>4 DEF CurrentRow, HandsApart, InDelivery
<1>5. ASSUME NEW v \in Workers, cur[w][c] \in locked[v] PROVE FALSE
  BY <1>1, <1>5 DEF CurrentRow, LockedRows
<1>6. ASSUME NEW v \in Workers, NEW d \in Contacts,
             phase[v][d] \in InHand, cur[v][d] = cur[w][c]
      PROVE  v = w /\ d = c
  <2>1. InDelivery(v, cur[w][c])
    BY <1>6 DEF InDelivery
  <2>2. contact[cur[v][d]] = d
    BY <1>6 DEF CurrentRows, CurrentRow
  <2> QED
    BY <1>1, <1>2, <1>3, <1>6, <2>1, <2>2 DEF HandsApart, CurrentRow
<1> QED
  BY <1>1, <1>2, <1>4, <1>5, <1>6 DEF CurrentRow, Mine

\* So is a row a worker has claimed and not begun.
LEMMA HeldIsMine ==
    ASSUME OutboxInv, NEW w \in Workers, NEW r \in held[w]
    PROVE  /\ r \in Rows
           /\ status[r] = "delivering"
           /\ sends[r] < attempts[r]
           /\ \A v \in Workers : r \notin locked[v]
           /\ \A v \in Workers : r \in held[v] => v = w
           /\ \A v \in Workers, d \in Contacts : phase[v][d] \in InHand => cur[v][d] # r
<1> USE DEF OutboxInv, ClaimInv
<1>1. r \in Rows /\ status[r] = "delivering" /\ sends[r] < attempts[r]
  BY DEF HeldRows, TypeOK
<1>2. \A v \in Workers : r \in held[v] => v = w
  BY <1>1 DEF HandsApart, InDelivery
<1>3. \A v \in Workers : r \notin locked[v]
  BY <1>1 DEF LockedRows
<1>4. \A v \in Workers, d \in Contacts : phase[v][d] \in InHand => cur[v][d] # r
  BY CurrentIsMine DEF Mine
<1> QED
  BY <1>1, <1>2, <1>3, <1>4

\* A locked row is in nobody's hands.
LEMMA LockedIsFree ==
    ASSUME OutboxInv, NEW w \in Workers, NEW r \in locked[w]
    PROVE  /\ r \in Rows
           /\ status[r] = "pending"
           /\ \A v \in Workers : ~InDelivery(v, r)
<1>1. r \in Rows /\ status[r] = "pending"
  BY DEF OutboxInv, ClaimInv, LockedRows, TypeOK
<1>2. ASSUME NEW v \in Workers, InDelivery(v, r) PROVE FALSE
  BY <1>2, CurrentIsMine, HeldIsMine DEF Mine, InDelivery
<1> QED
  BY <1>1, <1>2

\* A chain that ends, at the row it is at or before the rest of its rows, leaves every
\* other row in the hands it was in.
LEMMA ChainEnds ==
    ASSUME OutboxInv, NEW w \in Workers, NEW c \in Contacts, Finish(w, c) \/ Reject(w, c),
           UNCHANGED <<contact, kind, status, attempts, mode, locked, now, sends>>,
           due' \in [Rows -> Nat],
           acted' \in [Rows -> {"none", "performed", "dropped"}],
           escalated' \subseteq Contacts
    PROVE  OutboxInv'
<1> USE DEF OutboxInv, ClaimInv
<1>1. /\ phase' = [phase EXCEPT ![w][c] = "next"]
      /\ cur' = [cur EXCEPT ![w][c] = 0]
      /\ held' \in [Workers -> SUBSET Rows]
      /\ \A v \in Workers : held'[v] \subseteq held[v]
  <2>1. CASE Finish(w, c)
    BY <2>1 DEF Finish, Goto, TypeOK
  <2>2. CASE Reject(w, c)
    <3>1. held \in [Workers -> SUBSET Rows] /\ held' = [held EXCEPT ![w] = @ \ Rest(w, c)]
      BY <2>2 DEF Reject, TypeOK
    <3>2. held' \in [Workers -> SUBSET Rows] /\ \A v \in Workers : held'[v] \subseteq held[v]
      BY <3>1
    <3> QED
      BY <2>2, <3>2 DEF Reject, Goto
  <2> QED
    BY <2>1, <2>2
<1>2. TypeOK'
  BY <1>1 DEF TypeOK, Phase
<1>3. LockedRows' /\ HeldRows'
  BY <1>1 DEF LockedRows, HeldRows
<1>4. \A v \in Workers, d \in Contacts :
         \/ phase'[v][d] = phase[v][d] /\ cur'[v][d] = cur[v][d]
         \/ phase'[v][d] = "next"
  BY <1>1 DEF TypeOK
<1>5. CurrentRows' /\ HandsApart'
  BY <1>1, <1>4 DEF CurrentRows, CurrentRow, HandsApart, InDelivery, InHand, Failing
<1>6. BoundedSends' /\ UnwrittenRows'
  BY DEF BoundedSends, UnwrittenRows
<1> QED
  BY <1>2, <1>3, <1>5, <1>6

LEMMA EnqueueInv ==
    ASSUME OutboxInv, NEW r \in Rows, Enqueue(r)
    PROVE  OutboxInv'
<1> USE OutboxAssumption DEF OutboxInv, ClaimInv, Enqueue, table, effects, NextRow, IsReply
<1>1. TypeOK'
  BY DEF TypeOK, Status, Mode, Phase, InHand, Failing, QueuedReplies, IsLatest
<1>2. LockedRows'
  BY DEF LockedRows, HeldRows, CurrentRows, CurrentRow, InHand, Failing, TypeOK
<1>3. HeldRows'
  BY DEF LockedRows, HeldRows, CurrentRows, CurrentRow, HandsApart, InDelivery, BoundedSends, InHand, Failing, TypeOK
<1>4. CurrentRows'
  <2> SUFFICES ASSUME NEW v \in Workers, NEW d \in Contacts
               PROVE  CurrentRow(v, d)'
    BY DEF CurrentRows
  <2> QED
    BY DEF CurrentRow, CurrentRows, HeldRows, HandsApart, InDelivery, BoundedSends, InHand, Failing, TypeOK
<1>5. HandsApart'
  BY DEF HandsApart, InDelivery, LockedRows, HeldRows, CurrentRows, CurrentRow, InHand, Failing, TypeOK
<1>6. BoundedSends' /\ UnwrittenRows'
  BY DEF BoundedSends, UnwrittenRows, LockedRows, HeldRows, CurrentRows, CurrentRow, InHand, Failing, TypeOK
<1> QED
  BY <1>1, <1>2, <1>3, <1>4, <1>5, <1>6

LEMMA EnqueueTokenInv ==
    ASSUME OutboxInv, NEW r \in Rows, EnqueueToken(r)
    PROVE  OutboxInv'
<1> USE OutboxAssumption DEF OutboxInv, ClaimInv, EnqueueToken, table, effects, NextRow, IsReply
<1>1. TypeOK'
  BY DEF TypeOK, Status, Mode, Phase, InHand, Failing
<1>2. LockedRows'
  BY DEF LockedRows, HeldRows, CurrentRows, CurrentRow, InHand, Failing, TypeOK
<1>3. HeldRows'
  BY DEF LockedRows, HeldRows, CurrentRows, CurrentRow, HandsApart, InDelivery, BoundedSends, InHand, Failing, TypeOK
<1>4. CurrentRows'
  <2> SUFFICES ASSUME NEW v \in Workers, NEW d \in Contacts
               PROVE  CurrentRow(v, d)'
    BY DEF CurrentRows
  <2> QED
    BY DEF CurrentRow, CurrentRows, HeldRows, HandsApart, InDelivery, BoundedSends, InHand, Failing, TypeOK
<1>5. HandsApart'
  BY DEF HandsApart, InDelivery, LockedRows, HeldRows, CurrentRows, CurrentRow, InHand, Failing, TypeOK
<1>6. BoundedSends' /\ UnwrittenRows'
  BY DEF BoundedSends, UnwrittenRows, LockedRows, HeldRows, CurrentRows, CurrentRow, InHand, Failing, TypeOK
<1> QED
  BY <1>1, <1>2, <1>3, <1>4, <1>5, <1>6

LEMMA TokenWrittenInv ==
    ASSUME OutboxInv, NEW r \in Rows, TokenWritten(r)
    PROVE  OutboxInv'
<1> USE OutboxAssumption DEF OutboxInv, ClaimInv, TokenWritten, table, effects, Locked
<1>1. TypeOK'
  BY DEF TypeOK, Status, Mode, Phase, InHand, Failing
<1>2. LockedRows'
  BY DEF LockedRows, HeldRows, CurrentRows, CurrentRow, InHand, Failing, TypeOK
<1>3. HeldRows'
  BY DEF LockedRows, HeldRows, CurrentRows, CurrentRow, HandsApart, InDelivery, BoundedSends, InHand, Failing, TypeOK
<1>4. CurrentRows'
  <2> SUFFICES ASSUME NEW v \in Workers, NEW d \in Contacts
               PROVE  CurrentRow(v, d)'
    BY DEF CurrentRows
  <2> QED
    BY DEF CurrentRow, CurrentRows, HeldRows, HandsApart, InDelivery, BoundedSends, InHand, Failing, TypeOK
<1>5. HandsApart'
  BY DEF HandsApart, InDelivery, LockedRows, HeldRows, CurrentRows, CurrentRow, InHand, Failing, TypeOK
<1>6. BoundedSends' /\ UnwrittenRows'
  BY DEF BoundedSends, UnwrittenRows, LockedRows, HeldRows, CurrentRows, CurrentRow, InHand, Failing, TypeOK
<1> QED
  BY <1>1, <1>2, <1>3, <1>4, <1>5, <1>6

LEMMA ClaimScanInv ==
    ASSUME OutboxInv, NEW w \in Workers, ClaimScan(w)
    PROVE  OutboxInv'
<1> USE OutboxAssumption DEF OutboxInv, ClaimInv, ClaimScan, table, effects, Batch, Claimable, Locked
<1>1. TypeOK'
  BY DEF TypeOK, Status, Mode, Phase, InHand, Failing
<1>2. LockedRows'
  BY DEF LockedRows, HeldRows, CurrentRows, CurrentRow, InHand, Failing, TypeOK
<1>3. HeldRows'
  BY DEF LockedRows, HeldRows, CurrentRows, CurrentRow, HandsApart, InDelivery, BoundedSends, InHand, Failing, TypeOK
<1>4. CurrentRows'
  <2> SUFFICES ASSUME NEW v \in Workers, NEW d \in Contacts
               PROVE  CurrentRow(v, d)'
    BY DEF CurrentRows
  <2> QED
    BY DEF CurrentRow, CurrentRows, HeldRows, HandsApart, InDelivery, BoundedSends, InHand, Failing, TypeOK
<1>5. HandsApart'
  BY DEF HandsApart, InDelivery, LockedRows, HeldRows, CurrentRows, CurrentRow, InHand, Failing, TypeOK
<1>6. BoundedSends' /\ UnwrittenRows'
  BY DEF BoundedSends, UnwrittenRows, LockedRows, HeldRows, CurrentRows, CurrentRow, InHand, Failing, TypeOK
<1> QED
  BY <1>1, <1>2, <1>3, <1>4, <1>5, <1>6

LEMMA ClaimCommitInv ==
    ASSUME OutboxInv, NEW w \in Workers, ClaimCommit(w)
    PROVE  OutboxInv'
<1> USE OutboxAssumption DEF OutboxInv, ClaimInv, ClaimCommit, table, effects, SetClaimed
<1>1. TypeOK'
  BY DEF TypeOK, Status, Mode, Phase, InHand, Failing
<1>2. LockedRows'
  BY DEF LockedRows, HeldRows, CurrentRows, CurrentRow, InHand, Failing, TypeOK
<1>3. HeldRows'
  BY DEF LockedRows, HeldRows, CurrentRows, CurrentRow, HandsApart, InDelivery, BoundedSends, InHand, Failing, TypeOK
<1>4. CurrentRows'
  <2> SUFFICES ASSUME NEW v \in Workers, NEW d \in Contacts
               PROVE  CurrentRow(v, d)'
    BY DEF CurrentRows
  <2>1. CurrentRow(v, d)
    BY DEF CurrentRows
  <2>2. phase[v][d] \in InHand =>
          cur[v][d] \in Rows /\ \A u \in Workers : cur[v][d] \notin locked[u] /\ cur[v][d] \notin held[u]
    BY CurrentIsMine DEF Mine
  <2> QED
    BY <2>1, <2>2 DEF CurrentRow, TypeOK
<1>5. HandsApart'
  <2> SUFFICES ASSUME NEW u \in Workers, NEW v \in Workers, NEW r \in Rows,
                      InDelivery(u, r)', InDelivery(v, r)'
               PROVE  u = v
    BY DEF HandsApart
  <2>1. ASSUME NEW x \in Workers, InDelivery(x, r)'
        PROVE  InDelivery(x, r) \/ (x = w /\ r \in locked[w])
    BY <2>1 DEF InDelivery, TypeOK
  <2>2. r \in locked[w] => \A x \in Workers : ~InDelivery(x, r)
    BY LockedIsFree
  <2> QED
    BY <2>1, <2>2 DEF HandsApart
<1>6. BoundedSends' /\ UnwrittenRows'
  BY DEF BoundedSends, UnwrittenRows, LockedRows, HeldRows, CurrentRows, CurrentRow, InHand, Failing, TypeOK
<1> QED
  BY <1>1, <1>2, <1>3, <1>4, <1>5, <1>6

LEMMA ClaimFaultInv ==
    ASSUME OutboxInv, NEW w \in Workers, ClaimFault(w)
    PROVE  OutboxInv'
<1> USE OutboxAssumption DEF OutboxInv, ClaimInv
<1>1. CASE locked' = [locked EXCEPT ![w] = {}] /\ UNCHANGED <<table, now, mode, held, cur, phase, effects>>
  <2> USE <1>1 DEF table, effects
  <2>1. TypeOK'
    BY DEF TypeOK
  <2>2. LockedRows' /\ HeldRows'
    BY DEF LockedRows, HeldRows, TypeOK
  <2>3. CurrentRows' /\ HandsApart'
    BY DEF CurrentRows, CurrentRow, HandsApart, InDelivery
  <2>4. BoundedSends' /\ UnwrittenRows'
    BY DEF BoundedSends, UnwrittenRows
  <2> QED
    BY <2>1, <2>2, <2>3, <2>4
<1>2. CASE SetClaimed(w) /\ UNCHANGED held
  <2> USE <1>2 DEF SetClaimed, table, effects
  <2>1. TypeOK'
    BY DEF TypeOK, Status
  <2>2. LockedRows'
    BY DEF LockedRows, TypeOK
  <2>3. HeldRows'
    BY HeldIsMine DEF HeldRows, TypeOK
  <2>4. CurrentRows'
    <3> SUFFICES ASSUME NEW v \in Workers, NEW d \in Contacts
                 PROVE  CurrentRow(v, d)'
      BY DEF CurrentRows
    <3>1. CurrentRow(v, d)
      BY DEF CurrentRows
    <3>2. phase[v][d] \in InHand =>
            cur[v][d] \in Rows /\ \A u \in Workers : cur[v][d] \notin locked[u]
      BY CurrentIsMine DEF Mine
    <3> QED
      BY <3>1, <3>2 DEF CurrentRow, TypeOK
  <2>5. HandsApart'
    BY DEF HandsApart, InDelivery
  <2>6. BoundedSends' /\ UnwrittenRows'
    BY DEF BoundedSends, UnwrittenRows, LockedRows, TypeOK
  <2> QED
    BY <2>1, <2>2, <2>3, <2>4, <2>5, <2>6
<1> QED
  BY <1>1, <1>2 DEF ClaimFault

LEMMA AttemptInv ==
    ASSUME OutboxInv, NEW w \in Workers, NEW c \in Contacts, Attempt(w, c)
    PROVE  OutboxInv'
<1> USE OutboxAssumption DEF OutboxInv, ClaimInv, Attempt, table, effects, IsHead, Rest, Goto
<1>0. PICK r \in held[w] :
         /\ IsHead(w, c, r)
         /\ held' = [held EXCEPT ![w] = @ \ {r}]
         /\ cur' = [cur EXCEPT ![w][c] = r]
         /\ sends' = sends \/ sends' = [sends EXCEPT ![r] = @ + 1]
  OBVIOUS
<1>1. TypeOK'
  <2> HIDE DEF Attempt
  <2>1. held' \in [Workers -> SUBSET Rows] /\ cur' \in [Workers -> [Contacts -> Rows \union {0}]]
    BY <1>0 DEF TypeOK
  <2>2. sends \in [Rows -> Nat] /\ r \in Rows
    BY DEF TypeOK
  <2>3. [sends EXCEPT ![r] = @ + 1] \in [Rows -> Nat]
    BY <2>2
  <2>4. sends' \in [Rows -> Nat]
    BY <1>0, <2>2, <2>3
  <2>5. phase' \in [Workers -> [Contacts -> Phase]]
    <3>1. \E p \in {"accepted", "retry", "refused"} : Goto(w, c, p)
      BY DEF Attempt
    <3> QED
      BY <3>1 DEF TypeOK, Phase, InHand, Failing
  <2> QED
    BY <2>1, <2>4, <2>5 DEF TypeOK, Attempt
<1>2. LockedRows'
  BY DEF LockedRows, HeldRows, CurrentRows, CurrentRow, InHand, Failing, TypeOK
<1>3. HeldRows'
  BY DEF LockedRows, HeldRows, CurrentRows, CurrentRow, HandsApart, InDelivery, BoundedSends, InHand, Failing, TypeOK
<1>4. CurrentRows'
  <2> SUFFICES ASSUME NEW v \in Workers, NEW d \in Contacts
               PROVE  CurrentRow(v, d)'
    BY DEF CurrentRows
  <2> QED
    BY DEF CurrentRow, CurrentRows, HeldRows, HandsApart, InDelivery, BoundedSends, InHand, Failing, TypeOK
<1>5. HandsApart'
  BY DEF HandsApart, InDelivery, LockedRows, HeldRows, CurrentRows, CurrentRow, InHand, Failing, TypeOK
<1>6. BoundedSends' /\ UnwrittenRows'
  <2> HIDE DEF Attempt
  <2>1. r \in Rows /\ status[r] = "delivering" /\ sends[r] < attempts[r]
    BY HeldIsMine
  <2>2. UNCHANGED <<status, attempts>>
    BY DEF Attempt
  <2>3. \A q \in Rows : sends'[q] <= attempts[q]
    <3> TAKE q \in Rows
    <3>1. sends[q] <= attempts[q] /\ sends[q] \in Nat /\ attempts[q] \in Int
      BY DEF BoundedSends, TypeOK
    <3>2. sends'[q] = sends[q] \/ (q = r /\ sends'[q] = sends[q] + 1)
      BY <1>0, <2>1 DEF TypeOK
    <3> QED
      BY <2>1, <3>1, <3>2
  <2> QED
    BY <2>2, <2>3 DEF BoundedSends, UnwrittenRows
<1> QED
  BY <1>1, <1>2, <1>3, <1>4, <1>5, <1>6

LEMMA WindowClosedInv ==
    ASSUME OutboxInv, NEW w \in Workers, NEW c \in Contacts, WindowClosed(w, c)
    PROVE  OutboxInv'
<1> USE OutboxAssumption DEF OutboxInv, ClaimInv, WindowClosed, table, effects, IsHead, Rest, Goto
<1>1. TypeOK'
  BY DEF TypeOK, Status, Mode, Phase, InHand, Failing
<1>2. LockedRows'
  BY DEF LockedRows, HeldRows, CurrentRows, CurrentRow, InHand, Failing, TypeOK
<1>3. HeldRows'
  BY DEF LockedRows, HeldRows, CurrentRows, CurrentRow, HandsApart, InDelivery, BoundedSends, InHand, Failing, TypeOK
<1>4. CurrentRows'
  <2> SUFFICES ASSUME NEW v \in Workers, NEW d \in Contacts
               PROVE  CurrentRow(v, d)'
    BY DEF CurrentRows
  <2> QED
    BY DEF CurrentRow, CurrentRows, HeldRows, HandsApart, InDelivery, BoundedSends, InHand, Failing, TypeOK
<1>5. HandsApart'
  BY DEF HandsApart, InDelivery, LockedRows, HeldRows, CurrentRows, CurrentRow, InHand, Failing, TypeOK
<1>6. BoundedSends' /\ UnwrittenRows'
  BY DEF BoundedSends, UnwrittenRows, LockedRows, HeldRows, CurrentRows, CurrentRow, InHand, Failing, TypeOK
<1> QED
  BY <1>1, <1>2, <1>3, <1>4, <1>5, <1>6

LEMMA MarkDeliveredInv ==
    ASSUME OutboxInv, NEW w \in Workers, NEW c \in Contacts, MarkDelivered(w, c)
    PROVE  OutboxInv'
<1> USE OutboxAssumption DEF OutboxInv, ClaimInv, MarkDelivered, table, effects, SetStatus, Goto, Finish
<1>0. Mine(w, c)
  BY CurrentIsMine DEF InHand, Failing
<1>1. TypeOK'
  <2> HIDE DEF MarkDelivered
  <2>1. \/ phase' = [phase EXCEPT ![w][c] = "acting"] /\ UNCHANGED cur
        \/ phase' = [phase EXCEPT ![w][c] = "next"] /\ cur' = [cur EXCEPT ![w][c] = 0]
    BY DEF MarkDelivered
  <2>2. /\ [phase EXCEPT ![w][c] = "acting"] \in [Workers -> [Contacts -> Phase]]
        /\ [phase EXCEPT ![w][c] = "next"] \in [Workers -> [Contacts -> Phase]]
        /\ [cur EXCEPT ![w][c] = 0] \in [Workers -> [Contacts -> Rows \union {0}]]
    BY DEF TypeOK, Phase, InHand, Failing
  <2>3. status' \in [Rows -> Status]
    BY DEF TypeOK, Status, MarkDelivered
  <2> QED
    BY <2>1, <2>2, <2>3 DEF TypeOK, MarkDelivered
<1>2. LockedRows'
  BY <1>0 DEF Mine, LockedRows, TypeOK
<1>3. HeldRows'
  BY <1>0 DEF Mine, HeldRows, TypeOK
<1>4. CurrentRows'
  <2> SUFFICES ASSUME NEW v \in Workers, NEW d \in Contacts
               PROVE  CurrentRow(v, d)'
    BY DEF CurrentRows
  <2>1. CurrentRow(v, d) /\ CurrentRow(w, c)
    BY DEF CurrentRows
  <2>2. CASE v = w /\ d = c
    BY <1>0, <2>1, <2>2 DEF Mine, CurrentRow, TypeOK, InHand, Failing
  <2>3. CASE ~(v = w /\ d = c)
    <3>1. phase'[v][d] = phase[v][d] /\ cur'[v][d] = cur[v][d]
      BY <2>3 DEF TypeOK
    <3>2. phase[v][d] \in InHand => cur[v][d] \in Rows /\ cur[v][d] # cur[w][c]
      BY <1>0, <2>3, CurrentIsMine DEF Mine
    <3>3. /\ held' = held /\ contact' = contact /\ attempts' = attempts
          /\ \A q \in Rows : q # cur[w][c] => status'[q] = status[q]
      BY <1>0 DEF Mine, TypeOK
    <3> HIDE DEF MarkDelivered
    <3> QED
      BY <2>1, <3>1, <3>2, <3>3 DEF CurrentRow
  <2> QED
    BY <2>2, <2>3
<1>5. HandsApart'
  <2>1. \A v \in Workers, r \in Rows : InDelivery(v, r)' => InDelivery(v, r)
    <3>1. \A v \in Workers, d \in Contacts :
             \/ phase'[v][d] = phase[v][d] /\ cur'[v][d] = cur[v][d]
             \/ v = w /\ d = c /\ (phase'[v][d] = "next" \/ cur'[v][d] = cur[v][d])
      BY DEF TypeOK
    <3> HIDE DEF MarkDelivered
    <3>2. held' = held /\ phase[w][c] \in InHand
      BY DEF MarkDelivered, InHand
    <3>3. "next" \notin InHand
      BY DEF InHand, Failing
    <3> QED
      BY <3>1, <3>2, <3>3 DEF InDelivery
  <2> QED
    BY <2>1 DEF HandsApart
<1>6. BoundedSends' /\ UnwrittenRows'
  BY DEF BoundedSends, UnwrittenRows, LockedRows, HeldRows, CurrentRows, CurrentRow, InHand, Failing, TypeOK
<1> QED
  BY <1>1, <1>2, <1>3, <1>4, <1>5, <1>6

LEMMA MarkDeliveredFaultInv ==
    ASSUME OutboxInv, NEW w \in Workers, NEW c \in Contacts, MarkDeliveredFault(w, c)
    PROVE  OutboxInv'
<1> USE OutboxAssumption DEF OutboxInv, ClaimInv, MarkDeliveredFault, table, effects, SetStatus, Goto
<1>0. Mine(w, c)
  BY CurrentIsMine DEF InHand, Failing
<1>1. TypeOK'
  BY DEF TypeOK, Status, Phase, InHand, Failing
<1>2. LockedRows'
  BY <1>0 DEF Mine, LockedRows, TypeOK
<1>3. HeldRows'
  BY <1>0 DEF Mine, HeldRows, TypeOK
<1>4. CurrentRows'
  <2> SUFFICES ASSUME NEW v \in Workers, NEW d \in Contacts
               PROVE  CurrentRow(v, d)'
    BY DEF CurrentRows
  <2> QED
    BY DEF CurrentRow, CurrentRows, HeldRows, HandsApart, InDelivery, BoundedSends, InHand, Failing, TypeOK
<1>5. HandsApart'
  BY DEF HandsApart, InDelivery, LockedRows, HeldRows, CurrentRows, CurrentRow, InHand, Failing, TypeOK
<1>6. BoundedSends' /\ UnwrittenRows'
  BY DEF BoundedSends, UnwrittenRows, LockedRows, HeldRows, CurrentRows, CurrentRow, InHand, Failing, TypeOK
<1> QED
  BY <1>1, <1>2, <1>3, <1>4, <1>5, <1>6

LEMMA PerformDeferredInv ==
    ASSUME OutboxInv, NEW w \in Workers, NEW c \in Contacts, PerformDeferred(w, c)
    PROVE  OutboxInv'
<1>1. acted' \in [Rows -> {"none", "performed", "dropped"}]
  BY DEF PerformDeferred, OutboxInv, TypeOK
<1> QED
  BY <1>1, ChainEnds DEF PerformDeferred, table, OutboxInv, TypeOK

\* markFailed's first statement writes the chain's own row only, and puts it back only
\* while it has an attempt left.
LEMMA SetFailedEffect ==
    ASSUME OutboxInv, NEW w \in Workers, NEW c \in Contacts,
           phase[w][c] \in Failing, SetFailed(w, c)
    PROVE  /\ status' \in [Rows -> Status] /\ due' \in [Rows -> Nat]
           /\ UNCHANGED <<contact, kind, attempts>>
           /\ \A r \in Rows : r # cur[w][c] => status'[r] = status[r]
           /\ \/ status'[cur[w][c]] = "failed"
              \/ ~Exhausted(w, c) /\ status'[cur[w][c]] = "pending" /\ attempts[cur[w][c]] < MaxAttempts
           /\ Exhausted(w, c) => status'[cur[w][c]] = "failed"
<1>1. cur[w][c] \in Rows /\ attempts[cur[w][c]] > 0
  BY CurrentIsMine DEF Mine, InHand
<1>2. attempts[cur[w][c]] \in Int /\ attempts[cur[w][c]] <= MaxAttempts
  BY <1>1 DEF OutboxInv, ClaimInv, TypeOK, BoundedSends
<1>3. CASE Exhausted(w, c)
  BY <1>1, <1>3 DEF SetFailed, SetStatus, OutboxInv, TypeOK, Status
<1>4. CASE ~Exhausted(w, c)
  <2>1. /\ status' = [status EXCEPT ![cur[w][c]] = "pending"]
        /\ due' = [due EXCEPT ![cur[w][c]] = now + Backoff[attempts[cur[w][c]]]]
        /\ UNCHANGED <<contact, kind, attempts>>
    BY <1>4 DEF SetFailed
  <2>2. attempts[cur[w][c]] < MaxAttempts
    BY <1>2, <1>4, OutboxAssumption DEF Exhausted
  <2>3. now + Backoff[attempts[cur[w][c]]] \in Nat
    BY <1>1, <1>2, OutboxAssumption DEF OutboxInv, TypeOK
  <2> QED
    BY <1>1, <1>4, <2>1, <2>2, <2>3 DEF OutboxInv, TypeOK, Status
<1> QED
  BY <1>3, <1>4


LEMMA MarkFailedInv ==
    ASSUME OutboxInv, NEW w \in Workers, NEW c \in Contacts, MarkFailed(w, c)
    PROVE  OutboxInv'
<1> USE DEF OutboxInv, ClaimInv
<1> DEFINE r == cur[w][c]
           p == IF ~Exhausted(w, c) THEN "pushing"
                ELSE IF phase[w][c] = "closed" THEN "escalating" ELSE "burying"
<1>0. Mine(w, c)
  BY CurrentIsMine DEF MarkFailed, InHand
<1>1. /\ status' \in [Rows -> Status] /\ due' \in [Rows -> Nat]
      /\ UNCHANGED <<contact, kind, attempts>>
      /\ \A q \in Rows : q # r => status'[q] = status[q]
      /\ \/ status'[r] = "failed"
         \/ ~Exhausted(w, c) /\ status'[r] = "pending" /\ attempts[r] < MaxAttempts
      /\ Exhausted(w, c) => status'[r] = "failed"
  BY SetFailedEffect DEF MarkFailed
<1>2. phase' = [phase EXCEPT ![w][c] = p] /\ UNCHANGED <<now, mode, locked, held, cur, effects>>
  BY DEF MarkFailed, Goto
<1> HIDE DEF p, r
<1>3. p \in {"pushing", "escalating", "burying"} /\ (p \in InHand => Exhausted(w, c))
  BY DEF p, InHand, Failing
<1>4. TypeOK'
  BY <1>1, <1>2, <1>3 DEF TypeOK, Phase, InHand, effects
<1>5. LockedRows'
  BY <1>0, <1>1, <1>2 DEF Mine, LockedRows, TypeOK, r
<1>6. HeldRows'
  BY <1>0, <1>1, <1>2 DEF Mine, HeldRows, TypeOK, r, effects
<1>7. CurrentRows'
  <2> SUFFICES ASSUME NEW v \in Workers, NEW d \in Contacts
               PROVE  CurrentRow(v, d)'
    BY DEF CurrentRows
  <2>1. CurrentRow(v, d) /\ CurrentRow(w, c)
    BY DEF CurrentRows
  <2>2. CASE v = w /\ d = c
    BY <1>0, <1>1, <1>2, <1>3, <2>1, <2>2 DEF Mine, CurrentRow, TypeOK, r
  <2>3. CASE ~(v = w /\ d = c)
    <3>1. phase'[v][d] = phase[v][d] /\ cur' = cur /\ held' = held
      BY <1>2, <2>3 DEF TypeOK
    <3>2. phase[v][d] \in InHand => cur[v][d] \in Rows /\ cur[v][d] # r
      BY <1>0, <2>3, CurrentIsMine DEF Mine, r
    <3>3. phase[v][d] \in InHand => status'[cur[v][d]] = status[cur[v][d]]
      BY <1>1, <3>2
    <3> QED
      BY <1>1, <2>1, <3>1, <3>3 DEF CurrentRow
  <2> QED
    BY <2>2, <2>3
<1>8. HandsApart'
  <2>1. phase[w][c] \in InHand
    BY DEF MarkFailed, InHand
  <2>2. \A v \in Workers, d \in Contacts : phase'[v][d] = phase[v][d] \/ (v = w /\ d = c)
    BY <1>2 DEF TypeOK
  <2> QED
    BY <1>2, <2>1, <2>2 DEF HandsApart, InDelivery
<1>9. BoundedSends' /\ UnwrittenRows'
  BY <1>0, <1>1, <1>2 DEF BoundedSends, UnwrittenRows, Mine, TypeOK, r, effects
<1> QED
  BY <1>4, <1>5, <1>6, <1>7, <1>8, <1>9

LEMMA MarkFailedFaultInv ==
    ASSUME OutboxInv, NEW w \in Workers, NEW c \in Contacts, MarkFailedFault(w, c)
    PROVE  OutboxInv'
<1> USE DEF OutboxInv, ClaimInv
<1> DEFINE r == cur[w][c]
<1>0. Mine(w, c)
  BY CurrentIsMine DEF MarkFailedFault, InHand
<1>1. /\ status' \in [Rows -> Status] /\ due' \in [Rows -> Nat]
      /\ UNCHANGED <<contact, kind, attempts>>
      /\ \A q \in Rows : q # r => status'[q] = status[q]
      /\ \/ status'[r] = status[r]
         \/ status'[r] = "failed"
         \/ status'[r] = "pending" /\ attempts[r] < MaxAttempts
  <2>1. CASE SetFailed(w, c)
    BY <2>1, SetFailedEffect DEF MarkFailedFault
  <2>2. CASE UNCHANGED table
    BY <2>2 DEF table, TypeOK
  <2> QED
    BY <2>1, <2>2 DEF MarkFailedFault
<1>2. /\ phase' = [phase EXCEPT ![w][c] = "next"]
      /\ cur' = [cur EXCEPT ![w][c] = 0]
      /\ held' = [held EXCEPT ![w] = @ \ Rest(w, c)]
      /\ UNCHANGED <<now, mode, locked, effects>>
  BY DEF MarkFailedFault, Reject, Goto
<1> HIDE DEF r
<1>4. TypeOK'
  BY <1>1, <1>2 DEF TypeOK, Phase, effects
<1>5. LockedRows'
  BY <1>0, <1>1, <1>2 DEF Mine, LockedRows, TypeOK, r
<1>6. HeldRows'
  BY <1>0, <1>1, <1>2 DEF Mine, HeldRows, TypeOK, r, effects
<1>7. CurrentRows'
  <2> SUFFICES ASSUME NEW v \in Workers, NEW d \in Contacts
               PROVE  CurrentRow(v, d)'
    BY DEF CurrentRows
  <2>1. CurrentRow(v, d)
    BY DEF CurrentRows
  <2>2. CASE v = w /\ d = c
    BY <1>2, <2>2 DEF CurrentRow, TypeOK, InHand, Failing
  <2>3. CASE ~(v = w /\ d = c)
    <3>1. phase'[v][d] = phase[v][d] /\ cur'[v][d] = cur[v][d] /\ held'[v] \subseteq held[v]
      BY <1>2, <2>3 DEF TypeOK
    <3>2. phase[v][d] \in InHand => cur[v][d] \in Rows /\ cur[v][d] # r
      BY <1>0, <2>3, CurrentIsMine DEF Mine, r
    <3>3. phase[v][d] \in InHand => status'[cur[v][d]] = status[cur[v][d]]
      BY <1>1, <3>2
    <3> QED
      BY <1>1, <2>1, <3>1, <3>3 DEF CurrentRow
  <2> QED
    BY <2>2, <2>3
<1>8. HandsApart'
  <2>1. \A v \in Workers, d \in Contacts :
           \/ phase'[v][d] = phase[v][d] /\ cur'[v][d] = cur[v][d]
           \/ phase'[v][d] = "next"
    BY <1>2 DEF TypeOK
  <2>2. \A v \in Workers : held'[v] \subseteq held[v]
    BY <1>2 DEF TypeOK
  <2> QED
    BY <2>1, <2>2 DEF HandsApart, InDelivery, InHand, Failing
<1>9. BoundedSends' /\ UnwrittenRows'
  BY <1>0, <1>1, <1>2 DEF BoundedSends, UnwrittenRows, Mine, TypeOK, r, effects
<1> QED
  BY <1>4, <1>5, <1>6, <1>7, <1>8, <1>9

\* A push writes due only, and of rows that are nobody's current row.
LEMMA SetPushedEffect ==
    ASSUME OutboxInv, NEW r \in Rows, SetPushed(r)
    PROVE  due' \in [Rows -> Nat] /\ UNCHANGED <<contact, kind, status, attempts>>
BY DEF SetPushed, OutboxInv, TypeOK, Later

LEMMA PushLaterInv ==
    ASSUME OutboxInv, NEW w \in Workers, NEW c \in Contacts, PushLater(w, c)
    PROVE  OutboxInv'
<1>1. cur[w][c] \in Rows
  BY DEF OutboxInv, ClaimInv, CurrentRows, CurrentRow, PushLater
<1>2. due' \in [Rows -> Nat] /\ UNCHANGED <<contact, kind, status, attempts>>
  BY <1>1, SetPushedEffect DEF PushLater
<1>3. CASE Finish(w, c)
  BY <1>2, <1>3, ChainEnds DEF PushLater, effects, OutboxInv, TypeOK
<1>4. CASE Goto(w, c, "releasing") /\ UNCHANGED <<cur, held>>
  <2> USE <1>2, <1>4 DEF OutboxInv, ClaimInv, Goto
  <2>1. UNCHANGED <<now, mode, locked, effects>>
    BY DEF PushLater
  <2>2. TypeOK'
    BY <2>1 DEF TypeOK, Phase, effects
  <2>3. LockedRows' /\ HeldRows'
    BY <2>1 DEF LockedRows, HeldRows, effects
  <2>4. \A v \in Workers, d \in Contacts :
           phase'[v][d] = phase[v][d] \/ (v = w /\ d = c /\ phase'[v][d] = "releasing")
    BY DEF TypeOK
  <2>5. CurrentRows' /\ HandsApart'
    BY <1>1, <2>4 DEF CurrentRows, CurrentRow, HandsApart, InDelivery, InHand, Failing
  <2>6. BoundedSends' /\ UnwrittenRows'
    BY <2>1 DEF BoundedSends, UnwrittenRows, effects
  <2> QED
    BY <2>2, <2>3, <2>5, <2>6
<1> QED
  BY <1>3, <1>4 DEF PushLater

LEMMA PushFaultInv ==
    ASSUME OutboxInv, NEW w \in Workers, NEW c \in Contacts, PushFault(w, c)
    PROVE  OutboxInv'
<1>1. cur[w][c] \in Rows
  BY DEF OutboxInv, ClaimInv, CurrentRows, CurrentRow, PushFault
<1>2. due' \in [Rows -> Nat] /\ UNCHANGED <<contact, kind, status, attempts>>
  <2>1. CASE SetPushed(cur[w][c])
    BY <1>1, <2>1, SetPushedEffect
  <2>2. CASE UNCHANGED table
    BY <2>2 DEF table, OutboxInv, TypeOK
  <2> QED
    BY <2>1, <2>2 DEF PushFault
<1> QED
  BY <1>2, ChainEnds DEF PushFault, effects, OutboxInv, TypeOK

LEMMA ReleaseInv ==
    ASSUME OutboxInv, NEW w \in Workers, NEW c \in Contacts, Release(w, c)
    PROVE  OutboxInv'
<1> USE OutboxAssumption DEF OutboxInv, ClaimInv, Release, table, effects, HandsBack, SetReleased, Rest, Reject, Goto
<1>1. TypeOK'
  <2>1. \A r \in Rest(w, c) : r \in Rows /\ attempts[r] - 1 \in Nat
    BY HeldIsMine DEF TypeOK
  <2>2. attempts' \in [Rows -> Nat]
    BY <2>1 DEF TypeOK
  <2> QED
    BY <2>2 DEF TypeOK, Status, Phase
<1>2. LockedRows'
  BY DEF LockedRows, HeldRows, CurrentRows, CurrentRow, InHand, Failing, TypeOK
<1>3. HeldRows'
  BY DEF LockedRows, HeldRows, CurrentRows, CurrentRow, HandsApart, InDelivery, BoundedSends, InHand, Failing, TypeOK
<1>4. CurrentRows'
  <2> SUFFICES ASSUME NEW v \in Workers, NEW d \in Contacts
               PROVE  CurrentRow(v, d)'
    BY DEF CurrentRows
  <2> QED
    BY DEF CurrentRow, CurrentRows, HeldRows, HandsApart, InDelivery, BoundedSends, InHand, Failing, TypeOK
<1>5. HandsApart'
  BY DEF HandsApart, InDelivery, LockedRows, HeldRows, CurrentRows, CurrentRow, InHand, Failing, TypeOK
<1>6. BoundedSends' /\ UnwrittenRows'
  BY DEF BoundedSends, UnwrittenRows, LockedRows, HeldRows, CurrentRows, CurrentRow, InHand, Failing, TypeOK
<1> QED
  BY <1>1, <1>2, <1>3, <1>4, <1>5, <1>6

LEMMA ReleaseFaultInv ==
    ASSUME OutboxInv, NEW w \in Workers, NEW c \in Contacts, ReleaseFault(w, c)
    PROVE  OutboxInv'
<1>1. CASE SetReleased(w, c)
  <2>1. Release(w, c)
    BY <1>1 DEF ReleaseFault, Release
  <2> QED
    BY <2>1, ReleaseInv
<1>2. CASE UNCHANGED table
  BY <1>2, ChainEnds DEF ReleaseFault, table, effects, OutboxInv, TypeOK
<1> QED
  BY <1>1, <1>2 DEF ReleaseFault

LEMMA BuryInv ==
    ASSUME OutboxInv, NEW w \in Workers, NEW c \in Contacts, Bury(w, c)
    PROVE  OutboxInv'
<1>1. acted' \in [Rows -> {"none", "performed", "dropped"}] /\ escalated' \subseteq Contacts
  BY DEF Bury, OutboxInv, TypeOK
<1> QED
  BY <1>1, ChainEnds DEF Bury, table, OutboxInv, TypeOK

\* A step of the process or of the clock touches no claim and no chain.
LEMMA AsideInv ==
    ASSUME OutboxInv, mode' \in [Workers -> Mode], now' \in Nat,
           UNCHANGED <<table, locked, held, cur, phase, effects>>
    PROVE  OutboxInv'
<1> USE DEF OutboxInv, ClaimInv, table, effects
<1>1. TypeOK'
  BY DEF TypeOK
<1>2. LockedRows' /\ HeldRows' /\ CurrentRows' /\ HandsApart'
  BY DEF LockedRows, HeldRows, CurrentRows, CurrentRow, HandsApart, InDelivery
<1>3. BoundedSends' /\ UnwrittenRows'
  BY DEF BoundedSends, UnwrittenRows
<1> QED
  BY <1>1, <1>2, <1>3

LEMMA ProcessInv ==
    ASSUME OutboxInv, NEW w \in Workers, Stop(w) \/ StopReturns(w) \/ Restart(w)
    PROVE  OutboxInv'
BY AsideInv DEF Stop, StopReturns, Restart, Mode, OutboxInv, TypeOK

LEMMA TickInv == OutboxInv /\ Tick => OutboxInv'
BY AsideInv DEF Tick, OutboxInv, TypeOK

LEMMA CrashInv ==
    ASSUME OutboxInv, NEW w \in Workers, Crash(w)
    PROVE  OutboxInv'
<1> USE OutboxAssumption DEF OutboxInv, ClaimInv, Crash, table, effects
<1>1. TypeOK'
  BY DEF TypeOK, Status, Mode, Phase, InHand, Failing
<1>2. LockedRows'
  BY DEF LockedRows, HeldRows, CurrentRows, CurrentRow, InHand, Failing, TypeOK
<1>3. HeldRows'
  BY DEF LockedRows, HeldRows, CurrentRows, CurrentRow, HandsApart, InDelivery, BoundedSends, InHand, Failing, TypeOK
<1>4. CurrentRows'
  <2> SUFFICES ASSUME NEW v \in Workers, NEW d \in Contacts
               PROVE  CurrentRow(v, d)'
    BY DEF CurrentRows
  <2> QED
    BY DEF CurrentRow, CurrentRows, HeldRows, HandsApart, InDelivery, BoundedSends, InHand, Failing, TypeOK
<1>5. HandsApart'
  BY DEF HandsApart, InDelivery, LockedRows, HeldRows, CurrentRows, CurrentRow, InHand, Failing, TypeOK
<1>6. BoundedSends' /\ UnwrittenRows'
  BY DEF BoundedSends, UnwrittenRows, LockedRows, HeldRows, CurrentRows, CurrentRow, InHand, Failing, TypeOK
<1> QED
  BY <1>1, <1>2, <1>3, <1>4, <1>5, <1>6

\* Every step keeps the inductive invariant.
LEMMA NextInv == OutboxInv /\ [Next]_vars => OutboxInv'
<1> SUFFICES ASSUME OutboxInv, [Next]_vars PROVE OutboxInv'
    OBVIOUS
<1>1. CASE \E r \in Rows : Enqueue(r) \/ EnqueueToken(r) \/ TokenWritten(r)
  BY <1>1, EnqueueInv, EnqueueTokenInv, TokenWrittenInv
<1>2. ASSUME NEW w \in Workers, ClaimScan(w) \/ ClaimCommit(w) \/ ClaimFault(w)
      PROVE  OutboxInv'
  BY <1>2, ClaimScanInv, ClaimCommitInv, ClaimFaultInv
<1>3. ASSUME NEW w \in Workers, Stop(w) \/ StopReturns(w) \/ Crash(w) \/ Restart(w)
      PROVE  OutboxInv'
  BY <1>3, ProcessInv, CrashInv
<1>4. ASSUME NEW w \in Workers, NEW c \in Contacts, ChainStep(w, c)
      PROVE  OutboxInv'
  <2>1. CASE Attempt(w, c) \/ WindowClosed(w, c) \/ MarkDelivered(w, c) \/ MarkDeliveredFault(w, c)
    BY <2>1, AttemptInv, WindowClosedInv, MarkDeliveredInv, MarkDeliveredFaultInv
  <2>2. CASE PerformDeferred(w, c) \/ MarkFailed(w, c) \/ MarkFailedFault(w, c) \/ PushLater(w, c)
    BY <2>2, PerformDeferredInv, MarkFailedInv, MarkFailedFaultInv, PushLaterInv
  <2>3. CASE PushFault(w, c) \/ Release(w, c) \/ ReleaseFault(w, c) \/ Bury(w, c)
    BY <2>3, PushFaultInv, ReleaseInv, ReleaseFaultInv, BuryInv
  <2> QED
    BY <1>4, <2>1, <2>2, <2>3 DEF ChainStep
<1>5. CASE Tick
  BY <1>5, TickInv
<1>6. CASE UNCHANGED vars
  BY <1>6 DEF vars, table, effects, OutboxInv, TypeOK, ClaimInv, UnwrittenRows, LockedRows,
              HeldRows, CurrentRows, CurrentRow, HandsApart, InDelivery, BoundedSends
<1> QED
  BY <1>1, <1>2, <1>3, <1>4, <1>5, <1>6 DEF Next

\* The table, the claims and the chains keep their types (queue.ts, worker.ts).
THEOREM TypeCorrect == Spec => []TypeOK
<1>1. Init => OutboxInv
  BY InitInv
<1>2. OutboxInv /\ [Next]_vars => OutboxInv'
  BY NextInv
<1>3. OutboxInv => TypeOK
  BY DEF OutboxInv
<1> QED
  BY <1>1, <1>2, <1>3, PTL DEF Spec

\* No row is ever in two workers' hands, whatever fails (queue.ts:124-126).
THEOREM ClaimsApart == Spec => []OneClaimPerRow
<1>1. Init => OutboxInv
  BY InitInv
<1>2. OutboxInv /\ [Next]_vars => OutboxInv'
  BY NextInv
<1>3. ASSUME OutboxInv PROVE OneClaimPerRow
  <2>1. ASSUME NEW w \in Workers, NEW v \in Workers, w # v, NEW r \in Rows,
               InDelivery(w, r), InDelivery(v, r) \/ r \in locked[v]
        PROVE  FALSE
    BY <1>3, <2>1, LockedIsFree DEF OutboxInv, ClaimInv, HandsApart
  <2>2. \A w, v \in Workers : w # v => locked[w] \intersect locked[v] = {}
    BY <1>3 DEF OutboxInv, ClaimInv, LockedRows
  <2> QED
    BY <2>1, <2>2 DEF OneClaimPerRow
<1> QED
  BY <1>1, <1>2, <1>3, PTL DEF Spec

\* No row is sent more than MAX_ATTEMPTS times, whatever fails (queue.ts:223).
THEOREM SendsBounded == Spec => []BoundedSends
<1>1. Init => OutboxInv
  BY InitInv
<1>2. OutboxInv /\ [Next]_vars => OutboxInv'
  BY NextInv
<1>3. OutboxInv => BoundedSends
  BY DEF OutboxInv, ClaimInv
<1> QED
  BY <1>1, <1>2, <1>3, PTL DEF Spec

-----------------------------------------------------------------------------
(* What is stored of a row and what is done about it *)

Settled(r) == status[r] \in {"delivered", "failed"}

\* A row in a worker's hands has not been acted on; it went out before it is acted on as sent,
\* and its outcome is stored before the actions run or are dropped.
Outcome(w, c) ==
    /\ phase[w][c] \in InHand => acted[cur[w][c]] = "none"
    /\ phase[w][c] \in {"accepted", "acting"} => sends[cur[w][c]] > 0
    /\ phase[w][c] = "acting" => status[cur[w][c]] = "delivered"
    /\ phase[w][c] \in {"burying", "escalating"} => status[cur[w][c]] = "failed"

OutcomeInv ==
    /\ \A r \in Rows : acted[r] # "none" => Settled(r)
    /\ \A w \in Workers, c \in Contacts : Outcome(w, c)

LEMMA OutcomeInit == Init => OutcomeInv
BY DEF Init, OutcomeInv, Outcome, InHand, Failing

\* A step that settles rows and releases claims without beginning a row keeps the outcomes.
LEMMA OutcomeKept ==
    ASSUME OutboxInv, OutcomeInv, UNCHANGED <<sends, acted>>,
           \A r \in Rows : Settled(r) => status'[r] = status[r],
           \A w \in Workers, c \in Contacts :
              phase'[w][c] = "next" \/ UNCHANGED <<phase[w][c], cur[w][c]>>,
           \A w \in Workers, c \in Contacts :
              phase'[w][c] \in InHand => status'[cur[w][c]] = status[cur[w][c]]
    PROVE  OutcomeInv'
BY DEF OutcomeInv, Outcome, Settled, InHand, Failing

\* The chain of w and c goes from one place to another.
ChainAt(w, c, p, r) ==
    /\ \A v \in Workers, d \in Contacts :
          (v = w /\ d = c) \/ (phase'[v][d] = phase[v][d] /\ cur'[v][d] = cur[v][d])
    /\ phase'[w][c] = p /\ cur'[w][c] = r

\* A step of one chain that begins or settles the row it is at leaves the others' outcomes.
LEMMA OutcomeMoves ==
    ASSUME OutboxInv, OutcomeInv, NEW w \in Workers, NEW c \in Contacts, NEW r \in Rows,
           NEW p \in Phase, NEW r1, ChainAt(w, c, p, r1),
           \A v \in Workers, d \in Contacts :
              phase[v][d] \in InHand /\ cur[v][d] = r => v = w /\ d = c,
           \A q \in Rows : q # r => UNCHANGED <<status[q], sends[q], acted[q]>>,
           acted'[r] # "none" => Settled(r)',
           Outcome(w, c)'
    PROVE  OutcomeInv'
<1>1. \A q \in Rows : acted'[q] # "none" => Settled(q)'
  BY DEF OutcomeInv, Settled
<1>2. ASSUME NEW v \in Workers, NEW d \in Contacts, ~(v = w /\ d = c) PROVE Outcome(v, d)'
  <2>1. UNCHANGED <<phase[v][d], cur[v][d]>>
    BY <1>2 DEF ChainAt
  <2>2. phase[v][d] \in InHand => cur[v][d] \in Rows /\ cur[v][d] # r
    BY <1>2, CurrentIsMine DEF Mine
  <2> QED
    BY <2>1, <2>2 DEF OutcomeInv, Outcome, InHand, Failing
<1> QED
  BY <1>1, <1>2 DEF OutcomeInv

LEMMA TableOutcome ==
    ASSUME OutboxInv, OutcomeInv, NEW r \in Rows, Enqueue(r) \/ EnqueueToken(r) \/ TokenWritten(r)
    PROVE  OutcomeInv'
<1>1. UNCHANGED <<cur, phase, sends, acted>>
  BY DEF Enqueue, EnqueueToken, TokenWritten, effects
<1>2. status[r] \in {"absent", "pending"} /\ \A q \in Rows : q # r => status'[q] = status[q]
  BY DEF Enqueue, EnqueueToken, TokenWritten, NextRow, OutboxInv, TypeOK
<1>3. \A w \in Workers, c \in Contacts : phase[w][c] \in InHand => status'[cur[w][c]] = status[cur[w][c]]
  BY <1>2, CurrentIsMine DEF Mine
<1> QED
  BY <1>1, <1>2, <1>3, OutcomeKept DEF Settled

LEMMA ClaimOutcome ==
    ASSUME OutboxInv, OutcomeInv, NEW w \in Workers, ClaimScan(w) \/ ClaimCommit(w) \/ ClaimFault(w)
    PROVE  OutcomeInv'
<1>1. UNCHANGED <<cur, phase, sends, acted>>
  BY DEF ClaimScan, ClaimCommit, ClaimFault, SetClaimed, effects
<1>2. \A q \in Rows : status'[q] = status[q] \/ (status[q] = "pending" /\ status'[q] = "delivering")
  BY LockedIsFree DEF ClaimScan, ClaimCommit, ClaimFault, SetClaimed, table
<1>3. \A v \in Workers, c \in Contacts : phase[v][c] \in InHand => status'[cur[v][c]] = status[cur[v][c]]
  BY <1>2, CurrentIsMine DEF Mine
<1> QED
  BY <1>1, <1>2, <1>3, OutcomeKept DEF Settled

LEMMA AsideOutcome ==
    ASSUME OutboxInv, OutcomeInv, NEW w \in Workers,
           Stop(w) \/ StopReturns(w) \/ Crash(w) \/ Restart(w)
    PROVE  OutcomeInv'
<1>1. UNCHANGED <<status, sends, acted>>
  BY DEF Stop, StopReturns, Crash, Restart, table, effects
<1>2. \A v \in Workers, c \in Contacts : phase'[v][c] = "next" \/ UNCHANGED <<phase[v][c], cur[v][c]>>
  <2>1. CASE Crash(w)
    BY <2>1 DEF Crash, OutboxInv, TypeOK
  <2> QED
    BY <2>1 DEF Stop, StopReturns, Restart
<1> QED
  BY <1>1, <1>2, OutcomeKept

LEMMA AttemptOutcome ==
    ASSUME OutboxInv, OutcomeInv, NEW w \in Workers, NEW c \in Contacts,
           Attempt(w, c) \/ WindowClosed(w, c)
    PROVE  OutcomeInv'
<1>1. PICK r \in held[w], p \in {"accepted", "retry", "refused", "closed"} :
         /\ cur' = [cur EXCEPT ![w][c] = r] /\ Goto(w, c, p)
         /\ UNCHANGED <<status, acted>>
         /\ sends' = sends \/ sends' = [sends EXCEPT ![r] = @ + 1]
         /\ p = "accepted" => sends' = [sends EXCEPT ![r] = @ + 1]
  BY DEF Attempt, WindowClosed, table, effects
<1>2. r \in Rows /\ acted[r] = "none" /\ sends[r] \in Nat
  <2>1. r \in Rows /\ status[r] = "delivering"
    BY HeldIsMine
  <2> QED
    BY <2>1 DEF OutcomeInv, Settled, OutboxInv, TypeOK
<1>3. ChainAt(w, c, p, r)
  BY <1>1 DEF ChainAt, Goto, OutboxInv, TypeOK
<1>4. \A q \in Rows : q # r => sends'[q] = sends[q]
  BY <1>1 DEF OutboxInv, TypeOK
<1>5. p = "accepted" => sends'[r] > 0
  BY <1>1, <1>2 DEF OutboxInv, TypeOK
<1>6. Outcome(w, c)'
  BY <1>1, <1>2, <1>3, <1>5 DEF ChainAt, Outcome
<1> QED
  BY <1>1, <1>2, <1>3, <1>4, <1>6, HeldIsMine, OutcomeMoves DEF Phase, InHand, Failing

LEMMA MarkOutcome ==
    ASSUME OutboxInv, OutcomeInv, NEW w \in Workers, NEW c \in Contacts,
           MarkDelivered(w, c) \/ MarkDeliveredFault(w, c) \/ MarkFailed(w, c) \/ MarkFailedFault(w, c)
    PROVE  OutcomeInv'
<1>1. phase[w][c] \in InHand /\ UNCHANGED <<sends, acted>>
  BY DEF MarkDelivered, MarkDeliveredFault, MarkFailed, MarkFailedFault, effects, InHand
<1>2. PICK r \in Rows : cur[w][c] = r
  BY <1>1, CurrentIsMine DEF Mine
<1>3. Mine(w, c) /\ acted[r] = "none" /\ (phase[w][c] = "accepted" => sends[r] > 0)
  BY <1>1, <1>2, CurrentIsMine DEF OutcomeInv, Outcome
<1>4. \A q \in Rows : q # r => status'[q] = status[q]
  BY <1>2, SetFailedEffect DEF MarkDelivered, MarkDeliveredFault, MarkFailed, MarkFailedFault, SetStatus, table, OutboxInv, TypeOK
<1>5. PICK p \in {"next", "acting", "retry", "pushing", "escalating", "burying"} :
         /\ ChainAt(w, c, p, IF p = "next" THEN 0 ELSE r)
         /\ p = "acting" => phase[w][c] = "accepted" /\ status'[r] = "delivered"
         /\ p \in {"escalating", "burying"} => status'[r] = "failed"
  <2> USE <1>2 DEF Goto, ChainAt, OutboxInv, TypeOK
  <2>1. CASE MarkDelivered(w, c)
    BY <2>1 DEF MarkDelivered, Finish, SetStatus
  <2>2. CASE MarkDeliveredFault(w, c)
    BY <2>2 DEF MarkDeliveredFault
  <2>3. CASE MarkFailed(w, c)
    <3>1. Exhausted(w, c) => status'[r] = "failed"
      BY <2>3, SetFailedEffect DEF MarkFailed
    <3> QED
      BY <2>3, <3>1 DEF MarkFailed
  <2>4. CASE MarkFailedFault(w, c)
    BY <2>4 DEF MarkFailedFault, Reject
  <2> QED
    BY <2>1, <2>2, <2>3, <2>4
<1>6. Outcome(w, c)'
  BY <1>1, <1>3, <1>5 DEF ChainAt, Outcome, InHand, Failing
<1>7. \A v \in Workers, d \in Contacts : phase[v][d] \in InHand /\ cur[v][d] = r => v = w /\ d = c
  BY <1>2, <1>3 DEF Mine
<1> QED
  BY <1>1, <1>3, <1>4, <1>5, <1>6, <1>7, OutcomeMoves DEF Phase, InHand, Failing

LEMMA ActOutcome ==
    ASSUME OutboxInv, OutcomeInv, NEW w \in Workers, NEW c \in Contacts,
           PerformDeferred(w, c) \/ Bury(w, c)
    PROVE  OutcomeInv'
<1>1. /\ phase[w][c] \in InHand /\ UNCHANGED <<status, sends>>
      /\ phase[w][c] \in {"acting", "burying", "escalating"}
  BY DEF PerformDeferred, Bury, table, InHand
<1>2. PICK r \in Rows : cur[w][c] = r
  BY <1>1, CurrentIsMine DEF Mine
<1>3. Mine(w, c) /\ Settled(r)
  BY <1>1, <1>2, CurrentIsMine DEF OutcomeInv, Outcome, Settled
<1>4. ChainAt(w, c, "next", 0)
  BY DEF PerformDeferred, Bury, Finish, Goto, ChainAt, OutboxInv, TypeOK
<1>5. \A q \in Rows : q # r => acted'[q] = acted[q]
  BY <1>2 DEF PerformDeferred, Bury, OutboxInv, TypeOK
<1>6. Outcome(w, c)'
  BY <1>4 DEF ChainAt, Outcome, InHand, Failing
<1>7. Settled(r)'
  BY <1>1, <1>3 DEF Settled
<1>8. \A v \in Workers, d \in Contacts : phase[v][d] \in InHand /\ cur[v][d] = r => v = w /\ d = c
  BY <1>2, <1>3 DEF Mine
<1> QED
  BY <1>1, <1>4, <1>5, <1>6, <1>7, <1>8, OutcomeMoves DEF Phase

LEMMA PushOutcome ==
    ASSUME OutboxInv, OutcomeInv, NEW w \in Workers, NEW c \in Contacts,
           PushLater(w, c) \/ PushFault(w, c) \/ Release(w, c) \/ ReleaseFault(w, c)
    PROVE  OutcomeInv'
<1>1. UNCHANGED <<sends, acted>>
  BY DEF PushLater, PushFault, Release, ReleaseFault, effects
<1>2. \A v \in Workers, d \in Contacts :
         \/ phase'[v][d] \in {"next", "releasing"}
         \/ UNCHANGED <<phase[v][d], cur[v][d]>>
  <2>1. \/ ChainAt(w, c, "next", 0)
        \/ ChainAt(w, c, "releasing", cur[w][c])
    BY DEF PushLater, PushFault, Release, ReleaseFault, Finish, Reject, Goto, ChainAt, OutboxInv, TypeOK
  <2> QED
    BY <2>1 DEF ChainAt
<1>3. \A q \in Rows : status'[q] = status[q] \/ q \in held[w]
  BY DEF PushLater, PushFault, SetPushed, Release, ReleaseFault, SetReleased, Rest, table
<1>4. \A q \in held[w] : status[q] = "delivering"
  BY HeldIsMine
<1>5. \A v \in Workers, d \in Contacts :
         phase[v][d] \in InHand => status'[cur[v][d]] = status[cur[v][d]] /\ cur[v][d] \in Rows
  BY <1>3, CurrentIsMine DEF Mine
<1>6. \A q \in Rows : acted[q] # "none" => Settled(q)'
  BY <1>3, <1>4 DEF OutcomeInv, Settled
<1> QED
  BY <1>1, <1>2, <1>5, <1>6 DEF OutcomeInv, Outcome, InHand, Failing

LEMMA NextOutcome ==
    ASSUME OutboxInv, OutcomeInv, [Next]_vars
    PROVE  OutcomeInv'
<1>1. CASE \E r \in Rows : Enqueue(r) \/ EnqueueToken(r) \/ TokenWritten(r)
  BY <1>1, TableOutcome
<1>2. ASSUME NEW w \in Workers, ClaimScan(w) \/ ClaimCommit(w) \/ ClaimFault(w) PROVE OutcomeInv'
  BY <1>2, ClaimOutcome
<1>3. ASSUME NEW w \in Workers, Stop(w) \/ StopReturns(w) \/ Crash(w) \/ Restart(w) PROVE OutcomeInv'
  BY <1>3, AsideOutcome
<1>4. ASSUME NEW w \in Workers, NEW c \in Contacts, ChainStep(w, c) PROVE OutcomeInv'
  <2>1. CASE Attempt(w, c) \/ WindowClosed(w, c) \/ PerformDeferred(w, c) \/ Bury(w, c)
    BY <2>1, AttemptOutcome, ActOutcome
  <2>2. CASE MarkDelivered(w, c) \/ MarkDeliveredFault(w, c) \/ MarkFailed(w, c) \/ MarkFailedFault(w, c)
    BY <2>2, MarkOutcome
  <2>3. CASE PushLater(w, c) \/ PushFault(w, c) \/ Release(w, c) \/ ReleaseFault(w, c)
    BY <2>3, PushOutcome
  <2> QED
    BY <1>4, <2>1, <2>2, <2>3 DEF ChainStep
<1>5. CASE Tick \/ UNCHANGED vars
  BY <1>5 DEF OutcomeInv, Outcome, Settled, Tick, vars, table, effects
<1> QED
  BY <1>1, <1>2, <1>3, <1>4, <1>5 DEF Next

\* A worker claims its next batch only when the last has settled.
LockedAlone ==
    \A w \in Workers : locked[w] # {} => held[w] = {} /\ \A c \in Contacts : phase[w][c] = "next"

\* A chain's step is of its own worker, which has a batch in hand.
LEMMA ChainIsAtWork ==
    ASSUME OutboxInv, NEW w \in Workers, NEW c \in Contacts, ChainStep(w, c)
    PROVE  /\ held[w] # {} \/ phase[w][c] # "next"
           /\ locked' = locked
           /\ \A v \in Workers : v # w => UNCHANGED <<held[v], phase[v], cur[v]>>
<1>1. locked' = locked
  BY DEF ChainStep, Attempt, WindowClosed, MarkDelivered, MarkDeliveredFault, PerformDeferred, MarkFailed,
         MarkFailedFault, PushLater, PushFault, Release, ReleaseFault, Bury
<1>2. held[w] # {} \/ phase[w][c] # "next"
  BY DEF ChainStep, Attempt, WindowClosed, MarkDelivered, MarkDeliveredFault, PerformDeferred, MarkFailed,
         MarkFailedFault, PushLater, PushFault, Release, ReleaseFault, Bury, HandsBack, Rest, Failing
<1>3. ASSUME NEW v \in Workers, v # w PROVE UNCHANGED <<held[v], phase[v], cur[v]>>
  <2> USE <1>3 DEF Goto, Finish, Reject, OutboxInv, TypeOK
  <2>1. CASE Attempt(w, c) \/ WindowClosed(w, c)
    BY <2>1 DEF Attempt, WindowClosed
  <2>2. CASE MarkDelivered(w, c) \/ MarkDeliveredFault(w, c) \/ PerformDeferred(w, c) \/ Bury(w, c)
    BY <2>2 DEF MarkDelivered, MarkDeliveredFault, PerformDeferred, Bury
  <2>3. CASE MarkFailed(w, c) \/ MarkFailedFault(w, c) \/ PushLater(w, c) \/ PushFault(w, c)
    BY <2>3 DEF MarkFailed, MarkFailedFault, PushLater, PushFault
  <2>4. CASE Release(w, c) \/ ReleaseFault(w, c)
    BY <2>4 DEF Release, ReleaseFault
  <2> QED
    BY <2>1, <2>2, <2>3, <2>4 DEF ChainStep
<1> QED
  BY <1>1, <1>2, <1>3

LEMMA NextLocked ==
    ASSUME OutboxInv, LockedAlone, [Next]_vars
    PROVE  LockedAlone'
<1>1. CASE \E r \in Rows : Enqueue(r) \/ EnqueueToken(r) \/ TokenWritten(r)
  BY <1>1 DEF LockedAlone, Enqueue, EnqueueToken, TokenWritten
<1>2. ASSUME NEW w \in Workers, ClaimScan(w) PROVE LockedAlone'
  BY <1>2 DEF LockedAlone, ClaimScan, Idle, OutboxInv, TypeOK
<1>3. ASSUME NEW w \in Workers, ClaimCommit(w) \/ ClaimFault(w) PROVE LockedAlone'
  <2>1. \A v \in Workers : locked'[v] = {} \/ (v # w /\ UNCHANGED <<locked[v], held[v], phase[v]>>)
    BY <1>3 DEF ClaimCommit, ClaimFault, SetClaimed, OutboxInv, TypeOK
  <2> QED
    BY <2>1 DEF LockedAlone
<1>4. ASSUME NEW w \in Workers, Crash(w) PROVE LockedAlone'
  <2>1. \A v \in Workers : locked'[v] = {} \/ (v # w /\ UNCHANGED <<locked[v], held[v], phase[v]>>)
    BY <1>4 DEF Crash, OutboxInv, TypeOK
  <2> QED
    BY <2>1 DEF LockedAlone
<1>5. ASSUME NEW w \in Workers, NEW c \in Contacts, ChainStep(w, c) PROVE LockedAlone'
  BY <1>5, ChainIsAtWork DEF LockedAlone
<1>6. ASSUME NEW w \in Workers, Stop(w) \/ StopReturns(w) \/ Restart(w) PROVE LockedAlone'
  BY <1>6 DEF LockedAlone, Stop, StopReturns, Restart
<1>7. CASE Tick \/ UNCHANGED vars
  BY <1>7 DEF LockedAlone, Tick, vars
<1> QED
  BY <1>1, <1>2, <1>3, <1>4, <1>5, <1>6, <1>7 DEF Next

QueueInv == OutboxInv /\ OutcomeInv /\ LockedAlone

LEMMA QueueInit == Init => QueueInv
BY InitInv, OutcomeInit DEF QueueInv, Init, LockedAlone

LEMMA NextQueue == QueueInv /\ [Next]_vars => QueueInv'
BY NextInv, NextOutcome, NextLocked DEF QueueInv

\* Deferred actions run only for a reply that went out, and are settled once (worker.ts:95-100).
THEOREM ActedOnce == Spec => ActionsOnce
<1> DEFINE Act == \A r \in Rows : acted'[r] # acted[r] =>
          /\ acted[r] = "none"
          /\ acted'[r] = "performed" => sends[r] > 0 /\ status[r] = "delivered"
          /\ acted'[r] = "dropped" => status[r] = "failed"
<1>1. Init => QueueInv
  BY QueueInit
<1>2. QueueInv /\ [Next]_vars => QueueInv'
  BY NextQueue
<1>3. ASSUME QueueInv, [Next]_vars PROVE [Act]_vars
  <2>1. CASE acted' = acted
    BY <2>1
  <2>2. CASE acted' # acted
    <3>1. PICK w \in Workers, c \in Contacts : PerformDeferred(w, c) \/ Bury(w, c)
      BY <1>3, <2>2 DEF Next, ChainStep, vars, table, effects, Enqueue, EnqueueToken, TokenWritten,
           ClaimScan, ClaimCommit, ClaimFault, SetClaimed, Stop, StopReturns, Crash, Restart, Tick,
           Attempt, WindowClosed, MarkDelivered, MarkDeliveredFault, MarkFailed, MarkFailedFault,
           PushLater, PushFault, Release, ReleaseFault
    <3> USE <1>3 DEF QueueInv
    <3>2. phase[w][c] \in {"acting", "burying", "escalating"} /\ cur[w][c] \in Rows
      BY <1>3, <3>1, CurrentIsMine DEF PerformDeferred, Bury, InHand, Mine
    <3>3. Outcome(w, c)
      BY <1>3 DEF OutcomeInv
    <3>4. acted \in [Rows -> {"none", "performed", "dropped"}]
      BY <1>3 DEF OutboxInv, TypeOK
    <3>5. CASE PerformDeferred(w, c)
      BY <3>2, <3>3, <3>4, <3>5 DEF PerformDeferred, Outcome, InHand
    <3>6. CASE Bury(w, c)
      BY <3>2, <3>3, <3>4, <3>6 DEF Bury, Outcome, InHand
    <3> QED
      BY <3>1, <3>5, <3>6
  <2> QED
    BY <2>1, <2>2
<1>4. Spec => [][Act]_vars
  BY <1>1, <1>2, <1>3, PTL DEF Spec
<1> QED
  BY <1>4 DEF ActionsOnce

\* The workers may be stopped and started again, and nothing else goes wrong.
NoneFails == Faults \subseteq {"stop"}

\* A step that ends no row's delivery leaves every other row in hand.
LEMMA ChainKeepsInHand ==
    ASSUME NoneFails, QueueInv, NEW w \in Workers, NEW c \in Contacts, ChainStep(w, c),
           NEW r \in Rows, status'[r] = "delivering", NEW v \in Workers, InDelivery(v, r)
    PROVE  InDelivery(v, r)'
<1> USE DEF QueueInv
<1>1. ~(MarkDeliveredFault(w, c) \/ MarkFailedFault(w, c) \/ PushFault(w, c) \/ ReleaseFault(w, c))
  BY DEF MarkDeliveredFault, MarkFailedFault, PushFault, ReleaseFault, NoneFails
<1>2. CASE v # w
  BY <1>2, ChainIsAtWork DEF InDelivery
<1>3. CASE v = w
  <2> DEFINE Begun == phase'[w][c] \in InHand /\ cur'[w][c] = r
  <2>1. \A d \in Contacts : d # c => UNCHANGED <<phase[w][d], cur[w][d]>>
    BY <1>1 DEF ChainStep, Goto, Finish, Reject, OutboxInv, TypeOK, Attempt, WindowClosed, MarkDelivered,
                PerformDeferred, MarkFailed, PushLater, Release, Bury
  <2>2. r \in held[w] => r \in held'[w] \/ Begun
    <3>1. CASE Attempt(w, c) \/ WindowClosed(w, c)
      BY <3>1 DEF Attempt, WindowClosed, Goto, InHand, Failing, OutboxInv, TypeOK
    <3>2. CASE Release(w, c)
      <4>1. held'[w] = held[w] \ Rest(w, c) /\ r \notin Rest(w, c)
        BY <3>2, HeldIsMine DEF Release, Reject, SetReleased, Rest, OutboxInv, TypeOK
      <4> QED
        BY <4>1
    <3>3. CASE held' = held
      BY <3>3
    <3> QED
      BY <1>1, <3>1, <3>2, <3>3 DEF ChainStep, MarkDelivered, PerformDeferred, MarkFailed, PushLater, Bury, Finish
  <2>3. ~(phase[w][c] \in InHand /\ cur[w][c] = r)
    <3> SUFFICES ASSUME phase[w][c] \in InHand, cur[w][c] = r PROVE FALSE
      OBVIOUS
    <3>1. CASE MarkDelivered(w, c) \/ MarkFailed(w, c)
      BY <3>1, SetFailedEffect DEF MarkDelivered, MarkFailed, SetStatus, OutboxInv, TypeOK
    <3>2. CASE PerformDeferred(w, c) \/ Bury(w, c)
      BY <3>2 DEF PerformDeferred, Bury, table, OutcomeInv, Outcome
    <3> QED
      BY <1>1, <3>1, <3>2 DEF ChainStep, Attempt, WindowClosed, PushLater, Release, HandsBack, InHand, Failing
  <2> QED
    BY <1>3, <2>1, <2>2, <2>3 DEF InDelivery
<1> QED
  BY <1>2, <1>3

\* With no failure a row being delivered is in the hands of the worker that claimed it, for
\* any number of workers (worker.ts:236-274): nothing has to reclaim it.
THEOREM ClaimedIsInHand ==
    ASSUME NoneFails
    PROVE  Spec => []NoneStranded
<1>1. Init => QueueInv /\ NoneStranded
  BY QueueInit DEF Init, NoneStranded
<1>2. ASSUME QueueInv, NoneStranded, [Next]_vars PROVE NoneStranded'
  <2> USE <1>2 DEF QueueInv
  <2> SUFFICES ASSUME NEW r \in Rows, status'[r] = "delivering"
               PROVE  \E w \in Workers : InDelivery(w, r)'
    BY DEF NoneStranded
  <2>1. ASSUME NEW q \in Rows, Enqueue(q) \/ EnqueueToken(q) \/ TokenWritten(q)
        PROVE  \E w \in Workers : InDelivery(w, r)'
    <3>1. status[r] = "delivering" /\ UNCHANGED <<held, cur, phase>>
      BY <2>1 DEF Enqueue, EnqueueToken, TokenWritten, OutboxInv, TypeOK
    <3> QED
      BY <1>2, <3>1 DEF NoneStranded, InDelivery
  <2>2. ASSUME NEW w \in Workers, ClaimCommit(w) PROVE \E v \in Workers : InDelivery(v, r)'
    <3>1. locked[w] # {} /\ UNCHANGED <<cur, phase>> /\ held' = [held EXCEPT ![w] = locked[w]]
      BY <2>2 DEF ClaimCommit, SetClaimed
    <3>2. \A v \in Workers : held'[v] = IF v = w THEN locked[w] ELSE held[v]
      BY <3>1 DEF OutboxInv, TypeOK
    <3>3. CASE r \in locked[w]
      BY <3>2, <3>3 DEF InDelivery
    <3>4. CASE r \notin locked[w]
      <4>1. status[r] = "delivering"
        BY <2>2, <3>4 DEF ClaimCommit, SetClaimed
      <4>2. held[w] = {}
        BY <3>1 DEF LockedAlone
      <4> QED
        BY <1>2, <3>1, <3>2, <4>1, <4>2 DEF NoneStranded, InDelivery
    <3> QED
      BY <3>3, <3>4
  <2>3. ASSUME NEW w \in Workers, NEW c \in Contacts, ChainStep(w, c)
        PROVE  \E v \in Workers : InDelivery(v, r)'
    <3>1. status[r] = "delivering"
      <4>1. MarkDelivered(w, c) \/ MarkFailed(w, c) \/ Release(w, c) \/ UNCHANGED status
        BY <2>3 DEF ChainStep, Attempt, WindowClosed, MarkDeliveredFault, PerformDeferred, MarkFailedFault,
             PushLater, PushFault, SetPushed, ReleaseFault, Bury, table, NoneFails
      <4>2. CASE MarkDelivered(w, c)
        BY <4>2 DEF MarkDelivered, SetStatus, OutboxInv, TypeOK
      <4>3. CASE MarkFailed(w, c)
        BY <4>3, SetFailedEffect DEF MarkFailed
      <4>4. CASE Release(w, c)
        BY <4>4 DEF Release, SetReleased
      <4> QED
        BY <4>1, <4>2, <4>3, <4>4
    <3>2. PICK v \in Workers : InDelivery(v, r)
      BY <1>2, <3>1 DEF NoneStranded
    <3> QED
      BY <2>3, <3>2, ChainKeepsInHand
  <2>4. CASE UNCHANGED <<status, held, cur, phase>>
    BY <1>2, <2>4 DEF NoneStranded, InDelivery
  <2>5. ASSUME NEW w \in Workers PROVE ~ClaimFault(w) /\ ~Crash(w)
    BY DEF NoneFails, ClaimFault, Crash
  <2>6. ASSUME NEW w \in Workers, ClaimScan(w) \/ Stop(w) \/ StopReturns(w) \/ Restart(w)
        PROVE  UNCHANGED <<status, held, cur, phase>>
    BY <2>6 DEF ClaimScan, Stop, StopReturns, Restart, table
  <2>7. Tick \/ UNCHANGED vars => UNCHANGED <<status, held, cur, phase>>
    BY DEF Tick, vars, table
  <2> QED
    BY <1>2, <2>1, <2>2, <2>3, <2>4, <2>5, <2>6, <2>7 DEF Next
<1> QED
  BY <1>1, <1>2, NextQueue, PTL DEF Spec

-----------------------------------------------------------------------------
(* The order of a contact's replies *)

OneWorker == \A w, v \in Workers : w = v

\* A row is marked failed and the later ones moved back with it, or neither: the process does
\* not die and no statement fails in between.
MovesTogether == Faults \subseteq {"claim", "stop"}

Queued(r) == status[r] \in {"pending", "delivering"}

WrittenInOrder == \A q, r \in Rows : q < r /\ status[q] = "absent" => status[r] = "absent"

\* A chain is at a reply of its contact with every earlier one settled, and nobody else has
\* stored an outcome of its row.
Chain(w, c) ==
    /\ phase[w][c] # "next" =>
          /\ contact[cur[w][c]] = c
          /\ IsReply(cur[w][c]) => \A q \in Rows : Earlier(q, cur[w][c]) => Settled(q)
    /\ phase[w][c] \in {"accepted"} \union Failing => status[cur[w][c]] = "delivering"

Chains == \A w \in Workers, c \in Contacts : Chain(w, c)

\* A claim takes a reply only with every earlier one that is not settled.
LockedFirst ==
    \A w \in Workers : \A r \in locked[w], q \in Rows : Earlier(q, r) => Settled(q) \/ q \in locked[w]

\* So before a reply in a batch there is nothing but the batch's own, one of them begun.
HeldFirst ==
    \A w \in Workers : \A r \in held[w], q \in Rows : Earlier(q, r) =>
        \/ Settled(q) \/ q \in held[w]
        \/ phase[w][contact[r]] # "next" /\ q = cur[w][contact[r]]

\* Replies fall due in order, save while a failed one is about to move the later ones back.
DueInOrder ==
    \A q, r \in Rows : Earlier(q, r) /\ Queued(q) /\ Queued(r) =>
        \/ due[q] <= due[r]
        \/ \E w \in Workers : phase[w][contact[q]] = "pushing" /\ cur[w][contact[q]] = q

OrderInv == WrittenInOrder /\ Chains /\ LockedFirst /\ HeldFirst /\ DueInOrder

LEMMA OrderInit == Init => OrderInv
BY DEF Init, OrderInv, WrittenInOrder, Chains, Chain, LockedFirst, HeldFirst, DueInOrder, Queued, Failing

\* A row comes into the table behind every other, or leaves it as a token written meanwhile.
LEMMA EnqueueOrder ==
    ASSUME OutboxInv, OrderInv, NEW r \in Rows, Enqueue(r) \/ EnqueueToken(r) \/ TokenWritten(r)
    PROVE  OrderInv'
<1> USE DEF OutboxInv, ClaimInv, OrderInv
<1>1. UNCHANGED <<contact, kind, locked, held, cur, phase, sends>>
  BY DEF Enqueue, EnqueueToken, TokenWritten, effects
<1>2. /\ status[r] \in {"absent", "pending"} /\ status'[r] \in {"pending", "delivered"}
      /\ \A q \in Rows : q # r => status'[q] = status[q] /\ due'[q] = due[q]
      /\ status'[r] = "pending" => status[r] = "absent"
  BY DEF TypeOK, Enqueue, EnqueueToken, TokenWritten, NextRow
<1>3. /\ \A q \in Rows : q < r => status[q] # "absent"
      /\ \A q \in Rows : r < q /\ status[r] = "absent" => status[q] = "absent"
  <2>1. status[r] = "absent" => \A q \in 1 .. r - 1 : status[q] # "absent"
    BY DEF Enqueue, EnqueueToken, TokenWritten, NextRow
  <2> QED
    BY <1>2, <2>1, OutboxAssumption DEF WrittenInOrder, Rows
<1>4. \A q \in Rows : Settled(q) => Settled(q)' /\ status'[q] = status[q]
  BY <1>2 DEF Settled
<1>5. WrittenInOrder'
  BY <1>2, <1>3, OutboxAssumption DEF WrittenInOrder, Rows
<1>6. Chains'
  <2> SUFFICES ASSUME NEW w \in Workers, NEW c \in Contacts PROVE Chain(w, c)'
    BY DEF Chains
  <2>1. Chain(w, c) /\ (phase[w][c] # "next" => cur[w][c] \in Rows)
    BY DEF Chains, CurrentRows, CurrentRow
  <2>2. phase[w][c] # "next" /\ status[cur[w][c]] \in {"delivering", "delivered", "failed"}
           => status'[cur[w][c]] = status[cur[w][c]]
    BY <1>2, <2>1
  <2> QED
    BY <1>1, <1>4, <2>1, <2>2 DEF Chain, Earlier, IsReply, Failing
<1>7. LockedFirst'
  BY <1>1, <1>4 DEF LockedFirst, Earlier, IsReply
<1>8. HeldFirst'
  BY <1>1, <1>4 DEF HeldFirst, Earlier, IsReply
<1>9. DueInOrder'
  <2> SUFFICES ASSUME NEW p \in Rows, NEW q \in Rows, Earlier(p, q)', Queued(p)', Queued(q)',
                      ~\E w \in Workers : phase[w][contact[p]] = "pushing" /\ cur[w][contact[p]] = p
               PROVE  due'[p] <= due'[q]
    BY <1>1 DEF DueInOrder, Queued, Earlier, IsReply
  <2>1. Earlier(p, q)
    BY <1>1 DEF Earlier, IsReply
  <2>2. CASE p # r /\ q # r
    BY <1>2, <2>1, <2>2 DEF DueInOrder, Queued
  <2>3. CASE p = r
    BY <1>2, <1>3, <2>1, <2>3 DEF Queued, Earlier
  <2>4. CASE q = r /\ p # r
    <3>1. Enqueue(r) /\ p \in QueuedReplies(contact[r])
      BY <1>2, <2>1, <2>4 DEF Queued, Earlier, QueuedReplies, EnqueueToken, TokenWritten
    <3>2. due[p] <= due'[r]
      BY <3>1 DEF Enqueue, IsLatest, TypeOK
    <3> QED
      BY <1>2, <2>4, <3>2
  <2> QED
    BY <2>2, <2>3, <2>4
<1> QED
  BY <1>5, <1>6, <1>7, <1>8, <1>9

LEMMA CommitOrder ==
    ASSUME OneWorker, OutboxInv, LockedAlone, OrderInv, NEW w \in Workers, ClaimCommit(w)
    PROVE  OrderInv'
<1> USE DEF OutboxInv, ClaimInv, OrderInv
<1>1. UNCHANGED <<contact, kind, due, cur, phase, sends>> /\ locked[w] # {}
  BY DEF ClaimCommit, SetClaimed, effects
<1>2. \A q \in Rows : status'[q] = IF q \in locked[w] THEN "delivering" ELSE status[q]
  BY DEF ClaimCommit, SetClaimed
<1>3. \A q \in locked[w] : q \in Rows /\ status[q] = "pending"
  BY DEF LockedRows, TypeOK
<1>4. \A q \in Rows : (Settled(q) => Settled(q)') /\ (Queued(q)' => Queued(q))
  BY <1>2, <1>3 DEF Settled, Queued
<1>5. \A v \in Workers : v = w /\ locked'[v] = {} /\ held'[v] = locked[w]
  BY DEF OneWorker, ClaimCommit, SetClaimed, TypeOK
<1>6. \A c \in Contacts : phase[w][c] = "next"
  BY <1>1 DEF LockedAlone
<1>7. WrittenInOrder'
  BY <1>2, <1>3 DEF WrittenInOrder
<1>8. Chains'
  BY <1>1, <1>5, <1>6 DEF Chains, Chain, Failing
<1>9. LockedFirst'
  BY <1>5 DEF LockedFirst
<1>10. HeldFirst'
  <2> SUFFICES ASSUME NEW r \in locked[w], NEW q \in Rows, Earlier(q, r), ~Settled(q)
               PROVE  q \in locked[w]
    BY <1>1, <1>4, <1>5 DEF HeldFirst, Earlier, IsReply
  <2> QED
    BY DEF LockedFirst
<1>11. DueInOrder'
  BY <1>1, <1>4 DEF DueInOrder, Earlier, IsReply
<1> QED
  BY <1>7, <1>8, <1>9, <1>10, <1>11

\* A claim that is rolled back frees its rows; one whose answer is lost leaves them claimed.
LEMMA ClaimFaultOrder ==
    ASSUME OneWorker, OutboxInv, LockedAlone, OrderInv, NEW w \in Workers, ClaimFault(w)
    PROVE  OrderInv'
<1> USE DEF OutboxInv, ClaimInv, OrderInv
<1>1. UNCHANGED <<contact, kind, due, held, cur, phase, sends>> /\ locked[w] # {}
  BY DEF ClaimFault, SetClaimed, table, effects
<1>2. \A v \in Workers : v = w /\ locked'[v] = {}
  BY DEF OneWorker, ClaimFault, SetClaimed, TypeOK
<1>3. \A q \in locked[w] : status[q] = "pending"
  BY DEF LockedRows
<1>4. \A q \in Rows : status'[q] = status[q] \/ (status[q] = "pending" /\ status'[q] = "delivering")
  BY <1>3 DEF ClaimFault, SetClaimed, table
<1>5. \A q \in Rows : (Settled(q) => Settled(q)') /\ (Queued(q)' => Queued(q))
  BY <1>4 DEF Settled, Queued
<1>6. held[w] = {} /\ \A c \in Contacts : phase[w][c] = "next"
  BY <1>1 DEF LockedAlone
<1>7. WrittenInOrder'
  BY <1>4 DEF WrittenInOrder
<1>8. Chains'
  BY <1>1, <1>2, <1>6 DEF Chains, Chain, Failing
<1>9. LockedFirst' /\ HeldFirst'
  BY <1>1, <1>2, <1>6 DEF LockedFirst, HeldFirst
<1>10. DueInOrder'
  BY <1>1, <1>5 DEF DueInOrder, Earlier, IsReply
<1> QED
  BY <1>7, <1>8, <1>9, <1>10

LEMMA AsideOrder ==
    ASSUME OrderInv, UNCHANGED <<table, locked, held, cur, phase, sends>>
    PROVE  OrderInv'
BY DEF table, OrderInv, WrittenInOrder, Chains, Chain, LockedFirst, HeldFirst,
       DueInOrder, Settled, Queued, Earlier, IsReply

\* Of two replies to a contact, a claim takes the later only with the earlier.
LEMMA BatchFirst ==
    ASSUME OneWorker, OutboxInv, OrderInv, NEW w \in Workers, Idle(w),
           NEW r \in Batch, NEW q \in Rows, Earlier(q, r), ~Settled(q)
    PROVE  q \in Batch
<1> USE DEF OutboxInv, ClaimInv, OrderInv
<1> DEFINE free == {p \in Rows : Claimable(p) /\ ~Locked(p)}
           before(p) == {x \in free : ClaimedFirst(x, p)}
<1>1. r \in Rows /\ Claimable(r) /\ Cardinality(before(r)) < BatchSize
  BY DEF Batch
<1>2. status[q] = "pending"
  BY <1>1 DEF Claimable, WrittenInOrder, Earlier, Settled, TypeOK, Status
<1>3. q \in free
  <2>1. \A p \in Rows : Earlier(p, q) => Earlier(p, r)
    BY <1>1 DEF Earlier, Rows
  <2>2. Claimable(q)
    BY <1>1, <1>2, <2>1 DEF Claimable
  <2> QED
    BY <2>2 DEF Idle, Locked, OneWorker
<1>4. due[q] <= due[r] /\ q < r
  <2>1. contact[q] \in Contacts /\ status[r] = "pending"
    BY <1>1 DEF TypeOK, Claimable
  <2> QED
    BY <1>1, <1>2, <2>1 DEF DueInOrder, Queued, Idle, OneWorker, Earlier
<1>5. before(q) \subseteq before(r)
  <2> SUFFICES ASSUME NEW p \in free, ClaimedFirst(p, q) PROVE ClaimedFirst(p, r)
    OBVIOUS
  <2>1. due[p] \in Nat /\ due[q] \in Nat /\ due[r] \in Nat /\ p \in Int /\ q \in Int /\ r \in Int
    BY <1>1 DEF TypeOK, Rows
  <2> QED
    BY <1>4, <2>1 DEF ClaimedFirst
<1>6. IsFiniteSet(before(r)) /\ IsFiniteSet(before(q))
  <2>1. IsFiniteSet(Rows)
    BY OutboxAssumption, FS_Interval DEF Rows
  <2>2. before(r) \subseteq Rows /\ before(q) \subseteq Rows
    OBVIOUS
  <2> HIDE DEF before
  <2> QED
    BY <2>1, <2>2, FS_Subset
<1>7. Cardinality(before(q)) < BatchSize
  <2> HIDE DEF before
  <2>1. Cardinality(before(q)) <= Cardinality(before(r))
    BY <1>5, <1>6, FS_Subset
  <2>2. Cardinality(before(q)) \in Nat /\ Cardinality(before(r)) \in Nat
    BY <1>6, FS_CardinalityType
  <2> QED
    BY <1>1, <2>1, <2>2, OutboxAssumption
<1> QED
  BY <1>3, <1>7 DEF Batch

LEMMA ScanOrder ==
    ASSUME OneWorker, OutboxInv, OrderInv, NEW w \in Workers, ClaimScan(w)
    PROVE  OrderInv'
<1> USE DEF OutboxInv, ClaimInv, OrderInv
<1>1. UNCHANGED <<contact, kind, status, due, held, cur, phase, sends>> /\ Idle(w)
  BY DEF ClaimScan, table, effects
<1>2. \A v \in Workers : v = w /\ locked'[v] = Batch
  BY DEF OneWorker, ClaimScan, TypeOK
<1>3. WrittenInOrder' /\ Chains' /\ HeldFirst' /\ DueInOrder'
  BY <1>1 DEF WrittenInOrder, Chains, Chain, HeldFirst, DueInOrder, Settled, Queued, Earlier, IsReply
<1>4. LockedFirst'
  BY <1>1, <1>2, BatchFirst DEF LockedFirst, Settled, Earlier, IsReply
<1> QED
  BY <1>3, <1>4

\* The row a chain begins has every earlier reply to its contact settled.
LEMMA HeadIsNext ==
    ASSUME OneWorker, OutboxInv, OrderInv, NEW w \in Workers, NEW c \in Contacts,
           phase[w][c] = "next", NEW r \in held[w], IsHead(w, c, r), NEW q \in Rows, Earlier(q, r)
    PROVE  Settled(q)
<1>1. contact[r] = c /\ r \in Rows
  BY HeldIsMine DEF IsHead, Rest
<1>2. q \notin held[w]
  BY <1>1 DEF IsHead, Rest, Earlier, Rows
<1> QED
  BY <1>1, <1>2 DEF OrderInv, HeldFirst

LEMMA AttemptOrder ==
    ASSUME OneWorker, OutboxInv, OrderInv, NEW w \in Workers, NEW c \in Contacts,
           Attempt(w, c) \/ WindowClosed(w, c)
    PROVE  OrderInv'
<1> USE DEF OutboxInv, ClaimInv, OrderInv
<1>1. UNCHANGED <<contact, kind, status, due, locked>> /\ phase[w][c] = "next"
  BY DEF Attempt, WindowClosed, table, effects
<1>2. PICK r \in held[w], p \in {"accepted", "retry", "refused", "closed"} :
         /\ IsHead(w, c, r)
         /\ held' = [held EXCEPT ![w] = @ \ {r}]
         /\ cur' = [cur EXCEPT ![w][c] = r]
         /\ Goto(w, c, p)
  BY DEF Attempt, WindowClosed
<1>4. /\ r \in Rows /\ contact[r] = c /\ status[r] = "delivering"
      /\ \A q \in held[w] : contact[q] = c => r <= q
  BY <1>2, HeldIsMine DEF IsHead, Rest, TypeOK
<1>5. ChainAt(w, c, p, r)
  BY <1>2 DEF ChainAt, Goto, TypeOK
<1>6. \A v \in Workers : v = w /\ held'[v] = held[w] \ {r}
  BY <1>2 DEF OneWorker, TypeOK
<1>7. \A q \in Rows : Earlier(q, r) => Settled(q)
  BY <1>1, <1>2, HeadIsNext
<1>8. WrittenInOrder'
  BY <1>1 DEF WrittenInOrder
<1>9. Chains'
  <2> SUFFICES ASSUME NEW v \in Workers, NEW d \in Contacts PROVE Chain(v, d)'
    BY DEF Chains
  <2>1. CASE v = w /\ d = c
    BY <1>1, <1>2, <1>4, <1>5, <1>7, <2>1 DEF ChainAt, Chain, Settled, Earlier, IsReply, Failing
  <2>2. CASE ~(v = w /\ d = c)
    BY <1>1, <1>5, <2>2 DEF ChainAt, Chains, Chain, Settled, Earlier, IsReply, CurrentRows, CurrentRow
  <2> QED
    BY <2>1, <2>2
<1>10. LockedFirst'
  BY <1>1, <1>2, <1>6 DEF LockedFirst, Settled, Earlier, IsReply
<1>11. HeldFirst'
  <2> SUFFICES ASSUME NEW s \in held[w], s # r, NEW q \in Rows, Earlier(q, s), ~Settled(q), q \notin held[w] \ {r}
               PROVE  phase'[w][contact[s]] # "next" /\ q = cur'[w][contact[s]]
    BY <1>1, <1>6 DEF HeldFirst, Settled, Earlier, IsReply
  <2>1. contact[s] \in Contacts /\ s \in Rows
    BY DEF TypeOK, Earlier
  <2>2. CASE q = r
    BY <1>2, <1>4, <1>5, <2>2 DEF ChainAt, Earlier
  <2>3. CASE q # r
    <3>1. phase[w][contact[s]] # "next" /\ q = cur[w][contact[s]]
      BY <2>3, <2>1 DEF HeldFirst
    <3> QED
      BY <1>1, <1>5, <2>1, <3>1 DEF ChainAt
  <2> QED
    BY <2>2, <2>3
<1>12. DueInOrder'
  <2>1. \A q \in Rows, v \in Workers :
           phase[v][contact[q]] = "pushing" => UNCHANGED <<phase[v][contact[q]], cur[v][contact[q]]>>
    BY <1>1, <1>5 DEF ChainAt, TypeOK
  <2> QED
    BY <1>1, <2>1 DEF DueInOrder, Queued, Earlier, IsReply
<1> QED
  BY <1>8, <1>9, <1>10, <1>11, <1>12

\* A chain that goes on, or ends with all its rows settled or handed back, keeps the order:
\* the cases of a chain at row r that writes nothing but the status of r.
LEMMA SettleOrder ==
    ASSUME OneWorker, OutboxInv, OrderInv, NEW w \in Workers, NEW c \in Contacts,
           phase[w][c] \in InHand, NEW r \in Rows, cur[w][c] = r,
           UNCHANGED <<contact, kind, due, locked, held, sends>>,
           NEW p \in {"next", "acting", "burying", "escalating"},
           NEW s \in {"delivered", "failed"},
           \A q \in Rows : status'[q] = IF q = r THEN s ELSE status[q],
           ChainAt(w, c, p, IF p = "next" THEN 0 ELSE r)
    PROVE  OrderInv'
<1> USE DEF OutboxInv, ClaimInv, OrderInv
<1>1. Mine(w, c)
  BY CurrentIsMine
<1>2. r \in Rows /\ contact[r] = c /\ status[r] # "absent" /\ Settled(r)'
  BY <1>1 DEF Mine, Settled
<1>3. \A q \in Rows : (Settled(q) => Settled(q)') /\ (Queued(q)' => Queued(q) /\ q # r)
  BY <1>2 DEF Settled, Queued
<1>4. WrittenInOrder'
  BY <1>2 DEF WrittenInOrder
<1>5. Chains'
  <2> SUFFICES ASSUME NEW v \in Workers, NEW d \in Contacts PROVE Chain(v, d)'
    BY DEF Chains
  <2>1. CASE v = w /\ d = c
    <3>1. \A q \in Rows : Earlier(q, r) /\ IsReply(r) => Settled(q)
      BY DEF Chains, Chain, InHand, Failing
    <3> QED
      BY <1>2, <1>3, <2>1, <3>1 DEF ChainAt, Chain, Earlier, IsReply, Failing
  <2>2. CASE ~(v = w /\ d = c)
    <3>1. phase'[v][d] = phase[v][d] /\ cur'[v][d] = cur[v][d] /\ (phase[v][d] # "next" => cur[v][d] \in Rows)
      BY <2>2 DEF ChainAt, CurrentRows, CurrentRow
    <3>2. phase[v][d] \in InHand => cur[v][d] # r
      BY <1>1, <2>2 DEF Mine
    <3> QED
      BY <1>3, <3>1, <3>2 DEF Chains, Chain, Earlier, IsReply, Failing, InHand
  <2> QED
    BY <2>1, <2>2
<1>6. LockedFirst'
  BY <1>3 DEF LockedFirst, Settled, Earlier, IsReply, OneWorker, InHand, Failing
<1>7. HeldFirst'
  <2> SUFFICES ASSUME NEW x \in held[w], NEW q \in Rows, Earlier(q, x), ~Settled(q)', q \notin held[w]
               PROVE  phase'[w][contact[x]] # "next" /\ q = cur'[w][contact[x]]
    BY DEF HeldFirst, OneWorker, Earlier, IsReply
  <2>1. ~Settled(q) /\ q # r
    BY <1>2, <1>3
  <2>2. phase[w][contact[x]] # "next" /\ q = cur[w][contact[x]] /\ contact[x] \in Contacts
    BY <2>1 DEF HeldFirst, TypeOK, Earlier
  <2> QED
    BY <2>1, <2>2 DEF ChainAt
<1>8. DueInOrder'
  <2> SUFFICES ASSUME NEW q \in Rows, NEW x \in Rows, Earlier(q, x), Queued(q)', Queued(x)', ~(due[q] <= due[x])
               PROVE  \E v \in Workers : phase'[v][contact[q]] = "pushing" /\ cur'[v][contact[q]] = q
    BY DEF DueInOrder, Queued, Earlier, IsReply
  <2>1. PICK v \in Workers : phase[v][contact[q]] = "pushing" /\ cur[v][contact[q]] = q
    BY <1>3 DEF DueInOrder
  <2>2. contact[q] \in Contacts /\ q # r
    BY <1>3 DEF TypeOK
  <2> QED
    BY <2>1, <2>2 DEF ChainAt
<1> QED
  BY <1>4, <1>5, <1>6, <1>7, <1>8

LEMMA MarkDeliveredOrder ==
    ASSUME OneWorker, OutboxInv, OrderInv, NEW w \in Workers, NEW c \in Contacts,
           MarkDelivered(w, c)
    PROVE  OrderInv'
<1>1. phase[w][c] \in InHand /\ UNCHANGED <<contact, kind, due, locked, held, sends>>
  BY DEF MarkDelivered, SetStatus, Finish, effects, InHand
<1>2. PICK r \in Rows : cur[w][c] = r
  BY <1>1, CurrentIsMine DEF Mine
<1>3. \A q \in Rows : status'[q] = IF q = r THEN "delivered" ELSE status[q]
  BY <1>2 DEF MarkDelivered, SetStatus, OutboxInv, TypeOK
<1>4. ChainAt(w, c, "acting", r) \/ ChainAt(w, c, "next", 0)
  BY <1>2 DEF MarkDelivered, Finish, Goto, ChainAt, OutboxInv, TypeOK
<1>5. CASE ChainAt(w, c, "acting", r)
  BY <1>1, <1>2, <1>3, <1>5, SettleOrder
<1>6. CASE ChainAt(w, c, "next", 0)
  BY <1>1, <1>2, <1>3, <1>6, SettleOrder
<1> QED
  BY <1>4, <1>5, <1>6

LEMMA FinishOrder ==
    ASSUME OneWorker, OutboxInv, OutcomeInv, OrderInv, NEW w \in Workers, NEW c \in Contacts,
           PerformDeferred(w, c) \/ Bury(w, c)
    PROVE  OrderInv'
<1>1. /\ phase[w][c] \in {"acting", "burying", "escalating"}
      /\ UNCHANGED <<contact, kind, status, due, locked, held, sends>>
  BY DEF PerformDeferred, Bury, table, Finish
<1>2. PICK r \in Rows : cur[w][c] = r
  BY <1>1, CurrentIsMine DEF Mine, InHand
<1>3. status[r] \in {"delivered", "failed"}
  BY <1>1, <1>2 DEF OutcomeInv, Outcome
<1>4. ChainAt(w, c, "next", 0)
  BY DEF PerformDeferred, Bury, Finish, Goto, ChainAt, OutboxInv, TypeOK
<1>5. \A q \in Rows : status'[q] = IF q = r THEN status[r] ELSE status[q]
  BY <1>1
<1> QED
  BY <1>1, <1>2, <1>3, <1>4, <1>5, SettleOrder DEF InHand

\* A failure dead-letters the row, or sends it back to wait with the later ones still to be moved.
LEMMA MarkFailedOrder ==
    ASSUME OneWorker, OutboxInv, OrderInv, NEW w \in Workers, NEW c \in Contacts,
           MarkFailed(w, c)
    PROVE  OrderInv'
<1> USE DEF OutboxInv, ClaimInv, OrderInv
<1>1. /\ phase[w][c] \in InHand /\ phase[w][c] \in Failing
      /\ UNCHANGED <<contact, kind, locked, held, sends>>
  BY DEF MarkFailed, SetFailed, SetStatus, effects, InHand
<1>2. PICK r \in Rows : cur[w][c] = r
  BY <1>1, CurrentIsMine DEF Mine
<1>3. Mine(w, c) /\ contact[r] = c /\ status[r] = "delivering"
  BY <1>1, <1>2, CurrentIsMine DEF Mine, Chains, Chain
<1>4. CASE Exhausted(w, c)
  <2>1. due' = due /\ \A q \in Rows : status'[q] = IF q = r THEN "failed" ELSE status[q]
    BY <1>2, <1>4 DEF MarkFailed, SetFailed, SetStatus, TypeOK
  <2>2. ChainAt(w, c, "escalating", r) \/ ChainAt(w, c, "burying", r)
    BY <1>2, <1>4 DEF MarkFailed, Goto, ChainAt, TypeOK
  <2>3. CASE ChainAt(w, c, "escalating", r)
    BY <1>1, <1>2, <2>1, <2>3, SettleOrder
  <2>4. CASE ChainAt(w, c, "burying", r)
    BY <1>1, <1>2, <2>1, <2>4, SettleOrder
  <2> QED
    BY <2>2, <2>3, <2>4
<1>5. CASE ~Exhausted(w, c)
  <2>1. ChainAt(w, c, "pushing", r)
    BY <1>2, <1>5 DEF MarkFailed, Goto, ChainAt, TypeOK
  <2>2. \A q \in Rows : /\ status'[q] = IF q = r THEN "pending" ELSE status[q]
                        /\ q # r => due'[q] = due[q]
    BY <1>2, <1>5 DEF MarkFailed, SetFailed, TypeOK
  <2>3. \A q \in Rows : (Settled(q) <=> Settled(q)') /\ (Queued(q) <=> Queued(q)')
    BY <1>3, <2>2 DEF Settled, Queued
  <2>4. WrittenInOrder'
    BY <1>3, <2>2 DEF WrittenInOrder
  <2>5. Chains'
    <3> SUFFICES ASSUME NEW v \in Workers, NEW d \in Contacts PROVE Chain(v, d)'
      BY DEF Chains
    <3>1. CASE v = w /\ d = c
      BY <1>1, <1>2, <1>3, <2>1, <2>3, <3>1 DEF ChainAt, Chains, Chain, Earlier, IsReply, Failing
    <3>2. CASE ~(v = w /\ d = c)
      <4>1. phase'[v][d] = phase[v][d] /\ cur'[v][d] = cur[v][d] /\ (phase[v][d] # "next" => cur[v][d] \in Rows)
        BY <2>1, <3>2 DEF ChainAt, CurrentRows, CurrentRow
      <4>2. phase[v][d] \in InHand => cur[v][d] # r
        BY <1>2, <1>3, <3>2 DEF Mine
      <4> QED
        BY <1>1, <2>2, <2>3, <4>1, <4>2 DEF Chains, Chain, Earlier, IsReply, Failing, InHand
    <3> QED
      BY <3>1, <3>2
  <2>6. LockedFirst'
    BY <1>1, <2>3 DEF LockedFirst, Earlier, IsReply, OneWorker, InHand, Failing
  <2>7. HeldFirst'
    <3>1. \A x \in Rows : phase[w][contact[x]] # "next" =>
             phase'[w][contact[x]] # "next" /\ cur'[w][contact[x]] = cur[w][contact[x]]
      BY <1>2, <2>1 DEF ChainAt, TypeOK
    <3> QED
      BY <1>1, <2>3, <3>1 DEF HeldFirst, OneWorker, Earlier, IsReply
  <2>8. DueInOrder'
    <3> SUFFICES ASSUME NEW q \in Rows, NEW x \in Rows, Earlier(q, x), Queued(q), Queued(x), ~(due'[q] <= due'[x])
                 PROVE  \E v \in Workers : phase'[v][contact[q]] = "pushing" /\ cur'[v][contact[q]] = q
      BY <1>1, <2>3 DEF DueInOrder, Earlier, IsReply
    <3>1. CASE q = r
      BY <1>3, <2>1, <3>1 DEF ChainAt
    <3>2. CASE x = r
      BY <1>1, <1>2, <3>2 DEF Chains, Chain, Queued, Settled, Earlier, InHand, Failing
    <3>3. CASE q # r /\ x # r
      <4>1. PICK v \in Workers : phase[v][contact[q]] = "pushing" /\ cur[v][contact[q]] = q
        BY <2>2, <3>3 DEF DueInOrder
      <4> QED
        BY <1>1, <1>2, <2>1, <4>1 DEF ChainAt, TypeOK, Failing
    <3> QED
      BY <3>1, <3>2, <3>3
  <2> QED
    BY <2>4, <2>5, <2>6, <2>7, <2>8
<1> QED
  BY <1>4, <1>5

\* Moving the later replies back with a failed one restores the order of their times.
LEMMA PushOrder ==
    ASSUME OneWorker, OutboxInv, OrderInv, NEW w \in Workers, NEW c \in Contacts,
           PushLater(w, c)
    PROVE  OrderInv'
<1> USE DEF OutboxInv, ClaimInv, OrderInv
<1>1. phase[w][c] = "pushing" /\ UNCHANGED <<contact, kind, status, locked, held, sends>>
  BY DEF PushLater, SetPushed, effects, Finish
<1>2. PICK r \in Rows : cur[w][c] = r
  BY <1>1 DEF CurrentRows, CurrentRow
<1>3. contact[r] = c
  BY <1>1, <1>2 DEF Chains, Chain
<1>4. ChainAt(w, c, "releasing", r) \/ (ChainAt(w, c, "next", 0) /\ ~IsReply(r))
  BY <1>2 DEF PushLater, Finish, Goto, ChainAt, TypeOK
<1>5. \A q \in Rows : /\ q \in LaterReplies(r) => due'[q] = Later(due[q], due[r])
                      /\ q \notin LaterReplies(r) => due'[q] = due[q]
  BY <1>2 DEF PushLater, SetPushed
<1>6. WrittenInOrder' /\ LockedFirst'
  BY <1>1 DEF WrittenInOrder, LockedFirst, Settled, Earlier, IsReply, OneWorker
<1>7. Chains'
  <2> SUFFICES ASSUME NEW v \in Workers, NEW d \in Contacts PROVE Chain(v, d)'
    BY DEF Chains
  <2>1. CASE v = w /\ d = c
    BY <1>1, <1>2, <1>4, <2>1 DEF ChainAt, Chains, Chain, Settled, Earlier, IsReply, Failing
  <2>2. CASE ~(v = w /\ d = c)
    BY <1>1, <1>4, <2>2 DEF ChainAt, Chains, Chain, Settled, Earlier, IsReply
  <2> QED
    BY <2>1, <2>2
<1>8. HeldFirst'
  <2> SUFFICES ASSUME NEW x \in held[w], NEW q \in Rows, Earlier(q, x), ~Settled(q), q \notin held[w]
               PROVE  phase'[w][contact[x]] # "next" /\ q = cur'[w][contact[x]]
    BY <1>1 DEF HeldFirst, OneWorker, Settled, Earlier, IsReply
  <2>1. phase[w][contact[x]] # "next" /\ q = cur[w][contact[x]] /\ contact[x] \in Contacts /\ IsReply(q)
    BY DEF HeldFirst, TypeOK, Earlier
  <2> QED
    BY <1>2, <1>4, <2>1 DEF ChainAt
<1>9. DueInOrder'
  <2> SUFFICES ASSUME NEW q \in Rows, NEW x \in Rows, Earlier(q, x), Queued(q), Queued(x), ~(due'[q] <= due'[x])
               PROVE  \E v \in Workers : phase'[v][contact[q]] = "pushing" /\ cur'[v][contact[q]] = q
    BY <1>1 DEF DueInOrder, Queued, Earlier, IsReply
  <2>1. due[q] \in Nat /\ due[x] \in Nat /\ due[r] \in Nat
    BY DEF TypeOK
  <2>2. q # r
    <3>1. q = r => x \in LaterReplies(r) /\ q \notin LaterReplies(r)
      BY DEF LaterReplies, QueuedReplies, Earlier, Queued, Rows
    <3> QED
      BY <1>5, <2>1, <3>1 DEF Later
  <2>3. q \in LaterReplies(r) => x \in LaterReplies(r)
    BY DEF LaterReplies, QueuedReplies, Earlier, Queued, Rows
  <2>4. ~(due[q] <= due[x])
    BY <1>5, <2>1, <2>3 DEF Later
  <2>5. PICK v \in Workers : phase[v][contact[q]] = "pushing" /\ cur[v][contact[q]] = q
    BY <2>4 DEF DueInOrder
  <2>6. contact[q] \in Contacts /\ ~(v = w /\ contact[q] = c)
    BY <1>2, <2>2, <2>5 DEF TypeOK
  <2> QED
    BY <1>4, <2>5, <2>6 DEF ChainAt
<1> QED
  BY <1>6, <1>7, <1>8, <1>9

\* A chain that ends hands back all its contact's rows, none of which was begun.
LEMMA ReleaseOrder ==
    ASSUME OneWorker, OutboxInv, LockedAlone, OrderInv, NEW w \in Workers, NEW c \in Contacts,
           Release(w, c)
    PROVE  OrderInv'
<1> USE DEF OutboxInv, ClaimInv, OrderInv
<1>1. /\ phase[w][c] \in {"releasing", "next"}
      /\ UNCHANGED <<contact, kind, due, locked, sends>>
      /\ locked[w] = {}
  BY DEF Release, HandsBack, SetReleased, effects, LockedAlone, Rest
<1>2. ChainAt(w, c, "next", 0)
  BY DEF Release, Reject, Goto, ChainAt, TypeOK
<1>3. \A v \in Workers : v = w /\ held'[v] = held[w] \ Rest(w, c)
  BY DEF Release, Reject, OneWorker, TypeOK
<1>4. \A q \in Rows : status'[q] = IF q \in Rest(w, c) THEN "pending" ELSE status[q]
  BY DEF Release, SetReleased, Rest, HeldRows
<1>5. \A q \in Rest(w, c) : status[q] = "delivering" /\ contact[q] = c
  BY DEF Rest, HeldRows
<1>6. \A q \in Rows : (Settled(q) <=> Settled(q)') /\ (Queued(q) <=> Queued(q)')
  BY <1>4, <1>5 DEF Settled, Queued
<1>7. WrittenInOrder'
  BY <1>4, <1>5 DEF WrittenInOrder
<1>8. Chains'
  <2> SUFFICES ASSUME NEW v \in Workers, NEW d \in Contacts PROVE Chain(v, d)'
    BY DEF Chains
  <2>1. CASE v = w /\ d = c
    BY <1>2, <2>1 DEF ChainAt, Chain, Failing
  <2>2. CASE ~(v = w /\ d = c)
    <3>1. phase'[v][d] = phase[v][d] /\ cur'[v][d] = cur[v][d] /\ (phase[v][d] # "next" => cur[v][d] \in Rows)
      BY <1>2, <2>2 DEF ChainAt, CurrentRows, CurrentRow
    <3>2. phase[v][d] \in InHand => status'[cur[v][d]] = status[cur[v][d]]
      <4>1. phase[v][d] \in InHand => Mine(v, d)
        BY CurrentIsMine
      <4> QED
        BY <1>4, <3>1, <4>1 DEF Mine, Rest
    <3> QED
      BY <1>1, <1>6, <3>1, <3>2 DEF Chains, Chain, Earlier, IsReply, Failing, InHand
  <2> QED
    BY <2>1, <2>2
<1>9. LockedFirst'
  BY <1>1, <1>3 DEF LockedFirst, OneWorker
<1>10. HeldFirst'
  <2> SUFFICES ASSUME NEW x \in held[w], x \notin Rest(w, c), NEW q \in Rows, Earlier(q, x), ~Settled(q)
               PROVE  \/ q \in held[w] \ Rest(w, c)
                      \/ phase'[w][contact[x]] # "next" /\ q = cur'[w][contact[x]]
    BY <1>1, <1>3, <1>6 DEF HeldFirst, Earlier, IsReply
  <2>1. contact[x] \in Contacts /\ contact[x] # c /\ contact[q] = contact[x]
    BY DEF TypeOK, Earlier, Rest
  <2> QED
    BY <1>2, <1>5, <2>1 DEF HeldFirst, ChainAt
<1>11. DueInOrder'
  <2>1. \A q \in Rows, v \in Workers :
           phase[v][contact[q]] = "pushing" => UNCHANGED <<phase[v][contact[q]], cur[v][contact[q]]>>
    BY <1>1, <1>2 DEF ChainAt, TypeOK
  <2> QED
    BY <1>1, <1>6, <2>1 DEF DueInOrder, Earlier, IsReply
<1> QED
  BY <1>7, <1>8, <1>9, <1>10, <1>11

LEMMA NextOrder ==
    ASSUME OneWorker, MovesTogether, QueueInv, OrderInv, [Next]_vars
    PROVE  OrderInv'
<1> USE DEF QueueInv
<1>1. ASSUME NEW r \in Rows, Enqueue(r) \/ EnqueueToken(r) \/ TokenWritten(r) PROVE OrderInv'
  BY <1>1, EnqueueOrder
<1>2. ASSUME NEW w \in Workers, ClaimScan(w) \/ ClaimCommit(w) PROVE OrderInv'
  BY <1>2, ScanOrder, CommitOrder
<1>3. ASSUME NEW w \in Workers, ClaimFault(w) \/ Crash(w) PROVE OrderInv'
  BY <1>3, ClaimFaultOrder DEF Crash, MovesTogether
<1>4. ASSUME NEW w \in Workers, Stop(w) \/ StopReturns(w) \/ Restart(w) PROVE OrderInv'
  BY <1>4, AsideOrder DEF Stop, StopReturns, Restart, effects
<1>5. ASSUME NEW w \in Workers, NEW c \in Contacts, ChainStep(w, c) PROVE OrderInv'
  <2>1. ~(MarkDeliveredFault(w, c) \/ MarkFailedFault(w, c) \/ PushFault(w, c) \/ ReleaseFault(w, c))
    BY DEF MarkDeliveredFault, MarkFailedFault, PushFault, ReleaseFault, MovesTogether
  <2>2. CASE Attempt(w, c) \/ WindowClosed(w, c)
    BY <2>2, AttemptOrder
  <2>3. CASE MarkDelivered(w, c) \/ PerformDeferred(w, c) \/ Bury(w, c)
    BY <2>3, MarkDeliveredOrder, FinishOrder
  <2>4. CASE MarkFailed(w, c) \/ PushLater(w, c) \/ Release(w, c)
    BY <2>4, MarkFailedOrder, PushOrder, ReleaseOrder
  <2> QED
    BY <1>5, <2>1, <2>2, <2>3, <2>4 DEF ChainStep
<1>6. CASE Tick
  BY <1>6, AsideOrder DEF Tick, effects
<1>7. CASE UNCHANGED vars
  BY <1>7, AsideOrder DEF vars, effects
<1> QED
  BY <1>1, <1>2, <1>3, <1>4, <1>5, <1>6, <1>7 DEF Next

\* With one worker, which may be stopped and started again and whose claims may fail, no
\* reply is sent while an earlier one to its contact is queued (queue.ts:118-127, 230-247).
THEOREM InOrder ==
    ASSUME OneWorker, MovesTogether
    PROVE  Spec => []NoOvertaking
<1>1. Init => QueueInv /\ OrderInv
  BY QueueInit, OrderInit
<1>2. QueueInv /\ OrderInv /\ [Next]_vars => (QueueInv /\ OrderInv)'
  BY NextQueue, NextOrder
<1>3. QueueInv /\ OrderInv => NoOvertaking
  <2> SUFFICES ASSUME OrderInv, NEW w \in Workers, NEW c \in Contacts,
                      phase[w][c] \in {"accepted", "acting"}, NEW q \in Rows, Earlier(q, cur[w][c])
               PROVE  status[q] \in {"delivered", "failed"}
    BY DEF NoOvertaking
  <2> QED
    BY DEF OrderInv, Chains, Chain, Settled, Earlier
<1> QED
  BY <1>1, <1>2, <1>3, PTL DEF Spec

-----------------------------------------------------------------------------
(* The queue implements ReplyFifo *)

LEMMA FateIs ==
    ASSUME OutboxInv, NEW r \in Rows
    PROVE  /\ Fate[r] = "unwritten" <=> status[r] = "absent"
           /\ Fate[r] = "queued" <=> Queued(r)
           /\ Fate[r] = "delivered" <=> status[r] = "delivered"
           /\ Fate[r] = "dead" <=> status[r] = "failed"
BY DEF Fate, FateOf, Queued, OutboxInv, TypeOK, Status

\* A step that writes the status of r only, and to s, writes its fate only.
LEMMA FateOfOne ==
    ASSUME OutboxInv, NEW r \in Rows, NEW s \in Status, status' = [status EXCEPT ![r] = s]
    PROVE  /\ s \in {"pending", "delivering"} => Fate' = [Fate EXCEPT ![r] = "queued"]
           /\ s = "delivered" => Fate' = [Fate EXCEPT ![r] = "delivered"]
           /\ s = "failed" => Fate' = [Fate EXCEPT ![r] = "dead"]
BY DEF Fate, FateOf, OutboxInv, TypeOK, Status

\* Claiming a row and handing it back leave it queued.
LEMMA FateKept ==
    ASSUME OutboxInv, status' \in [Rows -> Status],
           \A r \in Rows : status'[r] = status[r] \/ (Queued(r) /\ Queued(r)')
    PROVE  Fate' = Fate
<1>1. ASSUME NEW r \in Rows PROVE FateOf(status'[r]) = FateOf(status[r])
  <2>1. CASE status'[r] = status[r]
    BY <2>1
  <2>2. CASE Queued(r) /\ Queued(r)'
    BY <2>2 DEF FateOf, Queued
  <2> QED
    BY <2>1, <2>2
<1> QED
  BY <1>1 DEF Fate

\* A row that is settled by its chain has every earlier reply settled before it.
LEMMA TurnOf ==
    ASSUME OutboxInv, NEW r \in Rows, \A q \in Rows : Earlier(q, r) => Settled(q)
    PROVE  Fifo!Turn(r)
BY FateIs DEF Fifo!Turn, Earlier, IsReply, Settled

LEMMA FifoInit == Init => Fifo!Init
BY DEF Init, Fifo!Init, Fate, FateOf

LEMMA FifoTable ==
    ASSUME OutboxInv, NEW r \in Rows, Enqueue(r) \/ EnqueueToken(r) \/ TokenWritten(r)
    PROVE  Fifo!Next
<1>1. CASE Enqueue(r) \/ EnqueueToken(r)
  <2>1. status' = [status EXCEPT ![r] = "pending"] /\ UNCHANGED <<contact, kind, sends>> /\ NextRow(r)
    BY <1>1 DEF Enqueue, EnqueueToken, effects
  <2>2. Fate' = [Fate EXCEPT ![r] = "queued"]
    BY <2>1, FateOfOne DEF Status
  <2>3. status[r] = "absent" /\ \A q \in Rows : q < r => status[q] # "absent"
    BY <2>1, OutboxAssumption DEF NextRow, Rows
  <2>4. Fifo!Write(r)
    BY <2>1, <2>2, <2>3, FateIs DEF Fifo!Write
  <2> QED
    BY <2>4 DEF Fifo!Next
<1>2. CASE TokenWritten(r)
  <2>1. /\ status' = [status EXCEPT ![r] = "delivered"] /\ UNCHANGED <<contact, kind, sends>>
        /\ Queued(r) /\ ~IsReply(r)
    BY <1>2 DEF TokenWritten, effects, Queued
  <2>2. Fate' = [Fate EXCEPT ![r] = "delivered"]
    BY <2>1, FateOfOne DEF Status
  <2>3. Fifo!Deliver(r)
    BY <2>1, <2>2, FateIs DEF Fifo!Deliver, Fifo!Turn, IsReply
  <2> QED
    BY <2>3 DEF Fifo!Next
<1> QED
  BY <1>1, <1>2

LEMMA FifoAttempt ==
    ASSUME OneWorker, QueueInv, OrderInv, NEW w \in Workers, NEW c \in Contacts,
           Attempt(w, c) \/ WindowClosed(w, c)
    PROVE  [Fifo!Next]_Fifo!vars
<1> USE DEF QueueInv
<1>1. UNCHANGED <<contact, kind, status>> /\ phase[w][c] = "next"
  BY DEF Attempt, WindowClosed, table
<1>2. PICK r \in held[w] :
         IsHead(w, c, r) /\ (sends' = sends \/ sends' = [sends EXCEPT ![r] = @ + 1])
  BY DEF Attempt, WindowClosed, effects
<1>3. r \in Rows /\ Queued(r) /\ sends[r] < MaxAttempts
  <2>1. r \in Rows /\ status[r] = "delivering" /\ sends[r] < attempts[r]
    BY HeldIsMine
  <2>2. attempts[r] <= MaxAttempts /\ sends[r] \in Nat /\ attempts[r] \in Nat
    BY <2>1 DEF OutboxInv, ClaimInv, BoundedSends, TypeOK
  <2> QED
    BY <2>1, <2>2, OutboxAssumption DEF Queued
<1>4. Fate' = Fate
  BY <1>1 DEF Fate
<1>5. CASE sends' = sends
  BY <1>1, <1>4, <1>5 DEF Fifo!vars
<1>6. CASE sends' = [sends EXCEPT ![r] = @ + 1]
  <2>1. Fifo!Turn(r)
    BY <1>1, <1>2, <1>3, HeadIsNext, TurnOf
  <2>2. Fifo!Transmit(r)
    BY <1>1, <1>3, <1>4, <1>6, <2>1, FateIs DEF Fifo!Transmit
  <2> QED
    BY <1>3, <2>2 DEF Fifo!Next
<1> QED
  BY <1>2, <1>5, <1>6

\* A row in hand is queued until its outcome is stored, and its turn has come.
LEMMA FifoMark ==
    ASSUME QueueInv, OrderInv, NEW w \in Workers, NEW c \in Contacts,
           MarkDelivered(w, c) \/ MarkFailed(w, c)
    PROVE  [Fifo!Next]_Fifo!vars
<1> USE DEF QueueInv
<1>1. /\ phase[w][c] \in InHand /\ phase[w][c] \in {"accepted"} \union Failing
      /\ UNCHANGED <<contact, kind, sends>>
  BY DEF MarkDelivered, MarkFailed, SetFailed, SetStatus, effects, InHand
<1>2. PICK r \in Rows : cur[w][c] = r
  BY <1>1, CurrentIsMine DEF Mine
<1>3. Queued(r) /\ \A q \in Rows : Earlier(q, r) => Settled(q)
  BY <1>1, <1>2 DEF OrderInv, Chains, Chain, Queued, InHand, Failing, Earlier
<1>4. Fifo!Turn(r) /\ Fate[r] = "queued"
  BY <1>3, FateIs, TurnOf
<1>5. CASE MarkDelivered(w, c)
  <2>1. status' = [status EXCEPT ![r] = "delivered"] /\ sends[r] > 0
    BY <1>2, <1>5 DEF MarkDelivered, SetStatus, OutcomeInv, Outcome
  <2>2. Fifo!Deliver(r)
    BY <1>1, <1>4, <2>1, FateOfOne DEF Fifo!Deliver, Status
  <2> QED
    BY <2>2 DEF Fifo!Next
<1>6. CASE MarkFailed(w, c) /\ Exhausted(w, c)
  <2>1. status' = [status EXCEPT ![r] = "failed"]
    BY <1>2, <1>6 DEF MarkFailed, SetFailed, SetStatus
  <2>2. Fifo!GiveUp(r)
    BY <1>1, <1>4, <2>1, FateOfOne DEF Fifo!GiveUp, Status
  <2> QED
    BY <2>2 DEF Fifo!Next
<1>7. CASE MarkFailed(w, c) /\ ~Exhausted(w, c)
  <2>1. status' = [status EXCEPT ![r] = "pending"]
    BY <1>2, <1>7 DEF MarkFailed, SetFailed
  <2>2. Fate' = Fate
    BY <1>3, <2>1, FateKept DEF Queued, OutboxInv, TypeOK, Status
  <2> QED
    BY <1>1, <2>2 DEF Fifo!vars
<1> QED
  BY <1>5, <1>6, <1>7

\* Every other step leaves what the contacts see as it was.
LEMMA FifoAside ==
    ASSUME OutboxInv, status' \in [Rows -> Status], UNCHANGED <<contact, kind, sends>>,
           \A r \in Rows : status'[r] = status[r] \/ (Queued(r) /\ Queued(r)')
    PROVE  UNCHANGED Fifo!vars
BY FateKept DEF Fifo!vars

LEMMA FifoStep ==
    ASSUME OneWorker, MovesTogether, QueueInv, OrderInv, [Next]_vars
    PROVE  [Fifo!Next]_Fifo!vars
<1> USE DEF QueueInv
<1>0. status \in [Rows -> Status]
  BY DEF OutboxInv, TypeOK
<1>1. CASE \E r \in Rows : Enqueue(r) \/ EnqueueToken(r) \/ TokenWritten(r)
  BY <1>1, FifoTable
<1>2. ASSUME NEW w \in Workers, ClaimScan(w) \/ ClaimCommit(w) \/ ClaimFault(w)
      PROVE  UNCHANGED Fifo!vars
  <2>1. UNCHANGED <<contact, kind, sends>>
    BY <1>2 DEF ClaimScan, ClaimCommit, ClaimFault, SetClaimed, table, effects
  <2>2. \/ status' = status
        \/ status' = [r \in Rows |-> IF r \in locked[w] THEN "delivering" ELSE status[r]]
    BY <1>2 DEF ClaimScan, ClaimCommit, ClaimFault, SetClaimed, table
  <2>3. \A r \in locked[w] : status[r] = "pending"
    BY LockedIsFree
  <2> QED
    BY <1>0, <2>1, <2>2, <2>3, FifoAside DEF Queued, Status
<1>3. ASSUME NEW w \in Workers, Stop(w) \/ StopReturns(w) \/ Crash(w) \/ Restart(w)
      PROVE  UNCHANGED Fifo!vars
  BY <1>0, <1>3, FifoAside DEF Stop, StopReturns, Crash, Restart, table, effects
<1>4. ASSUME NEW w \in Workers, NEW c \in Contacts, ChainStep(w, c)
      PROVE  [Fifo!Next]_Fifo!vars
  <2>1. ~(MarkDeliveredFault(w, c) \/ MarkFailedFault(w, c) \/ PushFault(w, c) \/ ReleaseFault(w, c))
    BY DEF MarkDeliveredFault, MarkFailedFault, PushFault, ReleaseFault, MovesTogether
  <2>2. CASE Attempt(w, c) \/ WindowClosed(w, c)
    BY <2>2, FifoAttempt
  <2>3. CASE MarkDelivered(w, c) \/ MarkFailed(w, c)
    BY <2>3, FifoMark
  <2>4. CASE PerformDeferred(w, c) \/ Bury(w, c) \/ PushLater(w, c)
    BY <1>0, <2>4, FifoAside DEF PerformDeferred, Bury, PushLater, SetPushed, table, effects
  <2>5. CASE Release(w, c)
    <3>1. UNCHANGED <<contact, kind, sends>>
      BY <2>5 DEF Release, SetReleased, effects
    <3>2. status' = [r \in Rows |-> IF r \in {q \in Rest(w, c) : status[q] = "delivering"} THEN "pending" ELSE status[r]]
      BY <2>5 DEF Release, SetReleased
    <3> QED
      BY <1>0, <3>1, <3>2, FifoAside DEF Queued, Status
  <2> QED
    BY <1>4, <2>1, <2>2, <2>3, <2>4, <2>5 DEF ChainStep
<1>5. CASE Tick \/ UNCHANGED vars
  BY <1>0, <1>5, FifoAside DEF Tick, vars, table, effects
<1> QED
  BY <1>1, <1>2, <1>3, <1>4, <1>5 DEF Next

\* Under the same conditions the queue implements ReplyFifo: each statement that stores a row,
\* a delivery or an outcome is a step of the channel, and no other step shows in it.
THEOREM ImplementsFifo ==
    ASSUME OneWorker, MovesTogether
    PROVE  Spec => FifoSpec
<1>1. Init => QueueInv /\ OrderInv /\ Fifo!Init
  BY QueueInit, OrderInit, FifoInit
<1>2. QueueInv /\ OrderInv /\ [Next]_vars => (QueueInv /\ OrderInv)'
  BY NextQueue, NextOrder
<1>3. QueueInv /\ OrderInv /\ [Next]_vars => [Fifo!Next]_Fifo!vars
  BY FifoStep
<1> QED
  BY <1>1, <1>2, <1>3, PTL DEF Spec, FifoSpec, Fifo!Spec
=============================================================================
