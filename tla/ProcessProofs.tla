--------------------------- MODULE ProcessProofs ---------------------------
(***************************************************************************)
(* For any subscribers, channels, processes and bounds, and whatever else  *)
(* the process does meanwhile: a contact reads each message in its own     *)
(* flow and in the order it was written; no week is taken by two runs; a   *)
(* process that exits 0 leaves nothing open.                               *)
(*                                                                         *)
(* The replies: that a flow shows the message it was triggered for is not  *)
(* inductive. It rests on one send of a contact being under way at a time  *)
(* (Paced), on the field holding the text of each flow still to run        *)
(* (Aimed), and on no shown text lying ahead of its send (Behind).         *)
(*                                                                         *)
(* The weekly run: only an insert takes a week, and a run keeps its week   *)
(* until it is failed, so WeekInv needs no more than the runs' fields.     *)
(*                                                                         *)
(* The shutdown: StopInv carries along the stop order what each step has   *)
(* waited for; a caller who has an answer as app.close returns still has   *)
(* it when the traces are sent.                                            *)
(*                                                                         *)
(* The requests: what may still be spent is counted with what is (SpendInv)*)
(* and what is cached is one configuration's and one version's             *)
(* (CacheIsWhole).  The load: what has been read is judged by what was     *)
(* read before it, not by what the files hold by then (LoadInv).  The      *)
(* run's evidence: what it is sent is settled before it may cite           *)
(* (EvidenceInv).                                                          *)
(***************************************************************************)
EXTENDS Process, FiniteSetTheorems, SequenceTheorems, TLAPS

Places == {"queued", "field", "flow", "pause", "gap", "done"}
Send == [to : Subscribers, channel : Channels, messages : Nat, nth : Nat, at : Places]
Label == Nat \X Nat

ClientTypes ==
    /\ sends \in Seq(Send)
    /\ field \in [Subscribers -> Label]
    /\ triggered \in [Subscribers -> SUBSET Label]
    /\ shown \in [Subscribers -> Seq([meant : Label, text : Label])]

\* A contact's later send starts when its earlier ones are over.
Paced ==
    \A j, k \in DOMAIN sends :
        j < k /\ sends[j].to = sends[k].to /\ sends[k].at # "queued" => sends[j].at = "done"

\* A flow still to run is of the send under way, whose text the field holds.
Aimed ==
    /\ \A c \in Subscribers : \A text \in triggered[c] :
         \E k \in DOMAIN sends : /\ text = Text(k) /\ sends[k].to = c
                                 /\ sends[k].at \in {"pause", "gap"} /\ field[c] = text
    /\ \A k \in DOMAIN sends : sends[k].at = "flow" => field[sends[k].to] = Text(k)

\* What a contact was shown lies behind what their send under way still has to show.
Behind ==
    \A c \in Subscribers : \A i \in DOMAIN shown[c] :
        LET text == shown[c][i].text
            k == text[1]
        IN  /\ text = shown[c][i].meant
            /\ k \in DOMAIN sends /\ sends[k].to = c /\ sends[k].at # "queued"
            /\ text[2] <= sends[k].nth
            /\ sends[k].at \in {"field", "flow"} \/ text \in triggered[c] => text[2] < sends[k].nth

InOrder ==
    \A c \in Subscribers : \A i, j \in DOMAIN shown[c] :
        LET one == shown[c][i].text
            next == shown[c][j].text
        IN  i < j => one[1] < next[1] \/ (one[1] = next[1] /\ one[2] < next[2])

ClientInv == ClientTypes /\ Paced /\ Aimed /\ Behind /\ InOrder

LEMMA ClientStart == ClientInit => ClientInv
BY DEF ClientInit, ClientInv, ClientTypes, Paced, Aimed, Behind, InOrder, Label

-----------------------------------------------------------------------------
\* The sends, entry by entry

LEMMA Moved ==
    ASSUME ClientTypes, NEW k \in DOMAIN sends, NEW e \in Send, sends' = [sends EXCEPT ![k] = e]
    PROVE  /\ sends' \in Seq(Send) /\ DOMAIN sends' = DOMAIN sends
           /\ \A j \in DOMAIN sends : sends'[j] = IF j = k THEN e ELSE sends[j]
BY ExceptSeq, LenProperties DEF ClientTypes

LEMMA SendFields ==
    ASSUME ClientTypes, NEW k \in DOMAIN sends
    PROVE  /\ sends[k] \in Send /\ k \in Nat /\ Text(k) \in Label
           /\ sends[k].to \in Subscribers /\ sends[k].nth \in Nat
<1>1. sends[k] \in Send /\ k \in Nat
    BY LenProperties, ElementOfSeq DEF ClientTypes
<1> QED
    BY <1>1 DEF Send, Label, Text

\* A send that goes to another place, on the same message.
LEMMA AtPlace ==
    ASSUME ClientTypes, NEW k \in DOMAIN sends, NEW place \in Places,
           sends' = [sends EXCEPT ![k].at = place]
    PROVE  /\ sends' \in Seq(Send) /\ DOMAIN sends' = DOMAIN sends
           /\ \A j \in DOMAIN sends : /\ sends'[j].to = sends[j].to /\ sends'[j].nth = sends[j].nth
                                      /\ sends'[j].at = IF j = k THEN place ELSE sends[j].at
                                      /\ Text(j)' = Text(j)
<1> DEFINE e == [sends[k] EXCEPT !.at = place]
<1>1. sends[k] \in Send
    BY SendFields
<1>2. /\ e \in Send /\ e.to = sends[k].to /\ e.nth = sends[k].nth /\ e.at = place
    BY <1>1 DEF Send
<1>3. sends' = [sends EXCEPT ![k] = e]
    OBVIOUS
<1> HIDE DEF e
<1>4. /\ sends' \in Seq(Send) /\ DOMAIN sends' = DOMAIN sends
      /\ \A j \in DOMAIN sends : sends'[j] = IF j = k THEN e ELSE sends[j]
    BY <1>2, <1>3, Moved
<1>5. ASSUME NEW j \in DOMAIN sends
      PROVE  /\ sends'[j].to = sends[j].to /\ sends'[j].nth = sends[j].nth
             /\ sends'[j].at = IF j = k THEN place ELSE sends[j].at
    BY <1>2, <1>4, <1>5
<1> QED
    BY <1>4, <1>5 DEF Text

\* The contact whose send is under way has no other under way, and no flow of another to run.
LEMMA Alone ==
    ASSUME ClientInv, NEW k \in DOMAIN sends, sends[k].at \notin {"queued", "done"}
    PROVE  /\ \A j \in DOMAIN sends : j # k /\ sends[j].to = sends[k].to => sends[j].at \in {"queued", "done"}
           /\ \A text \in triggered[sends[k].to] : text = Text(k) /\ sends[k].at \in {"pause", "gap"}
<1>1. ASSUME NEW j \in DOMAIN sends, j # k, sends[j].to = sends[k].to, sends[j].at # "queued"
      PROVE  sends[j].at = "done"
    <2>1. j \in Nat /\ k \in Nat
        BY SendFields DEF ClientInv
    <2>2. CASE j < k
        BY <1>1, <2>2 DEF ClientInv, Paced
    <2>3. CASE k < j
        BY <1>1, <2>3 DEF ClientInv, Paced
    <2> QED
        BY <1>1, <2>1, <2>2, <2>3
<1>2. ASSUME NEW text \in triggered[sends[k].to]
      PROVE  text = Text(k) /\ sends[k].at \in {"pause", "gap"}
    <2>1. PICK j \in DOMAIN sends : /\ text = Text(j) /\ sends[j].to = sends[k].to
                                    /\ sends[j].at \in {"pause", "gap"}
        BY <1>2, SendFields DEF ClientInv, Aimed
    <2>2. j = k
        BY <1>1, <2>1
    <2> QED
        BY <2>1, <2>2
<1> QED
    BY <1>1, <1>2

-----------------------------------------------------------------------------
\* The actions

LEMMA SendTextStep ==
    ASSUME ClientInv, NEW c \in Subscribers, NEW channel \in Channels, NEW messages \in Nat,
           sendText(c, channel, messages)
    PROVE  ClientInv'
<1> DEFINE e == [to |-> c, channel |-> channel, messages |-> messages, nth |-> 1, at |-> "queued"]
           n == Len(sends)
<1>1. e \in Send /\ sends' = Append(sends, e)
    BY DEF sendText, Send, Places
<1>2. /\ sends' \in Seq(Send) /\ n \in Nat /\ DOMAIN sends = 1 .. n /\ DOMAIN sends' = 1 .. n + 1
      /\ \A j \in 1 .. n : sends'[j] = sends[j]
      /\ sends'[n + 1] = e
    BY <1>1, AppendProperties, LenProperties DEF ClientInv, ClientTypes
<1>3. e.to = c /\ e.at = "queued"
    OBVIOUS
<1> HIDE DEF e, n
<1>4. \A j \in 1 .. n : Text(j)' = Text(j)
    BY <1>2 DEF Text
<1>5. ClientTypes'
    BY <1>2 DEF ClientInv, ClientTypes, sendText
<1>6. Paced'
    BY <1>2, <1>3 DEF ClientInv, Paced
<1>7. Aimed'
    <2>1. ASSUME NEW d \in Subscribers, NEW text \in triggered[d]
          PROVE  \E k \in DOMAIN sends' : /\ text = Text(k)' /\ sends'[k].to = d
                                          /\ sends'[k].at \in {"pause", "gap"} /\ field[d] = text
        <3>1. PICK k \in DOMAIN sends : /\ text = Text(k) /\ sends[k].to = d
                                        /\ sends[k].at \in {"pause", "gap"} /\ field[d] = text
            BY <2>1 DEF ClientInv, Aimed
        <3> QED
            BY <1>2, <1>4, <3>1
    <2>2. ASSUME NEW k \in DOMAIN sends', sends'[k].at = "flow"
          PROVE  field[sends'[k].to] = Text(k)'
        BY <1>2, <1>3, <1>4, <2>2 DEF ClientInv, Aimed
    <2> QED
        BY <2>1, <2>2 DEF Aimed, sendText
<1>8. Behind'
    BY <1>2 DEF ClientInv, Behind, sendText
<1>9. InOrder'
    BY DEF ClientInv, InOrder, sendText
<1> QED
    BY <1>5, <1>6, <1>7, <1>8, <1>9 DEF ClientInv

LEMMA StartsStep == ASSUME ClientInv, NEW k \in DOMAIN sends, Starts(k) PROVE ClientInv'
<1>1. /\ sends' \in Seq(Send) /\ DOMAIN sends' = DOMAIN sends
      /\ \A j \in DOMAIN sends : /\ sends'[j].to = sends[j].to /\ sends'[j].nth = sends[j].nth
                                 /\ sends'[j].at = IF j = k THEN "field" ELSE sends[j].at
                                 /\ Text(j)' = Text(j)
    BY AtPlace DEF ClientInv, Starts, Places
<1>2. sends[k].at = "queued" /\ UNCHANGED <<field, triggered, shown>>
    BY DEF Starts
<1>3. ClientTypes' /\ InOrder'
    <2>1. ClientTypes'
        BY <1>1, <1>2 DEF ClientInv, ClientTypes
    <2>2. InOrder'
        BY <1>2 DEF ClientInv, InOrder
    <2> QED
        BY <2>1, <2>2
<1>4. Paced'
    <2>1. ASSUME NEW i \in DOMAIN sends, NEW m \in DOMAIN sends,
                 i < m, sends[i].to = sends[m].to, sends'[m].at # "queued"
          PROVE  sends'[i].at = "done"
        <3>1. CASE m = k
            <4>1. DOMAIN sends = 1 .. Len(sends) /\ Len(sends) \in Nat
                BY LenProperties DEF ClientInv, ClientTypes
            <4>2. i \in Before(k)
                BY <2>1, <3>1, <4>1 DEF Before
            <4>3. sends[i].at = "done"
                BY <4>2 DEF Starts
            <4> QED
                BY <1>1, <1>2, <2>1, <3>1, <4>3
        <3>2. CASE m # k
            BY <1>1, <1>2, <2>1, <3>2 DEF ClientInv, Paced
        <3> QED
            BY <3>1, <3>2
    <2> QED
        BY <2>1, <1>1 DEF Paced
<1>5. Aimed'
    BY <1>1, <1>2 DEF ClientInv, Aimed
<1>6. Behind'
    BY <1>1, <1>2 DEF ClientInv, Behind
<1> QED
    BY <1>3, <1>4, <1>5, <1>6 DEF ClientInv

\* A call to ManyChat, done or not, and where the send goes from there.
Call(k, place) ==
    \/ UNCHANGED <<field, triggered>> /\ place = "gap"
    \/ WritesField(k) /\ UNCHANGED triggered /\ place \in {"flow", "gap"}
    \/ sends[k].at = "flow" /\ TriggersFlow(k) /\ UNCHANGED field /\ place \in {"pause", "gap"}

\* The send goes to another place, on the same message.
GoesTo(k, place) == sends' = [sends EXCEPT ![k].at = place]

LEMMA CallStep ==
    ASSUME ClientInv, NEW k \in DOMAIN sends, NEW place, sends[k].at \in {"field", "flow"},
           GoesTo(k, place), Call(k, place), UNCHANGED shown
    PROVE  ClientInv'
<1>1. place \in {"flow", "pause", "gap"} /\ place \in Places /\ ClientTypes
    BY DEF Call, Places, ClientInv
<1>2. /\ sends' \in Seq(Send) /\ DOMAIN sends' = DOMAIN sends
      /\ \A j \in DOMAIN sends : /\ sends'[j].to = sends[j].to /\ sends'[j].nth = sends[j].nth
                                 /\ sends'[j].at = IF j = k THEN place ELSE sends[j].at
                                 /\ Text(j)' = Text(j)
    BY <1>1, AtPlace DEF GoesTo
<1>3. /\ sends[k].to \in Subscribers /\ Text(k) \in Label /\ Text(k)[1] = k
      /\ Text(k)[2] = sends[k].nth /\ sends[k].nth \in Nat
    BY SendFields DEF ClientInv, Text
<1>4. /\ \A j \in DOMAIN sends : j # k /\ sends[j].to = sends[k].to => sends[j].at \in {"queued", "done"}
      /\ triggered[sends[k].to] = {}
    BY Alone
<1>5. /\ field' \in [Subscribers -> Label]
      /\ \A c \in Subscribers : c # sends[k].to => field'[c] = field[c]
      /\ place = "flow" => field'[sends[k].to] = Text(k)
    BY <1>3 DEF Call, WritesField, ClientInv, ClientTypes
<1>6. /\ triggered' \in [Subscribers -> SUBSET Label]
      /\ \A c \in Subscribers : c # sends[k].to => triggered'[c] = triggered[c]
      /\ \/ triggered'[sends[k].to] = {}
         \/ /\ triggered'[sends[k].to] = {Text(k)} /\ place \in {"pause", "gap"}
            /\ field' = field /\ sends[k].at = "flow"
    BY <1>3, <1>4 DEF Call, TriggersFlow, ClientInv, ClientTypes
<1>7. ClientTypes' /\ InOrder'
    <2>1. ClientTypes'
        BY <1>1, <1>2, <1>5, <1>6 DEF ClientTypes
    <2>2. InOrder'
        BY DEF ClientInv, InOrder
    <2> QED
        BY <2>1, <2>2
<1>8. Paced'
    BY <1>1, <1>2 DEF ClientInv, Paced
<1>9. Aimed'
    <2>1. ASSUME NEW c \in Subscribers, NEW text \in triggered'[c]
          PROVE  \E j \in DOMAIN sends : /\ text = Text(j) /\ sends[j].to = c
                                         /\ sends'[j].at \in {"pause", "gap"} /\ field'[c] = text
        <3>1. CASE c = sends[k].to
            BY <1>2, <1>6, <2>1, <3>1 DEF ClientInv, Aimed
        <3>2. CASE c # sends[k].to
            BY <1>2, <1>5, <1>6, <2>1, <3>2 DEF ClientInv, Aimed
        <3> QED
            BY <3>1, <3>2
    <2>2. ASSUME NEW j \in DOMAIN sends, sends'[j].at = "flow"
          PROVE  field'[sends[j].to] = Text(j)
        <3>1. sends[j].to \in Subscribers
            BY SendFields DEF ClientInv
        <3> QED
            BY <1>2, <1>4, <1>5, <2>2, <3>1 DEF ClientInv, Aimed
    <2> QED
        BY <1>2, <2>1, <2>2 DEF Aimed
<1>10. Behind'
    <2>1. ASSUME NEW c \in Subscribers, NEW text, NEW j \in DOMAIN sends, text[1] = j,
                 sends[j].to = c, sends[j].at # "queued", text[2] <= sends[j].nth,
                 sends[j].at \in {"field", "flow"} \/ text \in triggered[c] => text[2] < sends[j].nth
          PROVE  /\ j \in DOMAIN sends' /\ sends'[j].to = c /\ sends'[j].at # "queued"
                 /\ text[2] <= sends'[j].nth
                 /\ sends'[j].at \in {"field", "flow"} \/ text \in triggered'[c]
                       => text[2] < sends'[j].nth
        <3>1. CASE j = k
            BY <1>1, <1>2, <2>1, <3>1
        <3>2. CASE j # k
            <4>1. text \in triggered'[c] => text \in triggered[c]
                BY <1>3, <1>6, <2>1, <3>2
            <4> QED
                BY <1>2, <2>1, <3>2, <4>1
        <3> QED
            BY <3>1, <3>2
    <2> QED
        BY <2>1 DEF ClientInv, Behind
<1> QED
    BY <1>7, <1>8, <1>9, <1>10 DEF ClientInv

LEMMA GapEndsStep == ASSUME ClientInv, NEW k \in DOMAIN sends, GapEnds(k) PROVE ClientInv'
<1> DEFINE over == sends[k].at = "gap"
           place == IF over THEN "done" ELSE "field"
           nth == IF over THEN sends[k].nth ELSE sends[k].nth + 1
           e == [sends[k] EXCEPT !.at = place, !.nth = nth]
<1>1. /\ sends[k] \in Send /\ sends[k].nth \in Nat /\ sends[k].to \in Subscribers
      /\ sends[k].at \in {"pause", "gap"} /\ UNCHANGED <<field, triggered, shown>>
    BY SendFields DEF ClientInv, GapEnds
<1>3. sends' = [sends EXCEPT ![k] = e]
    BY <1>1 DEF GapEnds, Send
<1>4. /\ place \in {"done", "field"} /\ place \in Places
      /\ nth \in Nat /\ sends[k].nth <= nth /\ (place = "field" => sends[k].nth < nth)
    BY <1>1 DEF Places
<1> HIDE DEF nth, place
<1>2. e \in Send /\ e.to = sends[k].to /\ e.nth = nth /\ e.at = place
    BY <1>1, <1>4 DEF Send
<1> HIDE DEF e
<1>5. /\ sends' \in Seq(Send) /\ DOMAIN sends' = DOMAIN sends
      /\ \A j \in DOMAIN sends : sends'[j] = IF j = k THEN e ELSE sends[j]
    BY <1>2, <1>3, Moved DEF ClientInv
<1>6. \A j \in DOMAIN sends : /\ sends'[j].to = sends[j].to
                              /\ j # k => sends'[j] = sends[j] /\ Text(j)' = Text(j)
    BY <1>2, <1>5 DEF Text
<1>7. sends'[k].at = place /\ sends'[k].nth = nth
    BY <1>2, <1>5
<1>8. /\ \A j \in DOMAIN sends : j # k /\ sends[j].to = sends[k].to => sends[j].at \in {"queued", "done"}
      /\ triggered[sends[k].to] = {}
    <2>1. \A text \in triggered[sends[k].to] : text = Text(k)
        BY <1>1, Alone
    <2> QED
        BY <1>1, <2>1, Alone DEF GapEnds, Text
<1>9. ClientTypes' /\ InOrder'
    <2>1. ClientTypes'
        BY <1>1, <1>5 DEF ClientInv, ClientTypes
    <2>2. InOrder'
        BY <1>1 DEF ClientInv, InOrder
    <2> QED
        BY <2>1, <2>2
<1>10. Paced'
    <2>1. ASSUME NEW i \in DOMAIN sends, NEW m \in DOMAIN sends,
                 i < m, sends[i].to = sends[m].to, sends'[m].at # "queued"
          PROVE  sends'[i].at = "done"
        <3>1. sends[m].at # "queued"
            BY <1>1, <1>6, <2>1
        <3>2. sends[i].at = "done"
            BY <2>1, <3>1 DEF ClientInv, Paced
        <3> QED
            BY <1>1, <1>6, <3>2
    <2> QED
        BY <1>5, <1>6, <2>1 DEF Paced
<1>11. Aimed'
    <2>1. ASSUME NEW c \in Subscribers, NEW text \in triggered[c]
          PROVE  \E j \in DOMAIN sends : /\ text = Text(j)' /\ sends'[j].to = c
                                         /\ sends'[j].at \in {"pause", "gap"} /\ field[c] = text
        <3>1. PICK j \in DOMAIN sends : /\ text = Text(j) /\ sends[j].to = c
                                       /\ sends[j].at \in {"pause", "gap"} /\ field[c] = text
            BY <2>1 DEF ClientInv, Aimed
        <3>2. j # k
            BY <1>8, <2>1, <3>1
        <3> QED
            BY <1>6, <3>1, <3>2
    <2>2. ASSUME NEW j \in DOMAIN sends, sends'[j].at = "flow"
          PROVE  field[sends'[j].to] = Text(j)'
        <3>1. j # k
            BY <1>4, <1>7, <2>2
        <3> QED
            BY <1>6, <2>2, <3>1 DEF ClientInv, Aimed
    <2> QED
        BY <1>1, <1>5, <2>1, <2>2 DEF Aimed
<1>12. Behind'
    <2>1. ASSUME NEW c \in Subscribers, NEW text, NEW j \in DOMAIN sends, text[1] = j,
                 sends[j].to = c, sends[j].at # "queued", text[2] <= sends[j].nth, text[2] \in Nat,
                 sends[j].at \in {"field", "flow"} \/ text \in triggered[c] => text[2] < sends[j].nth
          PROVE  /\ sends'[j].to = c /\ sends'[j].at # "queued"
                 /\ text[2] <= sends'[j].nth
                 /\ sends'[j].at \in {"field", "flow"} \/ text \in triggered[c]
                       => text[2] < sends'[j].nth
        <3>1. CASE j = k
            BY <1>1, <1>4, <1>6, <1>7, <1>8, <2>1, <3>1
        <3>2. CASE j # k
            BY <1>6, <2>1, <3>2
        <3> QED
            BY <3>1, <3>2
    <2>2. ASSUME NEW c \in Subscribers, NEW i \in DOMAIN shown[c]
          PROVE  shown[c][i].text[2] \in Nat
        <3>1. shown[c][i] \in [meant : Label, text : Label]
            BY <2>2, ElementOfSeq, LenProperties DEF ClientInv, ClientTypes
        <3> QED
            BY <3>1 DEF Label
    <2> QED
        BY <1>1, <1>5, <2>1, <2>2 DEF ClientInv, Behind
<1> QED
    BY <1>9, <1>10, <1>11, <1>12 DEF ClientInv

\* The flow shows the text it was triggered for, and after what was shown before.
LEMMA ShowsStep == ASSUME ClientInv, NEW c \in Subscribers, Shows(c) PROVE ClientInv'
<1>1. PICK text \in triggered[c] :
          /\ triggered' = [triggered EXCEPT ![c] = @ \ {text}]
          /\ shown' = [shown EXCEPT ![c] = Append(@, [meant |-> text, text |-> field[c]])]
    BY DEF Shows
<1>2. PICK k \in DOMAIN sends : /\ text = Text(k) /\ sends[k].to = c
                               /\ sends[k].at \in {"pause", "gap"} /\ field[c] = text
    BY DEF ClientInv, Aimed
<1>3. text \in Label /\ text[1] = k /\ text[2] = sends[k].nth /\ sends[k].nth \in Nat
    BY <1>2, SendFields DEF ClientInv, Text
<1> DEFINE e == [meant |-> text, text |-> field[c]]
           n == Len(shown[c])
<1>4. e \in [meant : Label, text : Label] /\ e.text = text /\ e.meant = text
    BY <1>2, <1>3
<1>5. shown[c] \in Seq([meant : Label, text : Label])
    BY DEF ClientInv, ClientTypes
<1>6. UNCHANGED <<sends, field>>
    BY DEF Shows
<1>7. shown'[c] = Append(shown[c], e)
    BY <1>1 DEF ClientInv, ClientTypes
<1> HIDE DEF e, n
<1>8. /\ shown'[c] \in Seq([meant : Label, text : Label])
      /\ n \in Nat /\ DOMAIN shown[c] = 1 .. n /\ DOMAIN shown'[c] = 1 .. n + 1
      /\ \A i \in 1 .. n : shown'[c][i] = shown[c][i]
      /\ shown'[c][n + 1] = e
    BY <1>4, <1>5, <1>7, AppendProperties, LenProperties DEF n
<1>9. \A d \in Subscribers : d # c => shown'[d] = shown[d] /\ triggered'[d] = triggered[d]
    BY <1>1 DEF ClientInv, ClientTypes
<1>10. triggered'[c] = triggered[c] \ {text}
    BY <1>1 DEF ClientInv, ClientTypes
<1>11. ClientTypes'
    BY <1>1, <1>6, <1>8 DEF ClientInv, ClientTypes
<1>12. Paced'
    BY <1>6 DEF ClientInv, Paced
<1>13. Aimed'
    <2>1. \A d \in Subscribers : triggered'[d] \subseteq triggered[d]
        BY <1>9, <1>10
    <2> QED
        BY <1>6, <2>1 DEF ClientInv, Aimed, Text
<1>14. Behind'
    <2>1. ASSUME NEW d \in Subscribers, NEW i \in DOMAIN shown'[d]
          PROVE  LET t == shown'[d][i].text
                     j == t[1]
                 IN  /\ t = shown'[d][i].meant
                     /\ j \in DOMAIN sends /\ sends[j].to = d /\ sends[j].at # "queued"
                     /\ t[2] <= sends[j].nth
                     /\ sends[j].at \in {"field", "flow"} \/ t \in triggered'[d]
                           => t[2] < sends[j].nth
        <3>1. CASE i \in DOMAIN shown[d] /\ shown'[d][i] = shown[d][i]
            <4>1. triggered'[d] \subseteq triggered[d]
                BY <1>9, <1>10
            <4> QED
                BY <3>1, <4>1 DEF ClientInv, Behind
        <3>2. CASE d = c /\ shown'[d][i] = e
            BY <1>2, <1>3, <1>4, <1>10, <3>2
        <3> QED
            BY <1>8, <1>9, <2>1, <3>1, <3>2
    <2> QED
        BY <1>6, <2>1 DEF Behind
<1>15. ASSUME NEW i \in DOMAIN shown[c]
       PROVE  LET t == shown[c][i].text IN t[1] < k \/ (t[1] = k /\ t[2] < sends[k].nth)
    <2> DEFINE t == shown[c][i].text
               j == t[1]
    <2>1. /\ j \in DOMAIN sends /\ sends[j].to = c /\ sends[j].at # "queued"
          /\ t[2] <= sends[j].nth /\ (t \in triggered[c] => t[2] < sends[j].nth)
        BY <1>15 DEF ClientInv, Behind
    <2>2. t \in Label
        <3>1. shown[c][i] \in [meant : Label, text : Label]
            BY <1>5, <1>15, ElementOfSeq, LenProperties
        <3> QED
            BY <3>1
    <2>3. t = <<j, t[2]>> /\ t[2] \in Nat
        BY <2>2 DEF Label
    <2> HIDE DEF t
    <2>4. j \in Nat /\ k \in Nat
        BY <2>1, SendFields DEF ClientInv
    <2>5. CASE j = k
        <3>1. t[2] = sends[k].nth => t = text
            BY <1>2, <2>3, <2>5 DEF Text
        <3> QED
            BY <1>3, <2>1, <2>3, <2>5, <3>1 DEF t
    <2>6. CASE k < j
        BY <1>2, <2>1, <2>6 DEF ClientInv, Paced
    <2> QED
        BY <2>4, <2>5, <2>6 DEF t
<1>16. InOrder'
    <2>1. ASSUME NEW d \in Subscribers, NEW i \in DOMAIN shown'[d], NEW m \in DOMAIN shown'[d], i < m
          PROVE  LET one == shown'[d][i].text
                     next == shown'[d][m].text
                 IN  one[1] < next[1] \/ (one[1] = next[1] /\ one[2] < next[2])
        <3>1. CASE d # c
            BY <1>9, <2>1, <3>1 DEF ClientInv, InOrder
        <3>2. CASE d = c /\ m = n + 1
            <4>1. i \in DOMAIN shown[c] /\ shown'[c][i] = shown[c][i]
                BY <1>8, <2>1, <3>2
            <4> QED
                BY <1>3, <1>4, <1>8, <1>15, <3>2, <4>1
        <3>3. CASE d = c /\ m # n + 1
            <4>1. /\ i \in DOMAIN shown[c] /\ shown'[c][i] = shown[c][i]
                  /\ m \in DOMAIN shown[c] /\ shown'[c][m] = shown[c][m]
                BY <1>8, <2>1, <3>3
            <4> QED
                BY <2>1, <3>3, <4>1 DEF ClientInv, InOrder
        <3> QED
            BY <3>1, <3>2, <3>3
    <2> QED
        BY <2>1 DEF InOrder
<1> QED
    BY <1>11, <1>12, <1>13, <1>14, <1>16 DEF ClientInv

LEMMA ClientStays == ClientInv /\ UNCHANGED clientVars => ClientInv'
<1> SUFFICES ASSUME ClientInv, UNCHANGED clientVars PROVE ClientInv'
    OBVIOUS
<1>1. UNCHANGED <<sends, field, triggered, shown>>
    BY DEF clientVars
<1>2. ClientTypes' /\ Paced'
    BY <1>1 DEF ClientInv, ClientTypes, Paced
<1>3. Aimed'
    BY <1>1 DEF ClientInv, Aimed, Text
<1>4. Behind' /\ InOrder'
    BY <1>1 DEF ClientInv, Behind, InOrder
<1> QED
    BY <1>2, <1>3, <1>4 DEF ClientInv

LEMMA ClientSteps == ClientInv /\ [Next]_vars => ClientInv'
<1> SUFFICES ASSUME ClientInv, [Next]_vars PROVE ClientInv'
    OBVIOUS
<1>1. CASE ClientStep
    <2>1. ASSUME NEW c \in Subscribers, NEW channel \in Channels, NEW messages \in 1 .. 2,
                 sendText(c, channel, messages)
          PROVE  ClientInv'
        BY <2>1, SendTextStep
    <2>2. ASSUME NEW k \in DOMAIN sends, SendStep(k)
          PROVE  ClientInv'
        <3>1. CASE Starts(k)
            BY <3>1, StartsStep
        <3>2. CASE WritesText(k)
            <4>1. /\ Call(k, "flow") /\ sends[k].at \in {"field", "flow"}
                  /\ GoesTo(k, "flow") /\ UNCHANGED shown
                BY <3>2 DEF WritesText, Call, GoesTo
            <4> QED
                BY <4>1, CallStep
        <3>3. CASE Triggers(k)
            <4>1. /\ Call(k, "gap") /\ Call(k, "pause")
                  /\ sends[k].at \in {"field", "flow"} /\ UNCHANGED shown
                  /\ \/ GoesTo(k, "gap")
                     \/ GoesTo(k, "pause")
                BY <3>3 DEF Triggers, Call, GoesTo
            <4>2. CASE GoesTo(k, "gap")
                BY <4>1, <4>2, CallStep
            <4>3. CASE GoesTo(k, "pause")
                BY <4>1, <4>3, CallStep
            <4> QED
                BY <4>1, <4>2, <4>3
        <3>4. CASE CallFails(k)
            <4>1. /\ Call(k, "gap") /\ sends[k].at \in {"field", "flow"}
                  /\ GoesTo(k, "gap") /\ UNCHANGED shown
                BY <3>4 DEF CallFails, Call, GoesTo
            <4> QED
                BY <4>1, CallStep
        <3>5. CASE GapEnds(k)
            BY <3>5, GapEndsStep
        <3> QED
            BY <2>2, <3>1, <3>2, <3>3, <3>4, <3>5 DEF SendStep
    <2>3. ASSUME NEW c \in Subscribers, Shows(c)
          PROVE  ClientInv'
        BY <2>3, ShowsStep
    <2> QED
        BY <1>1, <2>1, <2>2, <2>3 DEF ClientStep
<1>2. CASE UNCHANGED clientVars
    BY <1>2, ClientStays
<1>3. ClientStep \/ UNCHANGED clientVars
    BY DEF Next, BootStep, BootFails, IterationEnds, IterationFails, Wakes, Signal, StopStep,
           ServiceStep, JobStep, Over, vars
<1> QED
    BY <1>1, <1>2, <1>3

\* Every message is read in its own flow and in its place, whatever fails half done and whatever
\* the rest of the process does (client.ts: sendText, sendEach).
THEOREM MessagesReadAsWritten == Spec => []ReadsEachAsWritten
<1>1. Init => ClientInv
    BY ClientStart DEF Init
<1>2. ClientInv => ReadsEachAsWritten
    <2> SUFFICES ASSUME ClientInv, NEW c \in Subscribers
                 PROVE  /\ \A i \in DOMAIN shown[c] : shown[c][i].text = shown[c][i].meant
                        /\ \A i \in 1 .. Len(shown[c]) - 1 :
                             LET one == shown[c][i].text
                                 next == shown[c][i + 1].text
                             IN  one[1] < next[1] \/ (one[1] = next[1] /\ one[2] < next[2])
        BY DEF ReadsEachAsWritten
    <2>1. \A i \in DOMAIN shown[c] : shown[c][i].text = shown[c][i].meant
        BY DEF ClientInv, Behind
    <2>2. Len(shown[c]) \in Nat /\ DOMAIN shown[c] = 1 .. Len(shown[c])
        BY LenProperties DEF ClientInv, ClientTypes
    <2>3. ASSUME NEW i \in 1 .. Len(shown[c]) - 1
          PROVE  i \in DOMAIN shown[c] /\ i + 1 \in DOMAIN shown[c] /\ i < i + 1
        BY <2>2
    <2> QED
        BY <2>1, <2>3 DEF ClientInv, InOrder
<1> QED
    BY <1>1, <1>2, ClientSteps, PTL DEF Spec

-----------------------------------------------------------------------------
\* The weekly run

\* The rows are a sequence, each of a week, forced or not.
WeekInv ==
    /\ \E S : runs \in Seq(S)
    /\ \A r \in DOMAIN runs : {"week", "forced"} \subseteq DOMAIN runs[r]
    /\ OneRunAWeek

\* A row keeps its week, and whether it was forced, whatever else of it changes.
LEMMA RowsKept ==
    ASSUME WeekInv, NEW rows, NEW T, rows \in Seq(T), runs' = rows, Len(rows) = Len(runs),
           \A j \in DOMAIN runs : /\ DOMAIN rows[j] = DOMAIN runs[j]
                                 /\ rows[j].week = runs[j].week /\ rows[j].forced = runs[j].forced
    PROVE  WeekInv'
<1>1. PICK S : runs \in Seq(S)
    BY DEF WeekInv
<1>2. DOMAIN runs' = DOMAIN runs
    BY <1>1, LenProperties
<1>3. \E U : runs' \in Seq(U)
    OBVIOUS
<1> QED
    BY <1>2, <1>3 DEF WeekInv, OneRunAWeek

LEMMA AdvancesKeeps ==
    ASSUME WeekInv, NEW r \in DOMAIN runs, NEW changes, Advances(r, changes),
           "week" \notin DOMAIN changes, "forced" \notin DOMAIN changes
    PROVE  WeekInv'
<1> DEFINE e == Changed(runs[r], changes)
<1>1. PICK S : runs \in Seq(S)
    BY DEF WeekInv
<1>2. {"week", "forced"} \subseteq DOMAIN runs[r]
    BY DEF WeekInv
<1>3. DOMAIN e = DOMAIN runs[r] /\ e.week = runs[r].week /\ e.forced = runs[r].forced
    BY <1>2 DEF Changed
<1>4. runs' = [runs EXCEPT ![r] = e]
    BY DEF Advances
<1> HIDE DEF e
<1>5. runs \in Seq(S \union {e})
    BY <1>1, SeqMonotonic
<1>6. r \in 1 .. Len(runs) /\ DOMAIN runs = 1 .. Len(runs)
    BY <1>1, LenProperties
<1>7. /\ runs' \in Seq(S \union {e}) /\ Len(runs') = Len(runs)
      /\ \A j \in DOMAIN runs : runs'[j] = IF j = r THEN e ELSE runs[j]
    BY <1>4, <1>5, <1>6, ExceptSeq
<1>8. \A j \in DOMAIN runs : /\ DOMAIN runs'[j] = DOMAIN runs[j]
                             /\ runs'[j].week = runs[j].week /\ runs'[j].forced = runs[j].forced
    BY <1>3, <1>7
<1>9. DOMAIN runs' = DOMAIN runs
    BY <1>6, <1>7, LenProperties
<1> QED
    BY <1>7, <1>8, <1>9 DEF WeekInv, OneRunAWeek

\* The unique index: a claim adds a row of a week that has none, or a forced one.
LEMMA ClaimKeeps ==
    ASSUME WeekInv, NEW by, NEW forced \in BOOLEAN, claimRun(by, forced)
    PROVE  WeekInv'
<1>1. CASE ~forced /\ Taken(by)
    BY <1>1 DEF claimRun, WeekInv, OneRunAWeek
<1>2. CASE forced \/ ~Taken(by)
    <2> DEFINE e == Claimed(by, forced)
               n == Len(runs)
    <2>1. PICK S : runs \in Seq(S)
        BY DEF WeekInv
    <2>2. runs' = Append(runs, e)
        BY <1>2 DEF claimRun
    <2>3. {"week", "forced"} \subseteq DOMAIN e /\ e.week = week /\ e.forced = forced
        BY DEF Claimed
    <2> HIDE DEF e
    <2>4. runs \in Seq(S \union {e})
        BY <2>1, SeqMonotonic
    <2>5. /\ runs' \in Seq(S \union {e}) /\ n \in Nat /\ DOMAIN runs = 1 .. n /\ DOMAIN runs' = 1 .. n + 1
          /\ \A j \in 1 .. n : runs'[j] = runs[j]
          /\ runs'[n + 1] = e
        BY <2>2, <2>4, AppendProperties, LenProperties
    <2> HIDE DEF n
    <2>6. \A r \in DOMAIN runs' : {"week", "forced"} \subseteq DOMAIN runs'[r]
        BY <2>3, <2>5 DEF WeekInv
    <2>7. \A j \in 1 .. n : runs[j].week = week => forced \/ runs[j].forced
        BY <1>2, <2>5 DEF Taken
    <2>8. OneRunAWeek'
        BY <2>3, <2>5, <2>7 DEF WeekInv, OneRunAWeek
    <2> QED
        BY <2>5, <2>6, <2>8 DEF WeekInv
<1> QED
    BY <1>1, <1>2

LEMMA KilledKeeps == ASSUME WeekInv, NEW p, JobKilled(p) PROVE WeekInv'
<1> DEFINE e(r) == IF runs[r].by = p THEN [runs[r] EXCEPT !.at = "done"] ELSE runs[r]
<1>1. PICK S : runs \in Seq(S)
    BY DEF WeekInv
<1>2. DOMAIN runs = 1 .. Len(runs) /\ Len(runs) \in Nat
    BY <1>1, LenProperties
<1>3. runs' = [r \in 1 .. Len(runs) |-> e(r)]
    BY <1>2 DEF JobKilled
<1>4. \A r \in DOMAIN runs : /\ DOMAIN e(r) = DOMAIN runs[r]
                             /\ "week" \in DOMAIN runs[r] => e(r).week = runs[r].week
                             /\ "forced" \in DOMAIN runs[r] => e(r).forced = runs[r].forced
    OBVIOUS
<1> HIDE DEF e
<1> DEFINE T == {e(r) : r \in 1 .. Len(runs)}
<1>5. runs' \in [1 .. Len(runs) -> T]
    BY <1>3
<1>6. runs' \in Seq(T)
    BY <1>2, <1>5, SeqDef
<1>7. \A r \in DOMAIN runs : runs'[r] = e(r)
    BY <1>2, <1>3
<1>8. DOMAIN runs' = DOMAIN runs
    BY <1>2, <1>3
<1> HIDE DEF T
<1> QED
    BY <1>4, <1>6, <1>7, <1>8 DEF WeekInv, OneRunAWeek

LEMMA RunKeeps == ASSUME WeekInv, NEW r \in DOMAIN runs, RunStep(r) PROVE WeekInv'
<1>1. CASE findCohort(r)
    <2>1. PICK cohort : Advances(r, [unread |-> cohort, at |-> "labels"])
        BY <1>1 DEF findCohort
    <2> QED
        BY <2>1, AdvancesKeeps
<1>2. CASE labelCohort(r)
    <2>1. \/ Advances(r, [at |-> "failing"])
          \/ \E rest, heard : Advances(r, [unread |-> rest, heard |-> heard])
          \/ \E rest : Advances(r, [unread |-> rest])
        BY <1>2 DEF labelCohort, ReadFails
    <2> QED
        BY <2>1, AdvancesKeeps
<1>3. CASE Chooses(r)
    <2>1. \/ \E due : Advances(r, [at |-> "finish", due |-> due])
          \/ \E input : Advances(r, [at |-> "analyst", input |-> input])
        BY <1>3 DEF Chooses
    <2> QED
        BY <2>1, AdvancesKeeps
<1>4. CASE propose(r)
    <2>1. \/ \E output, cost : Advances(r, [at |-> "accept", output |-> output, cost |-> cost, paid |-> cost])
          \/ \E cost : Advances(r, [at |-> "finish", due |-> "failed", cost |-> cost, paid |-> cost])
          \/ Advances(r, [at |-> "finish", due |-> "failed"])
        BY <1>4 DEF propose
    <2> QED
        BY <2>1, AdvancesKeeps
<1>5. CASE addProposals(r)
    BY <1>5, AdvancesKeeps DEF addProposals
<1>6. CASE finishRun(r) \/ RecordsFailed(r) \/ NeverRecorded(r)
    <2>1. PICK status, cost : Ends(r, status, cost)
        BY <1>6 DEF finishRun, RecordsFailed, NeverRecorded
    <2> QED
        BY <2>1, AdvancesKeeps DEF Ends
<1>7. CASE StatementFails(r)
    BY <1>7, AdvancesKeeps DEF StatementFails
<1> QED
    BY <1>1, <1>2, <1>3, <1>4, <1>5, <1>6, <1>7 DEF RunStep

LEMMA WeekStays == WeekInv /\ UNCHANGED runs => WeekInv'
BY DEF WeekInv, OneRunAWeek

\* A week has one run that nobody forced, whichever timers and people ask for it and whatever
\* became of the first (learning/store.ts: claimRun).
THEOREM WeekRunsOnce == Spec => []OneRunAWeek
<1>1. Init => WeekInv
    <2> SUFFICES ASSUME Init PROVE WeekInv
        OBVIOUS
    <2>1. runs = <<>>
        BY DEF Init, JobInit
    <2>2. runs \in Seq({})
        BY <2>1, EmptySeq
    <2> QED
        BY <2>1, <2>2 DEF WeekInv, OneRunAWeek
<1>2. WeekInv /\ [Next]_vars => WeekInv'
    <2> SUFFICES ASSUME WeekInv, [Next]_vars PROVE WeekInv'
        OBVIOUS
    <2>1. CASE JobStep
        <3>1. CASE UNCHANGED runs
            BY <3>1, WeekStays
        <3>2. ASSUME NEW p \in Processes, Tick(p) PROVE WeekInv'
            BY <3>2, ClaimKeeps DEF Tick
        <3>3. ASSUME NEW forced \in BOOLEAN, RunNow(forced) PROVE WeekInv'
            BY <3>3, ClaimKeeps DEF RunNow
        <3>4. ASSUME NEW r \in DOMAIN runs, RunStep(r) PROVE WeekInv'
            BY <3>4, RunKeeps
        <3> QED
            BY <2>1, <3>1, <3>2, <3>3, <3>4 DEF JobStep, Writes, Pays, NextWeek
    <2>2. CASE BootFails \/ StopStep
        <3>1. UNCHANGED runs \/ JobKilled(Self)
            BY <2>2 DEF BootFails, StopStep, jobVars
        <3> QED
            BY <3>1, WeekStays, KilledKeeps
    <2>3. CASE ServiceStep \/ ClientStep
        BY <2>3, WeekStays DEF ServiceStep, ClientStep, jobVars
    <2>4. CASE BootStep \/ \E w \in DOMAIN worker : IterationEnds(w) \/ IterationFails(w) \/ Wakes(w)
        <3>1. UNCHANGED jobVars
            BY <2>4, Zenon DEF BootStep, IterationEnds, IterationFails, Wakes
        <3> QED
            BY <3>1, WeekStays DEF jobVars
    <2>5. CASE Signal
        BY <2>5, WeekStays DEF Signal, StopJob
    <2>6. CASE Over \/ UNCHANGED vars
        BY <2>6, WeekStays DEF Over, vars, jobVars
    <2> QED
        BY <2>1, <2>2, <2>3, <2>4, <2>5, <2>6 DEF Next
<1>3. WeekInv => OneRunAWeek
    BY DEF WeekInv
<1> QED
    BY <1>1, <1>2, <1>3, PTL DEF Spec

-----------------------------------------------------------------------------
(* The turns of a process that reloads its configuration *)

Fields == {"at", "route", "auth", "text", "given", "over", "under", "entry", "late", "answer"}

RequestTypes ==
    /\ request = [s \in Slots |-> request[s]]
    /\ \A s \in Slots : request[s] = [f \in Fields |-> request[s][f]]

\* The entry that belongs to a configuration and a version, for one kind of turn.
EntryOf(c, v, offered) ==
    LET tools == IF offered THEN c.tools ELSE NO_TOOLS
    IN  [config |-> c, loaded |-> v, playbook |-> renderPlaybook(c, v), tools |-> tools,
         prompt |-> buildSystemPrompt(c, tools, Plugins)]

\* What is cached was built whole from one configuration and one version.
CacheIsWhole ==
    /\ playbook \in Versions \union {"none"}
    /\ cached = [offered \in BOOLEAN |-> cached[offered]]
    /\ \A offered \in BOOLEAN :
         cached[offered] = Unbuilt \/ \E c, v : cached[offered] = EntryOf(c, v, offered)

In(places) == {s \in Slots : request[s].at \in places}

\* What is spent, with what the turns past the guard may still spend: two where media is read.
SpendInv ==
    /\ spent \in Nat
    /\ spent + Cardinality(In({"media"})) + Cardinality(In({"media", "ready", "model"}))
          < DailyCap + 2 * Cardinality(Slots)

TurnInv == RequestTypes /\ CacheIsWhole /\ PromptIsCurrent /\ SpendInv

LEMMA TurnStart == ServiceInit => TurnInv
<1> SUFFICES ASSUME ServiceInit PROVE TurnInv
    OBVIOUS
<1>1. Idle = [f \in Fields |-> Idle[f]] /\ Idle.at = "idle"
    BY DEF Idle, Fields
<1>2. RequestTypes /\ \A s \in Slots : request[s].at = "idle"
    BY <1>1 DEF ServiceInit, RequestTypes
<1>3. CacheIsWhole /\ PromptIsCurrent
    BY <1>2 DEF ServiceInit, CacheIsWhole, PromptIsCurrent
<1>4. SpendInv
    <2>1. In({"media"}) = {} /\ In({"media", "ready", "model"}) = {}
        BY <1>2 DEF In
    <2>2. Cardinality(Slots) \in Nat /\ DailyCap \in Nat \ {0}
        BY ServiceAssumption, FS_CardinalityType
    <2> QED
        BY <2>1, <2>2, FS_EmptySet DEF ServiceInit, SpendInv
<1> QED
    BY <1>2, <1>3, <1>4 DEF TurnInv

\* A request is a record of its fields, whichever of them a step writes.
LEMMA GoesFields ==
    ASSUME RequestTypes, NEW s \in Slots, NEW changes, Goes(s, changes), DOMAIN changes \subseteq Fields
    PROVE  /\ RequestTypes'
           /\ \A t \in Slots : t # s => request'[t] = request[t]
           /\ \A f \in Fields : request'[s][f] = IF f \in DOMAIN changes THEN changes[f] ELSE request[s][f]
BY DEF Goes, Updated, RequestTypes, Fields

LEMMA AnswerFields ==
    ASSUME RequestTypes, NEW s \in Slots, NEW r, NEW answer, Answer(s, r, answer)
    PROVE  /\ RequestTypes' /\ request'[s].at = "answered"
           /\ \A t \in Slots : t # s => request'[t] = request[t]
<1> DEFINE e == [Idle EXCEPT !.at = "answered", !.route = r.route, !.auth = r.auth, !.answer = answer]
<1>1. e = [f \in Fields |-> e[f]] /\ e.at = "answered"
    BY DEF Idle, Fields
<1>2. request' = [request EXCEPT ![s] = e]
    BY DEF Answer
<1> HIDE DEF e
<1> QED
    BY <1>1, <1>2 DEF RequestTypes

\* A step of one request that is not its call of the model.
Steps(s, from, to) ==
    /\ RequestTypes' /\ request[s].at \in from /\ request'[s].at \in to
    /\ \A t \in Slots : t # s => request'[t] = request[t]

LEMMA ArriveSteps ==
    ASSUME RequestTypes, NEW s \in Slots, Arrive(s)
    PROVE  Steps(s, {"idle"}, {"answered", "decided", "rate"})
<1>1. request[s].at = "idle"
    BY DEF Arrive, At
<1>2. PICK route, auth, text, answer :
         \/ Answer(s, [route |-> route, auth |-> auth], answer)
         \/ Goes(s, [at |-> IF text = "sentinel" THEN "decided" ELSE "rate",
                     route |-> route, auth |-> auth, text |-> text, given |-> config,
                     answer |-> IF text = "sentinel" THEN "reply" ELSE "none"])
    BY DEF Arrive, isAuthenticated
<1> DEFINE changes == [at |-> IF text = "sentinel" THEN "decided" ELSE "rate",
                       route |-> route, auth |-> auth, text |-> text, given |-> config,
                       answer |-> IF text = "sentinel" THEN "reply" ELSE "none"]
<1>3. CASE Answer(s, [route |-> route, auth |-> auth], answer)
    BY <1>1, <1>3, AnswerFields DEF Steps
<1>4. CASE Goes(s, changes)
    <2>1. DOMAIN changes = {"at", "route", "auth", "text", "given", "answer"}
        OBVIOUS
    <2>2. changes["at"] \in {"decided", "rate"} /\ "at" \in Fields
        BY DEF Fields
    <2> HIDE DEF changes
    <2>3. DOMAIN changes \subseteq Fields /\ "at" \in DOMAIN changes
        BY <2>1 DEF Fields
    <2> QED
        BY <1>1, <1>4, <2>2, <2>3, GoesFields DEF Steps
<1> QED
    BY <1>2, <1>3, <1>4

LEMMA GuardSteps ==
    ASSUME RequestTypes, NEW s \in Slots
    PROVE  /\ CheckRateLimit(s) => Steps(s, {"rate"}, {"budget"})
           /\ CheckBudget(s) => \/ Steps(s, {"budget"}, {"decided"})
                                \/ Steps(s, {"budget"}, {"media", "ready"}) /\ spent < DailyCap
<1>1. ASSUME CheckRateLimit(s) PROVE Steps(s, {"rate"}, {"budget"})
    <2> DEFINE changes == [at |-> "budget", over |-> count' > RateLimit]
    <2>1. request[s].at = "rate" /\ Goes(s, changes)
        BY <1>1 DEF CheckRateLimit, At
    <2>2. DOMAIN changes = {"at", "over"} /\ changes["at"] = "budget"
        OBVIOUS
    <2> HIDE DEF changes
    <2> QED
        BY <2>1, <2>2, GoesFields DEF Steps, Fields
<1>2. ASSUME CheckBudget(s), ~Allowed(request[s]) PROVE Steps(s, {"budget"}, {"decided"})
    <2> DEFINE changes == [at |-> "decided", answer |-> "handoff"]
    <2>1. request[s].at = "budget" /\ Goes(s, changes)
        BY <1>2 DEF CheckBudget, At
    <2>2. DOMAIN changes = {"at", "answer"} /\ changes["at"] = "decided"
        OBVIOUS
    <2> HIDE DEF changes
    <2> QED
        BY <2>1, <2>2, GoesFields DEF Steps, Fields
<1>3. ASSUME CheckBudget(s), Allowed(request[s])
      PROVE  Steps(s, {"budget"}, {"media", "ready"}) /\ spent < DailyCap
    <2> DEFINE changes == [at |-> IF request[s].text \in Media THEN "media" ELSE "ready"]
    <2>1. request[s].at = "budget" /\ Goes(s, changes) /\ spent < DailyCap
        BY <1>3 DEF CheckBudget, At, Allowed
    <2>2. DOMAIN changes = {"at"} /\ changes["at"] \in {"media", "ready"}
        OBVIOUS
    <2> HIDE DEF changes
    <2> QED
        BY <2>1, <2>2, GoesFields DEF Steps, Fields
<1> QED
    BY <1>1, <1>2, <1>3

\* Media costs nothing, or one call.
LEMMA ResolvedCosts == \A kind : \A media \in Resolved(kind) : media.cost \in {0, 1}
<1>1. \A s \in Transcribed : s.cost \in {0, 1}
    BY DEF Transcribed, Fallback, Ready, Keyword, Failed
<1>2. ASSUME NEW parts, NEW m \in OfVideo(parts) PROVE m.cost \in {0, 1}
    BY <1>1, <1>2 DEF OfVideo, Fallback, Ready
<1>3. ASSUME NEW kind, NEW media \in Resolved(kind)
      PROVE  \/ media \in Transcribed \union {Failed, Ready(0), Fallback(0)}
             \/ \E parts : media \in OfVideo(parts)
    <2>1. CASE Unreadable(kind)
        BY <1>3, <2>1 DEF Resolved
    <2>2. CASE ~Unreadable(kind)
        <3>1. PICK fetched \in BOOLEAN :
                 media \in IF ~fetched THEN {Failed}
                           ELSE CASE kind = "audio" -> Transcribed
                                  [] kind = "image" -> {Ready(0)}
                                  [] OTHER -> {Failed} \union UNION {OfVideo(parts) : parts \in Split}
            BY <1>3, <2>2 DEF Resolved, Fetched
        <3> QED
            BY <3>1
    <2> QED
        BY <2>1, <2>2
<1>4. Failed.cost = 0 /\ Ready(0).cost = 0 /\ Fallback(0).cost = 0
    BY DEF Failed, Ready, Fallback
<1>5. ASSUME NEW kind, NEW media \in Resolved(kind) PROVE media.cost \in {0, 1}
    <2>1. CASE media \in Transcribed
        BY <1>1, <2>1
    <2>2. CASE media \in {Failed, Ready(0), Fallback(0)}
        BY <1>4, <2>2
    <2>3. CASE \E parts : media \in OfVideo(parts)
        BY <1>2, <2>3
    <2> QED
        BY <1>3, <2>1, <2>2, <2>3
<1> QED
    BY <1>5

LEMMA MediaSteps ==
    ASSUME RequestTypes, spent \in Nat, NEW s \in Slots, ReadMedia(s)
    PROVE  Steps(s, {"media"}, {"ready", "decided"}) /\ spent' \in {spent, spent + 1}
<1>1. PICK media \in Resolved(request[s].text) :
         /\ spent' = spent + media.cost
         /\ \/ Goes(s, [at |-> "ready"])
            \/ \E answer : Goes(s, [at |-> "decided", answer |-> answer])
    BY DEF ReadMedia
<1>2. request[s].at = "media" /\ media.cost \in {0, 1}
    BY <1>1, ResolvedCosts DEF ReadMedia, At
<1>3. CASE Goes(s, [at |-> "ready"])
    <2> DEFINE changes == [at |-> "ready"]
    <2>1. DOMAIN changes = {"at"} /\ changes["at"] = "ready" /\ Goes(s, changes)
        BY <1>3
    <2> HIDE DEF changes
    <2> QED
        BY <1>1, <1>2, <2>1, GoesFields DEF Steps, Fields
<1>4. ASSUME NEW answer, Goes(s, [at |-> "decided", answer |-> answer])
      PROVE  Steps(s, {"media"}, {"ready", "decided"})
    <2> DEFINE changes == [at |-> "decided", answer |-> answer]
    <2>1. DOMAIN changes = {"at", "answer"} /\ changes["at"] = "decided" /\ Goes(s, changes)
        BY <1>4
    <2> HIDE DEF changes
    <2> QED
        BY <1>2, <2>1, GoesFields DEF Steps, Fields
<1>5. spent' \in {spent, spent + 1}
    <2>1. spent' = spent + media.cost
        BY <1>1
    <2> QED
        BY <1>2, <2>1
<1>6. Steps(s, {"media"}, {"ready", "decided"})
    BY <1>1, <1>3, <1>4, Zenon
<1> QED
    BY <1>5, <1>6

\* The model's answer is one call, or none.
LEMMA ModelSteps ==
    ASSUME RequestTypes, NEW s \in Slots, Answers(s) \/ Fails(s)
    PROVE  Steps(s, {"model"}, {"decided"}) /\ spent' \in {spent, spent + 1}
<1>1. PICK answer : Goes(s, [at |-> "decided", answer |-> answer])
    BY DEF Answers, Fails
<1> DEFINE changes == [at |-> "decided", answer |-> answer]
<1>2. DOMAIN changes = {"at", "answer"} /\ changes["at"] = "decided" /\ Goes(s, changes)
    BY <1>1
<1>3. request[s].at = "model" /\ spent' \in {spent, spent + 1}
    BY DEF Answers, Fails, At, moneyVars
<1> HIDE DEF changes
<1> QED
    BY <1>2, <1>3, GoesFields DEF Steps, Fields

LEMMA EndSteps ==
    ASSUME RequestTypes, NEW s \in Slots, Throws(s) \/ Respond(s) \/ Finish(s)
    PROVE  Steps(s, {"rate", "budget", "decided", "answered"}, {"answered", "idle"})
<1>1. ASSUME NEW answer, Answered(s, answer), request[s].at \in {"rate", "budget", "decided"}
      PROVE  Steps(s, {"rate", "budget", "decided", "answered"}, {"answered", "idle"})
    BY <1>1, AnswerFields DEF Answered, Steps
<1>2. CASE Throws(s)
    BY <1>1, <1>2 DEF Throws
<1>3. CASE Respond(s)
    BY <1>1, <1>3 DEF Respond, At
<1>4. CASE Finish(s)
    <2>1. Idle = [f \in Fields |-> Idle[f]] /\ Idle.at = "idle"
        BY DEF Idle, Fields
    <2>2. request' = [request EXCEPT ![s] = Idle] /\ request[s].at = "answered"
        BY <1>4 DEF Finish, At
    <2> QED
        BY <2>1, <2>2 DEF Steps, RequestTypes
<1> QED
    BY <1>2, <1>3, <1>4

\* The lost race is the caller's affair alone.
LEMMA RaceKeeps ==
    ASSUME RequestTypes, NEW s \in Slots, LoseRace(s)
    PROVE  RequestTypes' /\ \A t \in Slots : \A f \in Fields \ {"late"} : request'[t][f] = request[t][f]
<1> DEFINE changes == [late |-> TRUE]
<1>1. DOMAIN changes = {"late"} /\ Goes(s, changes)
    BY DEF LoseRace
<1> HIDE DEF changes
<1> QED
    BY <1>1, GoesFields DEF Fields

\* What a turn runs under is what it reads as it starts.
LEMMA RunSteps ==
    ASSUME TurnInv, NEW s \in Slots, Run(s)
    PROVE  /\ Steps(s, {"ready"}, {"model"}) /\ CacheIsWhole'
           /\ request'[s].under = <<config, playbook>>
           /\ request'[s].entry = EntryOf(config, playbook, request'[s].route = "message")
<1> DEFINE offered == request[s].route = "message"
           entry == current(offered)
           changes == [at |-> "model", under |-> <<config, playbook>>, entry |-> entry]
<1>1. /\ request[s].at = "ready" /\ Goes(s, changes) /\ playbook' = playbook
      /\ cached' = [cached EXCEPT ![offered] = entry]
    BY DEF Run, At
<1>2. entry = EntryOf(config, playbook, offered)
    <2>1. BuiltFor(offered) = EntryOf(config, playbook, offered)
        BY DEF BuiltFor, EntryOf
    <2>2. ASSUME Fresh(cached[offered]) PROVE cached[offered] = EntryOf(config, playbook, offered)
        <3>1. cached[offered] # Unbuilt
            BY <2>2, ServiceAssumption DEF Fresh, Unbuilt, TurnInv, CacheIsWhole
        <3>2. PICK c, v : cached[offered] = EntryOf(c, v, offered)
            BY <3>1 DEF TurnInv, CacheIsWhole
        <3>3. c = config /\ v = playbook
            BY <2>2, <3>2 DEF Fresh, EntryOf
        <3> QED
            BY <3>2, <3>3
    <2> QED
        BY <2>1, <2>2 DEF current
<1>3. CacheIsWhole'
    <2>1. \A o \in BOOLEAN : cached'[o] = IF o = offered THEN entry ELSE cached[o]
        BY <1>1 DEF TurnInv, CacheIsWhole
    <2>2. cached' = [o \in BOOLEAN |-> cached'[o]] /\ playbook' \in Versions \union {"none"}
        BY <1>1 DEF TurnInv, CacheIsWhole
    <2> HIDE DEF entry
    <2>3. ASSUME NEW o \in BOOLEAN
          PROVE  cached'[o] = Unbuilt \/ \E c, v : cached'[o] = EntryOf(c, v, o)
        BY <1>2, <2>1 DEF TurnInv, CacheIsWhole
    <2> QED
        BY <2>2, <2>3 DEF CacheIsWhole
<1>4. /\ DOMAIN changes = {"at", "under", "entry"} /\ changes["at"] = "model"
      /\ changes["under"] = <<config, playbook>> /\ changes["entry"] = entry
    OBVIOUS
<1> HIDE DEF changes, entry
<1>5. /\ RequestTypes' /\ \A t \in Slots : t # s => request'[t] = request[t]
      /\ request'[s].at = "model" /\ request'[s].under = <<config, playbook>>
      /\ request'[s].entry = entry /\ request'[s].route = request[s].route
    BY <1>1, <1>4, GoesFields DEF TurnInv, Fields
<1> QED
    BY <1>1, <1>2, <1>3, <1>5 DEF Steps

-----------------------------------------------------------------------------
(* What the steps leave of the bound and of the prompts *)

Paying == {"media", "ready", "model"}

LEMMA SlotsFinite ==
    ASSUME NEW places
    PROVE  /\ In(places) \subseteq Slots /\ IsFiniteSet(In(places)) /\ IsFiniteSet(Slots)
           /\ Cardinality(In(places)) \in Nat /\ Cardinality(Slots) \in Nat
           /\ Cardinality(In(places)) <= Cardinality(Slots)
<1>1. In(places) \subseteq Slots
    BY DEF In
<1> QED
    BY <1>1, ServiceAssumption, FS_Subset, FS_CardinalityType

\* A turn that spends leaves a place where it still could.
LEMMA Spends ==
    ASSUME SpendInv, NEW s \in Slots,
           In({"media"})' \subseteq In({"media"}), In(Paying)' \subseteq In(Paying),
           \/ spent' \in 0 .. spent
           \/ /\ spent' = spent + 1
              /\ s \in (In({"media"}) \ In({"media"})') \union (In(Paying) \ In(Paying)')
    PROVE  SpendInv'
<1> DEFINE m == Cardinality(In({"media"}))
           p == Cardinality(In(Paying))
           n == Cardinality(In({"media"})')
           q == Cardinality(In(Paying)')
<1>1. /\ IsFiniteSet(In({"media"})) /\ IsFiniteSet(In(Paying)) /\ {m, p, Cardinality(Slots)} \subseteq Nat
    BY SlotsFinite
<1>2. n \in Nat /\ q \in Nat /\ n <= m /\ q <= p
    BY <1>1, FS_Subset, FS_CardinalityType
<1>3. ASSUME s \in In({"media"}) \ In({"media"})' PROVE n < m
    BY <1>1, <1>2, <1>3, FS_Subset
<1>4. ASSUME s \in In(Paying) \ In(Paying)' PROVE q < p
    BY <1>1, <1>2, <1>4, FS_Subset
<1>5. DailyCap \in Nat /\ spent \in Nat /\ spent + m + p < DailyCap + 2 * Cardinality(Slots)
    BY ServiceAssumption DEF SpendInv, Paying
<1> HIDE DEF m, p
<1>6. spent' \in Nat /\ spent' + n + q < DailyCap + 2 * Cardinality(Slots)
    <2> HIDE DEF n, q
    <2>1. CASE spent' \in 0 .. spent
        BY <1>1, <1>2, <1>5, <2>1
    <2>2. CASE spent' = spent + 1 /\ (n < m \/ q < p)
        BY <1>1, <1>2, <1>5, <2>2
    <2> QED
        BY <1>3, <1>4, <2>1, <2>2
<1> QED
    BY <1>6 DEF SpendInv, Paying

LEMMA PlacesOf ==
    ASSUME NEW s \in Slots, NEW from, NEW to, Steps(s, from, to), NEW places
    PROVE  /\ In(places)' \ {s} = In(places) \ {s}
           /\ s \in In(places) <=> request[s].at \in places
           /\ s \in In(places)' <=> request'[s].at \in places
BY DEF Steps, In

LEMMA PromptKept ==
    ASSUME PromptIsCurrent, NEW s \in Slots, NEW from, NEW to, Steps(s, from, to), "model" \notin to
    PROVE  PromptIsCurrent'
<1>1. request'[s].at # "model" /\ \A t \in Slots : t # s => request'[t] = request[t]
    BY DEF Steps
<1> QED
    BY <1>1 DEF PromptIsCurrent

\* A step of a request that is no turn's start.
LEMMA StepKeeps ==
    ASSUME TurnInv, NEW s \in Slots, NEW from, NEW to, Steps(s, from, to), "model" \notin to,
           UNCHANGED promptVars,
           \/ (from \union to) \intersect Paying = {} /\ spent' = spent
           \/ from = {"media"} /\ to = {"ready", "decided"} /\ spent' \in {spent, spent + 1}
           \/ from = {"model"} /\ to = {"decided"} /\ spent' \in {spent, spent + 1}
    PROVE  TurnInv'
<1>1. RequestTypes' /\ CacheIsWhole' /\ PromptIsCurrent'
    BY PromptKept DEF TurnInv, Steps, CacheIsWhole, promptVars
<1>2. /\ In({"media"})' \ {s} = In({"media"}) \ {s} /\ In(Paying)' \ {s} = In(Paying) \ {s}
      /\ s \in In({"media"}) <=> request[s].at = "media"
      /\ s \in In({"media"})' <=> request'[s].at = "media"
      /\ s \in In(Paying) <=> request[s].at \in Paying
      /\ s \in In(Paying)' <=> request'[s].at \in Paying
    BY PlacesOf
<1>3. spent \in Nat /\ SpendInv
    BY DEF TurnInv, SpendInv
<1>4. request[s].at \in from /\ request'[s].at \in to
    BY DEF Steps
<1>5. SpendInv'
    <2>1. CASE (from \union to) \intersect Paying = {} /\ spent' = spent
        <3>1. In({"media"})' \subseteq In({"media"}) /\ In(Paying)' \subseteq In(Paying)
            BY <1>2, <1>4, <2>1 DEF Paying
        <3>2. spent' \in 0 .. spent
            BY <1>3, <2>1
        <3> QED
            BY <1>3, <3>1, <3>2, Spends
    <2>2. CASE \/ from = {"media"} /\ to = {"ready", "decided"}
               \/ from = {"model"} /\ to = {"decided"}
        <3>1. In({"media"})' \subseteq In({"media"}) /\ In(Paying)' \subseteq In(Paying)
            BY <1>2, <1>4, <2>2 DEF Paying
        <3>2. s \in (In({"media"}) \ In({"media"})') \union (In(Paying) \ In(Paying)')
            BY <1>2, <1>4, <2>2 DEF Paying
        <3>3. spent' \in 0 .. spent \/ spent' = spent + 1
            BY <1>3, <2>2 DEF Paying
        <3> QED
            BY <1>3, <3>1, <3>2, <3>3, Spends
    <2> QED
        BY <2>1, <2>2
<1> QED
    BY <1>1, <1>5 DEF TurnInv

\* A turn passes the guard while less than the cap is spent: what every request can still cost is
\* within the bound.
LEMMA PassesGuard ==
    ASSUME TurnInv, NEW s \in Slots, Steps(s, {"budget"}, {"media", "ready"}), spent < DailyCap,
           UNCHANGED <<promptVars, spent>>
    PROVE  TurnInv'
<1>1. RequestTypes' /\ CacheIsWhole' /\ PromptIsCurrent'
    BY PromptKept DEF TurnInv, Steps, CacheIsWhole, promptVars
<1>2. /\ In({"media"})' \subseteq Slots /\ In(Paying)' \subseteq Slots
      /\ IsFiniteSet(Slots) /\ Cardinality(Slots) \in Nat
    BY SlotsFinite DEF In
<1>3. /\ Cardinality(In({"media"})') \in Nat /\ Cardinality(In({"media"})') <= Cardinality(Slots)
      /\ Cardinality(In(Paying)') \in Nat /\ Cardinality(In(Paying)') <= Cardinality(Slots)
    BY <1>2, FS_Subset, FS_CardinalityType
<1>4. spent' = spent /\ spent \in Nat /\ DailyCap \in Nat
    BY ServiceAssumption DEF TurnInv, SpendInv
<1>5. SpendInv'
    BY <1>2, <1>3, <1>4 DEF SpendInv, Paying
<1> QED
    BY <1>1, <1>5 DEF TurnInv

LEMMA RaceKeepsTurns == ASSUME TurnInv, NEW s \in Slots, LoseRace(s) PROVE TurnInv'
<1>1. RequestTypes' /\ \A t \in Slots : \A f \in Fields \ {"late"} : request'[t][f] = request[t][f]
    BY RaceKeeps DEF TurnInv
<1>2. \A t \in Slots : /\ request'[t].at = request[t].at /\ request'[t].under = request[t].under
                       /\ request'[t].entry = request[t].entry /\ request'[t].route = request[t].route
    BY <1>1 DEF Fields
<1>3. UNCHANGED <<playbook, cached, spent>>
    BY DEF LoseRace, promptVars, moneyVars
<1>4. CacheIsWhole' /\ PromptIsCurrent'
    BY <1>2, <1>3 DEF TurnInv, CacheIsWhole, PromptIsCurrent
<1>5. In({"media"})' = In({"media"}) /\ In({"media", "ready", "model"})' = In({"media", "ready", "model"})
    BY <1>2 DEF In
<1> QED
    BY <1>1, <1>3, <1>4, <1>5 DEF TurnInv, SpendInv

LEMMA RunKeepsTurns == ASSUME TurnInv, NEW s \in Slots, Run(s) PROVE TurnInv'
<1>1. /\ Steps(s, {"ready"}, {"model"}) /\ CacheIsWhole'
      /\ request'[s].under = <<config, playbook>>
      /\ request'[s].entry = EntryOf(config, playbook, request'[s].route = "message")
    BY RunSteps
<1>2. PromptIsCurrent'
    <2>1. ASSUME NEW t \in Slots, t # s PROVE request'[t] = request[t]
        BY <1>1, <2>1 DEF Steps
    <2>2. <<config, playbook>>[1] = config /\ <<config, playbook>>[2] = playbook
        OBVIOUS
    <2> QED
        BY <1>1, <2>1, <2>2 DEF TurnInv, PromptIsCurrent, EntryOf
<1>3. In({"media"})' = In({"media"}) /\ In(Paying)' = In(Paying)
    BY <1>1 DEF Steps, In, Paying
<1>4. spent' = spent
    BY DEF Run, moneyVars
<1> QED
    BY <1>1, <1>2, <1>3, <1>4 DEF TurnInv, SpendInv, Steps, Paying

LEMMA RequestTurn ==
    ASSUME TurnInv, NEW s \in Slots,
           \/ Arrive(s)
           \/ CheckRateLimit(s) \/ CheckBudget(s) \/ ReadMedia(s) \/ Run(s) \/ Answers(s)
           \/ Fails(s) \/ LoseRace(s) \/ Throws(s) \/ Respond(s) \/ Finish(s)
    PROVE  TurnInv'
<1> USE DEF TurnInv
<1>1. CASE Arrive(s)
    <2>1. Steps(s, {"idle"}, {"answered", "decided", "rate"})
        BY <1>1, ArriveSteps
    <2>2. UNCHANGED promptVars /\ spent' = spent
        BY <1>1 DEF Arrive, moneyVars
    <2>3. ({"idle"} \union {"answered", "decided", "rate"}) \intersect Paying = {}
        BY DEF Paying
    <2> QED
        BY <2>1, <2>2, <2>3, StepKeeps
<1>2. CASE CheckRateLimit(s)
    <2>1. Steps(s, {"rate"}, {"budget"}) /\ UNCHANGED promptVars /\ spent' = spent
        BY <1>2, GuardSteps DEF CheckRateLimit
    <2>2. ({"rate"} \union {"budget"}) \intersect Paying = {}
        BY DEF Paying
    <2> QED
        BY <2>1, <2>2, StepKeeps
<1>3. CASE CheckBudget(s)
    <2>1. UNCHANGED promptVars /\ spent' = spent
        BY <1>3 DEF CheckBudget, moneyVars
    <2>2. CASE Steps(s, {"budget"}, {"decided"})
        <3>1. ({"budget"} \union {"decided"}) \intersect Paying = {}
            BY DEF Paying
        <3> QED
            BY <2>1, <2>2, <3>1, StepKeeps
    <2>3. CASE Steps(s, {"budget"}, {"media", "ready"}) /\ spent < DailyCap
        BY <2>1, <2>3, PassesGuard
    <2> QED
        BY <1>3, <2>2, <2>3, GuardSteps
<1>4. CASE ReadMedia(s)
    <2>1. Steps(s, {"media"}, {"ready", "decided"}) /\ spent' \in {spent, spent + 1}
        BY <1>4, MediaSteps DEF SpendInv
    <2> QED
        BY <1>4, <2>1, StepKeeps DEF ReadMedia
<1>5. CASE Run(s)
    BY <1>5, RunKeepsTurns
<1>6. CASE Answers(s) \/ Fails(s)
    <2>1. Steps(s, {"model"}, {"decided"}) /\ spent' \in {spent, spent + 1}
        BY <1>6, ModelSteps
    <2>2. UNCHANGED promptVars
        BY <1>6 DEF Answers, Fails
    <2> QED
        BY <2>1, <2>2, StepKeeps
<1>7. CASE LoseRace(s)
    BY <1>7, RaceKeepsTurns
<1>8. CASE Throws(s) \/ Respond(s) \/ Finish(s)
    <2>1. Steps(s, {"rate", "budget", "decided", "answered"}, {"answered", "idle"})
        BY <1>8, EndSteps
    <2>2. UNCHANGED promptVars /\ spent' = spent
        BY <1>8 DEF Throws, Respond, Finish, moneyVars
    <2>3. ({"rate", "budget", "decided", "answered"} \union {"answered", "idle"}) \intersect Paying = {}
        BY DEF Paying
    <2> QED
        BY <2>1, <2>2, <2>3, StepKeeps
<1> QED
    BY <1>1, <1>2, <1>3, <1>4, <1>5, <1>6, <1>7, <1>8

LEMMA ServiceTurn == ASSUME TurnInv, ServiceStep PROVE TurnInv'
<1>1. CASE UNCHANGED <<promptVars, request, spent>>
    BY <1>1 DEF TurnInv, RequestTypes, CacheIsWhole, PromptIsCurrent, SpendInv, In, promptVars
<1>2. CASE NextHour
    <2>1. UNCHANGED <<request, playbook, cached>> /\ spent' \in {spent, 0} /\ spent \in Nat
        BY <1>2 DEF NextHour, promptVars, TurnInv, SpendInv
    <2>2. In({"media"})' = In({"media"}) /\ In({"media", "ready", "model"})' = In({"media", "ready", "model"})
        BY <2>1 DEF In
    <2>3. Cardinality(In({"media"})) \in Nat /\ Cardinality(In({"media", "ready", "model"})) \in Nat
        BY SlotsFinite
    <2>4. DailyCap \in Nat /\ Cardinality(Slots) \in Nat
        BY ServiceAssumption, SlotsFinite
    <2>5. SpendInv'
        BY <2>1, <2>2, <2>3, <2>4 DEF TurnInv, SpendInv
    <2> QED
        BY <2>1, <2>5 DEF TurnInv, RequestTypes, CacheIsWhole, PromptIsCurrent
<1>3. CASE PlaybookMoves
    <2>1. playbook' \in Versions /\ UNCHANGED <<cached, request, spent>>
        BY <1>3 DEF PlaybookMoves, moneyVars
    <2> QED
        BY <2>1 DEF TurnInv, RequestTypes, CacheIsWhole, PromptIsCurrent, SpendInv, In
<1>4. CASE Reload \/ ReadFile \/ Edit
    BY <1>1, <1>4 DEF Reload, ReadFile, Edit, moneyVars
<1>5. ASSUME NEW s \in Slots,
             \/ Arrive(s)
             \/ CheckRateLimit(s) \/ CheckBudget(s) \/ ReadMedia(s) \/ Run(s) \/ Answers(s)
             \/ Fails(s) \/ LoseRace(s) \/ Throws(s) \/ Respond(s) \/ Finish(s)
      PROVE  TurnInv'
    BY <1>5, RequestTurn
<1> QED
    BY <1>2, <1>3, <1>4, <1>5 DEF ServiceStep

\* The rest of the process leaves the requests and what they run under alone.
LEMMA TurnStep == ASSUME TurnInv, [Next]_vars PROVE TurnInv'
<1>1. CASE UNCHANGED <<promptVars, request, spent>>
    BY <1>1 DEF TurnInv, RequestTypes, CacheIsWhole, PromptIsCurrent, SpendInv, In, promptVars
<1>2. CASE ServiceStep
    BY <1>2, ServiceTurn
<1>3. CASE BootStep \/ BootFails \/ Signal \/ StopStep \/ JobStep \/ ClientStep \/ Over \/ UNCHANGED vars
    BY <1>1, <1>3
    DEF BootStep, BootFails, Signal, StopStep, JobStep, ClientStep, Over, vars, serviceVars, moneyVars
<1>4. ASSUME NEW w \in DOMAIN worker, IterationEnds(w) \/ IterationFails(w) \/ Wakes(w) PROVE TurnInv'
    BY <1>1, <1>4 DEF IterationEnds, IterationFails, Wakes, serviceVars, moneyVars
<1> QED
    BY <1>2, <1>3, <1>4 DEF Next

\* A turn never runs under a prompt of another configuration, another playbook version or another
\* kind of turn than those it reads as it starts, for any files, edits, versions and number of
\* requests (runner.ts: PromptedRunner.current).
THEOREM PromptsAreCurrent == Spec => []PromptIsCurrent
<1>1. Init => TurnInv
    BY TurnStart DEF Init
<1>2. TurnInv /\ [Next]_vars => TurnInv'
    BY TurnStep
<1>3. TurnInv => PromptIsCurrent
    BY DEF TurnInv
<1> QED
    BY <1>1, <1>2, <1>3, PTL DEF Spec

\* The turns that read the daily cap together go over it by no more than each can cost, however
\* many requests there are (budget.ts: checkBudget, recordSpend).
THEOREM OvershootIsBounded == Spec => []OvershootBounded
<1>1. Init => TurnInv
    BY TurnStart DEF Init
<1>2. TurnInv /\ [Next]_vars => TurnInv'
    BY TurnStep
<1>3. TurnInv => OvershootBounded
    <2> SUFFICES ASSUME TurnInv PROVE OvershootBounded
        OBVIOUS
    <2>1. Cardinality(In({"media"})) \in Nat /\ Cardinality(In({"media", "ready", "model"})) \in Nat
        BY SlotsFinite
    <2>2. DailyCap \in Nat /\ Cardinality(Slots) \in Nat
        BY ServiceAssumption, SlotsFinite
    <2> QED
        BY <2>1, <2>2 DEF TurnInv, SpendInv, OvershootBounded
<1> QED
    BY <1>1, <1>2, <1>3, PTL DEF Spec

-----------------------------------------------------------------------------
\* The shutdown

Loop == [at : {"unstarted", "open", "asleep"}, settled : BOOLEAN, running : BOOLEAN]
Loops == [{"outbox", "nudges"} -> Loop]

AllAnswered == \A s \in Slots : ~Unanswered(s)

\* How far the shutdown has come says which loops were told to stop and which have stopped, that no
\* iteration of the outbox which ended well left a reply half sent, and that past app.close every
\* caller has an answer.
StopInv ==
    /\ worker \in Loops /\ booted \in 0 .. 9
    /\ stopping \in {"no", "learning", "nudges", "outbox", "close", "tracing"}
    /\ stopping # "no" => booted >= 8
    /\ stopping \in {"nudges", "outbox", "close", "tracing"} => ~worker["nudges"].running
    /\ stopping \in {"outbox", "close", "tracing"} => ~worker["outbox"].running /\ worker["nudges"].at # "open"
    /\ stopping \in {"close", "tracing"} => worker["outbox"].at # "open" /\ worker["outbox"].settled
    /\ stopping = "tracing" => AllAnswered
    /\ worker["outbox"].at # "open" /\ worker["outbox"].settled => ~Sending
    /\ ExitsClean

LEMMA StopStart == Init => StopInv
<1> SUFFICES ASSUME Init PROVE StopInv
    OBVIOUS
<1>1. worker \in Loops /\ booted = 0 /\ stopping = "no" /\ exit = "none" /\ sends = <<>>
    BY DEF Init, ClientInit, Loops, Loop
<1>2. ~Sending
    BY <1>1 DEF Sending
<1> QED
    BY <1>1, <1>2 DEF StopInv, ExitsClean

LEMMA BootPlaces ==
    /\ Len(BootOrder) = 9
    /\ \A i \in 1 .. 9 : /\ BootOrder[i] = "signals" => i = 8
                         /\ BootOrder[i] \in {"outbox", "nudges"} => i < 8
BY DEF BootOrder

LEMMA BootStops == ASSUME StopInv, BootStep PROVE StopInv'
<1>1. booted \in 0 .. 8 /\ booted' = booted + 1 /\ UNCHANGED <<serviceVars, clientVars, stopping, exit>> /\ exit = "none"
    BY BootPlaces DEF BootStep, StopInv, Running
<1>2. DOMAIN worker = {"outbox", "nudges"} /\ \A w \in {"outbox", "nudges"} : worker[w] \in Loop
    BY DEF StopInv, Loops
<1>3. \A w \in {"outbox", "nudges"} :
          worker'[w] = IF w = BootOrder[booted + 1] THEN [worker[w] EXCEPT !.at = "open"] ELSE worker[w]
    BY <1>2 DEF BootStep
<1>4. worker' \in Loops
    BY <1>2, <1>3 DEF BootStep, Loops, Loop
<1>5. \A w \in {"outbox", "nudges"} : /\ worker'[w].running = worker[w].running
                                     /\ worker'[w].settled = worker[w].settled
                                     /\ worker'[w].at \in {worker[w].at, "open"}
    BY <1>2, <1>3 DEF Loop
<1>6. stopping # "no" => worker'["outbox"] = worker["outbox"] /\ worker'["nudges"] = worker["nudges"]
    BY <1>1, <1>3, BootPlaces DEF StopInv
<1>7. (Sending' <=> Sending) /\ (AllAnswered' <=> AllAnswered)
    BY <1>1 DEF Sending, Settled, clientVars, AllAnswered, Unanswered, serviceVars
<1>8. ExitsClean'
    BY <1>1 DEF ExitsClean
<1> QED
    BY <1>1, <1>4, <1>5, <1>6, <1>7, <1>8 DEF StopInv

\* A loop's iteration ends, well or badly, or the next one begins.
LEMMA LoopStops ==
    ASSUME StopInv, NEW w \in DOMAIN worker, IterationEnds(w) \/ IterationFails(w) \/ Wakes(w)
    PROVE  StopInv'
<1>1. exit = "none" /\ UNCHANGED <<request, clientVars, booted, stopping, exit>>
    BY DEF IterationEnds, IterationFails, Wakes, Running, serviceVars
<1>2. w \in {"outbox", "nudges"} /\ \A v \in {"outbox", "nudges"} : worker[v] \in Loop
    BY DEF StopInv, Loops
<1>3. \/ /\ worker[w].at = "open" /\ (w = "outbox" => ~Sending)
         /\ worker' = [worker EXCEPT ![w].at = "asleep", ![w].settled = TRUE]
      \/ /\ worker[w].at = "open"
         /\ worker' = [worker EXCEPT ![w].at = "asleep", ![w].settled = FALSE]
      \/ worker[w].running /\ worker' = [worker EXCEPT ![w].at = "open"]
    BY Zenon DEF IterationEnds, IterationFails, Wakes
<1>4. worker' \in Loops
    BY <1>2, <1>3 DEF StopInv, Loops, Loop
<1>5. \A v \in {"outbox", "nudges"} : v # w => worker'[v] = worker[v]
    BY <1>3 DEF StopInv, Loops
<1>6. /\ worker'[w].running = worker[w].running
      /\ \/ /\ worker[w].at = "open" /\ worker'[w].at = "asleep"
            /\ worker'[w].settled => (w = "outbox" => ~Sending)
         \/ worker[w].running /\ worker'[w].at = "open" /\ worker'[w].settled = worker[w].settled
    <2>1. w \in DOMAIN worker /\ DOMAIN worker[w] = {"at", "settled", "running"}
        BY <1>2 DEF StopInv, Loops, Loop
    <2>2. CASE worker[w].running /\ worker' = [worker EXCEPT ![w].at = "open"]
        BY <2>1, <2>2
    <2>3. CASE /\ worker[w].at = "open" /\ (w = "outbox" => ~Sending)
               /\ worker' = [worker EXCEPT ![w].at = "asleep", ![w].settled = TRUE]
        BY <2>1, <2>3
    <2>4. CASE /\ worker[w].at = "open"
               /\ worker' = [worker EXCEPT ![w].at = "asleep", ![w].settled = FALSE]
        BY <2>1, <2>4
    <2> QED
        BY <1>3, <2>2, <2>3, <2>4
<1>7. (Sending' <=> Sending) /\ (AllAnswered' <=> AllAnswered)
    BY <1>1 DEF Sending, Settled, clientVars, AllAnswered, Unanswered
<1>8. ExitsClean'
    BY <1>1 DEF ExitsClean
<1>9. CASE w = "outbox"
    BY <1>1, <1>4, <1>5, <1>6, <1>7, <1>8, <1>9 DEF StopInv
<1>10. CASE w = "nudges"
    BY <1>1, <1>4, <1>5, <1>6, <1>7, <1>8, <1>10 DEF StopInv
<1> QED
    BY <1>2, <1>9, <1>10

\* A step of the shutdown begins.
LEMMA CallsStop ==
    ASSUME worker \in Loops, NEW step \in {"learning", "nudges", "outbox", "close", "tracing"}, Calls(step)
    PROVE  /\ stopping' = step /\ worker' \in Loops
           /\ \A w \in {"outbox", "nudges"} :
                /\ worker'[w].at = worker[w].at /\ worker'[w].settled = worker[w].settled
                /\ worker'[w].running = IF w = step THEN FALSE ELSE worker[w].running
<1>1. DOMAIN worker = {"outbox", "nudges"} /\ \A w \in {"outbox", "nudges"} : worker[w] \in Loop
    BY DEF Loops
<1>2. CASE step \in {"outbox", "nudges"}
    <2>1. worker' = [worker EXCEPT ![step] = [worker[step] EXCEPT !.running = FALSE]]
        BY <1>1, <1>2 DEF Calls
    <2>2. [worker[step] EXCEPT !.running = FALSE] \in Loop
        BY <1>1, <1>2 DEF Loop
    <2>3. worker' \in Loops
        BY <1>2, <2>1, <2>2 DEF Loops
    <2>4. /\ worker'[step] = [worker[step] EXCEPT !.running = FALSE]
          /\ \A w \in {"outbox", "nudges"} : w # step => worker'[w] = worker[w]
        BY <1>1, <1>2, <2>1 DEF Loops
    <2> QED
        BY <1>1, <1>2, <2>3, <2>4 DEF Calls, Loop
<1>3. CASE step \notin {"outbox", "nudges"}
    BY <1>1, <1>3 DEF Calls
<1> QED
    BY <1>2, <1>3

LEMMA SignalStops == ASSUME StopInv, Signal PROVE StopInv'
<1>1. /\ UNCHANGED <<clientVars, booted, exit>> /\ exit = "none" /\ stopping = "no"
      /\ Started("signals") /\ Calls("learning")
    BY DEF Signal, Running
<1>2. booted >= 8
    BY <1>1, BootPlaces DEF Started, StopInv
<1>3. worker \in Loops
    BY DEF StopInv
<1>4. /\ stopping' = "learning" /\ worker' \in Loops
      /\ \A w \in {"outbox", "nudges"} : worker'[w].at = worker[w].at /\ worker'[w].settled = worker[w].settled
    BY <1>1, <1>3, CallsStop
<1>5. Sending' <=> Sending
    BY <1>1 DEF Sending, Settled, clientVars
<1>6. ExitsClean'
    BY <1>1 DEF ExitsClean
<1> QED
    BY <1>1, <1>2, <1>4, <1>5, <1>6 DEF StopInv

LEMMA StopOrderPlaces ==
    /\ Len(StopOrder) = 5 /\ DOMAIN StopOrder = 1 .. 5
    /\ StopOrder[1] = "learning" /\ StopOrder[2] = "nudges"
    /\ StopOrder[3] = "outbox" /\ StopOrder[4] = "close" /\ StopOrder[5] = "tracing"
BY DEF StopOrder

LEMMA StopStops == ASSUME StopInv, StopStep PROVE StopInv'
<1>1. /\ UNCHANGED <<serviceVars, clientVars, booted>> /\ exit = "none"
      /\ stopping # "no" /\ Returns(stopping)
    BY DEF StopStep, Running
<1>2. PICK i \in DOMAIN StopOrder :
          /\ StopOrder[i] = stopping
          /\ IF Rejects(stopping) THEN exit' = "crashed" /\ UNCHANGED <<worker, stopping>>
             ELSE IF i = Len(StopOrder) THEN exit' = "clean" /\ UNCHANGED <<worker, stopping>>
             ELSE Calls(StopOrder[i + 1]) /\ exit' = exit
    BY DEF StopStep
<1>3. worker \in Loops /\ DOMAIN worker = {"outbox", "nudges"} /\ booted >= 8
    BY <1>1 DEF StopInv, Loops
<1>4. (Sending' <=> Sending) /\ (AllAnswered' <=> AllAnswered)
    BY <1>1 DEF Sending, Settled, clientVars, AllAnswered, Unanswered, serviceVars
<1>5. CASE Rejects(stopping)
    <2>1. exit' = "crashed" /\ UNCHANGED <<worker, stopping, booted>>
        BY <1>1, <1>2, <1>5
    <2>2. ExitsClean'
        BY <2>1 DEF ExitsClean
    <2> QED
        BY <1>4, <2>1, <2>2 DEF StopInv
<1>6. CASE ~Rejects(stopping) /\ i = 5
    <2>1. stopping = "tracing" /\ exit' = "clean" /\ UNCHANGED <<worker, stopping, booted>>
        BY <1>1, <1>2, <1>6, StopOrderPlaces
    <2>2. AllAnswered'
        BY <1>4, <2>1 DEF StopInv
    <2>3. ~Sending' /\ Open' = {}
        BY <1>3, <1>4, <2>1 DEF StopInv, Open
    <2>4. ExitsClean'
        BY <2>2, <2>3 DEF ExitsClean, AllAnswered
    <2> QED
        BY <1>4, <2>1, <2>2, <2>4 DEF StopInv
<1>7. CASE ~Rejects(stopping) /\ i # 5
    <2>1. i \in {1, 2, 3, 4} /\ Calls(StopOrder[i + 1]) /\ exit' = "none"
        BY <1>1, <1>2, <1>7, StopOrderPlaces
    <2>2. ExitsClean'
        BY <2>1 DEF ExitsClean
    <2>3. StopOrder[i + 1] \in {"nudges", "outbox", "close", "tracing"}
        BY <2>1, StopOrderPlaces
    <2>4. /\ stopping' = StopOrder[i + 1] /\ worker' \in Loops
          /\ \A w \in {"outbox", "nudges"} :
               /\ worker'[w].at = worker[w].at /\ worker'[w].settled = worker[w].settled
               /\ worker'[w].running = IF w = StopOrder[i + 1] THEN FALSE ELSE worker[w].running
        BY <1>3, <2>1, <2>3, CallsStop
    <2>5. /\ booted' \in 0 .. 9 /\ booted' >= 8
          /\ worker["outbox"].at # "open" /\ worker["outbox"].settled => ~Sending'
        BY <1>1, <1>3, <1>4 DEF StopInv
    <2>6. /\ \A w \in {"outbox", "nudges"} : ~worker[w].running => ~worker'[w].running
          /\ \A w \in {"outbox", "nudges"} : w = StopOrder[i + 1] => ~worker'[w].running
        BY <1>3, <2>4 DEF Loops, Loop
    <2>7. CASE i = 1
        <3>1. stopping' = "nudges" /\ ~worker'["nudges"].running
            BY <2>1, <2>4, <2>6, <2>7, StopOrderPlaces
        <3> QED
            BY <2>2, <2>4, <2>5, <3>1 DEF StopInv
    <2>8. CASE i = 2
        <3>1. stopping = "nudges" /\ stopping' = "outbox"
            BY <1>2, <2>1, <2>4, <2>8, StopOrderPlaces
        <3>2. ~worker'["outbox"].running /\ ~worker'["nudges"].running
            BY <2>6, <2>4, <3>1 DEF StopInv
        <3>3. worker'["nudges"].at # "open"
            BY <1>1, <1>3, <2>4, <3>1 DEF Returns
        <3> QED
            BY <2>2, <2>4, <2>5, <3>1, <3>2, <3>3 DEF StopInv
    <2>9. CASE i = 3
        <3>1. stopping = "outbox" /\ stopping' = "close"
            BY <1>2, <2>1, <2>4, <2>9, StopOrderPlaces
        <3>2. ~worker'["outbox"].running /\ ~worker'["nudges"].running /\ worker'["nudges"].at # "open"
            BY <2>6, <2>4, <3>1 DEF StopInv
        <3>3. worker'["outbox"].at # "open" /\ worker'["outbox"].settled
            BY <1>1, <1>3, <1>7, <2>4, <3>1 DEF Returns, Rejects
        <3> QED
            BY <2>2, <2>4, <2>5, <3>1, <3>2, <3>3 DEF StopInv
    <2>10. CASE i = 4
        <3>1. stopping = "close" /\ stopping' = "tracing"
            BY <1>2, <2>1, <2>4, <2>10, StopOrderPlaces
        <3>2. ~worker'["outbox"].running /\ ~worker'["nudges"].running /\ worker'["nudges"].at # "open"
            BY <2>6, <2>4, <3>1 DEF StopInv
        <3>3. worker'["outbox"].at # "open" /\ worker'["outbox"].settled
            BY <2>4, <3>1 DEF StopInv
        <3>4. AllAnswered'
            BY <1>1, <1>3, <1>4, <3>1 DEF Returns, AllAnswered
        <3> QED
            BY <2>2, <2>4, <2>5, <3>1, <3>2, <3>3, <3>4 DEF StopInv
    <2> QED
        BY <2>1, <2>7, <2>8, <2>9, <2>10
<1> QED
    BY <1>2, <1>5, <1>6, <1>7, StopOrderPlaces

\* While the outbox sleeps no reply is taken up, and a send that was settled stays so.
LEMMA ClientStops == ASSUME ClientInv, StopInv, ClientStep PROVE StopInv'
<1>1. exit = "none" /\ UNCHANGED <<request, processVars>>
    BY DEF ClientStep, Running, serviceVars
<1>2. ASSUME ~Sending, worker["outbox"].at # "open"
      PROVE  ~Sending'
    <2>1. \A k \in DOMAIN sends : Settled(k)
        BY <1>2 DEF Sending
    <2>2. ASSUME NEW k \in DOMAIN sends, SendStep(k)
          PROVE  \A j \in DOMAIN sends' : Settled(j)'
        <3>1. GapEnds(k) /\ sends[k].at = "gap"
            BY <2>1, <2>2 DEF SendStep, Settled, Starts, WritesText, Triggers, CallFails, GapEnds
        <3>2. sends[k] \in Send
            BY SendFields DEF ClientInv
        <3>3. [sends[k] EXCEPT !.at = "done", !.nth = sends[k].nth] \in Send
            BY <3>2 DEF Send, Places
        <3>4. sends' = [sends EXCEPT ![k] = [sends[k] EXCEPT !.at = "done", !.nth = sends[k].nth]]
            BY <3>1 DEF GapEnds
        <3>5. /\ DOMAIN sends' = DOMAIN sends
              /\ \A j \in DOMAIN sends : j # k => sends'[j] = sends[j]
              /\ sends'[k] = [sends[k] EXCEPT !.at = "done", !.nth = sends[k].nth]
            BY <3>3, <3>4, Moved DEF ClientInv
        <3>6. sends'[k].at = "done"
            BY <3>2, <3>5 DEF Send
        <3> QED
            BY <2>1, <3>5, <3>6 DEF Settled
    <2>3. ASSUME NEW c \in Subscribers, Shows(c)
          PROVE  \A j \in DOMAIN sends' : Settled(j)'
        BY <2>1, <2>3 DEF Shows, Settled
    <2> QED
        BY <1>2, <2>2, <2>3 DEF ClientStep, Sending
<1>3. ExitsClean'
    BY <1>1 DEF ExitsClean, processVars
<1>4. AllAnswered' <=> AllAnswered
    BY <1>1 DEF AllAnswered, Unanswered
<1> QED
    BY <1>1, <1>2, <1>3, <1>4 DEF StopInv, processVars

\* A turn that goes on leaves a response that went out as sent.
LEMMA GoesAnswer ==
    ASSUME RequestTypes, NEW s \in Slots, request[s].at \notin {"idle", "answered"}, NEW changes,
           Goes(s, changes), DOMAIN changes \subseteq Fields \ {"late"}, AllAnswered
    PROVE  AllAnswered'
<1>1. /\ \A t \in Slots : t # s => request'[t] = request[t]
      /\ request'[s].late = request[s].late
    BY GoesFields DEF Fields
<1>2. request[s].late
    BY DEF AllAnswered, Unanswered
<1> QED
    BY <1>1, <1>2 DEF AllAnswered, Unanswered

\* Once every caller has an answer only an arrival can leave one without.
LEMMA TurnAnswers ==
    ASSUME RequestTypes, AllAnswered, NEW s \in Slots,
           \/ CheckRateLimit(s) \/ CheckBudget(s) \/ ReadMedia(s) \/ Run(s) \/ Answers(s)
           \/ Fails(s) \/ LoseRace(s) \/ Throws(s) \/ Respond(s) \/ Finish(s)
    PROVE  AllAnswered'
<1>1. CASE CheckRateLimit(s)
    <2> DEFINE changes == [at |-> "budget", over |-> count' > RateLimit]
    <2>1. request[s].at = "rate" /\ Goes(s, changes)
        BY <1>1 DEF CheckRateLimit, At
    <2>2. DOMAIN changes = {"at", "over"}
        OBVIOUS
    <2> HIDE DEF changes
    <2> QED
        BY <2>1, <2>2, GoesAnswer DEF Fields
<1>2. CASE CheckBudget(s)
    <2> DEFINE denied == [at |-> "decided", answer |-> "handoff"]
               passed == [at |-> IF request[s].text \in Media THEN "media" ELSE "ready"]
    <2>1. request[s].at = "budget" /\ (Goes(s, denied) \/ Goes(s, passed))
        BY <1>2 DEF CheckBudget, At
    <2>2. DOMAIN denied = {"at", "answer"} /\ DOMAIN passed = {"at"}
        OBVIOUS
    <2> HIDE DEF denied, passed
    <2> QED
        BY <2>1, <2>2, GoesAnswer DEF Fields
<1>3. CASE ReadMedia(s)
    <2>1. request[s].at = "media"
        BY <1>3 DEF ReadMedia, At
    <2>2. PICK answer : \/ Goes(s, [at |-> "ready"])
                       \/ Goes(s, [at |-> "decided", answer |-> answer])
        BY <1>3 DEF ReadMedia
    <2> DEFINE ready == [at |-> "ready"]
               decided == [at |-> "decided", answer |-> answer]
    <2>3. /\ DOMAIN ready = {"at"} /\ DOMAIN decided = {"at", "answer"}
          /\ Goes(s, ready) \/ Goes(s, decided)
        BY <2>2
    <2> HIDE DEF ready, decided
    <2> QED
        BY <2>1, <2>3, GoesAnswer DEF Fields
<1>4. CASE Run(s)
    <2> DEFINE changes == [at |-> "model", under |-> <<config, playbook>>,
                           entry |-> current(request[s].route = "message")]
    <2>1. request[s].at = "ready" /\ Goes(s, changes)
        BY <1>4 DEF Run, At
    <2>2. DOMAIN changes = {"at", "under", "entry"}
        OBVIOUS
    <2> HIDE DEF changes
    <2> QED
        BY <2>1, <2>2, GoesAnswer DEF Fields
<1>5. CASE Answers(s) \/ Fails(s)
    <2>1. request[s].at = "model"
        BY <1>5 DEF Answers, Fails, At
    <2>2. PICK answer : Goes(s, [at |-> "decided", answer |-> answer])
        BY <1>5 DEF Answers, Fails
    <2> DEFINE changes == [at |-> "decided", answer |-> answer]
    <2>3. DOMAIN changes = {"at", "answer"} /\ Goes(s, changes)
        BY <2>2
    <2> HIDE DEF changes
    <2> QED
        BY <2>1, <2>3, GoesAnswer DEF Fields
<1>6. CASE LoseRace(s)
    <2>1. \A t \in Slots : request'[t].at = request[t].at /\ (t # s => request'[t] = request[t])
        <3> DEFINE changes == [late |-> TRUE]
        <3>1. DOMAIN changes = {"late"} /\ Goes(s, changes)
            BY <1>6 DEF LoseRace
        <3> HIDE DEF changes
        <3> QED
            BY <3>1, GoesFields DEF Fields
    <2>2. request[s].at \in {"media", "ready", "model"} /\ ~request[s].late
        BY <1>6 DEF LoseRace
    <2> QED
        BY <2>2 DEF AllAnswered, Unanswered
<1>7. CASE Throws(s) \/ Respond(s) \/ Finish(s)
    <2>1. Steps(s, {"rate", "budget", "decided", "answered"}, {"answered", "idle"})
        BY <1>7, EndSteps
    <2> QED
        BY <2>1 DEF Steps, AllAnswered, Unanswered
<1> QED
    BY <1>1, <1>2, <1>3, <1>4, <1>5, <1>6, <1>7

LEMMA ServiceAnswers ==
    ASSUME RequestTypes, StopInv, stopping = "tracing", ServiceStep
    PROVE  AllAnswered'
<1>1. AllAnswered /\ ~Listening
    BY DEF StopInv, Listening
<1>2. CASE UNCHANGED request
    BY <1>1, <1>2 DEF AllAnswered, Unanswered
<1>3. CASE Reload \/ ReadFile \/ Edit \/ NextHour \/ PlaybookMoves
    BY <1>2, <1>3 DEF Reload, ReadFile, Edit, NextHour, PlaybookMoves
<1>4. ASSUME NEW s \in Slots,
             \/ CheckRateLimit(s) \/ CheckBudget(s) \/ ReadMedia(s) \/ Run(s) \/ Answers(s)
             \/ Fails(s) \/ LoseRace(s) \/ Throws(s) \/ Respond(s) \/ Finish(s)
      PROVE  AllAnswered'
    BY <1>1, <1>4, TurnAnswers
<1> QED
    BY <1>1, <1>3, <1>4 DEF ServiceStep

\* A process that exits 0 was let go by everyone: the callers have their answers, no batch is in a
\* worker's hands and no reply is half sent (main.ts: shutdown).
THEOREM NothingIsLeftOpen == Spec => []ExitsClean
<1> DEFINE Inv == ClientInv /\ TurnInv /\ StopInv
<1>1. Init => Inv
    BY ClientStart, TurnStart, StopStart DEF Init
<1>2. Inv /\ [Next]_vars => Inv'
    <2> SUFFICES ASSUME ClientInv, TurnInv, StopInv, [Next]_vars PROVE StopInv'
        BY ClientSteps, TurnStep
    <2>1. CASE BootStep
        BY <2>1, BootStops
    <2>2. CASE BootFails
        <3>1. exit' = "failed" /\ UNCHANGED <<clientVars, booted, worker, stopping>> /\ stopping = "no"
            BY <2>2 DEF BootFails
        <3>2. Sending' <=> Sending
            BY <3>1 DEF Sending, Settled, clientVars
        <3> QED
            BY <3>1, <3>2 DEF StopInv, ExitsClean
    <2>3. CASE \E w \in DOMAIN worker : IterationEnds(w) \/ IterationFails(w) \/ Wakes(w)
        BY <2>3, LoopStops
    <2>4. CASE Signal
        BY <2>4, SignalStops
    <2>5. CASE StopStep
        BY <2>5, StopStops
    <2>6. CASE ServiceStep \/ JobStep
        <3>1. exit = "none" /\ UNCHANGED <<clientVars, processVars>>
            BY <2>6, Zenon DEF ServiceStep, JobStep, Running
        <3>2. Sending' <=> Sending
            BY <3>1 DEF Sending, Settled, clientVars
        <3>3. ExitsClean'
            BY <3>1 DEF ExitsClean, processVars
        <3>4. stopping = "tracing" => AllAnswered'
            <4>1. CASE ServiceStep
                BY <4>1, ServiceAnswers DEF TurnInv
            <4>2. CASE JobStep
                BY <4>2 DEF JobStep, serviceVars, StopInv, AllAnswered, Unanswered
            <4> QED
                BY <2>6, <4>1, <4>2
        <3> QED
            BY <3>1, <3>2, <3>3, <3>4 DEF StopInv, processVars
    <2>7. CASE ClientStep
        BY <2>7, ClientStops
    <2>8. CASE Over \/ UNCHANGED vars
        <3>1. UNCHANGED <<serviceVars, clientVars, processVars>>
            BY <2>8 DEF Over, vars
        <3>2. Sending' <=> Sending
            BY <3>1 DEF Sending, Settled, clientVars
        <3>3. \A s \in Slots : Unanswered(s)' <=> Unanswered(s)
            BY <3>1 DEF Unanswered, serviceVars
        <3>4. ExitsClean'
            BY <3>1, <3>2, <3>3 DEF StopInv, ExitsClean, Open, processVars
        <3>5. AllAnswered' <=> AllAnswered
            BY <3>3 DEF AllAnswered
        <3> QED
            BY <3>1, <3>2, <3>4, <3>5 DEF StopInv, processVars
    <2> QED
        BY <2>1, <2>2, <2>3, <2>4, <2>5, <2>6, <2>7, <2>8 DEF Next
<1>3. Inv => ExitsClean
    BY DEF StopInv
<1> QED
    BY <1>1, <1>2, <1>3, PTL DEF Spec

-----------------------------------------------------------------------------
(* The load *)

Files == {"catalog", "rules", "tools", "overrides", "persona"}

\* No catalog lists two offerings under one id. CatalogSchema does not refuse one that does, and
\* offeringMismatches compares lengths: a catalog with "a" twice passes with values "a" and "b".
DistinctOfferings == \A catalog \in Contents("catalog") \ {Absent, Broken} : uniqueIds(catalog)

Holds(got) == got = [f \in Files |-> got[f]] /\ \A f \in Files : got[f] \in Contents(f)

\* A load that has read its catalog was not refused it; one that has read its tools judged them by
\* the catalog and the rules it has, whatever the files hold by now.
LoadInv ==
    /\ Holds(files) /\ Holds(reading.got)
    /\ reading = [read |-> reading.read, got |-> reading.got] /\ reading.read \in 0 .. Len(LoadOrder)
    /\ reading.read = 0 => ~Reading
    /\ reading.read > 1 => reading.got.catalog \notin {Absent, Broken}
    /\ reading.read > 3 =>
         AgreesWithItself(reading.got.catalog, reading.got.rules, loadTools(reading.got.tools))
    /\ ServedIsSound

\* Tools that are not refused agree with the catalog and the rules they were judged by.
LEMMA AcceptedAgrees ==
    ASSUME NEW got, NEW file, ~Refused("tools", got, file), uniqueIds(got.catalog),
           file \notin {Absent, Broken} => \A f \in Entries(file.fields) : IsFiniteSet(f.values)
    PROVE  AgreesWithItself(got.catalog, got.rules, loadTools(file))
<1> DEFINE catalog == got.catalog
           tools == loadTools(file)
<1>1. ~RefusesTools(file, Env, catalog) /\ ~RefusesRules(got.rules, tools)
    BY DEF Refused
<1>2. got.rules.learning => HasMark(tools, "funnel")
    BY <1>1 DEF RefusesRules
<1>3. CASE file = Absent
    <2>1. tools = NO_TOOLS
        BY <1>3 DEF loadTools
    <2>2. /\ Entries(NO_TOOLS.flows) = {} /\ Entries(NO_TOOLS.fields) = {}
          /\ Entries(NO_TOOLS.notes) = {} /\ Entries(NO_TOOLS.events) = {}
          /\ OfRole(NO_TOOLS, "payment_link") = {} /\ Marked(NO_TOOLS, "offering") = {}
        BY DEF NO_TOOLS, Entries, OfRole, Marked, Those
    <2> QED
        BY <1>2, <2>1, <2>2 DEF AgreesWithItself
<1>4. CASE file # Absent
    <2>1. tools = file /\ ~Collides(file, Env) /\ ~offeringMismatches(file, catalog) /\ file # Broken
        BY <1>1, <1>4 DEF loadTools, RefusesTools
    <2>2. ASSUME NEW f \in Marked(file, "offering") PROVE f.values = Ids(catalog)
        <3>1. Cardinality(f.values) = Len(catalog) /\ Ids(catalog) \subseteq f.values
            BY <2>1, <2>2 DEF offeringMismatches
        <3>2. IsFiniteSet(f.values)
            BY <1>4, <2>1, <2>2 DEF Marked, Entries, Those
        <3>3. Cardinality(Ids(catalog)) = Len(catalog)
            BY DEF uniqueIds
        <3> QED
            BY <3>1, <3>2, <3>3, FS_Subset
    <2>3. \A f \in Entries(file.flows) : f.offering \in Ids(catalog) \union {"none"}
        BY <2>1 DEF offeringMismatches
    <2>4. ASSUME NEW f \in OfRole(file, "payment_link"), f.silent
          PROVE  Ids(catalog) \subseteq {o.id : o \in {p \in Entries(catalog) : p.url}}
        <3>1. \A o \in Entries(catalog) : o.url
            BY <2>1, <2>4 DEF offeringMismatches
        <3> QED
            BY <3>1 DEF Ids, Entries
    <2>5. \A f \in Entries(file.flows) \union Entries(file.events) :
             f.flowNs \intersect reservedNames(Env) = {}
        BY <2>1 DEF Collides
    <2>6. \A f \in Entries(file.fields) \union Entries(file.notes) : f.field \notin {ReplyField, TokenField}
        BY <2>1 DEF Collides, noteCollisions
    <2> QED
        BY <1>2, <2>1, <2>2, <2>3, <2>4, <2>5, <2>6 DEF AgreesWithItself
<1> QED
    BY <1>3, <1>4

LEMMA LoadStart == ASSUME DistinctOfferings, ServiceInit PROVE LoadInv
<1>1. Holds(Start)
    BY FilesAssumption DEF Holds, Files, Contents
<1>2. NotReading.read = 0 /\ NotReading.got = Start
    BY DEF NotReading
<1>3. ServedIsSound
    <2>1. ~Refused("tools", Start, Start.tools) /\ ~Refused("catalog", Start, Start.catalog)
        <3>1. LoadOrder[1] = "catalog" /\ LoadOrder[3] = "tools" /\ {1, 3} \subseteq DOMAIN LoadOrder
            BY DEF LoadOrder
        <3> QED
            BY <3>1, FilesAssumption
    <2>2. uniqueIds(Start.catalog)
        BY <2>1 DEF DistinctOfferings, Contents, Refused
    <2>3. Start.tools \notin {Absent, Broken} => \A f \in Entries(Start.tools.fields) : IsFiniteSet(f.values)
        BY FilesAssumption DEF Contents
    <2>4. AgreesWithItself(Start.catalog, Start.rules, loadTools(Start.tools))
        BY <2>1, <2>2, <2>3, AcceptedAgrees
    <2>5. /\ config.catalog = Start.catalog /\ config.rules = Start.rules
          /\ config.tools = loadTools(Start.tools)
        BY FilesAssumption DEF ServiceInit, Loaded
    <2> QED
        BY <2>4, <2>5 DEF ServedIsSound
<1> QED
    BY <1>1, <1>2, <1>3 DEF ServiceInit, LoadInv, NotReading, LoadOrder, Reading

\* The next file of a load, one that is not refused.
LEMMA FileRead ==
    ASSUME DistinctOfferings, LoadInv, NEW n \in 1 .. 5, n = reading.read,
           NEW got, got = [reading.got EXCEPT ![LoadOrder[n]] = files[LoadOrder[n]]],
           ~Refused(LoadOrder[n], got, files[LoadOrder[n]])
    PROVE  /\ Holds(got) /\ got.catalog \notin {Absent, Broken}
           /\ n >= 3 => AgreesWithItself(got.catalog, got.rules, loadTools(got.tools))
<1>1. LoadOrder = <<"catalog", "rules", "tools", "overrides", "persona">>
    BY DEF LoadOrder
<1>2. /\ reading.got = [f \in Files |-> reading.got[f]] /\ Holds(files)
      /\ \A f \in Files : reading.got[f] \in Contents(f) /\ files[f] \in Contents(f)
    BY DEF LoadInv, Holds
<1>3. /\ LoadOrder[n] \in Files
      /\ \A f \in Files : got[f] = IF f = LoadOrder[n] THEN files[f] ELSE reading.got[f]
    BY <1>1, <1>2 DEF Files
<1>4. Holds(got)
    <2>1. got = [f \in Files |-> got[f]]
        BY <1>2
    <2>2. \A f \in Files : got[f] \in Contents(f)
        BY <1>2, <1>3
    <2> QED
        BY <2>1, <2>2 DEF Holds
<1>5. {"catalog", "rules", "tools"} \subseteq Files
    BY DEF Files
<1>6. got.catalog \notin {Absent, Broken}
    <2>1. CASE n = 1
        BY <1>1, <1>3, <1>5, <2>1 DEF Refused
    <2>2. CASE n > 1
        BY <1>1, <1>3, <1>5, <2>2 DEF LoadInv
    <2> QED
        BY <2>1, <2>2
<1>7. CASE n = 3
    <2>1. got.tools = files.tools /\ files.tools \in Contents("tools") /\ got.catalog \in Contents("catalog")
        BY <1>1, <1>2, <1>3, <1>4, <1>5, <1>7 DEF Holds
    <2>2. ~Refused("tools", got, files.tools)
        BY <1>1, <1>7
    <2>3. uniqueIds(got.catalog)
        BY <1>6, <2>1 DEF DistinctOfferings
    <2>4. files.tools \notin {Absent, Broken} => \A f \in Entries(files.tools.fields) : IsFiniteSet(f.values)
        BY <2>1, FilesAssumption
    <2> QED
        BY <1>4, <1>6, <2>1, <2>2, <2>3, <2>4, AcceptedAgrees
<1>8. CASE n > 3
    <2>1. LoadOrder[n] \notin {"catalog", "rules", "tools"}
        BY <1>1, <1>8
    <2>2. got.catalog = reading.got.catalog /\ got.rules = reading.got.rules /\ got.tools = reading.got.tools
        BY <1>3, <1>5, <2>1
    <2> QED
        BY <1>4, <1>6, <1>8, <2>2 DEF LoadInv
<1>9. CASE n < 3
    BY <1>4, <1>6, <1>9
<1> QED
    BY <1>7, <1>8, <1>9

LEMMA ReadKeeps == ASSUME DistinctOfferings, LoadInv, ReadFile PROVE LoadInv'
<1>1. PICK n : n = reading.read
    OBVIOUS
<1>2. PICK got : got = [reading.got EXCEPT ![LoadOrder[n]] = files[LoadOrder[n]]]
    OBVIOUS
<1>3. n \in 1 .. 5 /\ Len(LoadOrder) = 5
    BY <1>1 DEF ReadFile, LoadInv, LoadOrder
<1>4. files' = files /\ Holds(files)' /\ Holds(Start)
    BY FilesAssumption DEF ReadFile, LoadInv, Holds, Files, Contents
<1>5. ASSUME reading' = NotReading, ServedIsSound' PROVE LoadInv'
    BY <1>4, <1>5 DEF LoadInv, NotReading, LoadOrder, Reading
<1>6. CASE Refused(LoadOrder[n], got, files[LoadOrder[n]])
    <2>1. reading' = NotReading /\ config' = config
        BY <1>1, <1>2, <1>6 DEF ReadFile
    <2> QED
        BY <1>5, <2>1 DEF LoadInv, ServedIsSound
<1>7. CASE ~Refused(LoadOrder[n], got, files[LoadOrder[n]])
    <2>1. /\ Holds(got) /\ got.catalog \notin {Absent, Broken}
          /\ n >= 3 => AgreesWithItself(got.catalog, got.rules, loadTools(got.tools))
        BY <1>1, <1>2, <1>3, <1>7, FileRead
    <2>2. CASE n = 5
        <3>1. reading' = NotReading /\ config' = Loaded(got)
            BY <1>1, <1>2, <1>3, <1>7, <2>2 DEF ReadFile
        <3>2. got = [f \in Files |-> got[f]]
            BY <2>1 DEF Holds
        <3>3. /\ config'.catalog = got.catalog /\ config'.rules = got.rules
              /\ config'.tools = loadTools(got.tools)
            BY <3>1, <3>2 DEF Loaded, Files
        <3>4. ServedIsSound'
            BY <2>1, <2>2, <3>3 DEF ServedIsSound
        <3> QED
            BY <1>5, <3>1, <3>4
    <2>3. CASE n # 5
        <3>1. reading' = [read |-> n + 1, got |-> got] /\ config' = config
            BY <1>1, <1>2, <1>3, <1>7, <2>3 DEF ReadFile
        <3>2. reading'.read = n + 1 /\ reading'.got = got /\ n + 1 # 0
            BY <1>3, <3>1
        <3> QED
            BY <1>3, <1>4, <2>1, <2>3, <3>1, <3>2 DEF LoadInv, ServedIsSound
    <2> QED
        BY <2>2, <2>3
<1> QED
    BY <1>6, <1>7

LEMMA LoadStep == ASSUME DistinctOfferings, LoadInv, [Next]_vars PROVE LoadInv'
<1>1. CASE UNCHANGED configVars
    BY <1>1 DEF LoadInv, Holds, ServedIsSound, configVars, Reading
<1>2. CASE Reload
    <2>1. UNCHANGED <<files, config>>
        BY <1>2 DEF Reload
    <2>2. Holds(Start)
        BY FilesAssumption DEF Holds, Files, Contents
    <2>3. CASE reading' = NotReading
        BY <2>1, <2>2, <2>3 DEF LoadInv, Holds, ServedIsSound, NotReading, LoadOrder, Reading
    <2>4. CASE reading' = [read |-> 1, got |-> Start]
        BY <2>1, <2>2, <2>4 DEF LoadInv, Holds, ServedIsSound, LoadOrder
    <2> QED
        BY <1>2, <2>3, <2>4 DEF Reload
<1>3. CASE ReadFile
    BY <1>3, ReadKeeps
<1>4. CASE Edit
    <2>1. PICK edit \in Edits : files' = [files EXCEPT ![edit[1]] = edit[2]]
        BY <1>4 DEF Edit
    <2>2. Holds(files)'
        BY <2>1 DEF LoadInv, Holds, Contents
    <2>3. UNCHANGED <<reading, config>>
        BY <1>4 DEF Edit
    <2> QED
        BY <2>2, <2>3 DEF LoadInv, Holds, ServedIsSound, Reading
<1>5. CASE ServiceStep
    <2>1. ASSUME NEW s \in Slots,
                 \/ Arrive(s)
                 \/ CheckRateLimit(s) \/ CheckBudget(s) \/ ReadMedia(s) \/ Run(s) \/ Answers(s)
                 \/ Fails(s) \/ LoseRace(s) \/ Throws(s) \/ Respond(s) \/ Finish(s)
          PROVE  UNCHANGED configVars
        BY <2>1 DEF Arrive, CheckRateLimit, CheckBudget, ReadMedia, Run, Answers, Fails, LoseRace,
                    Throws, Respond, Finish
    <2>2. NextHour \/ PlaybookMoves => UNCHANGED configVars
        BY DEF NextHour, PlaybookMoves
    <2> QED
        BY <1>1, <1>2, <1>3, <1>4, <1>5, <2>1, <2>2 DEF ServiceStep
<1>6. CASE BootStep \/ BootFails \/ Signal \/ StopStep \/ JobStep \/ ClientStep \/ Over \/ UNCHANGED vars
    BY <1>1, <1>6
    DEF BootStep, BootFails, Signal, StopStep, JobStep, ClientStep, Over, vars, serviceVars
<1>7. ASSUME NEW w \in DOMAIN worker, IterationEnds(w) \/ IterationFails(w) \/ Wakes(w) PROVE LoadInv'
    BY <1>1, <1>7 DEF IterationEnds, IterationFails, Wakes, serviceVars
<1> QED
    BY <1>5, <1>6, <1>7 DEF Next

\* Whatever is saved between the reads of a load, what is served agrees with itself, for any files
\* and edits in which no catalog lists an id twice (loader.ts: loadTenantConfig, loadTools).
THEOREM ServedAgrees == ASSUME DistinctOfferings PROVE Spec => []ServedIsSound
<1>1. Init => LoadInv
    BY LoadStart DEF Init
<1>2. LoadInv /\ [Next]_vars => LoadInv'
    BY LoadStep
<1>3. LoadInv => ServedIsSound
    BY DEF LoadInv
<1> QED
    BY <1>1, <1>2, <1>3, PTL DEF Spec

-----------------------------------------------------------------------------
(* What a run read, and what it may cite *)

RunFields == {"by", "week", "forced", "status", "recorded", "at", "unread", "heard", "input",
              "output", "due", "cost", "paid", "paidBefore"}

Paid == {c \in Contacts : contact[c].paid}

\* Those labelled as converted have paid, and none of the others had when the run was claimed.
Labelled(run, sides) ==
    /\ sides = [converted |-> sides.converted, not_converted |-> sides.not_converted]
    /\ sides.converted \subseteq Paid /\ sides.not_converted \intersect run.paidBefore = {}

RunSound(run) ==
    /\ DOMAIN run = RunFields
    /\ run.paidBefore \subseteq Paid /\ run.unread \subseteq Contacts
    /\ Labelled(run, run.heard) /\ Labelled(run, run.input)

Cited(p) == UNION {{ReadableTurn(c) : c \in runs[p.run].input[label]} : label \in {"converted", "not_converted"}}

\* What a run's proposals may cite is settled before the first is stored.
EvidenceInv ==
    /\ \E S : runs \in Seq(S)
    /\ contact \in [Contacts -> [offered : BOOLEAN, settled : BOOLEAN, paid : BOOLEAN]]
    /\ \A r \in DOMAIN runs : RunSound(runs[r])
    /\ \A p \in proposals : /\ p.run \in DOMAIN runs /\ p.turnIds \subseteq Cited(p)
                            /\ runs[p.run].at \notin {"cohort", "labels"}

LEMMA EvidenceMeans == EvidenceInv => Grounded /\ LabelsAreReadings
BY DEF EvidenceInv, Grounded, LabelsAreReadings, RunSound, Labelled, Cited, Paid

LEMMA EvidenceStart == JobInit => EvidenceInv
<1> SUFFICES ASSUME JobInit PROVE EvidenceInv
    OBVIOUS
<1>1. runs \in Seq({})
    BY EmptySeq DEF JobInit
<1>2. contact \in [Contacts -> [offered : BOOLEAN, settled : BOOLEAN, paid : BOOLEAN]]
    BY InsightAssumption DEF JobInit
<1> QED
    BY <1>1, <1>2 DEF JobInit, EvidenceInv

\* A run that advances, row by row.
LEMMA RowAdvances ==
    ASSUME NEW S, runs \in Seq(S), NEW r \in DOMAIN runs, DOMAIN runs[r] = RunFields,
           NEW changes, DOMAIN changes \subseteq RunFields, Advances(r, changes)
    PROVE  /\ \E T : runs' \in Seq(T)
           /\ DOMAIN runs' = DOMAIN runs
           /\ \A j \in DOMAIN runs : j # r => runs'[j] = runs[j]
           /\ DOMAIN runs'[r] = RunFields
           /\ \A f \in RunFields : runs'[r][f] = IF f \in DOMAIN changes THEN changes[f] ELSE runs[r][f]
<1>1. PICK e : e = Changed(runs[r], changes)
    OBVIOUS
<1>2. /\ DOMAIN e = RunFields
      /\ \A f \in RunFields : e[f] = IF f \in DOMAIN changes THEN changes[f] ELSE runs[r][f]
    BY <1>1 DEF Changed
<1>3. runs' = [runs EXCEPT ![r] = e]
    BY <1>1 DEF Advances
<1>4. runs \in Seq(S \union {e})
    BY SeqMonotonic
<1>5. r \in 1 .. Len(runs) /\ DOMAIN runs = 1 .. Len(runs)
    BY LenProperties
<1>6. /\ runs' \in Seq(S \union {e}) /\ Len(runs') = Len(runs)
      /\ \A j \in DOMAIN runs : runs'[j] = IF j = r THEN e ELSE runs[j]
    BY <1>3, <1>4, <1>5, ExceptSeq
<1>7. DOMAIN runs' = DOMAIN runs
    BY <1>5, <1>6, LenProperties
<1> QED
    BY <1>2, <1>6, <1>7

\* What a run is sent stays what it was once the sides are cut.
LEMMA AdvancesSoundly ==
    ASSUME EvidenceInv, NEW r \in DOMAIN runs, NEW changes, Advances(r, changes),
           DOMAIN changes \subseteq RunFields \ {"paidBefore"}, UNCHANGED contact,
           "unread" \in DOMAIN changes => changes["unread"] \subseteq Contacts,
           "heard" \in DOMAIN changes => Labelled(runs[r], changes["heard"]),
           "input" \in DOMAIN changes => Labelled(runs[r], changes["input"]) /\ runs[r].at = "labels",
           "at" \in DOMAIN changes /\ changes["at"] = "labels" => runs[r].at = "cohort",
           "at" \in DOMAIN changes => changes["at"] # "cohort",
           \/ proposals' = proposals
           \/ /\ "at" \in DOMAIN changes /\ changes["at"] = "finish" /\ "input" \notin DOMAIN changes
              /\ \A p \in proposals' \ proposals :
                   p.run = r /\ p.turnIds \subseteq Cited(p)
    PROVE  EvidenceInv'
<1>1. PICK S : runs \in Seq(S)
    BY DEF EvidenceInv
<1>2. RunSound(runs[r]) /\ DOMAIN runs[r] = RunFields
    BY DEF EvidenceInv, RunSound
<1>3. /\ \E T : runs' \in Seq(T)
      /\ DOMAIN runs' = DOMAIN runs
      /\ \A j \in DOMAIN runs : j # r => runs'[j] = runs[j]
      /\ DOMAIN runs'[r] = RunFields
      /\ \A f \in RunFields : runs'[r][f] = IF f \in DOMAIN changes THEN changes[f] ELSE runs[r][f]
    BY <1>1, <1>2, RowAdvances
<1>4. Paid' = Paid
    BY DEF Paid
<1>5. {"paidBefore", "unread", "heard", "input", "at"} \subseteq RunFields
    BY DEF RunFields
<1>6. RunSound(runs[r])'
    <2>1. runs'[r].paidBefore = runs[r].paidBefore
        BY <1>3, <1>5
    <2>2. runs'[r].unread \subseteq Contacts
        BY <1>2, <1>3, <1>5 DEF RunSound
    <2>3. \A sides : Labelled(runs[r], sides) => Labelled(runs[r], sides)'
        BY <1>4, <2>1 DEF Labelled
    <2>4. Labelled(runs[r], runs'[r].heard) /\ Labelled(runs[r], runs'[r].input)
        BY <1>2, <1>3, <1>5 DEF RunSound
    <2> QED
        BY <1>2, <1>3, <1>4, <2>1, <2>2, <2>4 DEF RunSound, Labelled
<1>7. \A j \in DOMAIN runs : RunSound(runs[j])'
    <2>1. ASSUME NEW j \in DOMAIN runs, j # r PROVE RunSound(runs[j])'
        BY <1>3, <1>4, <2>1 DEF EvidenceInv, RunSound, Labelled
    <2> QED
        BY <1>6, <2>1
<1>8. ASSUME NEW p \in proposals PROVE p.turnIds \subseteq Cited(p)' /\ runs'[p.run].at \notin {"cohort", "labels"}
    <2>1. p.run \in DOMAIN runs /\ p.turnIds \subseteq Cited(p) /\ runs[p.run].at \notin {"cohort", "labels"}
        BY <1>8 DEF EvidenceInv
    <2>2. runs'[p.run].input = runs[p.run].input /\ runs'[p.run].at \notin {"cohort", "labels"}
        BY <1>3, <1>5, <2>1
    <2> QED
        BY <2>1, <2>2 DEF Cited
<1>9. ASSUME NEW p \in proposals' \ proposals
      PROVE  /\ p.run \in DOMAIN runs /\ p.turnIds \subseteq Cited(p)'
             /\ runs'[p.run].at \notin {"cohort", "labels"}
    <2>1. p.run = r /\ p.turnIds \subseteq Cited(p)
        BY <1>9
    <2>2. runs'[r].input = runs[r].input /\ runs'[r].at = "finish"
        BY <1>3, <1>5, <1>9
    <2> QED
        BY <2>1, <2>2 DEF Cited
<1> QED
    BY <1>3, <1>7, <1>8, <1>9 DEF EvidenceInv

LEMMA FitIsPart ==
    ASSUME NEW input, NEW fit, fit = fitToBudget(input), fit # <<>>
    PROVE  /\ fit[1].converted \subseteq input.converted
           /\ fit[1].not_converted \subseteq input.not_converted
           /\ fit[1] = [converted |-> fit[1].converted, not_converted |-> fit[1].not_converted]
<1>1. PICK k : fit = <<Candidate(input, k)>>
    BY DEF fitToBudget
<1>2. fit[1] = Candidate(input, k)
    BY <1>1
<1> QED
    BY <1>2 DEF Candidate


\* One contact is read: what is read of it is true of it.
LEMMA LabelsSoundly == ASSUME EvidenceInv, NEW r \in DOMAIN runs, labelCohort(r) PROVE EvidenceInv'
<1>1. RunSound(runs[r])
    BY DEF EvidenceInv
<1>2. runs[r].at = "labels" /\ UNCHANGED <<contact, proposals>>
    BY DEF labelCohort, InRun, RunOnly
<1>3. CASE Advances(r, [at |-> "failing"])
    <2> DEFINE changes == [at |-> "failing"]
    <2>1. DOMAIN changes = {"at"} /\ changes["at"] = "failing" /\ Advances(r, changes)
        BY <1>3
    <2> HIDE DEF changes
    <2> QED
        BY <1>2, <2>1, AdvancesSoundly DEF RunFields
<1>4. ASSUME NEW c, Advances(r, ReadFails(r, c)) PROVE EvidenceInv'
    <2> DEFINE changes == [unread |-> runs[r].unread \ {c}]
    <2>1. DOMAIN changes = {"unread"} /\ changes["unread"] \subseteq Contacts /\ Advances(r, changes)
        BY <1>1, <1>4 DEF ReadFails, RunSound
    <2> HIDE DEF changes
    <2> QED
        BY <1>2, <2>1, AdvancesSoundly DEF RunFields
<1>5. ASSUME NEW c \in runs[r].unread, NEW label,
             label = IF contact[c].paid THEN "converted" ELSE "not_converted",
             Advances(r, [unread |-> runs[r].unread \ {c}, heard |-> Heard(r, c, label)])
      PROVE  EvidenceInv'
    <2> DEFINE changes == [unread |-> runs[r].unread \ {c}, heard |-> Heard(r, c, label)]
    <2>1. c \in Contacts
        BY <1>1, <1>5 DEF RunSound
    <2>2. Labelled(runs[r], Heard(r, c, label))
        <3>1. /\ runs[r].heard = [converted |-> runs[r].heard.converted,
                                  not_converted |-> runs[r].heard.not_converted]
              /\ Labelled(runs[r], runs[r].heard) /\ runs[r].paidBefore \subseteq Paid
            BY <1>1 DEF RunSound, Labelled
        <3>2. CASE contact[c].paid
            <4>1. Heard(r, c, label) = [converted |-> runs[r].heard.converted \union {c},
                                        not_converted |-> runs[r].heard.not_converted]
                BY <1>5, <3>1, <3>2 DEF Heard
            <4>2. c \in Paid
                BY <2>1, <3>2 DEF Paid
            <4> QED
                BY <3>1, <4>1, <4>2 DEF Labelled
        <3>3. CASE ~contact[c].paid
            <4>1. Heard(r, c, label) = [converted |-> runs[r].heard.converted,
                                        not_converted |-> runs[r].heard.not_converted \union {c}]
                BY <1>5, <3>1, <3>3 DEF Heard
            <4>2. c \notin runs[r].paidBefore
                BY <3>1, <3>3 DEF Paid
            <4> QED
                BY <3>1, <4>1, <4>2 DEF Labelled
        <3> QED
            BY <3>2, <3>3
    <2>3. /\ DOMAIN changes = {"unread", "heard"} /\ changes["unread"] \subseteq Contacts
          /\ changes["heard"] = Heard(r, c, label) /\ Advances(r, changes)
        BY <1>1, <1>5 DEF RunSound
    <2> HIDE DEF changes
    <2> QED
        BY <1>2, <2>2, <2>3, AdvancesSoundly DEF RunFields
<1> QED
    BY <1>3, <1>4, <1>5 DEF labelCohort

LEMMA RunsSoundly == ASSUME EvidenceInv, NEW r \in DOMAIN runs, RunStep(r) PROVE EvidenceInv'
<1>1. RunSound(runs[r])
    BY DEF EvidenceInv
<1>2. Labelled(runs[r], Nobody)
    BY DEF Labelled, Nobody
<1>3. CASE findCohort(r)
    <2>1. PICK cohort : cohort \subseteq Contacts /\ Advances(r, [unread |-> cohort, at |-> "labels"])
        BY <1>3 DEF findCohort
    <2> DEFINE changes == [unread |-> cohort, at |-> "labels"]
    <2>2. /\ DOMAIN changes = {"unread", "at"} /\ changes["unread"] = cohort
          /\ changes["at"] = "labels" /\ Advances(r, changes)
        BY <2>1
    <2> HIDE DEF changes
    <2>3. runs[r].at = "cohort" /\ UNCHANGED <<contact, proposals>>
        BY <1>3 DEF findCohort, InRun, RunOnly
    <2> QED
        BY <2>1, <2>2, <2>3, AdvancesSoundly DEF RunFields
<1>4. CASE labelCohort(r)
    BY <1>4, LabelsSoundly
<1>5. CASE Chooses(r)
    <2>1. runs[r].at = "labels" /\ UNCHANGED <<contact, proposals>>
        BY <1>5 DEF Chooses, InRun, RunOnly
    <2>2. PICK fit : /\ fit = fitToBudget([label \in DOMAIN runs[r].heard |-> Newest(runs[r].heard[label])])
                     /\ \/ \E due : Advances(r, [at |-> "finish", due |-> due])
                        \/ fit # <<>> /\ Advances(r, [at |-> "analyst", input |-> fit[1]])
        BY <1>5, Zenon DEF Chooses
    <2>3. ASSUME NEW due, Advances(r, [at |-> "finish", due |-> due]) PROVE EvidenceInv'
        <3> DEFINE changes == [at |-> "finish", due |-> due]
        <3>1. DOMAIN changes = {"at", "due"} /\ changes["at"] = "finish" /\ Advances(r, changes)
            BY <2>3
        <3> HIDE DEF changes
        <3> QED
            BY <2>1, <3>1, AdvancesSoundly DEF RunFields
    <2>4. ASSUME fit # <<>>, Advances(r, [at |-> "analyst", input |-> fit[1]]) PROVE EvidenceInv'
        <3>1. Labelled(runs[r], runs[r].heard)
            BY <1>1 DEF RunSound
        <3>2. Labelled(runs[r], fit[1])
            <4> DEFINE cut == [label \in DOMAIN runs[r].heard |-> Newest(runs[r].heard[label])]
            <4>1. /\ cut.converted \subseteq runs[r].heard.converted
                  /\ cut.not_converted \subseteq runs[r].heard.not_converted
                <5>1. DOMAIN runs[r].heard = {"converted", "not_converted"}
                    BY <3>1 DEF Labelled
                <5> QED
                    BY <5>1 DEF Newest
            <4>2. fit = fitToBudget(cut)
                BY <2>2
            <4> HIDE DEF cut
            <4>3. /\ fit[1].converted \subseteq cut.converted /\ fit[1].not_converted \subseteq cut.not_converted
                  /\ fit[1] = [converted |-> fit[1].converted, not_converted |-> fit[1].not_converted]
                BY <2>4, <4>2, FitIsPart
            <4> QED
                BY <3>1, <4>1, <4>3 DEF Labelled
        <3> DEFINE changes == [at |-> "analyst", input |-> fit[1]]
        <3>3. /\ DOMAIN changes = {"at", "input"} /\ changes["at"] = "analyst"
              /\ changes["input"] = fit[1] /\ Advances(r, changes)
            BY <2>4
        <3> HIDE DEF changes
        <3> QED
            BY <2>1, <3>2, <3>3, AdvancesSoundly DEF RunFields
    <2> QED
        BY <2>2, <2>3, <2>4
<1>6. CASE propose(r)
    <2>1. UNCHANGED <<contact, proposals>>
        BY <1>6 DEF propose, RunOnly
    <2>2. PICK changes :
             /\ DOMAIN changes \subseteq {"at", "output", "cost", "paid", "due"} /\ "at" \in DOMAIN changes
             /\ changes["at"] \in {"accept", "finish"} /\ Advances(r, changes)
        <3>1. ASSUME NEW output, NEW cost,
                     Advances(r, [at |-> "accept", output |-> output, cost |-> cost, paid |-> cost])
              PROVE  \E changes : /\ DOMAIN changes \subseteq {"at", "output", "cost", "paid", "due"}
                                  /\ "at" \in DOMAIN changes
                                  /\ changes["at"] = "accept" /\ Advances(r, changes)
            BY <3>1
        <3>2. ASSUME NEW cost, Advances(r, [at |-> "finish", due |-> "failed", cost |-> cost, paid |-> cost])
              PROVE  \E changes : /\ DOMAIN changes \subseteq {"at", "output", "cost", "paid", "due"}
                                  /\ "at" \in DOMAIN changes
                                  /\ changes["at"] = "finish" /\ Advances(r, changes)
            BY <3>2
        <3>3. ASSUME Advances(r, [at |-> "finish", due |-> "failed"])
              PROVE  \E changes : /\ DOMAIN changes \subseteq {"at", "output", "cost", "paid", "due"}
                                  /\ "at" \in DOMAIN changes
                                  /\ changes["at"] = "finish" /\ Advances(r, changes)
            BY <3>3
        <3> QED
            BY <1>6, <3>1, <3>2, <3>3 DEF propose
    <2> QED
        BY <2>1, <2>2, AdvancesSoundly DEF RunFields
<1>7. CASE addProposals(r)
    <2> DEFINE changes == [at |-> "finish", due |-> "completed", output |-> <<>>]
    <2>1. /\ DOMAIN changes = {"at", "due", "output"} /\ changes["at"] = "finish"
          /\ Advances(r, changes) /\ UNCHANGED contact
        BY <1>7 DEF addProposals
    <2>2. ASSUME NEW p \in proposals' \ proposals PROVE p.run = r /\ p.turnIds \subseteq Cited(p)
        <3>1. PICK i \in acceptProposals(runs[r]) :
                 p = [run |-> r, nth |-> i, turnIds |-> runs[r].output[i].turnIds]
            BY <1>7, <2>2 DEF addProposals
        <3>2. p.run = r /\ p.turnIds = runs[r].output[i].turnIds
            BY <3>1
        <3>3. p.turnIds \subseteq knownTurns(runs[r])
            BY <3>1, <3>2 DEF acceptProposals
        <3> QED
            BY <3>2, <3>3 DEF knownTurns, transcriptTurns, Cited
    <2> HIDE DEF changes
    <2> QED
        BY <2>1, <2>2, AdvancesSoundly DEF RunFields
<1>8. CASE finishRun(r) \/ RecordsFailed(r) \/ NeverRecorded(r)
    <2>1. PICK status, cost : Ends(r, status, cost)
        BY <1>8 DEF finishRun, RecordsFailed, NeverRecorded
    <2> DEFINE changes == [status |-> status, recorded |-> cost, at |-> "done", unread |-> {},
                           heard |-> Nobody, due |-> "none", cost |-> 0]
    <2>2. /\ DOMAIN changes = {"status", "recorded", "at", "unread", "heard", "due", "cost"}
          /\ changes["at"] = "done" /\ changes["unread"] = {} /\ changes["heard"] = Nobody
          /\ Advances(r, changes)
        BY <2>1 DEF Ends
    <2> HIDE DEF changes
    <2>3. UNCHANGED <<contact, proposals>>
        BY <1>8 DEF finishRun, RecordsFailed, NeverRecorded, RunOnly
    <2> QED
        BY <1>2, <2>2, <2>3, AdvancesSoundly DEF RunFields
<1>9. CASE StatementFails(r)
    <2> DEFINE changes == [at |-> "failing"]
    <2>1. DOMAIN changes = {"at"} /\ changes["at"] = "failing" /\ Advances(r, changes)
        BY <1>9 DEF StatementFails
    <2> HIDE DEF changes
    <2>2. UNCHANGED <<contact, proposals>>
        BY <1>9 DEF StatementFails, RunOnly
    <2> QED
        BY <2>1, <2>2, AdvancesSoundly DEF RunFields
<1> QED
    BY <1>3, <1>4, <1>5, <1>6, <1>7, <1>8, <1>9 DEF RunStep

\* A run is claimed: it has read nobody yet, and who has paid is known.
LEMMA ClaimsSoundly ==
    ASSUME EvidenceInv, NEW by, NEW forced, claimRun(by, forced), UNCHANGED <<contact, proposals>>
    PROVE  EvidenceInv'
<1>1. CASE UNCHANGED runs
    BY <1>1 DEF EvidenceInv, RunSound, Labelled, Paid, Cited
<1>2. CASE runs' = Append(runs, Claimed(by, forced))
    <2>1. PICK e : e = Claimed(by, forced)
        OBVIOUS
    <2>2. PICK S : runs \in Seq(S)
        BY DEF EvidenceInv
    <2>3. runs \in Seq(S \union {e})
        BY <2>2, SeqMonotonic
    <2>4. PICK n : n = Len(runs)
        OBVIOUS
    <2>5. /\ runs' \in Seq(S \union {e}) /\ n \in Nat /\ DOMAIN runs = 1 .. n
          /\ DOMAIN runs' = 1 .. n + 1
          /\ \A j \in 1 .. n : runs'[j] = runs[j]
          /\ runs'[n + 1] = e
        BY <1>2, <2>1, <2>3, <2>4, AppendProperties, LenProperties
    <2>6. Paid' = Paid
        BY DEF Paid
    <2>7. RunSound(e)
        <3>1. /\ DOMAIN e = RunFields /\ e.paidBefore = Paid /\ e.unread = {}
              /\ e.heard = Nobody /\ e.input = Nobody
            BY <2>1 DEF Claimed, RunFields, Paid
        <3> QED
            BY <3>1 DEF RunSound, Labelled, Nobody
    <2>8. \A j \in DOMAIN runs' : RunSound(runs[j])'
        <3>1. ASSUME NEW j \in 1 .. n PROVE RunSound(runs[j])'
            BY <2>5, <2>6, <3>1 DEF EvidenceInv, RunSound, Labelled
        <3>2. RunSound(runs[n + 1])'
            BY <2>5, <2>6, <2>7 DEF RunSound, Labelled
        <3> QED
            BY <2>5, <3>1, <3>2
    <2>9. ASSUME NEW p \in proposals
          PROVE  /\ p.run \in DOMAIN runs' /\ p.turnIds \subseteq Cited(p)'
                 /\ runs'[p.run].at \notin {"cohort", "labels"}
        <3>1. p.run \in DOMAIN runs /\ p.turnIds \subseteq Cited(p) /\ runs[p.run].at \notin {"cohort", "labels"}
            BY <2>9 DEF EvidenceInv
        <3>2. runs'[p.run] = runs[p.run] /\ p.run \in DOMAIN runs'
            BY <2>5, <3>1
        <3> QED
            BY <3>1, <3>2 DEF Cited
    <2> QED
        BY <2>5, <2>8, <2>9 DEF EvidenceInv
<1> QED
    BY <1>1, <1>2 DEF claimRun

\* A payment takes nothing back from what was read before it.
LEMMA PaysSoundly == ASSUME EvidenceInv, NEW c, Writes(c) \/ Pays(c) PROVE EvidenceInv'
<1>1. UNCHANGED <<runs, proposals>>
    BY DEF Writes, Pays
<1>2. /\ contact' \in [Contacts -> [offered : BOOLEAN, settled : BOOLEAN, paid : BOOLEAN]]
      /\ \A k \in Contacts : contact[k].paid => contact'[k].paid
    BY DEF Writes, Pays, EvidenceInv
<1>3. Paid \subseteq Paid'
    BY <1>2 DEF Paid
<1>4. \A r \in DOMAIN runs : RunSound(runs[r])'
    BY <1>1, <1>3 DEF EvidenceInv, RunSound, Labelled
<1> QED
    BY <1>1, <1>2, <1>4 DEF EvidenceInv, Cited

LEMMA KilledSoundly == ASSUME EvidenceInv, NEW p, JobKilled(p) PROVE EvidenceInv'
<1> DEFINE e(r) == IF runs[r].by = p THEN [runs[r] EXCEPT !.at = "done"] ELSE runs[r]
           T == {e(r) : r \in 1 .. Len(runs)}
<1>1. DOMAIN runs = 1 .. Len(runs) /\ Len(runs) \in Nat
    BY LenProperties DEF EvidenceInv
<1>2. runs' = [r \in 1 .. Len(runs) |-> e(r)]
    BY <1>1 DEF JobKilled
<1>3. runs' \in Seq(T) /\ DOMAIN runs' = DOMAIN runs /\ \A r \in DOMAIN runs : runs'[r] = e(r)
    <2>1. runs' \in [1 .. Len(runs) -> T]
        BY <1>2
    <2> QED
        BY <1>1, <1>2, <2>1, SeqDef
<1>4. ASSUME NEW r \in DOMAIN runs
      PROVE  /\ DOMAIN e(r) = RunFields /\ \A f \in RunFields \ {"at"} : e(r)[f] = runs[r][f]
             /\ e(r).at \in {runs[r].at, "done"}
    <2>1. DOMAIN runs[r] = RunFields
        BY DEF EvidenceInv, RunSound
    <2> QED
        BY <2>1 DEF RunFields
<1> HIDE DEF e, T
<1>5. UNCHANGED <<contact, proposals>>
    BY DEF JobKilled
<1>6. Paid' = Paid
    BY <1>5 DEF Paid
<1>7. ASSUME NEW r \in DOMAIN runs
      PROVE  /\ DOMAIN runs'[r] = RunFields /\ runs'[r].paidBefore = runs[r].paidBefore
             /\ runs'[r].unread = runs[r].unread /\ runs'[r].heard = runs[r].heard
             /\ runs'[r].input = runs[r].input /\ runs'[r].at \in {runs[r].at, "done"}
    BY <1>3, <1>4 DEF RunFields
<1>8. \A r \in DOMAIN runs : RunSound(runs[r])'
    BY <1>6, <1>7 DEF EvidenceInv, RunSound, Labelled
<1>9. ASSUME NEW q \in proposals
      PROVE  /\ q.run \in DOMAIN runs' /\ q.turnIds \subseteq Cited(q)'
             /\ runs'[q.run].at \notin {"cohort", "labels"}
    <2>1. q.run \in DOMAIN runs /\ q.turnIds \subseteq Cited(q) /\ runs[q.run].at \notin {"cohort", "labels"}
        BY <1>9 DEF EvidenceInv
    <2> QED
        BY <1>3, <1>7, <2>1 DEF Cited
<1> QED
    BY <1>3, <1>5, <1>8, <1>9 DEF EvidenceInv

LEMMA EvidenceStep == ASSUME EvidenceInv, [Next]_vars PROVE EvidenceInv'
<1>1. CASE UNCHANGED <<runs, contact, proposals>>
    BY <1>1 DEF EvidenceInv, RunSound, Labelled, Paid, Cited
<1>2. CASE JobStep
    <2>1. ASSUME NEW c, Writes(c) \/ Pays(c) PROVE EvidenceInv'
        BY <2>1, PaysSoundly
    <2>2. ASSUME NextWeek PROVE EvidenceInv'
        BY <1>1, <2>2 DEF NextWeek
    <2>3. ASSUME NEW p, Tick(p) PROVE EvidenceInv'
        BY <2>3, ClaimsSoundly DEF Tick
    <2>4. ASSUME NEW forced, RunNow(forced) PROVE EvidenceInv'
        BY <2>4, ClaimsSoundly DEF RunNow
    <2>5. ASSUME NEW r \in DOMAIN runs, RunStep(r) PROVE EvidenceInv'
        BY <2>5, RunsSoundly
    <2> QED
        BY <1>2, <2>1, <2>2, <2>3, <2>4, <2>5 DEF JobStep
<1>3. CASE BootFails \/ StopStep
    <2>1. UNCHANGED jobVars \/ JobKilled(Self)
        BY <1>3 DEF BootFails, StopStep
    <2> QED
        BY <1>1, <2>1, KilledSoundly DEF jobVars
<1>4. CASE Signal
    BY <1>1, <1>4 DEF Signal, StopJob
<1>5. CASE ServiceStep \/ ClientStep
    BY <1>1, <1>5 DEF ServiceStep, ClientStep, jobVars
<1>6. CASE BootStep \/ \E w \in DOMAIN worker : IterationEnds(w) \/ IterationFails(w) \/ Wakes(w)
    <2>1. UNCHANGED jobVars
        BY <1>6, Zenon DEF BootStep, IterationEnds, IterationFails, Wakes
    <2> QED
        BY <1>1, <2>1 DEF jobVars
<1>7. CASE Over \/ UNCHANGED vars
    BY <1>1, <1>7 DEF Over, vars, jobVars
<1> QED
    BY <1>2, <1>3, <1>4, <1>5, <1>6, <1>7 DEF Next

\* A proposal that is stored cites only turns of the transcripts its run's analyst was sent, for any
\* contacts, outputs and limits (learning/proposals.ts: proposalRefusal, job.ts: run).
THEOREM ProposalsGrounded == Spec => []Grounded
<1>1. Init => EvidenceInv
    BY EvidenceStart DEF Init
<1>2. EvidenceInv /\ [Next]_vars => EvidenceInv'
    BY EvidenceStep
<1> QED
    BY <1>1, <1>2, EvidenceMeans, PTL DEF Spec

\* Whoever is taken for not converted had not paid when the run was claimed, and whoever is taken
\* for converted has paid, however contacts pay between the reads and whichever reads fail
\* (learning/cohort.ts: labelCohort).
THEOREM LabelsTrue == Spec => []LabelsAreReadings
<1>1. Init => EvidenceInv
    BY EvidenceStart DEF Init
<1>2. EvidenceInv /\ [Next]_vars => EvidenceInv'
    BY EvidenceStep
<1> QED
    BY <1>1, <1>2, EvidenceMeans, PTL DEF Spec
=============================================================================
