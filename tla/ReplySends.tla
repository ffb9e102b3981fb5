----------------------------- MODULE ReplySends -----------------------------
(***************************************************************************)
(* A reply's delivery through ManyChat (src/channels/manychat/client.ts):  *)
(* each message is written to the contact's reply field and a flow is      *)
(* triggered that shows whatever the field then holds, so one contact's    *)
(* sends wait for each other, on whatever channel they are, and for a gap. *)
(*                                                                         *)
(* A flow is taken to have shown its message by the end of the gap after   *)
(* its trigger, and a call that is given up to have taken effect by then   *)
(* or never.                                                               *)
(***************************************************************************)
EXTENDS Integers, Sequences

CONSTANTS Subscribers, Channels

VARIABLES sends,   \* every sendText, in the order of the calls
          field,   \* each contact's reply field
          triggered,   \* each contact's flows that have not shown their message yet
          shown    \* what each contact was shown: what was meant, and what was in the field

clientVars == <<sends, field, triggered, shown>>

Settled(k) == sends[k].at \in {"gap", "done"}

\* Mutant: the lane is the contact's on one channel.
BeforeOnChannel(k) == {j \in 1 .. k - 1 : sends[j].to = sends[k].to
                                           /\ sends[j].channel = sends[k].channel}

\* The contact's sends before this one, on every channel: the chain of lanes.
Before(k) == {j \in 1 .. k - 1 : sends[j].to = sends[k].to}

\* At the end of the chain, whether the sends before it succeed or not.
sendText(c, channel, messages) ==
    /\ sends' = Append(sends, [to |-> c, channel |-> channel, messages |-> messages, nth |-> 1,
                               at |-> "queued"])
    /\ UNCHANGED <<field, triggered, shown>>

Starts(k) ==
    /\ sends[k].at = "queued" /\ \A j \in Before(k) : sends[j].at = "done"
    /\ sends' = [sends EXCEPT ![k].at = "field"]
    /\ UNCHANGED <<field, triggered, shown>>

Text(k) == <<k, sends[k].nth>>
WritesField(k) == field' = [field EXCEPT ![sends[k].to] = Text(k)]
TriggersFlow(k) == triggered' = [triggered EXCEPT ![sends[k].to] = @ \union {Text(k)}]

\* sendOne writes the field, then triggers the flow.
WritesText(k) ==
    /\ sends[k].at = "field" /\ WritesField(k)
    /\ sends' = [sends EXCEPT ![k].at = "flow"]
    /\ UNCHANGED <<triggered, shown>>

\* The last message's trigger settles the send; the gap after it holds back the next one.
Triggers(k) ==
    /\ sends[k].at = "flow" /\ TriggersFlow(k)
    /\ sends' = [sends EXCEPT ![k].at = IF sends[k].nth = sends[k].messages THEN "gap" ELSE "pause"]
    /\ UNCHANGED <<field, shown>>

\* A call fails, or is given up after its ten seconds, done or not: the rest is not sent.
CallFails(k) ==
    /\ sends[k].at \in {"field", "flow"}
    /\ \/ UNCHANGED <<field, triggered>>
       \/ sends[k].at = "field" /\ WritesField(k) /\ UNCHANGED triggered
       \/ sends[k].at = "flow" /\ TriggersFlow(k) /\ UNCHANGED field
    /\ sends' = [sends EXCEPT ![k].at = "gap"]
    /\ UNCHANGED shown

\* A flow reads the field as it runs.
Shows(c) ==
    /\ \E text \in triggered[c] :
         /\ triggered' = [triggered EXCEPT ![c] = @ \ {text}]
         /\ shown' = [shown EXCEPT ![c] = Append(@, [meant |-> text, text |-> field[c]])]
    /\ UNCHANGED <<sends, field>>

\* The gap is over, and the flow it was left for has run.
GapEnds(k) ==
    /\ sends[k].at \in {"pause", "gap"} /\ ~ \E text \in triggered[sends[k].to] : text[1] = k
    /\ sends' = [sends EXCEPT ![k].at = IF @ = "gap" THEN "done" ELSE "field",
                              ![k].nth = IF sends[k].at = "gap" THEN @ ELSE @ + 1]
    /\ UNCHANGED <<field, triggered, shown>>

ClientInit ==
    /\ sends = <<>>
    /\ field = [c \in Subscribers |-> <<0, 0>>]
    /\ triggered = [c \in Subscribers |-> {}]
    /\ shown = [c \in Subscribers |-> <<>>]

SendStep(k) == Starts(k) \/ WritesText(k) \/ Triggers(k) \/ CallFails(k) \/ GapEnds(k)

-----------------------------------------------------------------------------

\* A contact reads each message in its own flow, in the order the replies were sent and their
\* messages written, whichever of the sends failed half done and whatever channels they are on
\* (client.ts: sendText, sendEach).
ReadsEachAsWritten ==
    \A c \in Subscribers :
        /\ \A i \in DOMAIN shown[c] : shown[c][i].text = shown[c][i].meant
        /\ \A i \in 1 .. Len(shown[c]) - 1 :
             LET one == shown[c][i].text
                 next == shown[c][i + 1].text
             IN  one[1] < next[1] \/ (one[1] = next[1] /\ one[2] < next[2])
=============================================================================
