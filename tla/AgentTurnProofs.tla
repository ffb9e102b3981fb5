-------------------------- MODULE AgentTurnProofs --------------------------
(***************************************************************************)
(* For any drafts, budgets and number of turns: a turn of the agent always *)
(* has a model call and a superstep of the graph left for its reply, the   *)
(* notice its reply was written under is still true when it is given, and  *)
(* the reply says nothing internal and the link it owes.                   *)
(*                                                                         *)
(* ReplyIsReached is not inductive: that the reply step keeps a call says  *)
(* nothing of the superstep it needs.  GraphInv ties the two counters: a   *)
(* round of the graph is a model call and two supersteps.  What a reply    *)
(* says follows from the guardrails as functions of a draft: SaidInv only  *)
(* ties the reply given to the draft and the facts it was made of.         *)
(***************************************************************************)
EXTENDS AgentTurn, FiniteSetTheorems, SequenceTheorems, TLAPS

\* Where the graph is, by its counters.
GraphInv ==
    /\ at \in {"over", "model", "tools", "reply", "rewrite", "answered"}
    /\ calls \in Nat /\ steps \in Nat /\ reads \in 0..MAX_READS_PER_TURN
    /\ at = "model" => steps = 2 * calls + 1 /\ calls < MAX_STEPS - 1
    /\ at = "tools" => steps = 2 * calls /\ calls < MAX_STEPS
    /\ at = "reply" => steps <= 2 * calls + 1 /\ calls < MAX_STEPS

\* A notice is read when a reply is written, and nothing is called after it.
NoticeInv ==
    /\ at \in {"model", "tools", "reply"} => told = {}
    /\ at \in {"rewrite", "answered"} => told \subseteq {Notice}
    /\ at = "over" => told = {} /\ facts = {} /\ latest = {}

LEMMA GraphInit == Init => GraphInv
BY AgentAssumption DEF Init, GraphInv

LEMMA GraphStep == GraphInv /\ [Next]_vars => GraphInv'
<1> SUFFICES ASSUME GraphInv, [Next]_vars PROVE GraphInv'
    OBVIOUS
<1> USE AgentAssumption DEF GraphInv
<1>1. CASE Run
    BY <1>1 DEF Run
<1>2. CASE ModelCalls
    BY <1>2 DEF ModelCalls, Superstep, toolVars
<1>3. CASE ModelReplies
    BY <1>3 DEF ModelReplies, Generated, Gives, GraphEnds
<1>4. CASE ReadContact \/ ReadPlugin
    BY <1>4 DEF ReadContact, ReadPlugin, Performed, Take
<1>5. CASE SendFlow \/ StageWrite \/ CallFails
    BY <1>5 DEF SendFlow, StageWrite, CallFails, Performed, toolVars
<1>6. CASE ToolsDone
    BY <1>6 DEF ToolsDone, Superstep, InLimit, Enough, toolVars
<1>7. CASE ReplyNode
    BY <1>7 DEF ReplyNode, Generated, Gives, GraphEnds
<1>8. CASE Rewrite
    BY <1>8 DEF Rewrite, Rewritten, Gives, loopVars, toolVars
<1>9. CASE RewriteFails
    BY <1>9 DEF RewriteFails, Gives, loopVars, toolVars
<1>10. CASE ModelFails \/ Aborted
    BY <1>10 DEF ModelFails, Aborted, Throws, Gives, GraphEnds
<1>11. CASE Record
    BY <1>11 DEF Record, loopVars
<1>12. CASE UNCHANGED vars
    BY <1>12 DEF vars, loopVars, toolVars
<1> QED
    BY <1>1, <1>2, <1>3, <1>4, <1>5, <1>6, <1>7, <1>8, <1>9, <1>10, <1>11, <1>12 DEF Next

LEMMA GraphReaches == GraphInv => ReplyIsReached
BY AgentAssumption DEF GraphInv, ReplyIsReached, InLimit

\* However many calls the model makes and however long a turn's tools go on, the turn comes to
\* its reply with a model call and a superstep left for it (langgraph-runner.ts: MAX_STEPS,
\* RECURSION_LIMIT), and its reads keep to their budget.
THEOREM EveryTurnReplies == Spec => []ReplyIsReached
<1>1. Spec => []GraphInv
    BY GraphInit, GraphStep, PTL DEF Spec
<1> QED
    BY <1>1, GraphReaches, PTL

LEMMA NoticeInit == Init => NoticeInv
BY DEF Init, NoticeInv

\* A step that writes a reply, or writes it again, reads the notice as it is.
LEMMA NoticeIsRead ==
    ASSUME ReadsNotice, UNCHANGED <<facts, latest, opening>>
    PROVE  told' \subseteq {Notice'}
BY DEF ReadsNotice, Notice, OpeningQueued

LEMMA NoticeStep == NoticeInv /\ [Next]_vars => NoticeInv'
<1> SUFFICES ASSUME NoticeInv, [Next]_vars PROVE NoticeInv'
    OBVIOUS
<1> USE DEF NoticeInv
<1>1. CASE Run
    BY <1>1 DEF Run
<1>2. CASE ModelCalls
    BY <1>2 DEF ModelCalls
<1>3. CASE ModelReplies
    <2>1. told' = {} /\ at' \in {"rewrite", "answered"}
        BY <1>3 DEF ModelReplies, Generated, Gives
    <2> QED
        BY <2>1
<1>4. CASE ReadContact \/ ReadPlugin \/ SendFlow \/ StageWrite \/ CallFails
    BY <1>4 DEF ReadContact, ReadPlugin, SendFlow, StageWrite, CallFails, Performed, replyVars
<1>5. CASE ToolsDone
    BY <1>5 DEF ToolsDone, replyVars
<1>6. CASE ReplyNode
    <2>1. told' \subseteq {Notice'}
        BY <1>6, NoticeIsRead DEF ReplyNode, turnVars
    <2>2. at' \in {"rewrite", "answered"}
        BY <1>6 DEF ReplyNode, Generated, Gives
    <2> QED
        BY <2>1, <2>2
<1>7. CASE Rewrite
    <2>1. told' \subseteq {Notice'}
        BY <1>7, NoticeIsRead DEF Rewrite, turnVars, toolVars
    <2>2. at' = "answered"
        BY <1>7 DEF Rewrite, Rewritten, Gives
    <2> QED
        BY <2>1, <2>2
<1>8. CASE RewriteFails
    <2>1. at' = "answered" /\ told' = told /\ Notice' = Notice /\ at = "rewrite"
        BY <1>8 DEF RewriteFails, Gives, turnVars, toolVars, Notice, OpeningQueued
    <2> QED
        BY <2>1
<1>9. CASE ModelFails \/ Aborted
    <2>1. at \in {"model", "tools", "reply", "rewrite"}
        BY <1>9 DEF ModelFails, Aborted
    <2>2. at' = "answered" /\ told' = told /\ Notice' = Notice
        BY <1>9 DEF ModelFails, Aborted, Throws, Gives, turnVars, Notice, OpeningQueued
    <2> QED
        BY <2>1, <2>2
<1>10. CASE Record
    BY <1>10 DEF Record
<1>11. CASE UNCHANGED vars
    BY <1>11 DEF vars, toolVars, turnVars, replyVars, Notice, OpeningQueued
<1> QED
    BY <1>1, <1>2, <1>3, <1>4, <1>5, <1>6, <1>7, <1>8, <1>9, <1>10, <1>11 DEF Next

\* The notice that a given reply was last written under says what is true of the turn: nothing is
\* sent, staged or read after it, through a rewrite, a failure or an abort (runner.ts,
\* stagedNotice).
THEOREM NoticeIsTrue == Spec => []ToldTheTruth
<1>1. NoticeInv => ToldTheTruth
    BY DEF NoticeInv, ToldTheTruth
<1> QED
    BY <1>1, NoticeInit, NoticeStep, PTL DEF Spec

-----------------------------------------------------------------------------
\* Sequences without one of their elements

\* The library's induction theorems take a predicate, which the provers cannot be given.  Over a set
\* induction follows from the pigeonhole principle: the successor would map a part of 0..n into
\* that part without its 0.
LEMMA SetInduction ==
    ASSUME NEW X \in SUBSET Nat, 0 \in X, \A n \in X : n + 1 \in X
    PROVE  X = Nat
<1> SUFFICES ASSUME NEW n \in Nat, n \notin X PROVE FALSE
    OBVIOUS
<1> DEFINE T == X \intersect (0..n)
           U == T \ {0}
           f == [x \in T |-> x + 1]
<1>1. IsFiniteSet(0..n)
    BY FS_Interval, 0 \in Int, n \in Int
<1>2. IsFiniteSet(T)
    BY <1>1, FS_Subset, T \in SUBSET (0..n)
<1>3. 0 \in T
    OBVIOUS
<1>4. \A x \in T : x + 1 \in U
    OBVIOUS
<1>5. \A x, y \in T : x + 1 = y + 1 => x = y
    OBVIOUS
<1> HIDE DEF T
<1>6. IsFiniteSet(U) /\ Cardinality(U) < Cardinality(T)
    <2>1. IsFiniteSet(U) /\ Cardinality(U) = Cardinality(T) - 1
        BY <1>2, <1>3, FS_RemoveElement
    <2>2. Cardinality(T) \in Nat
        BY <1>2, FS_CardinalityType
    <2> QED BY <2>1, <2>2
<1> HIDE DEF U
<1>7. f \in [T -> U]
    BY <1>4
<1> HIDE DEF f
<1>8. \E x, y \in T : x # y /\ f[x] = f[y]
    BY <1>2, <1>6, <1>7, FS_PigeonHole
<1> QED
    BY <1>8, <1>5 DEF f

\* The n-th value of the function that Without is read from.
KeptUpTo(s, x, f, n) ==
    IF n = 0 THEN <<>> ELSE IF s[n] = x THEN f[n - 1] ELSE Append(f[n - 1], s[n])

LEMMA WithoutExists ==
    ASSUME NEW S, NEW s \in Seq(S), NEW x
    PROVE  \E f \in [0..Len(s) -> Seq(S)] : \A n \in 0..Len(s) : f[n] = KeptUpTo(s, x, f, n)
<1> USE DEF KeptUpTo
<1> DEFINE Good(n) == \E f \in [0..n -> Seq(S)] : \A m \in 0..n : f[m] = KeptUpTo(s, x, f, m)
           X == {n \in Nat : n <= Len(s) => Good(n)}
<1>1. 0 \in X
    <2>1. [m \in 0..0 |-> <<>>] \in [0..0 -> Seq(S)]
        OBVIOUS
    <2>2. \A m \in 0..0 : [k \in 0..0 |-> <<>>][m] = KeptUpTo(s, x, [k \in 0..0 |-> <<>>], m)
        OBVIOUS
    <2>3. Good(0)
        BY <2>1, <2>2
    <2> HIDE DEF Good
    <2> QED BY <2>3
<1>2. ASSUME NEW n \in X PROVE n + 1 \in X
    <2> n \in Nat /\ (n <= Len(s) => Good(n))
        BY <1>2
    <2> SUFFICES ASSUME n + 1 <= Len(s) PROVE Good(n + 1)
        <3> HIDE DEF Good
        <3> QED OBVIOUS
    <2>1. PICK f \in [0..n -> Seq(S)] : \A m \in 0..n : f[m] = KeptUpTo(s, x, f, m)
        <3>1. Good(n)
            <4> HIDE DEF Good
            <4> QED BY n \in Nat, Len(s) \in Nat
        <3> HIDE DEF KeptUpTo
        <3> QED BY <3>1
    <2> DEFINE v == KeptUpTo(s, x, f, n + 1)
             g == [m \in 0..(n + 1) |-> IF m = n + 1 THEN v ELSE f[m]]
    <2>2. v \in Seq(S)
        <3>1. s[n + 1] \in S /\ f[n] \in Seq(S) /\ n + 1 # 0 /\ n + 1 - 1 = n
            BY n \in Nat
        <3> QED BY <3>1
    <2>3. g \in [0..(n + 1) -> Seq(S)]
        <3> HIDE DEF v
        <3> QED BY <2>2
    <2>4. ASSUME NEW m \in 0..(n + 1) PROVE g[m] = KeptUpTo(s, x, g, m)
        <3>1. CASE m = n + 1
            <4>1. g[m] = v /\ g[m - 1] = f[n] /\ m # 0
                <5> HIDE DEF v
                <5> QED BY <3>1, n \in Nat
            <4> HIDE DEF g
            <4> QED BY <3>1, <4>1, n \in Nat
        <3>2. CASE m = 0
            BY <3>2, <2>1, n \in Nat
        <3>3. CASE m # 0 /\ m # n + 1
            <4>1. m \in 0..n /\ m - 1 \in 0..n
                BY <3>3, n \in Nat
            <4>2. g[m] = f[m] /\ g[m - 1] = f[m - 1]
                <5> HIDE DEF v
                <5> QED BY <3>3, <4>1, n \in Nat
            <4> HIDE DEF g
            <4> QED BY <4>1, <4>2, <3>3, <2>1
        <3> QED BY <3>1, <3>2, <3>3
    <2> HIDE DEF g
    <2> QED BY <2>3, <2>4
<1>3. X = Nat
    <2> HIDE DEF X
    <2>1. X \in SUBSET Nat BY DEF X
    <2> QED BY <1>1, <1>2, <2>1, SetInduction
<1>4. Good(Len(s))
    BY <1>3, Len(s) \in Nat, Len(s) <= Len(s)
<1> QED BY <1>4

\* What is left are elements of s, none of them x.
LEMMA WithoutIs ==
    ASSUME NEW S, NEW s \in Seq(S), NEW x
    PROVE  /\ Without(s, x) \in Seq(S)
           /\ \A i \in 1..Len(Without(s, x)) : Without(s, x)[i] # x /\ \E j \in 1..Len(s) : Without(s, x)[i] = s[j]
<1>1. \E f : f = [n \in 0..Len(s) |-> KeptUpTo(s, x, f, n)]
    <2>1. PICK f \in [0..Len(s) -> Seq(S)] : \A n \in 0..Len(s) : f[n] = KeptUpTo(s, x, f, n)
        BY WithoutExists
    <2>2. f = [n \in 0..Len(s) |-> KeptUpTo(s, x, f, n)]
        BY <2>1
    <2> QED BY <2>2
<1> DEFINE F == CHOOSE f : f = [n \in 0..Len(s) |-> KeptUpTo(s, x, f, n)]
<1>2. F = [n \in 0..Len(s) |-> KeptUpTo(s, x, F, n)]
    BY <1>1
<1>3. Without(s, x) = F[Len(s)]
    BY DEF Without, KeptUpTo
<1> HIDE DEF F
<1> DEFINE Filtered(t) == t \in Seq(S) /\ \A i \in 1..Len(t) : t[i] # x /\ \E j \in 1..Len(s) : t[i] = s[j]
           X == {n \in Nat : n <= Len(s) => Filtered(F[n])}
<1>4. 0 \in X
    <2>1. F[0] = <<>>
        BY <1>2
    <2>2. Filtered(F[0])
        BY <2>1
    <2> QED BY <2>2
<1>5. ASSUME NEW n \in X PROVE n + 1 \in X
    <2> SUFFICES ASSUME n + 1 <= Len(s) PROVE Filtered(F[n + 1])
        OBVIOUS
    <2>1. Filtered(F[n]) /\ n \in Nat
        OBVIOUS
    <2>2. F[n + 1] = IF s[n + 1] = x THEN F[n] ELSE Append(F[n], s[n + 1])
        <3>1. n + 1 \in 0..Len(s) /\ n + 1 # 0 /\ n + 1 - 1 = n
            BY <2>1
        <3>2. F[n + 1] = KeptUpTo(s, x, F, n + 1)
            <4> HIDE DEF KeptUpTo
            <4> QED BY <1>2, <3>1
        <3> QED BY <3>1, <3>2 DEF KeptUpTo
    <2>3. s[n + 1] \in S /\ n + 1 \in 1..Len(s)
        BY <2>1
    <2>4. CASE s[n + 1] = x
        BY <2>1, <2>2, <2>4
    <2>5. CASE s[n + 1] # x
        BY <2>1, <2>2, <2>3, <2>5
    <2> QED BY <2>4, <2>5
<1>6. X = Nat
    <2> HIDE DEF X
    <2>1. X \in SUBSET Nat BY DEF X
    <2> QED BY <1>4, <1>5, <2>1, SetInduction
<1>7. Filtered(F[Len(s)])
    <2> HIDE DEF Filtered
    <2> QED BY <1>6, Len(s) \in Nat, Len(s) <= Len(s)
<1> QED BY <1>3, <1>7

-----------------------------------------------------------------------------
\* What the guardrails say of any draft

\* What may be said of draft d: no field, no note, and of the prompt only its own question.
MayBeSaid(message, d) ==
    /\ ~Has(message, "echo") /\ ~Has(message, "note")
    /\ Has(message, "marker") => message = Stripped(d).closing

\* A message without fields, notes and pieces of the prompt.
Clean(message) == ~Has(message, "echo") /\ ~Has(message, "note") /\ ~Has(message, "marker")

LEMMA StrippedOfDraft ==
    ASSUME NEW d \in ModelReply
    PROVE  /\ Stripped(d).messages \in Seq(Message)
           /\ Stripped(d).closing \in Message
           /\ \A i \in 1..Len(Stripped(d).messages) :
                ~Has(Stripped(d).messages[i], "echo")
           /\ ~Has(Stripped(d).closing, "echo")
           /\ ~Some(d.messages, "note") =>
                \A i \in 1..Len(Stripped(d).messages) : ~Has(Stripped(d).messages[i], "note")
           /\ ~Has(d.closing, "note") => ~Has(Stripped(d).closing, "note")
           /\ Stripped(d).escalate = d.escalate /\ Stripped(d).confident = d.confident
<1> DEFINE bare == [i \in DOMAIN d.messages |-> stripFieldEchoes(d.messages[i])]
           m == Without(bare, <<>>)
           c == stripFieldEchoes(d.closing)
<1>1. /\ Stripped(d).messages = m /\ Stripped(d).closing = c
      /\ Stripped(d).escalate = d.escalate /\ Stripped(d).confident = d.confident
    <2> HIDE DEF m, c
    <2> QED BY DEF Stripped, ModelReply, m, c
<1>2. ASSUME NEW t \in Message
      PROVE  /\ stripFieldEchoes(t) \in Message
             /\ ~Has(stripFieldEchoes(t), "echo")
             /\ ~Has(t, "note") => ~Has(stripFieldEchoes(t), "note")
    <2> DEFINE w == Without(t, "echo")
    <2>1. /\ w \in Seq(Line)
          /\ \A i \in 1..Len(w) : w[i] # "echo" /\ \E j \in 1..Len(t) : w[i] = t[j]
        BY WithoutIs DEF Message
    <2> HIDE DEF w
    <2> QED BY <2>1 DEF stripFieldEchoes, w, Has, Contains, Message
<1>3. d.messages \in Seq(Message) /\ d.closing \in Message
    BY DEF ModelReply
<1>4. \A i \in 1..Len(d.messages) : d.messages[i] \in Message
    BY <1>3
<1>5. /\ bare \in Seq(Message) /\ Len(bare) = Len(d.messages)
      /\ \A i \in 1..Len(bare) : bare[i] = stripFieldEchoes(d.messages[i])
    <2>1. DOMAIN d.messages = 1..Len(d.messages) /\ Len(d.messages) \in Nat
        BY <1>3
    <2>2. \A i \in 1..Len(d.messages) : stripFieldEchoes(d.messages[i]) \in Message
        BY <1>2, <1>4
    <2> HIDE DEF Message
    <2> QED BY <2>1, <2>2, IsASeq
<1>6. /\ m \in Seq(Message)
      /\ \A i \in 1..Len(m) : m[i] # <<>> /\ \E j \in 1..Len(bare) : m[i] = bare[j]
    <2> HIDE DEF bare
    <2> QED BY <1>5, WithoutIs
<1> HIDE DEF bare, m, c
<1>7. \A i \in 1..Len(m) : \E j \in 1..Len(d.messages) : m[i] = stripFieldEchoes(d.messages[j])
    BY <1>5, <1>6
<1>8. \A i \in 1..Len(m) : ~Has(m[i], "echo")
    BY <1>7, <1>2, <1>4
<1>9. ASSUME ~Some(d.messages, "note"), NEW i \in 1..Len(m) PROVE ~Has(m[i], "note")
    <2>1. PICK j \in 1..Len(d.messages) : m[i] = stripFieldEchoes(d.messages[j])
        BY <1>7
    <2>2. ~Has(d.messages[j], "note")
        BY <1>9, <1>3 DEF Some
    <2> QED BY <2>1, <2>2, <1>2, <1>4
<1>10. c \in Message /\ ~Has(c, "echo") /\ (~Has(d.closing, "note") => ~Has(c, "note"))
    BY <1>2, <1>3 DEF c
<1> QED BY <1>1, <1>6, <1>8, <1>9, <1>10

LEMMA OneMessage ==
    ASSUME NEW m
    PROVE  /\ <<m>>[1] = m /\ Len(<<m>>) = 1
           /\ \A i \in DOMAIN <<m>> : <<m>>[i] = m
OBVIOUS

\* The link is put on a message of the body, or is a message of its own.
LEMMA WithLinkIs ==
    ASSUME NEW said \in Seq(Message), said # <<>>, NEW appended \in BOOLEAN
    PROVE  LET linked == withLink(said, appended)
               body == IF appended THEN Len(said) - 1 ELSE Len(said)
           IN  /\ linked \in Seq(Message) /\ Some(linked, "link")
               /\ \A i \in 1..Len(linked) :
                    \/ \E j \in 1..Len(said) : linked[i] = said[j]
                    \/ linked[i] = <<"link">>
                    \/ \E j \in 1..body : linked[i] = Append(said[j], "link")
<1> DEFINE asked == appended \/ endsWithQuestion(Last(said))
           target == IF asked THEN Len(said) - 1 ELSE Len(said)
           body == IF appended THEN Len(said) - 1 ELSE Len(said)
           linked == withLink(said, appended)
<1> <<"link">> \in Message /\ Has(<<"link">>, "link")
    BY DEF Message, Line, Has, Contains
<1>1. Len(said) \in Nat /\ Len(said) >= 1 /\ target \in 0..Len(said) /\ target <= body /\ body <= Len(said)
    <2>1. Len(said) \in Nat /\ Len(said) # 0
        BY EmptySeq
    <2>2. target = Len(said) \/ (target = Len(said) - 1 /\ asked)
        <3> HIDE DEF asked
        <3> QED OBVIOUS
    <2>3. ~asked => target = Len(said)
        <3> HIDE DEF asked
        <3> QED OBVIOUS
    <2>4. (body = Len(said) \/ (body = Len(said) - 1 /\ appended)) /\ (appended => asked)
        OBVIOUS
    <2>5. appended => target = Len(said) - 1
        <3>1. appended => asked
            BY <2>4
        <3> HIDE DEF asked
        <3> QED BY <3>1
    <2> HIDE DEF target, body, asked
    <2> QED BY <2>1, <2>2, <2>4, <2>5
<1>2. CASE target = 0 \/ Has(said[target], "long")
    <2> DEFINE a == SubSeq(said, 1, target)
               b == SubSeq(said, target + 1, Len(said))
    <2>1. linked = a \o <<<<"link">>>> \o b
        <3>1. linked = InsertAt(said, target + 1, <<"link">>)
            BY <1>2 DEF withLink
        <3>2. (target + 1) - 1 = target
            <4> HIDE DEF target
            <4> QED BY <1>1
        <3> HIDE DEF target, linked
        <3>3. linked = SubSeq(said, 1, (target + 1) - 1) \o <<<<"link">>>> \o SubSeq(said, target + 1, Len(said))
            BY <3>1 DEF InsertAt
        <3> QED BY <3>2, <3>3
    <2> HIDE DEF linked, asked, body, target
    <2>2. /\ a \in Seq(Message) /\ Len(a) = target /\ \A i \in 1..target : a[i] = said[i]
        BY <1>1, SubSeqProperties
    <2>3. /\ b \in Seq(Message) /\ Len(b) = Len(said) - target
          /\ \A i \in 1..Len(b) : b[i] = said[target + i]
        BY <1>1, SubSeqProperties
    <2> HIDE DEF a, b
    <2>4. /\ a \o <<<<"link">>>> \in Seq(Message) /\ Len(a \o <<<<"link">>>>) = target + 1
          /\ \A i \in 1..target : (a \o <<<<"link">>>>)[i] = a[i]
          /\ (a \o <<<<"link">>>>)[target + 1] = <<"link">>
        <3> HIDE DEF Message
        <3> QED BY <2>2, <1>1
    <2>5. /\ linked \in Seq(Message) /\ Len(linked) = target + 1 + Len(b)
          /\ \A i \in 1..(target + 1) : linked[i] = (a \o <<<<"link">>>>)[i]
          /\ \A i \in 1..Len(b) : linked[target + 1 + i] = b[i]
        <3> DEFINE al == a \o <<<<"link">>>>
        <3> HIDE DEF Message, al
        <3>1. linked = al \o b /\ al \in Seq(Message) /\ Len(al) = target + 1
            BY <2>1, <2>4 DEF al
        <3>2. /\ linked \in Seq(Message) /\ Len(linked) = target + 1 + Len(b)
              /\ \A i \in 1..(target + 1) : linked[i] = al[i]
              /\ \A i \in 1..Len(b) : linked[target + 1 + i] = b[i]
            <4>1. /\ linked \in Seq(Message) /\ Len(linked) = Len(al) + Len(b)
                  /\ \A i \in 1..(Len(al) + Len(b)) :
                        linked[i] = IF i <= Len(al) THEN al[i] ELSE b[i - Len(al)]
                BY <3>1, <2>3, ConcatProperties
            <4> QED BY <4>1, <3>1, <2>3, <1>1
        <3> QED BY <3>2 DEF al
    <2>6. Some(linked, "link")
        <3>1. linked[target + 1] = <<"link">> /\ target + 1 \in DOMAIN linked
            BY <2>4, <2>5, <1>1, <2>3
        <3> QED BY <3>1 DEF Some
    <2>7. ASSUME NEW i \in 1..Len(linked), linked[i] # <<"link">>
          PROVE  \E j \in 1..Len(said) : linked[i] = said[j]
        <3>1. CASE i \in 1..target
            <4>1. linked[i] = said[i] /\ i \in 1..Len(said)
                BY <3>1, <2>2, <2>4, <2>5, <1>1
            <4> QED BY <4>1
        <3>2. CASE i = target + 1
            BY <3>2, <2>4, <2>5, <2>7, <1>1
        <3>3. CASE i > target + 1
            <4>1. /\ i - (target + 1) \in 1..Len(b)
                  /\ i = target + 1 + (i - (target + 1))
                BY <3>3, <2>5, <2>3, <1>1
            <4>2. linked[i] = b[i - (target + 1)]
                BY <4>1, <2>5
            <4>3. linked[i] = said[target + (i - (target + 1))] /\ target + (i - (target + 1)) \in 1..Len(said)
                BY <4>1, <4>2, <2>3, <1>1
            <4> QED BY <4>3
        <3> QED BY <3>1, <3>2, <3>3, <1>1, <2>3, <2>5
    <2> QED BY <2>5, <2>6, <2>7 DEF linked, body
<1>3. CASE ~(target = 0 \/ Has(said[target], "long"))
    <2> DEFINE more == Append(said[target], "link")
    <2>1. linked = [said EXCEPT ![target] = more]
        BY <1>3 DEF withLink
    <2> HIDE DEF linked, asked, body, target
    <2>2. target \in 1..Len(said) /\ said[target] \in Message
        BY <1>1, <1>3
    <2>3. more \in Message /\ Has(more, "link")
        <3>1. /\ more \in Seq(Line) /\ Len(more) = Len(said[target]) + 1
              /\ more[Len(said[target]) + 1] = "link" /\ Len(said[target]) \in Nat
            BY <2>2 DEF Message, Line
        <3> HIDE DEF more
        <3> QED BY <3>1 DEF Message, Has, Contains
    <2> HIDE DEF more
    <2>4. /\ linked \in Seq(Message) /\ Len(linked) = Len(said) /\ linked[target] = more
          /\ \A i \in 1..Len(said) : i # target => linked[i] = said[i]
        <3> HIDE DEF Message
        <3> QED BY <2>1, <2>2, <2>3
    <2>5. Some(linked, "link")
        BY <2>2, <2>3, <2>4 DEF Some
    <2>6. target \in 1..body
        BY <1>1, <2>2
    <2> QED BY <2>4, <2>5, <2>6 DEF linked, body, more
<1> QED BY <1>2, <1>3

\* A draft without notes is delivered as its own messages, the question it ends with and the
\* tenant's closer, and with the link when the turn owes it.
LEMMA DeliveredIs ==
    ASSUME NEW raw \in ModelReply, NEW link \in BOOLEAN,
           Stripped(raw).messages # <<>>,
           ~Some(raw.messages, "note"), ~Has(raw.closing, "note"),
           ~Some(Stripped(raw).messages, "marker")
    PROVE  LET reply == Delivered(Stripped(raw), link)
           IN  /\ reply.messages \in Seq(Message) /\ reply.cause = "none"
               /\ \A i \in DOMAIN reply.messages : MayBeSaid(reply.messages[i], raw)
               /\ link => Some(reply.messages, "link")
<1> DEFINE d == Stripped(raw)
           appended == d.closing # <<>> /\ ~endsWithQuestion(Last(d.messages))
           asked == IF appended THEN Append(d.messages, d.closing) ELSE d.messages
           replaced == repeatsEarlierReply(d.messages, asked) /\ HasCloser
           said == IF replaced THEN <<<<"closer">>>> ELSE asked
           linked == link /\ ~carriesLink(said)
           after == appended /\ ~replaced
           body == IF after THEN Len(said) - 1 ELSE Len(said)
           reply == Delivered(d, link)
<1> <<"closer">> \in Message /\ Clean(<<"closer">>) /\ Clean(<<"link">>)
    BY DEF Message, Line, Clean, Has, Contains
<1> HasCloser \in BOOLEAN
    BY AgentAssumption
<1>1. /\ d.messages \in Seq(Message) /\ d.closing \in Message /\ d.messages # <<>>
      /\ \A i \in 1..Len(d.messages) : Clean(d.messages[i])
      /\ ~Has(d.closing, "echo") /\ ~Has(d.closing, "note")
    <2>1. DOMAIN d.messages = 1..Len(d.messages)
        BY StrippedOfDraft
    <2> QED BY <2>1, StrippedOfDraft DEF Clean, Some
<1>2. /\ reply.cause = "none"
      /\ reply.messages = IF linked THEN withLink(said, after) ELSE said
    BY DEF Delivered, Reply
<1> HIDE DEF d, reply
<1>3. /\ said \in Seq(Message) /\ said # <<>>
      /\ \A i \in 1..Len(said) : Clean(said[i]) \/ said[i] = d.closing
      /\ \A i \in 1..body : Clean(said[i])
    <2>1. CASE replaced
        <3>1. said = <<<<"closer">>>> /\ body = 1
            <4> HIDE DEF replaced, appended
            <4> QED BY <2>1
        <3> HIDE DEF said, body
        <3> QED BY <3>1
    <2>2. CASE ~replaced /\ appended
        <3>1. said = Append(d.messages, d.closing) /\ body = Len(said) - 1
            <4> HIDE DEF replaced, appended
            <4> QED BY <2>2
        <3> HIDE DEF said, body, replaced, appended, Message, Clean
        <3>2. /\ Len(said) = Len(d.messages) + 1 /\ said \in Seq(Message) /\ Len(d.messages) \in Nat
              /\ \A i \in 1..Len(d.messages) : said[i] = d.messages[i]
              /\ said[Len(d.messages) + 1] = d.closing
            BY <3>1, <1>1
        <3> QED BY <3>1, <3>2, <1>1
    <2>3. CASE ~replaced /\ ~appended
        <3>1. said = d.messages /\ body = Len(said)
            <4> HIDE DEF replaced, appended
            <4> QED BY <2>3
        <3> HIDE DEF said, body
        <3> QED BY <3>1, <1>1
    <2> QED BY <2>1, <2>2, <2>3
<1> HIDE DEF said, body, after, linked, replaced, appended
<1>4. after \in BOOLEAN
    BY DEF after, appended, replaced
<1>5. ASSUME NEW message, Clean(message) \/ message = d.closing
      PROVE  MayBeSaid(message, raw)
    BY <1>5, <1>1 DEF MayBeSaid, Clean, d
<1>6. CASE ~linked
    <2>1. reply.messages = said
        BY <1>6, <1>2
    <2>2. DOMAIN said = 1..Len(said)
        BY <1>3
    <2>3. link => Some(said, "link")
        BY <1>6 DEF linked, carriesLink
    <2> QED BY <2>1, <2>2, <2>3, <1>2, <1>3, <1>5 DEF reply, d
<1>7. CASE linked
    <2> DEFINE w == withLink(said, after)
    <2>1. /\ w \in Seq(Message) /\ Some(w, "link")
          /\ \A i \in 1..Len(w) :
                 \/ \E j \in 1..Len(said) : w[i] = said[j]
                 \/ w[i] = <<"link">>
                 \/ \E j \in 1..body : w[i] = Append(said[j], "link")
        BY <1>3, <1>4, WithLinkIs DEF body
    <2>2. reply.messages = w
        BY <1>7, <1>2
    <2> HIDE DEF w
    <2>3. ASSUME NEW j \in 1..body PROVE Clean(Append(said[j], "link"))
        <3>1. Clean(said[j]) /\ said[j] \in Seq(Line)
            <4>1. j \in 1..Len(said)
                BY <1>3, <1>4 DEF body
            <4> QED BY <4>1, <1>3 DEF Message
        <3> QED BY <3>1 DEF Clean, Has, Contains
    <2>4. \A i \in 1..Len(w) : MayBeSaid(w[i], raw)
        BY <2>1, <2>3, <1>3, <1>5
    <2>5. DOMAIN w = 1..Len(w)
        BY <2>1
    <2> QED BY <2>1, <2>2, <2>4, <2>5, <1>2 DEF reply, d
<1> QED BY <1>6, <1>7

\* Whatever a model wrote, what the guardrails give of it may be said, and holds the link the
\* turn owes unless it hands off.
LEMMA GuardedIs ==
    ASSUME NEW d \in ModelReply, ~carriesWorkingNotes(d)
    PROVE  /\ \A i \in DOMAIN Guarded(d).messages : MayBeSaid(Guarded(d).messages[i], d)
           /\ Guarded(d).cause = "none" /\ LinkOwed => Some(Guarded(d).messages, "link")
<1> DEFINE link == LinkOwed /\ OfferingKnown
           reply == applyGuardrails(d, link)
<1>1. ASSUME NEW cause
      PROVE  /\ escalationReply(cause).cause = cause
             /\ \A i \in DOMAIN escalationReply(cause).messages : MayBeSaid(escalationReply(cause).messages[i], d)
    <2>1. escalationReply(cause).messages = <<Handoff>> /\ escalationReply(cause).cause = cause
        BY DEF escalationReply, Reply
    <2>2. MayBeSaid(Handoff, d)
        BY DEF MayBeSaid, Handoff, Has, Contains
    <2> QED BY <2>1, <2>2, OneMessage
<1>2. link \in BOOLEAN
    BY DEF LinkOwed, OfferingKnown
<1>3. /\ \A i \in DOMAIN reply.messages : MayBeSaid(reply.messages[i], d)
      /\ reply.cause = "none" /\ link => Some(reply.messages, "link")
    <2> HIDE DEF link
    <2>1. CASE ~WellFormed(d)
        <3>1. reply = escalationReply("schema")
            BY <2>1 DEF applyGuardrails
        <3> QED BY <3>1, <1>1
    <2>2. CASE WellFormed(d) /\ (Stripped(d).messages = <<>> \/ Some(Stripped(d).messages, "marker"))
        <3>1. reply = escalationReply("leak")
            BY <2>2 DEF applyGuardrails
        <3> QED BY <3>1, <1>1
    <2> DEFINE good == WellFormed(d) /\ Stripped(d).messages # <<>> /\ ~Some(Stripped(d).messages, "marker")
    <2>3. ASSUME good PROVE ~Some(d.messages, "note") /\ ~Has(d.closing, "note")
        BY <2>3 DEF carriesWorkingNotes
    <2>4. CASE good /\ Stripped(d).escalate
        <3>1. reply = Reply(Stripped(d).messages, "model", {})
            BY <2>4 DEF applyGuardrails
        <3>2. reply.messages = Stripped(d).messages /\ reply.cause = "model"
            BY <3>1 DEF Reply
        <3>3. DOMAIN Stripped(d).messages = 1..Len(Stripped(d).messages)
            BY StrippedOfDraft
        <3> QED BY <3>2, <3>3, <2>3, <2>4, StrippedOfDraft DEF MayBeSaid, Some
    <2>5. CASE good /\ ~Stripped(d).escalate /\ ~Stripped(d).confident
        <3>1. reply = escalationReply("confidence")
            BY <2>5 DEF applyGuardrails
        <3> QED BY <3>1, <1>1
    <2>6. CASE good /\ ~Stripped(d).escalate /\ Stripped(d).confident
        <3>1. reply = Delivered(Stripped(d), link)
            BY <2>6 DEF applyGuardrails
        <3> QED BY <3>1, <2>3, <2>6, <1>2, DeliveredIs
    <2> QED BY <2>1, <2>2, <2>4, <2>5, <2>6
<1>4. Guarded(d) = IF LinkOwed /\ ~OfferingKnown /\ reply.cause = "none" THEN escalationReply("error") ELSE reply
    BY DEF Guarded
<1> HIDE DEF reply
<1>5. CASE LinkOwed /\ ~OfferingKnown /\ reply.cause = "none"
    BY <1>4, <1>5, <1>1
<1>6. CASE ~(LinkOwed /\ ~OfferingKnown /\ reply.cause = "none")
    BY <1>4, <1>6, <1>3
<1> QED BY <1>5, <1>6

\* A reply may be said, as of the draft it was made of, and holds the link it owes; there is none
\* before the turn is answered.
SaidInv ==
    /\ \A i \in DOMAIN result.messages : MayBeSaid(result.messages[i], draft)
    /\ at # "answered" => result = NoReply
    /\ at = "answered" /\ result.cause = "none" /\ LinkOwed => Some(result.messages, "link")

LEMMA NoReplyIs == NoReply.messages = <<>> /\ NoReply.cause = "none" /\ DOMAIN <<>> = {}
BY DEF NoReply, Reply

LEMMA SaidInit == Init => SaidInv
BY NoReplyIs DEF Init, SaidInv

\* A reply is given with the facts it was guarded under.
LEMMA GivenIsSaid ==
    ASSUME NEW d \in ModelReply, ~carriesWorkingNotes(d), Gives(Guarded(d)), draft' = d, facts' = facts
    PROVE  SaidInv'
<1>1. result' = Guarded(d) /\ at' = "answered" /\ LinkOwed' = LinkOwed
    BY DEF Gives, LinkOwed
<1> QED BY <1>1, GuardedIs DEF SaidInv

LEMMA HandoffIsSaid ==
    ASSUME NEW cause, cause # "none", Gives(escalationReply(cause))
    PROVE  SaidInv'
<1>1. result'.messages = <<Handoff>> /\ result'.cause = cause /\ at' = "answered"
    BY DEF Gives, escalationReply, Reply
<1>2. MayBeSaid(Handoff, draft')
    BY DEF MayBeSaid, Handoff, Has, Contains
<1> QED BY <1>1, <1>2, OneMessage DEF SaidInv

LEMMA GeneratedIsSaid ==
    ASSUME SaidInv, at # "answered", NEW d \in Drafts, Generated(d), facts' = facts
    PROVE  SaidInv'
<1> d \in ModelReply
    BY AgentAssumption
<1>1. CASE carriesWorkingNotes(d)
    <2>1. at' = "rewrite" /\ result' = result
        BY <1>1 DEF Generated
    <2> QED BY <2>1, NoReplyIs DEF SaidInv
<1>2. CASE ~carriesWorkingNotes(d)
    <2>1. Gives(Guarded(d)) /\ draft' = d
        BY <1>2 DEF Generated
    <2> QED BY <2>1, <1>2, GivenIsSaid
<1> QED BY <1>1, <1>2

LEMMA NothingGiven ==
    ASSUME SaidInv, at # "answered", at' # "answered", result' = result
    PROVE  SaidInv'
BY NoReplyIs DEF SaidInv

LEMMA SaidStep == SaidInv /\ [Next]_vars => SaidInv'
<1> SUFFICES ASSUME SaidInv, [Next]_vars PROVE SaidInv'
    OBVIOUS
<1>1. CASE Run
    <2>1. at' \in {"model", "reply"} /\ result' = NoReply
        BY <1>1 DEF Run
    <2> QED BY <2>1, NoReplyIs DEF SaidInv
<1>2. CASE ModelCalls
    BY <1>2, NothingGiven DEF ModelCalls
<1>3. CASE ModelReplies
    BY <1>3, GeneratedIsSaid DEF ModelReplies
<1>4. CASE ReadContact \/ ReadPlugin \/ SendFlow \/ StageWrite \/ CallFails
    <2>1. at = "tools" /\ at' = at /\ result' = result
        BY <1>4 DEF ReadContact, ReadPlugin, SendFlow, StageWrite, CallFails, Performed, replyVars
    <2> QED BY <2>1, NothingGiven
<1>5. CASE ToolsDone
    <2>1. at = "tools" /\ at' \in {"reply", "model"} /\ result' = result
        BY <1>5 DEF ToolsDone, replyVars
    <2> QED BY <2>1, NothingGiven
<1>6. CASE ReplyNode
    BY <1>6, GeneratedIsSaid DEF ReplyNode
<1>7. CASE Rewrite
    <2>1. PICK d \in Drafts : draft' = d /\ Rewritten(d) /\ facts' = facts
        BY <1>7 DEF Rewrite, toolVars
    <2>2. d \in ModelReply
        BY <2>1, AgentAssumption
    <2>3. CASE carriesWorkingNotes(d)
        <3>1. Gives(escalationReply("leak"))
            BY <2>1, <2>3 DEF Rewritten
        <3> QED BY <3>1, HandoffIsSaid
    <2>4. CASE ~carriesWorkingNotes(d)
        <3>1. Gives(Guarded(d))
            BY <2>1, <2>4 DEF Rewritten
        <3> QED BY <2>1, <2>2, <2>4, <3>1, GivenIsSaid
    <2> QED BY <2>3, <2>4
<1>8. CASE RewriteFails
    BY <1>8, HandoffIsSaid DEF RewriteFails
<1>9. CASE ModelFails \/ Aborted
    <2>1. Gives(escalationReply("error"))
        BY <1>9 DEF ModelFails, Aborted, Throws
    <2> QED BY <2>1, HandoffIsSaid
<1>10. CASE Record
    <2>1. at' = "over" /\ result' = NoReply
        BY <1>10 DEF Record
    <2> QED BY <2>1, NoReplyIs DEF SaidInv
<1>11. CASE UNCHANGED vars
    <2>1. UNCHANGED <<at, facts, draft, result>>
        BY <1>11 DEF vars, toolVars, replyVars
    <2> QED BY <2>1 DEF SaidInv, LinkOwed
<1> QED
    BY <1>1, <1>2, <1>3, <1>4, <1>5, <1>6, <1>7, <1>8, <1>9, <1>10, <1>11 DEF Next

\* Whatever a model writes, in one draft or two, no field, working note or piece of the prompt
\* reaches the contact but in the question appended to a reply (guardrails.ts, applyGuardrails;
\* runner.ts, the rewrite).
THEOREM NothingInternalSaid == Spec => []NothingInternalIsSaid
<1>1. SaidInv => NothingInternalIsSaid
    BY DEF SaidInv, NothingInternalIsSaid, MayBeSaid, hasFieldEcho
<1> QED
    BY <1>1, SaidInit, SaidStep, PTL DEF Spec

\* A turn that sent the silent payment flow, or staged it, says the link in the reply it gives,
\* in a message of its own if the last is full, through the closing question, the closer that
\* replaces a repeated reply and the rewrite (guardrails.ts, withLink; specs/023).
THEOREM LinkSaid == Spec => []LinkIsSaid
<1>1. SaidInv => LinkIsSaid
    BY DEF SaidInv, LinkIsSaid, LinkOwed
<1> QED
    BY <1>1, SaidInit, SaidStep, PTL DEF Spec
=============================================================================
