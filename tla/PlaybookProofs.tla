--------------------------- MODULE PlaybookProofs ---------------------------
(***************************************************************************)
(* Proofs about Playbook, for any number of review sessions, activation    *)
(* commands and servers: its types, with the one live version and the      *)
(* events of the timeline each once, that no approved text is without a    *)
(* version, and that no version goes live for the first time unevaluated.  *)
(*                                                                         *)
(* Both rest on the timeline: no step takes a created version out of it,   *)
(* nor the activation of one but to put it last, so what a session or a    *)
(* command found among the versions is still among them when it acts.      *)
(***************************************************************************)
EXTENDS Playbook, TLAPS, SequenceTheorems, FiniteSetTheorems

\* An evaluation of version that the gate would let through, for a command that read live.
Evaluated(version, live) ==
    \E own, base \in records :
        /\ own.playbook /\ own.version = version
        /\ own.suite = base.suite /\ own.failed \subseteq base.failed
        /\ base.playbook = (live # {}) /\ base.version = InsightsOf(live)

\* A session that marks a proposal has written the version with its text, and one that retires
\* an insight retires one that the base it read has.
Ready(s) ==
    /\ s.at = "mark" => \E v \in Versions : Contains(v, s.edit)
    /\ s.for = "retire" => s.index >= 1
    /\ (s.at = "create" /\ s.for # "approve") => s.index \in DOMAIN InsightsOf(s.base)

SessionInv == \A r \in Reviewers : Ready(session[r])

\* What a command knows of the version it activates: it is there, what it read as live was, and
\* once past the gate it was live before or is evaluated against that.
Cleared(m) ==
    /\ m.candidate \in Versions /\ m.live \subseteq WasActive
    /\ m.rollback => m.candidate \in WasActive
    /\ m.at \in {"clear", "lock", "set"} => m.candidate \in WasActive \/ Evaluated(m.candidate, m.live)

CommandInv == \A c \in Commands : command[c].at # "away" => Cleared(command[c])

PlaybookInv ==
    TypeOK /\ IsFiniteSet(active) /\ SessionInv /\ CommandInv /\ ApprovedIsInAVersion

-----------------------------------------------------------------------------
\* Versions

\* A version is a list of no more than MaxInsights insights.
LEMMA VersionIsShort ==
    \A v : v \in Version <=> v \in Seq(Insights) /\ Len(v) <= MaxInsights
<1>1. ASSUME NEW v \in Version
      PROVE  v \in Seq(Insights) /\ Len(v) <= MaxInsights
  <2>1. PICK m \in 0..MaxInsights : v \in [1..m -> Insights]
    BY <1>1 DEF Version, SeqOf
  <2>2. m \in Nat
    BY <2>1, PlaybookAssumption
  <2>3. v \in Seq(Insights)
    BY <2>1, <2>2, IsASeq
  <2>4. DOMAIN v = 1..m /\ DOMAIN v = 1..Len(v) /\ Len(v) \in Nat
    BY <2>1, <2>3, LenProperties
  <2>5. Len(v) = m
    BY <2>1, <2>2, <2>4
  <2> QED
    BY <2>1, <2>3, <2>5, PlaybookAssumption
<1>2. ASSUME NEW v \in Seq(Insights), Len(v) <= MaxInsights
      PROVE  v \in Version
  <2>1. v \in [1..Len(v) -> Insights] /\ Len(v) \in Nat
    BY <1>2, LenProperties
  <2>2. Len(v) \in 0..MaxInsights
    BY <1>2, <2>1, PlaybookAssumption
  <2> QED
    BY <2>1, <2>2 DEF Version, SeqOf
<1> QED BY <1>1, <1>2

\* The sequence without its i-th element: shorter by one, the rest in their order.
LEMMA RemoveAtGives ==
    ASSUME NEW S, NEW s \in Seq(S), NEW i \in 1..Len(s)
    PROVE  /\ RemoveAt(s, i) \in Seq(S) /\ Len(RemoveAt(s, i)) = Len(s) - 1
           /\ \A j \in 1..(Len(s) - 1) : RemoveAt(s, i)[j] = s[IF j < i THEN j ELSE j + 1]
<1> DEFINE a == SubSeq(s, 1, i - 1)
           b == SubSeq(s, i + 1, Len(s))
<1>1. Len(s) \in Nat /\ i \in Nat /\ i >= 1 /\ i <= Len(s)
  BY LenProperties
<1>2. a \in Seq(S) /\ Len(a) = i - 1 /\ \A j \in 1..(i - 1) : a[j] = s[j]
  <2>1. CASE i = 1
    <3>1. a = <<>>
      BY <1>1, <2>1, SubSeqEmpty
    <3> QED BY <2>1, <3>1, EmptySeq
  <2>2. CASE i > 1
    BY <1>1, <2>2, SubSeqProperties
  <2> QED BY <1>1, <2>1, <2>2
<1>3. b \in Seq(S) /\ Len(b) = Len(s) - i /\ \A j \in 1..(Len(s) - i) : b[j] = s[i + j]
  <2>1. CASE i = Len(s)
    <3>1. b = <<>>
      BY <1>1, <2>1, SubSeqEmpty
    <3> QED BY <1>1, <2>1, <3>1, EmptySeq
  <2>2. CASE i < Len(s)
    BY <1>1, <2>2, SubSeqProperties
  <2> QED BY <1>1, <2>1, <2>2
<1>4. RemoveAt(s, i) = a \o b
  BY DEF RemoveAt
<1> HIDE DEF a, b
<1>5. RemoveAt(s, i) \in Seq(S) /\ Len(RemoveAt(s, i)) = Len(s) - 1
  <2>1. a \o b \in Seq(S) /\ Len(a \o b) = Len(a) + Len(b)
    BY <1>2, <1>3, ConcatProperties
  <2>2. Len(a) + Len(b) = Len(s) - 1
    BY <1>1, <1>2, <1>3
  <2> QED BY <1>4, <2>1, <2>2
<1>6. ASSUME NEW j \in 1..(Len(s) - 1)
      PROVE  RemoveAt(s, i)[j] = s[IF j < i THEN j ELSE j + 1]
  <2>1. CASE j < i
    <3>1. (a \o b)[j] = a[j]
      BY <1>1, <1>2, <1>3, <2>1, ConcatProperties
    <3> QED BY <1>1, <1>2, <1>4, <2>1, <3>1
  <2>2. CASE j >= i
    <3>1. (a \o b)[j] = b[j - (i - 1)]
      BY <1>1, <1>2, <1>3, <2>2, ConcatProperties
    <3>2. b[j - (i - 1)] = s[i + (j - (i - 1))]
      BY <1>1, <1>3, <2>2
    <3>3. i + (j - (i - 1)) = j + 1
      BY <1>1
    <3> QED BY <1>4, <1>1, <2>2, <3>1, <3>2, <3>3
  <2> QED BY <1>1, <2>1, <2>2
<1> QED BY <1>5, <1>6

-----------------------------------------------------------------------------
\* The timeline

\* An event put last.
LEMMA AppendedEvent ==
    ASSUME NEW t \in Seq(Event), IsInjective(t), NEW e \in Event, ~Contains(t, e)
    PROVE  /\ Append(t, e) \in Seq(Event) /\ IsInjective(Append(t, e))
           /\ \A f : Contains(Append(t, e), f) <=> Contains(t, f) \/ f = e
<1> DEFINE u == Append(t, e)
<1>1. u \in Seq(Event) /\ Len(u) = Len(t) + 1 /\ Len(t) \in Nat /\ Len(u) \in Nat
      /\ DOMAIN u = 1..Len(u) /\ DOMAIN t = 1..Len(t)
  BY AppendProperties, LenProperties
<1>2. u[Len(t) + 1] = e /\ \A i \in 1..Len(t) : u[i] = t[i]
  BY AppendProperties
<1> HIDE DEF u
<1>3. \A i \in 1..Len(t) : t[i] # e
  BY DEF Contains
<1>4. ASSUME NEW i \in DOMAIN u, NEW j \in DOMAIN u, u[i] = u[j]
      PROVE  i = j
  <2>1. \A k \in DOMAIN u : k \in 1..Len(t) \/ k = Len(t) + 1
    BY <1>1
  <2>2. CASE i \in 1..Len(t) /\ j \in 1..Len(t)
    BY <1>1, <1>2, <1>4, <2>2 DEF IsInjective
  <2>3. CASE i = Len(t) + 1 \/ j = Len(t) + 1
    BY <1>2, <1>3, <1>4, <2>1, <2>3
  <2> QED BY <2>1, <2>2, <2>3
<1>5. \A f : Contains(u, f) <=> Contains(t, f) \/ f = e
  <2> SUFFICES ASSUME NEW f
               PROVE  Contains(u, f) <=> Contains(t, f) \/ f = e
      OBVIOUS
  <2>1. 1..Len(u) = 1..Len(t) \union {Len(t) + 1}
    BY <1>1
  <2> QED BY <1>2, <2>1 DEF Contains
<1> QED BY <1>1, <1>4, <1>5 DEF IsInjective, u

\* An event taken out.
LEMMA RemovedEvent ==
    ASSUME NEW t \in Seq(Event), IsInjective(t), NEW i \in 1..Len(t)
    PROVE  /\ RemoveAt(t, i) \in Seq(Event) /\ IsInjective(RemoveAt(t, i))
           /\ \A f : Contains(RemoveAt(t, i), f) <=> Contains(t, f) /\ f # t[i]
<1> DEFINE u == RemoveAt(t, i)
           From(j) == IF j < i THEN j ELSE j + 1
<1>1. u \in Seq(Event) /\ Len(u) = Len(t) - 1 /\ \A j \in 1..(Len(t) - 1) : u[j] = t[From(j)]
  BY RemoveAtGives
<1>2. /\ Len(t) \in Nat /\ DOMAIN t = 1..Len(t) /\ DOMAIN u = 1..Len(u) /\ i \in Nat /\ i >= 1
      /\ i <= Len(t)
  BY <1>1, LenProperties
<1> HIDE DEF u
<1>3. \A j \in 1..(Len(t) - 1) : From(j) \in 1..Len(t) /\ From(j) # i
  BY <1>2
<1>4. \A j, k \in 1..(Len(t) - 1) : From(j) = From(k) => j = k
  BY <1>2
<1>5. \A k \in 1..Len(t) : k # i => \E j \in 1..(Len(t) - 1) : From(j) = k
  <2> SUFFICES ASSUME NEW k \in 1..Len(t), k # i
               PROVE  \E j \in 1..(Len(t) - 1) : From(j) = k
      OBVIOUS
  <2>1. CASE k < i
    <3>1. k \in 1..(Len(t) - 1) /\ From(k) = k
      BY <1>2, <2>1
    <3> QED BY <3>1
  <2>2. CASE k > i
    <3>1. k - 1 \in 1..(Len(t) - 1) /\ From(k - 1) = k
      BY <1>2, <2>2
    <3> QED BY <3>1
  <2> QED BY <1>2, <2>1, <2>2
<1> HIDE DEF From
<1>6. IsInjective(u)
  <2> SUFFICES ASSUME NEW j \in DOMAIN u, NEW k \in DOMAIN u, u[j] = u[k]
               PROVE  j = k
      BY DEF IsInjective
  <2>1. j \in 1..(Len(t) - 1) /\ k \in 1..(Len(t) - 1)
    BY <1>1, <1>2
  <2>2. t[From(j)] = t[From(k)] /\ From(j) \in DOMAIN t /\ From(k) \in DOMAIN t
    BY <1>1, <1>2, <1>3, <2>1
  <2> QED BY <1>4, <2>1, <2>2 DEF IsInjective
<1>7. ASSUME NEW f
      PROVE  Contains(u, f) <=> Contains(t, f) /\ f # t[i]
  <2>1. Contains(u, f) <=> \E j \in 1..(Len(t) - 1) : t[From(j)] = f
    BY <1>1 DEF Contains
  <2>2. ASSUME NEW j \in 1..(Len(t) - 1), t[From(j)] = f
        PROVE  Contains(t, f) /\ f # t[i]
    <3>1. From(j) \in 1..Len(t) /\ From(j) # i
      BY <1>3
    <3>2. t[From(j)] # t[i]
      BY <1>2, <3>1 DEF IsInjective
    <3> QED BY <2>2, <3>1, <3>2 DEF Contains
  <2>3. ASSUME Contains(t, f), f # t[i]
        PROVE  \E j \in 1..(Len(t) - 1) : t[From(j)] = f
    BY <1>5, <2>3 DEF Contains
  <2> QED BY <2>1, <2>2, <2>3
<1> QED BY <1>1, <1>6, <1>7 DEF u

LEMMA Events ==
    /\ \A v \in Version : Created(v) \in Event /\ Activated(v) \in Event
    /\ \A v, w : (Created(v) = Created(w) => v = w) /\ (Activated(v) = Activated(w) => v = w)
    /\ \A v, w : Created(v) # Activated(w)
  BY DEF Created, Activated, Event

LEMMA Known ==
    /\ \A v : v \in Versions <=> v \in Version /\ Contains(timeline, Created(v))
    /\ \A v : v \in WasActive <=> v \in Versions /\ Contains(timeline, Activated(v))
  BY DEF Versions, WasActive

\* What a step may make of the timeline: no version and no activation is forgotten.
Kept ==
    /\ timeline' \in Seq(Event) /\ IsInjective(timeline')
    /\ Versions \subseteq Versions' /\ WasActive \subseteq WasActive'

LEMMA NothingCreated ==
    ASSUME TypeOK, UNCHANGED timeline
    PROVE  Kept /\ Versions' = Versions /\ WasActive' = WasActive
  BY DEF TypeOK, Kept, Versions, WasActive, Created, Activated, Contains

LEMMA CreateKeeps ==
    ASSUME TypeOK, NEW v \in Version, CreateVersion(v)
    PROVE  Kept /\ v \in Versions'
<1>0. timeline \in Seq(Event) /\ IsInjective(timeline)
  BY DEF TypeOK
<1>1. CASE v \in Versions
  <2>1. UNCHANGED timeline
    BY <1>1 DEF CreateVersion
  <2> QED BY <1>1, <2>1, NothingCreated
<1>2. CASE v \notin Versions
  <2>1. timeline' = Append(timeline, Created(v)) /\ ~Contains(timeline, Created(v))
    BY <1>2, Known DEF CreateVersion
  <2>2. /\ timeline' \in Seq(Event) /\ IsInjective(timeline')
        /\ \A f : Contains(timeline', f) <=> Contains(timeline, f) \/ f = Created(v)
    BY <1>0, <2>1, AppendedEvent, Events
  <2>3. Versions \subseteq Versions' /\ v \in Versions'
    BY <2>2 DEF Versions
  <2>4. WasActive \subseteq WasActive'
    BY <2>2, <2>3 DEF WasActive
  <2> QED BY <2>2, <2>3, <2>4 DEF Kept
<1> QED BY <1>1, <1>2

LEMMA ActivateKeeps ==
    ASSUME TypeOK, NEW v \in Versions, timeline' = ActivatedLast(v)
    PROVE  Kept /\ v \in WasActive'
<1> DEFINE now == Activated(v)
<1>0. timeline \in Seq(Event) /\ IsInjective(timeline) /\ v \in Version /\ now \in Event
  BY Known, Events DEF TypeOK
<1>1. PICK rest \in Seq(Event) :
        /\ IsInjective(rest) /\ timeline' = Append(rest, now)
        /\ \A f : Contains(rest, f) <=> Contains(timeline, f) /\ f # now
  <2>1. CASE v \in WasActive
    <3>1. Contains(timeline, now)
      BY <2>1, Known
    <3>2. DOMAIN timeline = 1..Len(timeline)
      BY <1>0, LenProperties
    <3>3. Position(now) \in 1..Len(timeline) /\ timeline[Position(now)] = now
      BY <3>1, <3>2 DEF Contains, Position
    <3> DEFINE rest == RemoveAt(timeline, Position(now))
    <3>4. /\ rest \in Seq(Event) /\ IsInjective(rest)
          /\ \A f : Contains(rest, f) <=> Contains(timeline, f) /\ f # now
      BY <1>0, <3>3, RemovedEvent
    <3>5. timeline' = Append(rest, now)
      BY <2>1 DEF ActivatedLast
    <3> QED BY <3>4, <3>5
  <2>2. CASE v \notin WasActive
    <3>1. ~Contains(timeline, now) /\ timeline' = Append(timeline, now)
      BY <2>2, Known DEF ActivatedLast
    <3> QED BY <1>0, <3>1
  <2> QED BY <2>1, <2>2
<1>2. /\ timeline' \in Seq(Event) /\ IsInjective(timeline')
      /\ \A f : Contains(timeline', f) <=> Contains(rest, f) \/ f = now
  BY <1>0, <1>1, AppendedEvent
<1>3. \A f : Contains(timeline', f) <=> Contains(timeline, f) \/ f = now
  BY <1>1, <1>2
<1> HIDE DEF now
<1>4. Versions \subseteq Versions'
  BY <1>3 DEF Versions
<1>5. WasActive \subseteq WasActive' /\ v \in WasActive'
  <2>1. v \in Versions'
    BY <1>4
  <2>2. Contains(timeline', Activated(v))
    BY <1>3 DEF now
  <2> QED BY <1>3, <1>4, <2>1, <2>2 DEF WasActive
<1> QED BY <1>2, <1>4, <1>5 DEF Kept

-----------------------------------------------------------------------------
\* Sessions

\* Ready, and Cleared, in the state a step leads to, of a record that is known before it.
ReadyAfter(s) ==
    /\ s.at = "mark" => \E v \in Versions' : Contains(v, s.edit)
    /\ s.for = "retire" => s.index >= 1
    /\ (s.at = "create" /\ s.for # "approve") => s.index \in DOMAIN InsightsOf(s.base)

EvaluatedAfter(version, live) ==
    \E own, base \in records' :
        /\ own.playbook /\ own.version = version
        /\ own.suite = base.suite /\ own.failed \subseteq base.failed
        /\ base.playbook = (live # {}) /\ base.version = InsightsOf(live)

ClearedAfter(m) ==
    /\ m.candidate \in Versions' /\ m.live \subseteq WasActive'
    /\ m.rollback => m.candidate \in WasActive'
    /\ m.at \in {"clear", "lock", "set"} => m.candidate \in WasActive' \/ EvaluatedAfter(m.candidate, m.live)

LEMMA AwayIsTyped == Away \in Session
<1>1. (CHOOSE p \in Insights : TRUE) \in Insights
  BY PlaybookAssumption
<1> QED BY <1>1 DEF Away, Session

LEMMA IdleIsTyped == Idle \in Command
<1>1. NoPlaybook \in Version
  <2>1. NoPlaybook \in Seq(Insights) /\ Len(NoPlaybook) = 0
    BY EmptySeq DEF NoPlaybook
  <2>2. Len(NoPlaybook) <= MaxInsights
    BY <2>1, PlaybookAssumption
  <2> QED BY <2>1, <2>2, VersionIsShort
<1> QED BY <1>1 DEF Idle, Command

LEMMA InsightsTyped ==
    ASSUME NEW base \in SUBSET Version
    PROVE  InsightsOf(base) \in Version
<1>1. <<>> \in Version
  BY IdleIsTyped DEF Idle, Command, NoPlaybook
<1> QED BY <1>1 DEF InsightsOf

\* The change of a base that was read is a list of insights, and no longer than a version but
\* when it approves one.
LEMMA ChangedTyped ==
    ASSUME TypeOK, SessionInv, NEW r \in Reviewers, session[r].at = "create"
    PROVE  /\ Changed(r) \in Seq(Insights)
           /\ session[r].for = "approve" => Contains(Changed(r), session[r].edit)
<1> DEFINE s == session[r]
           insights == InsightsOf(s.base)
<1>0. s \in Session
  BY DEF TypeOK
<1>1. insights \in Seq(Insights) /\ s.edit \in Insights
  BY <1>0, InsightsTyped, VersionIsShort DEF Session
<1>2. CASE s.for = "approve"
  <2>1. Changed(r) = Append(insights, s.edit)
    BY <1>2 DEF Changed
  <2>2. /\ Append(insights, s.edit) \in Seq(Insights)
        /\ Len(Append(insights, s.edit)) = Len(insights) + 1 /\ Len(insights) \in Nat
        /\ Append(insights, s.edit)[Len(insights) + 1] = s.edit
    BY <1>1, AppendProperties, LenProperties
  <2>3. Len(insights) + 1 \in 1..Len(Append(insights, s.edit))
    BY <2>2
  <2> QED BY <2>1, <2>2, <2>3 DEF Contains
<1>3. CASE s.for # "approve"
  <2>1. s.index \in DOMAIN insights
    BY <1>3 DEF SessionInv, Ready
  <2>2. s.index \in 1..Len(insights)
    BY <1>1, <2>1, LenProperties
  <2>3. Changed(r) = RemoveAt(insights, s.index)
    BY <1>3 DEF Changed
  <2> QED BY <1>1, <1>3, <2>2, <2>3, RemoveAtGives
<1> QED BY <1>2, <1>3

LEMMA MakesAVersion ==
    ASSUME TypeOK, SessionInv, NEW r \in Reviewers, session[r].at = "create",
           ~(Len(Changed(r)) > MaxInsights)
    PROVE  Changed(r) \in Version
<1>1. Changed(r) \in Seq(Insights)
  BY ChangedTyped
<1>2. Len(Changed(r)) \in Nat
  BY <1>1, LenProperties
<1> QED BY <1>1, <1>2, VersionIsShort, PlaybookAssumption

\* What is left to show of a step of a session.
LEMMA ReviewKeeps ==
    ASSUME TypeOK, SessionInv, NEW r \in Reviewers, NEW to \in Session, Goes(r, to), ReadyAfter(to),
           Kept, UNCHANGED <<gateVars, serverVars>>,
           proposals' \in [Proposed -> {"none", "pending", "approved", "rejected"}],
           text' \in [Proposed -> Insights]
    PROVE  TypeOK' /\ SessionInv'
<1>1. session' \in [Reviewers -> Session] /\ session'[r] = to
      /\ \A q \in Reviewers : q # r => session'[q] = session[q]
  BY DEF TypeOK, Goes
<1>2. TypeOK'
  BY <1>1 DEF TypeOK, Kept, gateVars, serverVars
<1>3. ASSUME NEW q \in Reviewers
      PROVE  Ready(session[q])'
  <2>1. ReadyAfter(session'[q])
    <3>1. CASE q = r
      BY <1>1, <3>1
    <3>2. CASE q # r
      BY <1>1, <3>2 DEF SessionInv, Ready, ReadyAfter, Kept
    <3> QED BY <3>1, <3>2
  <2> QED BY <2>1 DEF Ready, ReadyAfter, InsightsOf
<1> QED BY <1>2, <1>3 DEF SessionInv

\* A session's steps that change nothing but where it is.
LEMMA ReviewMoves ==
    ASSUME TypeOK, SessionInv, NEW r \in Reviewers, NEW to \in Session, Goes(r, to), to.at # "mark",
           to.for = "retire" => to.index >= 1,
           (to.at = "create" /\ to.for # "approve") => to.index \in DOMAIN InsightsOf(to.base),
           UNCHANGED <<proposals, text, timeline, gateVars, serverVars>>
    PROVE  TypeOK' /\ SessionInv'
<1>1. Kept
  BY NothingCreated
<1>2. ReadyAfter(to)
  BY DEF ReadyAfter
<1>3. /\ proposals' \in [Proposed -> {"none", "pending", "approved", "rejected"}]
      /\ text' \in [Proposed -> Insights]
      /\ UNCHANGED <<gateVars, serverVars>>
  BY DEF TypeOK
<1> QED BY <1>1, <1>2, <1>3, ReviewKeeps

\* Every step of a session keeps the types and what SessionInv says of it.
LEMMA ReviewStep ==
    ASSUME TypeOK, SessionInv, NEW r \in Reviewers, Review(r)
    PROVE  TypeOK' /\ SessionInv'
<1> DEFINE s == session[r]
           Statuses == {"none", "pending", "approved", "rejected"}
<1>0. /\ s \in Session /\ Ready(s) /\ Away \in Session /\ Pending \subseteq Insights
      /\ proposals \in [Proposed -> Statuses] /\ text \in [Proposed -> Insights]
  BY AwayIsTyped, PlaybookAssumption DEF TypeOK, SessionInv, Pending
<1>1. CASE Open(r)
  <2> DEFINE to == [Away EXCEPT !.at = "ask", !.todo = Pending]
  <2>1. to \in Session /\ to.at = "ask" /\ to.for = "show"
    BY <1>0 DEF Away, Session
  <2>2. Goes(r, to) /\ UNCHANGED <<proposals, text, timeline, gateVars, serverVars>>
    BY <1>1 DEF Open
  <2> HIDE DEF to
  <2> QED BY <2>1, <2>2, ReviewMoves
<1>2. CASE Skip(r)
  <2>1. PICK p \in s.todo : /\ s.at = "ask" /\ Goes(r, [s EXCEPT !.todo = @ \ {p}])
                            /\ UNCHANGED <<proposals, text, timeline, gateVars, serverVars>>
    BY <1>2 DEF Skip
  <2> DEFINE to == [s EXCEPT !.todo = @ \ {p}]
  <2>2. to \in Session /\ to.at = "ask" /\ to.for = s.for /\ to.index = s.index
    BY <1>0, <2>1 DEF Session
  <2>3. to.for = "retire" => to.index >= 1
    BY <1>0, <2>2 DEF Ready
  <2> HIDE DEF to
  <2>4. Goes(r, to)
    BY <2>1 DEF to
  <2> QED BY <2>1, <2>2, <2>3, <2>4, ReviewMoves
<1>3. CASE Answer(r)
  <2>1. PICK p \in s.todo \cap Pending :
          /\ s.at = "ask"
          /\ \/ \E edit \in Insights :
                  Goes(r, [s EXCEPT !.at = "active", !.for = "approve", !.on = p, !.edit = edit])
             \/ Goes(r, [s EXCEPT !.at = "reject", !.on = p])
          /\ UNCHANGED <<proposals, text, timeline, gateVars, serverVars>>
    BY <1>3 DEF Answer
  <2>2. ASSUME NEW edit \in Insights,
               Goes(r, [s EXCEPT !.at = "active", !.for = "approve", !.on = p, !.edit = edit])
        PROVE  TypeOK' /\ SessionInv'
    <3> DEFINE to == [s EXCEPT !.at = "active", !.for = "approve", !.on = p, !.edit = edit]
    <3>1. to \in Session /\ to.at = "active" /\ to.for = "approve"
      BY <1>0, <2>1 DEF Session
    <3>2. Goes(r, to)
      BY <2>2
    <3> HIDE DEF to
    <3> QED BY <2>1, <3>1, <3>2, ReviewMoves
  <2>3. ASSUME Goes(r, [s EXCEPT !.at = "reject", !.on = p])
        PROVE  TypeOK' /\ SessionInv'
    <3> DEFINE to == [s EXCEPT !.at = "reject", !.on = p]
    <3>1. to \in Session /\ to.at = "reject" /\ to.for = s.for /\ to.index = s.index
      BY <1>0, <2>1 DEF Session
    <3>2. to.for = "retire" => to.index >= 1
      BY <1>0, <3>1 DEF Ready
    <3>3. Goes(r, to)
      BY <2>3
    <3> HIDE DEF to
    <3> QED BY <2>1, <3>1, <3>2, <3>3, ReviewMoves
  <2> QED BY <2>1, <2>2, <2>3
<1>4. ASSUME Asked(r), UNCHANGED <<timeline, gateVars, serverVars>>,
             proposals' \in [Proposed -> Statuses], text' \in [Proposed -> Insights]
      PROVE  TypeOK' /\ SessionInv'
  <2> DEFINE to == [Away EXCEPT !.at = "ask", !.todo = s.todo \ {s.on}]
  <2>1. to \in Session /\ to.at = "ask" /\ to.for = "show"
    BY <1>0 DEF Away, Session
  <2>2. Goes(r, to)
    BY <1>4 DEF Asked
  <2> HIDE DEF to
  <2>3. Kept
    BY <1>4, NothingCreated
  <2>4. ReadyAfter(to)
    BY <2>1 DEF ReadyAfter
  <2>5. UNCHANGED <<gateVars, serverVars>>
    BY <1>4
  <2> QED BY <1>4, <2>1, <2>2, <2>3, <2>4, <2>5, ReviewKeeps
<1>5. CASE Reject(r)
  <2>1. proposals' \in [Proposed -> Statuses] /\ text' \in [Proposed -> Insights]
    BY <1>0, <1>5 DEF Reject
  <2> QED BY <1>4, <1>5, <2>1 DEF Reject
<1>6. CASE Answered(r)
  <2> DEFINE to == [Away EXCEPT !.at = "active"]
  <2>1. to \in Session /\ to.at = "active" /\ to.for = "show"
    BY <1>0 DEF Away, Session
  <2>2. Goes(r, to) /\ UNCHANGED <<proposals, text, timeline, gateVars, serverVars>>
    BY <1>6 DEF Answered
  <2> HIDE DEF to
  <2> QED BY <2>1, <2>2, ReviewMoves
<1>7. CASE ReadActive(r)
  <2> DEFINE to == [s EXCEPT !.at = "newest", !.saw = active, !.older = OlderThan(active)]
  <2>0. active \in SUBSET Version /\ OlderThan(active) \in SUBSET Version
    BY Known DEF TypeOK, OlderThan
  <2>1. to \in Session /\ to.at = "newest" /\ to.for = s.for /\ to.index = s.index
    BY <1>0, <2>0 DEF Session
  <2>2. Goes(r, to) /\ UNCHANGED <<proposals, text, timeline, gateVars, serverVars>>
    BY <1>7 DEF ReadActive
  <2>3. to.for = "retire" => to.index >= 1
    BY <1>0, <2>1 DEF Ready
  <2> HIDE DEF to
  <2> QED BY <2>1, <2>2, <2>3, ReviewMoves
<1>8. CASE ReadNewest(r)
  <2> DEFINE base == ReviewBase(s.saw, s.older)
             insights == InsightsOf(base)
             creates == [s EXCEPT !.at = "create", !.saw = {}, !.older = {}, !.base = base]
  <2>1. base \in SUBSET Version
    BY <1>0, Known DEF Session, ReviewBase, Newest
  <2>2. insights \in Seq(Insights) /\ Len(insights) \in Nat /\ DOMAIN insights = 1..Len(insights)
    BY <2>1, InsightsTyped, VersionIsShort, LenProperties
  <2>3. creates \in Session /\ creates.at = "create" /\ creates.for = s.for
        /\ creates.index = s.index /\ creates.base = base
    BY <1>0, <2>1 DEF Session
  <2>4. UNCHANGED <<proposals, text, timeline, gateVars, serverVars>>
    BY <1>8 DEF ReadNewest
  <2>5. \/ s.for = "approve" /\ Goes(r, creates)
        \/ Goes(r, [Away EXCEPT !.at = "shown", !.base = base])
        \/ Goes(r, Away)
        \/ s.for = "retire" /\ s.index <= Len(insights) /\ Goes(r, creates)
        \/ Goes(r, [Away EXCEPT !.at = "active"])
    BY <1>8 DEF ReadNewest
  <2>6. ASSUME s.for = "approve", Goes(r, creates)
        PROVE  TypeOK' /\ SessionInv'
    <3> HIDE DEF creates
    <3> QED BY <2>3, <2>4, <2>6, ReviewMoves
  <2>7. ASSUME s.for = "retire", s.index <= Len(insights), Goes(r, creates)
        PROVE  TypeOK' /\ SessionInv'
    <3>1. s.index >= 1 /\ s.index \in Nat
      BY <1>0, <2>7 DEF Ready, Session
    <3>2. s.index \in DOMAIN insights
      BY <2>2, <2>7, <3>1
    <3> HIDE DEF creates
    <3>3. creates.index \in DOMAIN InsightsOf(creates.base)
      BY <2>3, <3>2
    <3>4. creates.index >= 1
      BY <2>3, <3>1
    <3> QED BY <2>3, <2>4, <2>7, <3>3, <3>4, ReviewMoves
  <2>8. ASSUME Goes(r, [Away EXCEPT !.at = "shown", !.base = base])
        PROVE  TypeOK' /\ SessionInv'
    <3> DEFINE to == [Away EXCEPT !.at = "shown", !.base = base]
    <3> HIDE DEF base
    <3>1. to \in Session /\ to.at = "shown" /\ to.for = "show"
      BY <1>0, <2>1 DEF Away, Session
    <3>2. Goes(r, to)
      BY <2>8
    <3> HIDE DEF to
    <3> QED BY <2>4, <3>1, <3>2, ReviewMoves
  <2>9. ASSUME Goes(r, Away)
        PROVE  TypeOK' /\ SessionInv'
    <3>1. Away.at = "away" /\ Away.for = "show"
      BY DEF Away
    <3> QED BY <1>0, <2>4, <2>9, <3>1, ReviewMoves
  <2>10. ASSUME Goes(r, [Away EXCEPT !.at = "active"])
         PROVE  TypeOK' /\ SessionInv'
    <3> DEFINE to == [Away EXCEPT !.at = "active"]
    <3>1. to \in Session /\ to.at = "active" /\ to.for = "show"
      BY <1>0 DEF Away, Session
    <3>2. Goes(r, to)
      BY <2>10
    <3> HIDE DEF to
    <3> QED BY <2>4, <3>1, <3>2, ReviewMoves
  <2> QED BY <2>5, <2>6, <2>7, <2>8, <2>9, <2>10
<1>9. CASE Retire(r)
  <2>1. /\ s.at = "shown" /\ UNCHANGED <<proposals, text, timeline, gateVars, serverVars>>
        /\ \/ \E i \in DOMAIN InsightsOf(s.base) :
                Goes(r, [s EXCEPT !.at = "active", !.for = "retire", !.index = i])
           \/ Goes(r, [Away EXCEPT !.at = "active"])
    BY <1>9 DEF Retire
  <2>2. ASSUME NEW i \in DOMAIN InsightsOf(s.base),
               Goes(r, [s EXCEPT !.at = "active", !.for = "retire", !.index = i])
        PROVE  TypeOK' /\ SessionInv'
    <3>1. InsightsOf(s.base) \in Seq(Insights)
      BY <1>0, InsightsTyped, VersionIsShort DEF Session
    <3>2. i \in Nat /\ i >= 1
      BY <2>2, <3>1, LenProperties
    <3> DEFINE to == [s EXCEPT !.at = "active", !.for = "retire", !.index = i]
    <3>3. to \in Session /\ to.at = "active" /\ to.index = i
      BY <1>0, <3>2 DEF Session
    <3>4. Goes(r, to)
      BY <2>2
    <3> HIDE DEF to
    <3> QED BY <2>1, <3>2, <3>3, <3>4, ReviewMoves
  <2>3. ASSUME Goes(r, [Away EXCEPT !.at = "active"])
        PROVE  TypeOK' /\ SessionInv'
    <3> DEFINE to == [Away EXCEPT !.at = "active"]
    <3>1. to \in Session /\ to.at = "active" /\ to.for = "show"
      BY <1>0 DEF Away, Session
    <3>2. Goes(r, to)
      BY <2>3
    <3> HIDE DEF to
    <3> QED BY <2>1, <3>1, <3>2, ReviewMoves
  <2> QED BY <2>1, <2>2, <2>3
<1>10. CASE Close(r) \/ Quit(r)
  <2>1. Goes(r, Away) /\ UNCHANGED <<proposals, text, timeline, gateVars, serverVars>>
    BY <1>10 DEF Close, Quit
  <2>2. Away.at = "away" /\ Away.for = "show"
    BY DEF Away
  <2> QED BY <1>0, <2>1, <2>2, ReviewMoves
<1>11. CASE Create(r)
  <2>0. s.at = "create"
    BY <1>11 DEF Create
  <2>1. CASE playbookRefusal(Changed(r))
    <3> DEFINE to == [Away EXCEPT !.at = "ask", !.todo = s.todo]
    <3>1. to \in Session /\ to.at = "ask" /\ to.for = "show"
      BY <1>0 DEF Away, Session
    <3>2. Goes(r, to) /\ UNCHANGED <<proposals, text, timeline, gateVars, serverVars>>
      BY <1>11, <2>1 DEF Create
    <3> HIDE DEF to
    <3> QED BY <3>1, <3>2, ReviewMoves
  <2>2. CASE ~playbookRefusal(Changed(r))
    <3> DEFINE marks == [s EXCEPT !.at = "mark", !.base = {}]
               shows == [s EXCEPT !.at = "active", !.for = "show"]
               to == IF s.for = "approve" THEN marks ELSE shows
    <3>1. CreateVersion(Changed(r)) /\ UNCHANGED <<proposals, text, gateVars, serverVars>>
          /\ Goes(r, to)
      BY <1>11, <2>2 DEF Create
    <3>2. Changed(r) \in Version
      BY <2>0, <2>2, MakesAVersion DEF playbookRefusal
    <3>3. Kept /\ Changed(r) \in Versions'
      BY <3>1, <3>2, CreateKeeps
    <3>4. /\ marks \in Session /\ marks.at = "mark" /\ marks.for = s.for /\ marks.edit = s.edit
          /\ shows \in Session /\ shows.at = "active" /\ shows.for = "show"
      BY <1>0 DEF Session
    <3> HIDE DEF marks, shows
    <3>5. to \in Session
      BY <3>4
    <3>6. ReadyAfter(to)
      <4>1. CASE s.for = "approve"
        <5>1. Contains(Changed(r), s.edit)
          BY <2>0, <4>1, ChangedTyped
        <5>2. \E v \in Versions' : Contains(v, s.edit)
          BY <3>3, <5>1
        <5> QED BY <3>4, <4>1, <5>2 DEF ReadyAfter
      <4>2. CASE s.for # "approve"
        BY <3>4, <4>2 DEF ReadyAfter
      <4> QED BY <4>1, <4>2
    <3>7. /\ proposals' \in [Proposed -> Statuses] /\ text' \in [Proposed -> Insights]
          /\ UNCHANGED <<gateVars, serverVars>>
      BY <1>0, <3>1
    <3> HIDE DEF to
    <3> QED BY <3>1, <3>3, <3>5, <3>6, <3>7, ReviewKeeps
  <2> QED BY <2>1, <2>2
<1>12. CASE MarkApproved(r)
  <2>1. proposals' \in [Proposed -> Statuses] /\ text' \in [Proposed -> Insights]
    BY <1>0, <1>12 DEF MarkApproved, Session
  <2> QED BY <1>4, <1>12, <2>1 DEF MarkApproved
<1> QED
  BY <1>1, <1>2, <1>3, <1>5, <1>6, <1>7, <1>8, <1>9, <1>10, <1>11, <1>12 DEF Review

\* A session's step leaves the versions there are, and the gate and the servers alone.
LEMMA ReviewKept ==
    ASSUME TypeOK, SessionInv, NEW r \in Reviewers, Review(r)
    PROVE  Kept /\ UNCHANGED <<gateVars, serverVars>>
<1>1. CASE Create(r)
  <2>1. session[r].at = "create" /\ UNCHANGED <<gateVars, serverVars>>
    BY <1>1 DEF Create
  <2>2. CASE playbookRefusal(Changed(r))
    <3>1. UNCHANGED timeline
      BY <1>1, <2>2 DEF Create
    <3> QED BY <2>1, <3>1, NothingCreated
  <2>3. CASE ~playbookRefusal(Changed(r))
    <3>1. CreateVersion(Changed(r))
      BY <1>1, <2>3 DEF Create
    <3>2. Changed(r) \in Version
      BY <2>1, <2>3, MakesAVersion DEF playbookRefusal
    <3> QED BY <2>1, <3>1, <3>2, CreateKeeps
  <2> QED BY <2>2, <2>3
<1>2. CASE ~Create(r)
  <2>1. UNCHANGED timeline /\ UNCHANGED <<gateVars, serverVars>>
    BY <1>2 DEF Review, Open, Skip, Answer, Reject, Answered, ReadActive, ReadNewest, Retire, Close,
                MarkApproved, Quit
  <2> QED BY <2>1, NothingCreated
<1> QED BY <1>1, <1>2

LEMMA ApprovedStays ==
    ASSUME ApprovedIsInAVersion, Kept, UNCHANGED text,
           \A p \in Proposed : proposals'[p] = "approved" => proposals[p] = "approved"
    PROVE  ApprovedIsInAVersion'
  BY DEF ApprovedIsInAVersion, Kept

\* A proposal is marked approved, with its text, when a version has that text.
LEMMA ReviewApproves ==
    ASSUME TypeOK, SessionInv, ApprovedIsInAVersion, NEW r \in Reviewers, Review(r)
    PROVE  ApprovedIsInAVersion'
<1> DEFINE s == session[r]
<1>0. Kept
  BY ReviewKept
<1>1. CASE MarkApproved(r)
  <2>1. PICK v \in Versions : Contains(v, s.edit)
    BY <1>1 DEF MarkApproved, SessionInv, Ready
  <2>2. /\ proposals' = [proposals EXCEPT ![s.on] = "approved"]
        /\ text' = [text EXCEPT ![s.on] = s.edit]
    BY <1>1 DEF MarkApproved
  <2>3. ASSUME NEW p \in Proposed, proposals'[p] = "approved"
        PROVE  \E w \in Versions' : Contains(w, text'[p])
    <3>1. CASE p = s.on
      <4>1. text'[p] = s.edit /\ v \in Versions'
        BY <1>0, <2>2, <3>1 DEF TypeOK, Kept
      <4> QED BY <2>1, <4>1
    <3>2. CASE p # s.on
      <4>1. text'[p] = text[p] /\ proposals[p] = "approved"
        BY <2>2, <2>3, <3>2 DEF TypeOK
      <4>2. PICK w \in Versions : Contains(w, text[p])
        BY <4>1 DEF ApprovedIsInAVersion
      <4> QED BY <1>0, <4>1, <4>2 DEF Kept
    <3> QED BY <3>1, <3>2
  <2> QED BY <2>3 DEF ApprovedIsInAVersion
<1>2. CASE Reject(r)
  <2>1. UNCHANGED text /\ \A p \in Proposed : proposals'[p] = "approved" => proposals[p] = "approved"
    BY <1>2 DEF Reject, TypeOK
  <2> QED BY <1>0, <2>1, ApprovedStays
<1>3. CASE ~MarkApproved(r) /\ ~Reject(r)
  <2>1. UNCHANGED <<proposals, text>>
    BY <1>3 DEF Review, Open, Skip, Answer, Answered, ReadActive, ReadNewest, Retire, Close, Create, Quit
  <2> QED BY <1>0, <2>1, ApprovedStays
<1> QED BY <1>1, <1>2, <1>3

-----------------------------------------------------------------------------
\* Commands

\* What the eval's step does to the records it leaves: a record it replaces is kept, as one
\* that is no longer the newest.
Retained ==
    \A k \in records : \E n \in records' :
        /\ n.playbook = k.playbook /\ n.version = k.version
        /\ n.suite = k.suite /\ n.failed = k.failed

LEMMA EvaluatedStays ==
    ASSUME Retained, NEW v, NEW live, Evaluated(v, live)
    PROVE  EvaluatedAfter(v, live)
<1>1. PICK own \in records, base \in records :
        /\ own.playbook /\ own.version = v
        /\ own.suite = base.suite /\ own.failed \subseteq base.failed
        /\ base.playbook = (live # {}) /\ base.version = InsightsOf(live)
  BY DEF Evaluated
<1>2. PICK n \in records' : /\ n.playbook = own.playbook /\ n.version = own.version
                            /\ n.suite = own.suite /\ n.failed = own.failed
  BY DEF Retained
<1>3. PICK b \in records' : /\ b.playbook = base.playbook /\ b.version = base.version
                            /\ b.suite = base.suite /\ b.failed = base.failed
  BY DEF Retained
<1> QED BY <1>1, <1>2, <1>3 DEF EvaluatedAfter

LEMMA ClearedStays ==
    ASSUME Kept, Retained, NEW m, Cleared(m)
    PROVE  ClearedAfter(m)
  BY EvaluatedStays DEF Cleared, ClearedAfter, Kept

\* A command that does not step.
LEMMA CommandsStay ==
    ASSUME CommandInv, Kept, Retained, UNCHANGED command
    PROVE  CommandInv'
<1> SUFFICES ASSUME NEW c \in Commands, command'[c].at # "away"
             PROVE  Cleared(command[c])'
    BY DEF CommandInv
<1>1. ClearedAfter(command'[c])
  BY ClearedStays DEF CommandInv
<1> QED BY <1>1 DEF Cleared, ClearedAfter, Evaluated, EvaluatedAfter, InsightsOf

\* What is left to show of a command's step.
LEMMA CommandKeeps ==
    ASSUME TypeOK, IsFiniteSet(active), CommandInv, NEW c \in Commands, NEW to \in Command, Moves(c, to),
           to.at # "away" => ClearedAfter(to),
           Kept, commands' \in 0..MaxCommands,
           active' \subseteq WasActive', IsFiniteSet(active'), Cardinality(active') <= 1,
           UNCHANGED <<reviewVars, suite, records, evals, serverVars>>
    PROVE  TypeOK' /\ IsFiniteSet(active)' /\ CommandInv'
<1>1. command' \in [Commands -> Command] /\ command'[c] = to
      /\ \A d \in Commands : d # c => command'[d] = command[d]
  BY DEF TypeOK, Moves
<1>2. TypeOK'
  BY <1>1 DEF TypeOK, Kept, reviewVars, serverVars
<1>3. Retained
  BY DEF Retained
<1>4. ASSUME NEW d \in Commands, command'[d].at # "away"
      PROVE  Cleared(command[d])'
  <2>1. ClearedAfter(command'[d])
    <3>1. CASE d = c
      BY <1>1, <1>4, <3>1
    <3>2. CASE d # c
      BY <1>1, <1>3, <1>4, <3>2, ClearedStays DEF CommandInv
    <3> QED BY <3>1, <3>2
  <2> QED BY <2>1 DEF Cleared, ClearedAfter, Evaluated, EvaluatedAfter, InsightsOf
<1> QED BY <1>2, <1>4 DEF CommandInv

\* A command's steps that change nothing but where it is.
LEMMA CommandMoves ==
    ASSUME TypeOK, IsFiniteSet(active), CommandInv, NEW c \in Commands, NEW to \in Command, Moves(c, to),
           to.at # "away" => Cleared(to), commands' \in 0..MaxCommands,
           UNCHANGED <<reviewVars, timeline, active, suite, records, evals, serverVars>>
    PROVE  TypeOK' /\ IsFiniteSet(active)' /\ CommandInv'
<1>1. Kept /\ Retained
  BY NothingCreated DEF Retained
<1>2. to.at # "away" => ClearedAfter(to)
  BY <1>1, ClearedStays
<1>3. active' \subseteq WasActive' /\ IsFiniteSet(active') /\ Cardinality(active') <= 1
  BY <1>1 DEF Kept, TypeOK
<1>4. UNCHANGED <<reviewVars, suite, records, evals, serverVars>>
  OBVIOUS
<1> QED BY <1>1, <1>2, <1>3, <1>4, CommandKeeps

\* The gate lets a version through that was live before, or is evaluated.
LEMMA GatePasses ==
    ASSUME TypeOK, CommandInv, NEW c \in Commands, command[c].at # "away", ActivationGate(c)
    PROVE  command[c].candidate \in WasActive \/ Evaluated(command[c].candidate, command[c].live)
<1> DEFINE m == command[c]
<1>0. Cleared(m)
  BY DEF CommandInv
<1>1. CASE m.rollback
  BY <1>0, <1>1 DEF Cleared
<1>2. CASE ~m.rollback
  <2>1. PICK k \in Latest({m.candidate}), b \in Latest(m.live) : k.failed \subseteq b.failed
    BY <1>2 DEF ActivationGate, NoRegression
  <2>2. InsightsOf({m.candidate}) = m.candidate
    BY DEF InsightsOf
  <2>3. k \in records /\ k.suite = suite /\ k.version = m.candidate /\ k.playbook
    BY <2>1, <2>2 DEF Latest
  <2>4. b \in records /\ b.suite = suite /\ b.version = InsightsOf(m.live) /\ b.playbook = (m.live # {})
    BY <2>1 DEF Latest
  <2> QED BY <2>1, <2>3, <2>4 DEF Evaluated
<1> QED BY <1>1, <1>2

\* Every step of a command keeps the types, one live version among them, and what CommandInv
\* says of it.
LEMMA CommandStep ==
    ASSUME TypeOK, IsFiniteSet(active), CommandInv, NEW c \in Commands, Activate(c)
    PROVE  TypeOK' /\ IsFiniteSet(active)' /\ CommandInv' /\ Kept
<1> DEFINE m == command[c]
<1>0. /\ m \in Command /\ Idle \in Command /\ (m.at # "away" => Cleared(m))
      /\ commands \in 0..MaxCommands /\ active \in SUBSET Version /\ MaxCommands \in Nat
  BY IdleIsTyped, Known, PlaybookAssumption DEF TypeOK, CommandInv
<1>1. CASE FindVersion(c)
  <2>1. PICK v \in Versions \ active :
          /\ Moves(c, [Idle EXCEPT !.at = "active", !.candidate = v, !.rollback = v \in WasActive])
          /\ commands < MaxCommands /\ commands' = commands + 1
          /\ UNCHANGED <<reviewVars, timeline, active, suite, records, evals, serverVars>>
    BY <1>1 DEF FindVersion
  <2>2. v \in Version
    BY Known
  <2>8. PICK before \in BOOLEAN : before = (v \in WasActive)
    <3>1. (v \in WasActive) \in BOOLEAN
      OBVIOUS
    <3> QED BY <3>1, Zenon
  <2> DEFINE to == [Idle EXCEPT !.at = "active", !.candidate = v, !.rollback = before]
  <2>3. /\ to \in Command /\ to.at = "active" /\ to.candidate = v /\ to.live = {}
        /\ to.rollback = before
    BY <1>0, <2>2 DEF Idle, Command
  <2>4. Moves(c, to)
    BY <2>1, <2>8
  <2>5. commands' \in 0..MaxCommands
    BY <1>0, <2>1
  <2> HIDE DEF to
  <2>6. Cleared(to)
    BY <2>1, <2>3, <2>8 DEF Cleared
  <2>7. UNCHANGED <<reviewVars, timeline, active, suite, records, evals, serverVars>>
    BY <2>1
  <2> QED BY <2>3, <2>4, <2>5, <2>6, <2>7, CommandMoves, NothingCreated
<1>2. ASSUME NEW to \in Command, Moves(c, to), to.at # "away" => Cleared(to),
             UNCHANGED <<reviewVars, timeline, active, suite, records, commands, evals, serverVars>>
      PROVE  TypeOK' /\ IsFiniteSet(active)' /\ CommandInv' /\ Kept
  <2>1. commands' \in 0..MaxCommands
    BY <1>0, <1>2
  <2>2. UNCHANGED <<reviewVars, timeline, active, suite, records, evals, serverVars>>
    BY <1>2
  <2>3. Kept
    BY <1>2, NothingCreated
  <2> QED BY <1>2, <2>1, <2>2, <2>3, CommandMoves
<1>3. CASE ReadLive(c)
  <2> DEFINE to == [m EXCEPT !.at = "records", !.live = active]
  <2>1. /\ to \in Command /\ to.at = "records" /\ to.candidate = m.candidate /\ to.live = active
        /\ to.rollback = m.rollback
    BY <1>0 DEF Command
  <2>2. /\ m.at = "active" /\ Moves(c, to)
        /\ UNCHANGED <<reviewVars, timeline, active, suite, records, commands, evals, serverVars>>
    BY <1>3 DEF ReadLive
  <2> HIDE DEF to
  <2>3. Cleared(to)
    BY <1>0, <2>1, <2>2 DEF Cleared, TypeOK
  <2> QED BY <1>2, <2>1, <2>2, <2>3
<1>4. ASSUME Ends(c),
             UNCHANGED <<reviewVars, timeline, active, suite, records, commands, evals, serverVars>>
      PROVE  TypeOK' /\ IsFiniteSet(active)' /\ CommandInv' /\ Kept
  <2>1. Idle.at = "away" /\ Moves(c, Idle)
    BY <1>4 DEF Idle, Ends
  <2> QED BY <1>0, <1>2, <1>4, <2>1
<1>5. CASE Gate(c)
  <2>1. m.at = "records"
        /\ UNCHANGED <<reviewVars, timeline, active, suite, records, commands, evals, serverVars>>
    BY <1>5 DEF Gate
  <2>2. CASE ActivationGate(c)
    <3> DEFINE to == [m EXCEPT !.at = "clear"]
    <3>1. /\ to \in Command /\ to.at = "clear" /\ to.candidate = m.candidate /\ to.live = m.live
          /\ to.rollback = m.rollback
      BY <1>0 DEF Command
    <3>2. Moves(c, to)
      BY <1>5, <2>2 DEF Gate
    <3> HIDE DEF to
    <3>3. m.candidate \in WasActive \/ Evaluated(m.candidate, m.live)
      BY <2>1, <2>2, GatePasses
    <3>4. Cleared(to)
      BY <1>0, <2>1, <3>1, <3>3 DEF Cleared
    <3> QED BY <1>2, <2>1, <3>1, <3>2, <3>4
  <2>3. CASE ~ActivationGate(c)
    <3>1. Ends(c)
      BY <1>5, <2>3 DEF Gate
    <3> QED BY <1>4, <2>1, <3>1
  <2> QED BY <2>2, <2>3
<1>6. CASE Clear(c)
  <2> DEFINE to == [m EXCEPT !.at = "lock", !.held = active]
  <2>1. /\ to \in Command /\ to.at = "lock" /\ to.candidate = m.candidate /\ to.live = m.live
        /\ to.rollback = m.rollback
    BY <1>0 DEF Command
  <2>2. /\ m.at = "clear" /\ Moves(c, to)
        /\ UNCHANGED <<reviewVars, timeline, active, suite, records, commands, evals, serverVars>>
    BY <1>6 DEF Clear
  <2> HIDE DEF to
  <2>3. Cleared(to)
    BY <1>0, <2>1, <2>2 DEF Cleared
  <2> QED BY <1>2, <2>1, <2>2, <2>3
<1>7. CASE Lock(c)
  <2> DEFINE to == [m EXCEPT !.at = "set", !.held = @ \cap active]
  <2>1. /\ to \in Command /\ to.at = "set" /\ to.candidate = m.candidate /\ to.live = m.live
        /\ to.rollback = m.rollback
    BY <1>0 DEF Command
  <2>2. /\ m.at = "lock" /\ Moves(c, to)
        /\ UNCHANGED <<reviewVars, timeline, active, suite, records, commands, evals, serverVars>>
    BY <1>7 DEF Lock
  <2> HIDE DEF to
  <2>3. Cleared(to)
    BY <1>0, <2>1, <2>2 DEF Cleared
  <2> QED BY <1>2, <2>1, <2>2, <2>3
<1>8. CASE Set(c)
  <2> DEFINE rows == (active \ m.held) \union {m.candidate}
  <2>1. /\ m.at = "set" /\ Ends(c)
        /\ UNCHANGED <<reviewVars, suite, records, commands, evals, serverVars>>
    BY <1>8 DEF Set
  <2>2. CASE Cardinality(rows) > 1
    <3>1. UNCHANGED <<timeline, active>>
      BY <1>8, <2>2 DEF Set
    <3> QED BY <1>4, <2>1, <3>1
  <2>3. CASE ~(Cardinality(rows) > 1)
    <3>1. active' = rows /\ timeline' = ActivatedLast(m.candidate)
      BY <1>8, <2>3 DEF Set
    <3>2. IsFiniteSet(rows) /\ Cardinality(rows) \in Nat
      <4>1. IsFiniteSet(active \ m.held)
        BY FS_Subset
      <4>2. IsFiniteSet(rows)
        BY <4>1, FS_AddElement
      <4> QED BY <4>2, FS_CardinalityType
    <3>3. m.candidate \in Versions
      BY <1>0, <2>1 DEF Cleared
    <3>4. Kept /\ m.candidate \in WasActive'
      BY <3>1, <3>3, ActivateKeeps
    <3>5. active' \subseteq WasActive' /\ IsFiniteSet(active') /\ Cardinality(active') <= 1
      BY <2>3, <3>1, <3>2, <3>4 DEF TypeOK, Kept
    <3>6. Moves(c, Idle) /\ Idle.at = "away"
      BY <2>1 DEF Ends, Idle
    <3>7. commands' \in 0..MaxCommands /\ UNCHANGED <<reviewVars, suite, records, evals, serverVars>>
      BY <1>0, <2>1
    <3> HIDE DEF rows
    <3> QED BY <1>0, <3>4, <3>5, <3>6, <3>7, CommandKeeps
  <2> QED BY <2>2, <2>3
<1>9. CASE Abort(c)
  BY <1>4, <1>9 DEF Abort
<1> QED BY <1>1, <1>3, <1>5, <1>6, <1>7, <1>8, <1>9 DEF Activate

-----------------------------------------------------------------------------
\* The other steps

LEMMA ProposeStep ==
    ASSUME TypeOK, NEW p \in Proposed, Propose(p)
    PROVE  TypeOK'
<1>1. Kept
  BY NothingCreated DEF Propose
<1>2. proposals' \in [Proposed -> {"none", "pending", "approved", "rejected"}]
      /\ UNCHANGED <<text, session, gateVars, serverVars>>
  BY DEF TypeOK, Propose
<1> QED BY <1>1, <1>2 DEF TypeOK, Kept, gateVars, serverVars

LEMMA EvalStep ==
    ASSUME TypeOK, Eval
    PROVE  TypeOK' /\ Retained
<1>1. PICK failed \in SUBSET Cases, base \in {{}} \union {{v} : v \in Versions} :
        LET k == [version |-> InsightsOf(base), playbook |-> base # {}, suite |-> suite,
                  failed |-> failed, newest |-> TRUE]
            Replaces(old) == [k EXCEPT !.failed = old.failed] = old
        IN /\ evals < MaxEvals /\ evals' = evals + 1
           /\ records' = {IF Replaces(old) THEN [old EXCEPT !.newest = FALSE] ELSE old : old \in records}
                          \union {k}
           /\ UNCHANGED <<reviewVars, timeline, active, suite, command, commands, serverVars>>
  BY DEF Eval
<1> DEFINE k == [version |-> InsightsOf(base), playbook |-> base # {}, suite |-> suite,
                 failed |-> failed, newest |-> TRUE]
           Replaces(old) == [k EXCEPT !.failed = old.failed] = old
           After(old) == IF Replaces(old) THEN [old EXCEPT !.newest = FALSE] ELSE old
<1>2. records' = {After(old) : old \in records} \union {k}
  BY <1>1
<1>3. k \in Record
  <2>1. base \in SUBSET Version
    BY Known
  <2> QED BY <2>1, InsightsTyped DEF TypeOK, Record
<1>4. ASSUME NEW old \in Record
      PROVE  /\ After(old) \in Record
             /\ After(old).playbook = old.playbook /\ After(old).version = old.version
             /\ After(old).suite = old.suite /\ After(old).failed = old.failed
  <2>1. [old EXCEPT !.newest = FALSE] \in Record
    BY DEF Record
  <2> QED BY <2>1 DEF Record
<1> HIDE DEF After, k
<1>5. records \subseteq Record
  BY DEF TypeOK
<1>6. records' \subseteq Record /\ Retained
  BY <1>2, <1>3, <1>4, <1>5 DEF Retained
<1>7. evals' \in 0..MaxEvals
  BY <1>1, PlaybookAssumption DEF TypeOK
<1>8. UNCHANGED <<reviewVars, timeline, active, suite, command, commands, serverVars>>
  BY <1>1
<1>9. Kept
  BY <1>8, NothingCreated
<1> QED BY <1>6, <1>7, <1>8, <1>9 DEF TypeOK, Kept, reviewVars, serverVars

LEMMA SuiteStep ==
    ASSUME TypeOK, ChangeSuite
    PROVE  TypeOK'
<1>1. Kept
  BY NothingCreated DEF ChangeSuite
<1>2. suite' \in 1..MaxSuites
  BY PlaybookAssumption DEF TypeOK, ChangeSuite
<1>3. UNCHANGED <<reviewVars, active, records, command, commands, evals, serverVars>>
  BY DEF ChangeSuite
<1> QED BY <1>1, <1>2, <1>3 DEF TypeOK, Kept, reviewVars, serverVars

LEMMA ServeStep ==
    ASSUME TypeOK, NEW s \in Servers, Serve(s)
    PROVE  TypeOK'
<1>0. UNCHANGED <<reviewVars, timeline, gateVars>>
  BY DEF Serve, Refresh, Refreshed, RefreshFails, Restart
<1>1. Kept
  BY <1>0, NothingCreated
<1>2. active \in SUBSET Version
  BY Known DEF TypeOK
<1>3. /\ loaded' \in [Servers -> SUBSET Version] /\ reads' \in [Servers -> SUBSET SUBSET Version]
      /\ faults' \in 0..MaxFaults
  <2>0. MaxFaults \in Nat
    BY PlaybookAssumption
  <2>1. CASE Refresh(s)
    BY <1>2, <2>1 DEF TypeOK, Refresh
  <2>2. CASE Refreshed(s)
    BY <2>2 DEF TypeOK, Refreshed
  <2>3. CASE RefreshFails(s)
    BY <2>0, <2>3 DEF TypeOK, RefreshFails
  <2>4. CASE Restart(s)
    BY <2>0, <2>4 DEF TypeOK, Restart
  <2> QED BY <2>1, <2>2, <2>3, <2>4 DEF Serve
<1> QED BY <1>0, <1>1, <1>3 DEF TypeOK, Kept, reviewVars, gateVars

-----------------------------------------------------------------------------
\* The initial states

\* What was live before has left its versions, each created and then activated.
LEMMA StartedTimeline ==
    ASSUME NEW start \in Starts, NEW failed, Started(start, failed)
    PROVE  /\ start \in Seq(Version) /\ timeline \in Seq(Event) /\ IsInjective(timeline)
           /\ \A i \in 1..Len(start) : start[i] \in WasActive
<1>1. start \in Seq(Version) /\ IsInjective(start)
  BY PlaybookAssumption DEF Version
<1>2. Len(start) \in Nat /\ DOMAIN start = 1..Len(start) /\ \A i \in 1..Len(start) : start[i] \in Version
  BY <1>1, LenProperties, ElementOfSeq
<1> DEFINE n == Len(start)
           event(i) == IF i % 2 = 1 THEN Created(start[(i + 1) \div 2]) ELSE Activated(start[i \div 2])
<1>3. timeline = [i \in 1..(2 * n) |-> event(i)]
  BY DEF Started
<1>4. ASSUME NEW i \in 1..(2 * n)
      PROVE  /\ i % 2 = 1 => (i + 1) \div 2 \in 1..n /\ i = 2 * ((i + 1) \div 2) - 1
             /\ i % 2 # 1 => i \div 2 \in 1..n /\ i = 2 * (i \div 2)
  BY <1>2
<1>5. \A i \in 1..(2 * n) : event(i) \in Event
  BY <1>2, <1>4, Events
<1>6. timeline \in [1..(2 * n) -> Event] /\ 2 * n \in Nat
  BY <1>2, <1>3, <1>5
<1>7. timeline \in Seq(Event) /\ DOMAIN timeline = 1..(2 * n) /\ Len(timeline) = 2 * n
  BY <1>6, IsASeq, LenProperties
<1>8. IsInjective(timeline)
  <2> SUFFICES ASSUME NEW i \in 1..(2 * n), NEW j \in 1..(2 * n), event(i) = event(j)
               PROVE  i = j
      BY <1>3, <1>7 DEF IsInjective
  <2>1. CASE i % 2 = 1 /\ j % 2 = 1
    <3>1. start[(i + 1) \div 2] = start[(j + 1) \div 2]
      BY <2>1, Events
    <3>2. (i + 1) \div 2 = (j + 1) \div 2
      BY <1>1, <1>2, <1>4, <2>1, <3>1 DEF IsInjective
    <3> QED BY <1>4, <2>1, <3>2
  <2>2. CASE i % 2 # 1 /\ j % 2 # 1
    <3>1. start[i \div 2] = start[j \div 2]
      BY <2>2, Events
    <3>2. i \div 2 = j \div 2
      BY <1>1, <1>2, <1>4, <2>2, <3>1 DEF IsInjective
    <3> QED BY <1>4, <2>2, <3>2
  <2>3. CASE (i % 2 = 1) # (j % 2 = 1)
    BY <2>3, Events
  <2> QED BY <2>1, <2>2, <2>3
<1>9. ASSUME NEW i \in 1..n
      PROVE  start[i] \in WasActive
  <2>1. /\ 2 * i \in 1..(2 * n) /\ (2 * i) % 2 # 1 /\ (2 * i) \div 2 = i
        /\ 2 * i - 1 \in 1..(2 * n) /\ (2 * i - 1) % 2 = 1 /\ ((2 * i - 1) + 1) \div 2 = i
    BY <1>2
  <2>2. timeline[2 * i] = Activated(start[i]) /\ timeline[2 * i - 1] = Created(start[i])
    BY <1>3, <2>1
  <2>3. Contains(timeline, Activated(start[i])) /\ Contains(timeline, Created(start[i]))
    BY <1>7, <2>1, <2>2 DEF Contains
  <2> QED BY <1>2, <2>3, Known
<1> QED BY <1>1, <1>7, <1>8, <1>9

LEMMA InitTypes ==
    ASSUME Init
    PROVE  TypeOK /\ IsFiniteSet(active)
<1>1. PICK start \in Starts, failed \in SUBSET Cases : Started(start, failed)
  BY DEF Init
<1>2. /\ start \in Seq(Version) /\ timeline \in Seq(Event) /\ IsInjective(timeline)
      /\ \A i \in 1..Len(start) : start[i] \in WasActive
  BY <1>1, StartedTimeline
<1>3. Len(start) \in Nat /\ DOMAIN start = 1..Len(start) /\ \A i \in 1..Len(start) : start[i] \in Version
  BY <1>2, LenProperties, ElementOfSeq
<1>4. active \subseteq WasActive /\ Cardinality(active) <= 1 /\ IsFiniteSet(active)
  <2>1. CASE start = <<>>
    BY <1>1, <2>1, FS_EmptySet DEF Started
  <2>2. CASE start # <<>>
    <3>1. Len(start) \in 1..Len(start)
      BY <1>2, <1>3, <2>2, EmptySeq
    <3>2. active = {start[Len(start)]}
      BY <1>1, <2>2 DEF Started, Last
    <3>3. IsFiniteSet(active) /\ Cardinality(active) = 1
      BY <3>2, FS_Singleton
    <3> QED BY <1>2, <3>1, <3>2, <3>3
  <2> QED BY <2>1, <2>2
<1>5. suite \in 1..MaxSuites /\ 1 \in 1..MaxSuites /\ evals \in 0..MaxEvals
  BY PlaybookAssumption DEF Init
<1>6. NoPlaybook \in Version
  BY IdleIsTyped DEF Idle, Command
<1>7. Range(start) \subseteq Version
  BY <1>3 DEF Range
<1>8. records \subseteq Record
  <2>1. ASSUME NEW v \in Version, NEW playbook \in BOOLEAN
        PROVE  [version |-> v, playbook |-> playbook, suite |-> 1, failed |-> failed, newest |-> TRUE]
               \in Record
    BY <1>5 DEF Record
  <2>2. records = {[version |-> v, playbook |-> v # NoPlaybook, suite |-> 1, failed |-> failed,
                    newest |-> TRUE] : v \in Range(start) \union {NoPlaybook}}
    BY <1>1 DEF Started
  <2> QED BY <1>6, <1>7, <2>1, <2>2
<1>9. active \in SUBSET Version
  BY <1>4, Known
<1>10. /\ proposals \in [Proposed -> {"none", "pending", "approved", "rejected"}]
       /\ text \in [Proposed -> Insights]
  BY PlaybookAssumption DEF Init
<1>11. session \in [Reviewers -> Session] /\ command \in [Commands -> Command]
  BY AwayIsTyped, IdleIsTyped DEF Init
<1>12. loaded \in [Servers -> SUBSET Version] /\ reads \in [Servers -> SUBSET SUBSET Version]
  BY <1>1, <1>9 DEF Init, Started
<1>13. commands \in 0..MaxCommands /\ faults \in 0..MaxFaults
  BY PlaybookAssumption DEF Init
<1> QED BY <1>2, <1>4, <1>5, <1>8, <1>10, <1>11, <1>12, <1>13 DEF TypeOK

-----------------------------------------------------------------------------
\* Theorems

LEMMA PlaybookStep ==
    ASSUME PlaybookInv, [Next]_vars
    PROVE  PlaybookInv'
<1>0. TypeOK /\ IsFiniteSet(active) /\ SessionInv /\ CommandInv /\ ApprovedIsInAVersion
  BY DEF PlaybookInv
\* A step that touches no session, command or version, and approves nothing.
<1>1. ASSUME TypeOK', Retained, UNCHANGED <<text, session, timeline, active, command>>,
             \A p \in Proposed : proposals'[p] = "approved" => proposals[p] = "approved"
      PROVE  PlaybookInv'
  <2>1. Kept /\ Versions' = Versions
    BY <1>0, <1>1, NothingCreated
  <2>2. SessionInv'
    BY <1>0, <1>1, <2>1 DEF SessionInv, Ready, InsightsOf
  <2>3. CommandInv'
    BY <1>0, <1>1, <2>1, CommandsStay
  <2>4. ApprovedIsInAVersion'
    BY <1>0, <1>1, <2>1, ApprovedStays
  <2> QED BY <1>0, <1>1, <2>2, <2>3, <2>4 DEF PlaybookInv
<1>2. ASSUME NEW p \in Proposed, Propose(p)
      PROVE  PlaybookInv'
  <2>1. /\ Retained /\ UNCHANGED <<text, session, timeline, active, command>>
        /\ \A q \in Proposed : proposals'[q] = "approved" => proposals[q] = "approved"
    BY <1>0, <1>2 DEF Propose, Retained, gateVars, TypeOK
  <2> QED BY <1>0, <1>1, <1>2, <2>1, ProposeStep
<1>3. ASSUME NEW r \in Reviewers, Review(r)
      PROVE  PlaybookInv'
  <2>1. TypeOK' /\ SessionInv'
    BY <1>0, <1>3, ReviewStep
  <2>2. Kept /\ UNCHANGED <<gateVars, serverVars>>
    BY <1>0, <1>3, ReviewKept
  <2>3. Retained
    BY <2>2 DEF Retained, gateVars
  <2>4. CommandInv'
    BY <1>0, <2>2, <2>3, CommandsStay DEF gateVars
  <2>5. ApprovedIsInAVersion'
    BY <1>0, <1>3, ReviewApproves
  <2>6. IsFiniteSet(active)'
    BY <1>0, <2>2 DEF gateVars
  <2> QED BY <2>1, <2>4, <2>5, <2>6 DEF PlaybookInv
<1>4. ASSUME NEW c \in Commands, Activate(c)
      PROVE  PlaybookInv'
  <2>1. TypeOK' /\ IsFiniteSet(active)' /\ CommandInv' /\ Kept
    BY <1>0, <1>4, CommandStep
  <2>2. UNCHANGED <<proposals, text, session>>
    BY <1>4 DEF Activate, FindVersion, ReadLive, Gate, Clear, Lock, Set, Abort, reviewVars
  <2>3. SessionInv'
    BY <1>0, <2>1, <2>2 DEF SessionInv, Ready, Kept, InsightsOf
  <2>4. ApprovedIsInAVersion'
    BY <1>0, <2>1, <2>2, ApprovedStays
  <2> QED BY <2>1, <2>3, <2>4 DEF PlaybookInv
<1>5. ASSUME NEW s \in Servers, Serve(s)
      PROVE  PlaybookInv'
  <2>1. UNCHANGED <<reviewVars, timeline, gateVars>>
    BY <1>5 DEF Serve, Refresh, Refreshed, RefreshFails, Restart
  <2>2. Retained /\ UNCHANGED <<proposals, text, session, timeline, active, command>>
    BY <2>1 DEF Retained, reviewVars, gateVars
  <2> QED BY <1>0, <1>1, <1>5, <2>2, ServeStep
<1>6. CASE Eval
  <2>1. TypeOK' /\ Retained
    BY <1>0, <1>6, EvalStep
  <2>2. UNCHANGED <<proposals, text, session, timeline, active, command>>
    BY <1>6 DEF Eval, reviewVars
  <2> QED BY <1>1, <2>1, <2>2
<1>7. CASE ChangeSuite
  <2>1. Retained /\ UNCHANGED <<proposals, text, session, timeline, active, command>>
    BY <1>7 DEF ChangeSuite, Retained, reviewVars
  <2> QED BY <1>0, <1>1, <1>7, <2>1, SuiteStep
<1>8. CASE UNCHANGED vars
  <2>1. UNCHANGED <<reviewVars, timeline, gateVars, serverVars>>
    BY <1>8 DEF vars
  <2>2. Kept /\ Retained /\ UNCHANGED <<proposals, text, session, timeline, active, command>>
    BY <1>0, <2>1, NothingCreated DEF Retained, reviewVars, gateVars
  <2>3. TypeOK'
    BY <1>0, <2>1, <2>2 DEF TypeOK, Kept, reviewVars, gateVars, serverVars
  <2> QED BY <1>1, <2>2, <2>3
<1> QED BY <1>2, <1>3, <1>4, <1>5, <1>6, <1>7, <1>8 DEF Next

LEMMA PlaybookInvariant == Spec => []PlaybookInv
<1>1. Init => PlaybookInv
  <2> SUFFICES ASSUME Init
               PROVE  PlaybookInv
      OBVIOUS
  <2>1. TypeOK /\ IsFiniteSet(active)
    BY InitTypes
  <2>2. SessionInv
    BY DEF Init, SessionInv, Ready, Away
  <2>3. CommandInv
    BY DEF Init, CommandInv, Idle
  <2>4. ApprovedIsInAVersion
    BY DEF Init, ApprovedIsInAVersion
  <2> QED BY <2>1, <2>2, <2>3, <2>4 DEF PlaybookInv
<1>2. PlaybookInv /\ [Next]_vars => PlaybookInv'
  BY PlaybookStep
<1> QED BY <1>1, <1>2, PTL DEF Spec

\* One version of a tenant's playbook is live at a time, and was made live by an activation,
\* whatever commands run at once (db/schema.ts, the partial unique index; store.ts, activate).
THEOREM OneIsLive == Spec => [](Cardinality(active) <= 1 /\ active \subseteq WasActive)
<1>1. PlaybookInv => Cardinality(active) <= 1 /\ active \subseteq WasActive
  BY DEF PlaybookInv, TypeOK
<1> QED BY <1>1, PlaybookInvariant, PTL

\* An approval is never lost: the text a proposal was approved with is in a version of the
\* playbook, for any number of sessions, cut off anywhere (store.ts, approve, createVersion).
THEOREM ApprovalsKept == Spec => []ApprovedIsInAVersion
<1>1. PlaybookInv => ApprovedIsInAVersion
  BY DEF PlaybookInv
<1> QED BY <1>1, PlaybookInvariant, PTL

\* No version goes live for the first time without an evaluation against what its command read as
\* live, for any number of commands, sessions, evals and suites at once (gate.ts, activationGate;
\* cli.ts, activate).
THEOREM LiveWasEvaluated == Spec => GoesLiveEvaluated
<1>1. PlaybookInv /\ [Next]_vars =>
          \A v \in active' \ WasActive : \E c \in Commands :
              /\ command[c].at = "set" /\ command[c].candidate = v
              /\ command[c].live \subseteq WasActive /\ Evaluated(v, command[c].live)
  <2> SUFFICES ASSUME PlaybookInv, [Next]_vars, NEW v \in active' \ WasActive
               PROVE  \E c \in Commands :
                         /\ command[c].at = "set" /\ command[c].candidate = v
                         /\ command[c].live \subseteq WasActive /\ Evaluated(v, command[c].live)
      OBVIOUS
  <2>0. active \subseteq WasActive
    BY DEF PlaybookInv, TypeOK
  <2>1. PICK c \in Commands : Set(c)
    <3>1. active' # active
      BY <2>0
    <3>2. \E c \in Commands : Activate(c)
      <4>1. ASSUME NEW r \in Reviewers, Review(r)
            PROVE  UNCHANGED active
        BY <4>1, ReviewKept DEF PlaybookInv, gateVars
      <4>2. ASSUME NEW s \in Servers, Serve(s)
            PROVE  UNCHANGED active
        BY <4>2 DEF Serve, Refresh, Refreshed, RefreshFails, Restart, gateVars
      <4>3. ASSUME NEW p \in Proposed, Propose(p)
            PROVE  UNCHANGED active
        BY <4>3 DEF Propose, gateVars
      <4>4. Eval \/ ChangeSuite \/ UNCHANGED vars => UNCHANGED active
        BY DEF Eval, ChangeSuite, vars, gateVars
      <4> QED BY <3>1, <4>1, <4>2, <4>3, <4>4 DEF Next
    <3> QED BY <3>1, <3>2 DEF Activate, FindVersion, ReadLive, Gate, Clear, Lock, Abort
  <2>2. active' = (active \ command[c].held) \union {command[c].candidate}
    BY <2>0, <2>1 DEF Set
  <2>3. v = command[c].candidate
    BY <2>0, <2>2
  <2>4. Cleared(command[c]) /\ command[c].at = "set"
    BY <2>1 DEF PlaybookInv, CommandInv, Set
  <2> QED BY <2>3, <2>4 DEF Cleared
<1>2. PlaybookInv /\ [Next]_vars =>
          [\A v \in active' \ WasActive : \E c \in Commands : \E own, base \in records :
              /\ command[c].at = "set" /\ command[c].candidate = v /\ command[c].live \subseteq WasActive
              /\ own.playbook /\ own.version = v /\ own.suite = base.suite /\ own.failed \subseteq base.failed
              /\ base.playbook = (command[c].live # {}) /\ base.version = InsightsOf(command[c].live)]_vars
  BY <1>1 DEF Evaluated
<1> QED BY <1>2, PlaybookInvariant, PTL DEF Spec, GoesLiveEvaluated

=============================================================================
