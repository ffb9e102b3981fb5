------------------------------ MODULE Service ------------------------------
(***************************************************************************)
(* The requests one process answers while its configuration is reloaded    *)
(* under it (src/server.ts, src/config/loader.ts): the load that reads the *)
(* tenant's files one after another while a person edits them, the rules   *)
(* and tools a request is given when it arrives, the prompt the runner     *)
(* builds from the configuration and the playbook it finds later           *)
(* (src/agent/runner.ts), the guards that run before the model             *)
(* (src/turn/prechecks.ts, src/conversation/budget.ts) and the media a     *)
(* message may be (src/turn/media.ts, src/media/).                         *)
(*                                                                         *)
(* The order of one contact's turns is in ContactTurns and the model's     *)
(* loop in AgentTurn: here a request's turn runs beside any other.         *)
(***************************************************************************)
EXTENDS TenantConfig

CONSTANTS Env,                 \* what EnvSchema parsed
          Plugins,             \* the kinds of tool the plugins add: "write", "read"
          Start,               \* the tenant's files as the process starts
          Edits,               \* <<file, content>> a person may save
          Versions,            \* playbook versions that go live
          Slots,               \* requests at once
          Routes,              \* "message" and "plugin"
          Transcribes, Splits, SeesImages,  \* a transcription model, ffmpeg, a model that sees
          HasFallback,         \* messages.mediaFallback is written
          RateLimit, DailyCap  \* turns of the contact an hour; spend of the tenant a day

ASSUME ServiceAssumption ==
    /\ EnvSchema(Env) /\ Plugins \subseteq {"write", "read"}
    /\ {Transcribes, Splits, SeesImages, HasFallback} \subseteq BOOLEAN
    /\ {RateLimit, DailyCap} \subseteq Nat \ {0} /\ IsFiniteSet(Slots)
    /\ Routes \subseteq {"message", "plugin"} /\ Absent \notin Versions \union {"none"}

VARIABLES files,      \* the files on disk
          reading,    \* the load in progress: how many files it has read, and what they said
          config,     \* ConfigStore.current
          playbook,   \* what PlaybookSource.current() gives
          cached,     \* PromptedRunner.cached, by whether the built-in tools are offered
          request,    \* the requests
          count,      \* the contact's turns this hour (rate_counters)
          spent,      \* the tenant's spend today (budget_counters)
          left        \* what the environment may still do: the bounds of the instance

configVars == <<files, reading, config>>
promptVars == <<playbook, cached>>
moneyVars == <<count, spent>>
serviceVars == <<configVars, promptVars, request, moneyVars, left>>

-----------------------------------------------------------------------------
\* Loading (a load is one synchronous call: nothing of the process runs meanwhile)

NotReading == [read |-> 0, got |-> Start]
Reading == reading # NotReading

\* loadTenantConfig reads the files in this order, the persona's text last.
LoadOrder == <<"catalog", "rules", "tools", "overrides", "persona">>

\* The load throws at the file it reads, given those it read before.
Refused(file, got, content) ==
    CASE file = "tools" -> \/ RefusesTools(content, Env, got.catalog)
                           \/ RefusesRules(got.rules, loadTools(content))
      [] file = "persona" -> content = Absent
      [] file = "overrides" -> content = Broken
      [] OTHER -> content \in {Absent, Broken}

Loaded(got) == [got EXCEPT !.tools = loadTools(@), !.overrides = loadPromptOverrides(@)]

\* What a file may hold in this instance.
Contents(file) == {Start[file]} \union {edit[2] : edit \in {e \in Edits : e[1] = file}}

\* The process starts with files the load accepts; a list is finite.
ASSUME FilesAssumption ==
    /\ Start = [catalog |-> Start.catalog, rules |-> Start.rules, tools |-> Start.tools,
                overrides |-> Start.overrides, persona |-> Start.persona]
    /\ \A i \in DOMAIN LoadOrder : ~Refused(LoadOrder[i], Start, Start[LoadOrder[i]])
    /\ \A tools \in Contents("tools") \ {Absent, Broken} :
         \A f \in Entries(tools.fields) : IsFiniteSet(f.values)

\* SIGHUP: ConfigStore.reload; a missing persona ends it before it reads a file.
Reload ==
    /\ ~Reading /\ left.loads > 0
    /\ left' = [left EXCEPT !.loads = @ - 1]
    /\ reading' = IF files.persona = Absent THEN NotReading ELSE [read |-> 1, got |-> Start]
    /\ UNCHANGED <<files, config, promptVars, request, moneyVars>>

\* A file is read as it is now; one that is refused leaves the configuration as it was.
ReadFile ==
    /\ Reading
    /\ LET file == LoadOrder[reading.read]
           got == [reading.got EXCEPT ![file] = files[file]]
           last == reading.read = Len(LoadOrder)
       IN  IF Refused(file, got, files[file])
           THEN reading' = NotReading /\ config' = config
           ELSE /\ reading' = IF last THEN NotReading ELSE [read |-> reading.read + 1, got |-> got]
                /\ config' = IF last THEN Loaded(got) ELSE config
    /\ UNCHANGED <<files, promptVars, request, moneyVars, left>>

\* A person saves a file, at any moment.
Edit ==
    /\ left.edits > 0
    /\ \E edit \in Edits :
         /\ files[edit[1]] # edit[2]
         /\ files' = [files EXCEPT ![edit[1]] = edit[2]]
    /\ left' = [left EXCEPT !.edits = @ - 1]
    /\ UNCHANGED <<reading, config, promptVars, request, moneyVars>>

\* The playbook is followed by a process that had a learning block when it started.
Follows == Loaded(Start).rules.learning

PlaybookMoves ==
    /\ Follows /\ ~Reading /\ left.versions > 0
    /\ left' = [left EXCEPT !.versions = @ - 1]
    /\ \E v \in Versions : v # playbook /\ playbook' = v
    /\ UNCHANGED <<configVars, cached, request, moneyVars>>

-----------------------------------------------------------------------------
\* The prompt

Unbuilt == [config |-> Absent, loaded |-> Absent, playbook |-> Absent, tools |-> NO_TOOLS,
            prompt |-> Absent]

BuiltFor(offered) ==
    LET tools == IF offered THEN config.tools ELSE NO_TOOLS
    IN  [config |-> config, loaded |-> playbook, playbook |-> renderPlaybook(config, playbook),
         tools |-> tools, prompt |-> buildSystemPrompt(config, tools, Plugins)]

\* Mutant: a version that goes live does not rebuild the prompt.
FreshForConfig(entry) == entry.config = config

\* The entry was built from this configuration and this version.
Fresh(entry) == entry.config = config /\ entry.loaded = playbook

\* PromptedRunner.current: the entry a turn with or without the built-in tools runs under.
current(offered) == IF Fresh(cached[offered]) THEN cached[offered] ELSE BuiltFor(offered)

-----------------------------------------------------------------------------
\* A request up to its turn

\* What a message may be: denied by its words or its conversation's cap, the flow's sentinel, or
\* media.
Media == {"audio", "image", "video", "unsupported"}
Texts == {"plain", "denied", "sentinel"} \union Media

\* "at" is the request's place, "given" the configuration its handler was built from, "over" its
\* hour's limit, "under" what it ran under, "entry" the prompt it ran with, "late" that the race
\* was lost, and "answer" what the caller was sent.
Idle == [at |-> "idle", route |-> "none", auth |-> FALSE, text |-> "none", given |-> Absent,
         over |-> FALSE, under |-> Absent, entry |-> Unbuilt, late |-> FALSE, answer |-> "none"]

At(s, place) == ~Reading /\ request[s].at = place
Updated(r, changes) == [f \in DOMAIN r |-> IF f \in DOMAIN changes THEN changes[f] ELSE r[f]]
Goes(s, changes) == request' = [request EXCEPT ![s] = Updated(@, changes)]

\* Once answered, only the answer and who asked are left of a request.
Answer(s, r, answer) ==
    request' = [request EXCEPT ![s] = [Idle EXCEPT !.at = "answered", !.route = r.route,
                                                   !.auth = r.auth, !.answer = answer]]
Answered(s, answer) == Answer(s, request[s], answer)

\* The error handler: a caller with the secret is handed to a person, if the route renders.
ErrorAnswer(auth, renders) == IF auth /\ renders THEN "handoff" ELSE "error"

\* A plugin's own renderer may throw.
Renders(route) == IF route = "message" THEN {TRUE} ELSE BOOLEAN

\* A caller presents one of the accepted secrets or does not.
isAuthenticated == BOOLEAN

\* What the hooks answer before the turn: load shed, too many requests, no secret, a body or a
\* channel that is not accepted.
Hooked(auth, shed, refused, renders) ==
    CASE shed -> ErrorAnswer(auth, renders)
      [] refused \/ ~auth -> "refused"
      [] OTHER -> "none"

\* The handler is built with the rules and tools of now.
Arrive(s) ==
    /\ At(s, "idle") /\ left.requests > 0
    /\ left' = [left EXCEPT !.requests = @ - 1]
    /\ \E route \in Routes, auth \in isAuthenticated, shed, refused \in BOOLEAN, text \in left.texts :
       \E renders \in Renders(route) :
         LET answer == Hooked(auth, shed, refused, renders)
         IN  IF answer # "none" THEN left.hooked /\ Answer(s, [route |-> route, auth |-> auth], answer)
             ELSE Goes(s, [at |-> IF text = "sentinel" THEN "decided" ELSE "rate",
                           route |-> route, auth |-> auth, text |-> text, given |-> config,
                           answer |-> IF text = "sentinel" THEN "reply" ELSE "none"])
    /\ UNCHANGED <<configVars, promptVars, moneyVars>>

\* checkRateLimit counts the turn, whatever the other guards say.
CheckRateLimit(s) ==
    /\ At(s, "rate")
    /\ count' = count + 1
    /\ Goes(s, [at |-> "budget", over |-> count' > RateLimit])
    /\ UNCHANGED <<configVars, promptVars, spent, left>>

\* No guard denies the turn: its words or its conversation's cap, the contact's hour, the
\* tenant's day.
Allowed(r) == ~r.over /\ r.text # "denied" /\ spent < DailyCap

CheckBudget(s) ==
    /\ At(s, "budget")
    /\ IF ~Allowed(request[s]) THEN Goes(s, [at |-> "decided", answer |-> "handoff"])
       ELSE Goes(s, [at |-> IF request[s].text \in Media THEN "media" ELSE "ready"])
    /\ UNCHANGED <<configVars, promptVars, moneyVars, left>>

-----------------------------------------------------------------------------
\* Media

Failed == [status |-> "failed", cost |-> 0]
Fallback(cost) == [status |-> "fallback", cost |-> cost]
Ready(cost) == [status |-> "ready", cost |-> cost]
Keyword(cost) == [status |-> "keyword", cost |-> cost]

\* MediaResolver.unreadable
Unreadable(kind) ==
    \/ kind = "unsupported"
    \/ kind = "audio" /\ ~Transcribes
    \/ kind = "image" /\ ~SeesImages
    \/ kind = "video" /\ (~Splits \/ ~(SeesImages \/ Transcribes))

\* A download is refused for what it is or how large; so is a URL that is not the media host's.
Fetched == BOOLEAN

\* What a recording may say: nothing, a keyword, or anything else, paid for; or the call fails.
Transcribed == {Fallback(1), Ready(1), Keyword(1), Failed}

\* ffmpeg gives frames and a soundtrack, as the video has them and someone can read them.
Split == {parts \in [frames : BOOLEAN, soundtrack : BOOLEAN] :
            /\ parts.frames => SeesImages
            /\ parts.soundtrack => Transcribes}

\* Each half is read on its own; with frames, a soundtrack that says nothing is no fallback.
OfVideo(parts) ==
    LET said == IF parts.soundtrack THEN Transcribed ELSE {Fallback(0)}
    IN  {IF s.status = "fallback" /\ parts.frames THEN Ready(s.cost) ELSE s : s \in said}

\* MediaResolver.resolve
Resolved(kind) ==
    IF Unreadable(kind) THEN {Fallback(0)}
    ELSE UNION {IF ~fetched THEN {Failed}
                ELSE CASE kind = "audio" -> Transcribed
                       [] kind = "image" -> {Ready(0)}
                       [] OTHER -> {Failed} \union UNION {OfVideo(parts) : parts \in Split} :
                fetched \in Fetched}

\* MediaReader.read: what is paid is spent, then the reply is decided or the model is called.
ReadMedia(s) ==
    /\ At(s, "media")
    /\ \E media \in Resolved(request[s].text) :
         /\ spent' = spent + media.cost
         /\ IF media.status = "ready" THEN Goes(s, [at |-> "ready"])
            ELSE Goes(s, [at |-> "decided",
                          answer |-> IF media.status = "fallback" /\ HasFallback
                                     THEN "reply" ELSE "handoff"])
    /\ UNCHANGED <<configVars, promptVars, count, left>>

-----------------------------------------------------------------------------
\* The model and the answer

\* PromptedRunner.run: the configuration and the playbook of now.
Run(s) ==
    /\ At(s, "ready")
    /\ LET offered == request[s].route = "message"
       IN  /\ Goes(s, [at |-> "model", under |-> <<config, playbook>>, entry |-> current(offered)])
           /\ cached' = [cached EXCEPT ![offered] = current(offered)]
    /\ UNCHANGED <<configVars, playbook, moneyVars, left>>

\* Mutant: what a transcription cost is spent again with the answer.
AnswersForAll(s) ==
    /\ At(s, "model")
    /\ spent' = spent + IF request[s].text \in Media THEN 2 ELSE 1
    /\ Goes(s, [at |-> "decided", answer |-> "reply"])
    /\ UNCHANGED <<configVars, promptVars, count, left>>

\* The turn is settled: its row, then its spend.
Answers(s) ==
    /\ At(s, "model")
    /\ spent' = spent + 1
    /\ Goes(s, [at |-> "decided", answer |-> "reply"])
    /\ UNCHANGED <<configVars, promptVars, count, left>>

\* The provider fails, the turn is aborted or its spend is not written: a handoff, and nothing is
\* recorded as spent.
Fails(s) ==
    /\ At(s, "model")
    /\ Goes(s, [at |-> "decided", answer |-> "handoff"])
    /\ UNCHANGED <<configVars, promptVars, moneyVars, left>>

\* The deadline answers with the holding line, and the turn goes on in the background.
LoseRace(s) ==
    /\ ~Reading /\ request[s].at \in {"media", "ready", "model"} /\ ~request[s].late
    /\ left.races > 0 /\ left' = [left EXCEPT !.races = @ - 1]
    /\ Goes(s, [late |-> TRUE])
    /\ UNCHANGED <<configVars, promptVars, moneyVars>>

\* A statement fails: the error handler answers, unless the response went out.
Throws(s) ==
    /\ ~Reading /\ request[s].at \in {"rate", "budget", "decided"} /\ left.faults > 0
    /\ left' = [left EXCEPT !.faults = @ - 1]
    /\ \E renders \in Renders(request[s].route) :
         Answered(s, IF request[s].late THEN "reply" ELSE ErrorAnswer(request[s].auth, renders))
    /\ UNCHANGED <<configVars, promptVars, moneyVars>>

Respond(s) ==
    /\ At(s, "decided")
    /\ Answered(s, IF request[s].late THEN "reply" ELSE request[s].answer)
    /\ UNCHANGED <<configVars, promptVars, moneyVars, left>>

\* What followed the response is done.
Finish(s) ==
    /\ At(s, "answered")
    /\ request' = [request EXCEPT ![s] = Idle]
    /\ UNCHANGED <<configVars, promptVars, moneyVars, left>>

\* Counters are kept by hour and by day.
NextHour ==
    /\ ~Reading /\ left.hours > 0
    /\ left' = [left EXCEPT !.hours = @ - 1]
    /\ count' = 0 /\ spent' \in {spent, 0}
    /\ UNCHANGED <<configVars, promptVars, request>>

-----------------------------------------------------------------------------

\* When each action may happen is for the process to say: Process.
ServiceInit ==
    /\ files = Start /\ reading = NotReading /\ config = Loaded(Start)
    /\ playbook \in IF Follows THEN Versions ELSE {"none"}
    /\ cached = [offered \in BOOLEAN |-> Unbuilt]
    /\ request = [s \in Slots |-> Idle]
    /\ count = 0 /\ spent = 0

-----------------------------------------------------------------------------
\* Properties

\* What a contact may be offered is in the catalog, a silent link has a page for each offering the
\* contact can have, no tool writes or sends what the service delivers with, and the learning job
\* has a funnel to read its cohort from.
AgreesWithItself(catalog, rules, tools) ==
    LET offerable == UNION {f.values : f \in Marked(tools, "offering")}
        pages == {o.id : o \in {p \in Entries(catalog) : p.url}}
    IN  /\ offerable \union {f.offering : f \in Entries(tools.flows)} \subseteq Ids(catalog) \union {"none"}
        /\ \A f \in OfRole(tools, "payment_link") : f.silent => Ids(catalog) \subseteq pages
        /\ \A f \in Entries(tools.flows) \union Entries(tools.events) :
             f.flowNs \intersect reservedNames(Env) = {}
        /\ \A f \in Entries(tools.fields) \union Entries(tools.notes) :
             f.field \notin {ReplyField, TokenField}
        /\ rules.learning => HasMark(tools, "funnel")

\* Whatever is saved between the reads of a load, the configuration that is served agrees with
\* itself (loader.ts: loadTenantConfig, loadTools), as long as no catalog lists one id twice.
ServedIsSound == AgreesWithItself(config.catalog, config.rules, config.tools)

\* A turn never runs under a prompt of another configuration, another playbook version or another
\* kind of turn than the one it reads as it starts, however reloads, activations and the turns of
\* the other channels come between (runner.ts: PromptedRunner.current keeps one entry per kind).
PromptIsCurrent ==
    \A s \in Slots : request[s].at = "model" =>
        LET under == request[s].under
            tools == IF request[s].route = "message" THEN under[1].tools ELSE NO_TOOLS
        IN  request[s].entry = [config |-> under[1], loaded |-> under[2],
                                playbook |-> renderPlaybook(under[1], under[2]), tools |-> tools,
                                prompt |-> buildSystemPrompt(under[1], tools, Plugins)]

\* The daily cap is read before a turn and spent after it: the turns that read it together go over
\* by what each of them can cost, a transcription and a reply, and never by more (budget.ts:
\* checkBudget, recordSpend).
OvershootBounded == spent < DailyCap + 2 * Cardinality(Slots)
=============================================================================
