------------------------------ MODULE DesktopTabs ------------------------------
(***************************************************************************)
(* The desktop application's tabs and its tray menu, which all edit the    *)
(* same configuration file: ccr-ui's config_tab.rs, router_tab.rs,         *)
(* settings_tab.rs, preset_tab.rs and tray_manager.rs, over settings.rs    *)
(* and provider_kind.rs of ccr-app-core and ccr-preset.                    *)
(*                                                                         *)
(* The Config, Router and Settings tabs each keep a copy of the whole      *)
(* configuration, loaded when the application starts, and Save writes the  *)
(* whole copy.  A preset and the tray menu load, change and save at once.  *)
(* The command line, the server and the user's editor write the file too.  *)
(* How a file is written is ConfigStore's subject: here it is one step.    *)
(*                                                                         *)
(* Everything runs on the application's one thread, a frame at a time; an  *)
(* action is a frame with one click.  A provider is what Providers infers  *)
(* its kind from, with its name, its models and where its kind is from.    *)
(***************************************************************************)
EXTENDS Providers

CONSTANTS
    Files,      \* configurations that somebody else may write
    Texts,      \* pairs of a name and the words of name and URL, to be typed
    Ports,      \* ports that may be typed; 0 stands for none
    Kinds,      \* kinds that may be chosen for a provider
    Profiles,   \* the built-in profiles that may be applied
    Numbers,    \* numbers that may be entered for the limits of a pool
    Names,      \* names and models
    Rank,       \* for each route of these its rank in the order of their texts
    Trim,       \* for each route the one without white space at its ends
    MaxEdits,   \* bound: clicks that change a copy
    MaxWrites   \* bound: writes of the file

Routes == {<<n>> : n \in Names} \cup {<<n, m>> : n, m \in Names}

\* A provider has no name as long as none has been typed.
NoName == ""

Blank == <<NoName>>

ApiKinds == {"OpenAiChat", "OpenAiResponses", "AnthropicMessages", "AnthropicCompatible",
             "OpenRouter", "DeepSeek", "Groq", "Vercel", "Custom"}

ProviderType == [name: Names, words: SUBSET STRING, use: Seq(STRING), api_kind: ApiKinds \cup {"none"},
                 source: {"explicit", "inferred"}, models: Seq(Names)]

CandidateType == [route: Routes, enabled: BOOLEAN, priority: Nat]

LimitsType == [failure_threshold: Nat, ban_seconds: Nat]

\* A configuration has a pool or it has none.
PoolType == {pool \in Seq([enabled: BOOLEAN, limits: LimitsType, candidates: Seq(CandidateType),
                           arranged: BOOLEAN]) : Len(pool) <= 1}

ConfigType == [providers: Seq(ProviderType), pool: PoolType, port: Nat, admin: BOOLEAN]

\* A pool that comes from somewhere else has not been arranged with the buttons.
ASSUME DesktopTabsAssumption ==
    /\ Names \subseteq STRING /\ NoName \in Names
    /\ Rank \in [Routes -> Nat] /\ \A r, s \in Routes : Rank[r] = Rank[s] => r = s
    /\ Trim \in [Routes -> Routes]
    /\ \A c \in Files : c \in ConfigType /\ \A i \in DOMAIN c.pool : ~c.pool[i].arranged
    /\ \A t \in Texts : t[1] \in Names /\ t[2] \subseteq STRING
    /\ Ports \subseteq Nat /\ Numbers \subseteq Nat /\ Kinds \subseteq ApiKinds
    /\ \A p \in Profiles : /\ p.providers \in Seq(ProviderType) /\ p.pool \in PoolType
                          /\ \A i \in DOMAIN p.pool : ~p.pool[i].arranged
    /\ MaxEdits \in Nat /\ MaxWrites \in Nat

Tabs == {"config", "router", "settings"}

VARIABLES
    file,       \* [ok |-> whether it can be read, config |-> what it says]
    copy,       \* each tab's copy of the configuration
    available,  \* Router: selected_available_route, as a sequence of at most one
    selected,   \* Router: selected_pool_index, from 1; 0 for none
    menu,       \* the tray menu's routes, made when the application starts
    fresh,      \* history: whose copy comes from the file as it is now
    edited,     \* history: whose copy the user has changed since
    picked,     \* history: the route that the user has selected in the pool
    edits, writes

tabVars == <<file, copy, available, selected, menu, fresh, edited, picked, edits, writes>>

--------------------------------------------------------------------------------
(***************************************************************************)
(* Configurations.  A route is a provider's name, or its name and a model; *)
(* a pool is in the configuration or it is not.  "arranged" is history: it *)
(* says that the candidates have been put in order with the buttons.       *)
(***************************************************************************)
Provider(name, words, use, kind, source, models) ==
    [name |-> name, words |-> words, use |-> use, api_kind |-> kind, source |-> source, models |-> models]

Candidate(route, enabled, priority) == [route |-> route, enabled |-> enabled, priority |-> priority]

DefaultLimits == [failure_threshold |-> 3, ban_seconds |-> 3600]

Pool(enabled, limits, candidates) ==
    [enabled |-> enabled, limits |-> limits, candidates |-> candidates, arranged |-> FALSE]

DefaultConfig == [providers |-> <<>>, pool |-> <<>>, port |-> 0, admin |-> FALSE]

LoadOrDefault == IF file.ok THEN file.config ELSE DefaultConfig

Candidates(c) == IF c.pool = <<>> THEN <<>> ELSE c.pool[1].candidates

WithCandidates(c, candidates) == [c EXCEPT !.pool[1].candidates = candidates]

RouteBefore(r, s) == Rank[r] < Rank[s]

\* Candidate i comes before candidate j: by priority, and then by name or as they are listed.
Before(k, byName, i, j) ==
    \/ k[i].priority < k[j].priority
    \/ /\ k[i].priority = k[j].priority
       /\ \/ byName /\ RouteBefore(k[i].route, k[j].route)
          \/ (byName => k[i].route = k[j].route) /\ i < j

Place(k, byName, i) == 1 + Cardinality({j \in DOMAIN k : Before(k, byName, j, i)})

\* The candidates in that order.
Arranged(k, byName) == [p \in DOMAIN k |-> k[CHOOSE i \in DOMAIN k : Place(k, byName, i) = p]]

\* sort_by_key: candidates of equal priority stay in the order they are in.
ByPriority(candidates) == Arranged(candidates, FALSE)

\* What is tried of the candidates, in their order: they are sorted as they are written
\* and then trimmed, and those of which nothing is left are passed over.
InUse(candidates) ==
    LET usable == SelectSeq(candidates, LAMBDA k : k.enabled /\ Trim[k.route] # Blank)
    IN  [i \in DOMAIN usable |-> Trim[usable[i].route]]

WithoutRepeats(routes) ==
    FoldLeft(LAMBDA seen, r : IF r \in ToSet(seen) THEN seen ELSE Append(seen, r), <<>>, routes)

\* The routes that the server tries, in its order: active_route_pool_routes.
Served(c) ==
    IF c.pool = <<>> \/ ~c.pool[1].enabled THEN <<>> ELSE WithoutRepeats(InUse(Arranged(Candidates(c), TRUE)))

\* The same in the order in which the Router tab shows the candidates.
Shown(c) == WithoutRepeats(InUse(ByPriority(Candidates(c))))

\* The limits as the server reads them: none of them is 0.
ServedLimits(c) ==
    LET l == IF c.pool = <<>> THEN DefaultLimits ELSE c.pool[1].limits
        positive(n) == IF n = 0 THEN 1 ELSE n
    IN  [failure_threshold |-> positive(l.failure_threshold), ban_seconds |-> positive(l.ban_seconds)]

NormalizeRoutePoolPriorities(candidates) ==
    [i \in DOMAIN candidates |-> [candidates[i] EXCEPT !.priority = i]]

--------------------------------------------------------------------------------
(***************************************************************************)
(* Loading and saving.                                                     *)
(***************************************************************************)
Changed(t, c) ==
    /\ edits < MaxEdits
    /\ copy' = [copy EXCEPT ![t] = c]
    /\ edited' = [edited EXCEPT ![t] = TRUE]
    /\ edits' = edits + 1
    /\ UNCHANGED <<file, menu, fresh, writes>>

Loaded(t, c) ==
    /\ copy' = [copy EXCEPT ![t] = c]
    /\ fresh' = [fresh EXCEPT ![t] = file.ok]
    /\ edited' = [edited EXCEPT ![t] = FALSE]
    /\ UNCHANGED <<file, menu, edits, writes>>

Written(new, writers) ==
    /\ writes < MaxWrites
    /\ file' = new
    /\ fresh' = [t \in Tabs |-> t \in writers]
    /\ edited' = [t \in Tabs |-> edited[t] /\ t \notin writers]
    /\ writes' = writes + 1
    /\ UNCHANGED <<menu, edits>>

Saved(t, c) == Written([ok |-> TRUE, config |-> c], {t})

\* Somebody else writes the file, or leaves it in a state that cannot be read.
SomebodyWrites ==
    /\ \E c \in Files, ok \in BOOLEAN :
          Written([ok |-> ok, config |-> IF ok THEN c ELSE DefaultConfig], {})
    /\ UNCHANGED <<copy, available, selected, picked>>

--------------------------------------------------------------------------------
(***************************************************************************)
(* The Config tab.                                                         *)
(***************************************************************************)
MarkInferred(p) == [p EXCEPT !.api_kind = InferProviderApiKind(p), !.source = "inferred"]

MarkExplicit(p, kind) == [p EXCEPT !.api_kind = kind, !.source = "explicit"]

\* Mutant: every provider is given the kind that its URL suggests.
EnsureInferredForAll(c) ==
    [c EXCEPT !.providers = [i \in DOMAIN @ |-> MarkInferred(@[i])]]

EnsureInferredProviderApiKinds(c) ==
    [c EXCEPT !.providers =
        [i \in DOMAIN @ |-> IF @[i].api_kind = "none" THEN MarkInferred(@[i]) ELSE @[i]]]

ConfigUnchanged == UNCHANGED <<available, selected, picked>>

ConfigSave ==
    LET c == EnsureInferredProviderApiKinds(copy["config"])
    IN  /\ Saved("config", c)
        /\ copy' = [copy EXCEPT !["config"] = c]
        /\ ConfigUnchanged

\* If the file cannot be read, the tab keeps what it shows.
RefreshFromDisk == file.ok /\ Loaded("config", file.config) /\ ConfigUnchanged

\* What an answer of the server's Admin API means; 0 is the status of no answer.
ClassifyAdminReload(status, body) ==
    CASE status = 401                     -> "Unauthorized"
      [] status = 404                     -> "AdminApiUnavailable"
      [] status = 200 /\ body = "success" -> "Success"
      [] status = 200 /\ body = "failure" -> "ReloadFailed"
      [] OTHER                            -> "RequestFailed"

\* The button is there if the tab's copy allows the Admin API.  Only when the server says
\* that it has reloaded is the file read again; any other answer is only shown.
ReloadRunningServer ==
    /\ copy["config"].admin
    /\ \E status \in {0, 200, 401, 404, 500}, body \in {"success", "failure", "garbled"} :
          ClassifyAdminReload(status, body) = "Success"
    /\ RefreshFromDisk

ChangeProvider(i, p) == Changed("config", [copy["config"] EXCEPT !.providers[i] = p]) /\ ConfigUnchanged

TypeProvider(i) ==
    \E t \in Texts :
        ChangeProvider(i, [copy["config"].providers[i] EXCEPT !.name = t[1], !.words = t[2]])

ChooseKind(i) ==
    LET p == copy["config"].providers[i]
    IN  \E kind \in Kinds :
            kind # ResolveProviderApiKind(p) /\ ChangeProvider(i, MarkExplicit(p, kind))

ReInfer(i) == ChangeProvider(i, MarkInferred(copy["config"].providers[i]))

RemoveProvider(i) ==
    Changed("config", [copy["config"] EXCEPT !.providers = RemoveAt(@, i)]) /\ ConfigUnchanged

AddProvider ==
    /\ Changed("config", [copy["config"] EXCEPT !.providers =
                  Append(@, Provider(NoName, {}, <<>>, "OpenAiResponses", "explicit", <<>>))])
    /\ ConfigUnchanged

ConfigTab ==
    \/ ConfigSave \/ RefreshFromDisk \/ ReloadRunningServer \/ AddProvider
    \/ \E i \in DOMAIN copy["config"].providers :
          TypeProvider(i) \/ ChooseKind(i) \/ ReInfer(i) \/ RemoveProvider(i)

--------------------------------------------------------------------------------
(***************************************************************************)
(* The Router tab.  Each frame makes sure that there is a pool and sorts   *)
(* it, after the Save button and before the other clicks.                  *)
(***************************************************************************)
EnsureRoutePool(c) ==
    IF c.pool = <<>> THEN [c EXCEPT !.pool = <<Pool(FALSE, DefaultLimits, <<>>)>>] ELSE c

Clamped(n, most) == IF n < 1 THEN 1 ELSE IF n > most THEN most ELSE n

\* The fields of the limits bring into their range what they show, in every frame.
InRange(l) == [failure_threshold |-> Clamped(l.failure_threshold, 100),
               ban_seconds       |-> Clamped(l.ban_seconds, 86400)]

FramedPool(p) == [p EXCEPT !.limits = InRange(@), !.candidates = ByPriority(@)]

Framed(c) == LET d == EnsureRoutePool(c) IN [d EXCEPT !.pool = <<FramedPool(d.pool[1])>>]

RoutePoolRoutes(c) ==
    UNION {{<<p.name>>} \cup {<<p.name, m>> : m \in ToSet(p.models)} : p \in ToSet(c.providers)}

ActiveRoutes(c) == {k.route : k \in ToSet(Candidates(c))}

AvailableRoutes(c) == RoutePoolRoutes(c) \ ActiveRoutes(c)

Selects(left, index, route) == available' = left /\ selected' = index /\ picked' = route

LookAtRouter ==
    /\ copy' = [copy EXCEPT !["router"] = Framed(@)]
    /\ UNCHANGED <<file, available, selected, menu, fresh, edited, picked, edits, writes>>

RouterSave ==
    /\ Saved("router", copy["router"])
    /\ copy' = [copy EXCEPT !["router"] = Framed(@)]
    /\ UNCHANGED <<available, selected, picked>>

RouterReload == Loaded("router", Framed(LoadOrDefault)) /\ Selects(<<>>, 0, <<>>)

\* A click on the router's list, which is sorted by then.
Clicked(candidates, arranged) ==
    LET c == WithCandidates(Framed(copy["router"]), candidates)
    IN  Changed("router", IF arranged THEN [c EXCEPT !.pool[1].arranged = TRUE] ELSE c)

TogglePool ==
    /\ Changed("router", [Framed(copy["router"]) EXCEPT !.pool[1].enabled = ~@])
    /\ UNCHANGED <<available, selected, picked>>

\* A number that is entered is brought into the range, too.
EditLimits ==
    LET l == Framed(copy["router"]).pool[1].limits
    IN  /\ \E n \in Numbers : \E new \in {[l EXCEPT !.failure_threshold = n], [l EXCEPT !.ban_seconds = n]} :
              Changed("router", [Framed(copy["router"]) EXCEPT !.pool[1].limits = InRange(new)])
        /\ UNCHANGED <<available, selected, picked>>

ToggleCandidate ==
    LET list == Candidates(Framed(copy["router"]))
    IN  \E i \in DOMAIN list :
            /\ Clicked([list EXCEPT ![i].enabled = ~@], FALSE)
            /\ UNCHANGED <<available, selected, picked>>

SelectAvailable ==
    /\ \E r \in AvailableRoutes(copy["router"]) : Selects(<<r>>, 0, <<>>)
    /\ copy' = [copy EXCEPT !["router"] = Framed(@)]
    /\ UNCHANGED <<file, menu, fresh, edited, edits, writes>>

SelectInPool ==
    LET list == Candidates(Framed(copy["router"]))
    IN  /\ \E i \in DOMAIN list : Selects(<<>>, i, list[i].route)
        /\ copy' = [copy EXCEPT !["router"] = Framed(@)]
        /\ UNCHANGED <<file, menu, fresh, edited, edits, writes>>

\* The new candidate gets the next number.  Where the numbers of the others have gaps,
\* the next frame sorts it in front of some of them, and the tab's selection, which is
\* a position, is then another route: so nothing is taken to be selected there.
AddToPool ==
    LET list  == Candidates(Framed(copy["router"]))
        route == available[1]
        dense == \A k \in ToSet(list) : k.priority <= Len(list)
    IN  /\ available # <<>>
        /\ Clicked(IF route \in ActiveRoutes(copy["router"]) THEN list
                   ELSE Append(list, Candidate(route, TRUE, Len(list) + 1)), FALSE)
        /\ Selects(<<>>, Len(copy'["router"].pool[1].candidates), IF dense THEN route ELSE <<>>)

RemoveFromPool ==
    LET list == Candidates(Framed(copy["router"]))
    IN  /\ selected \in DOMAIN list
        /\ Clicked(NormalizeRoutePoolPriorities(RemoveAt(list, selected)), TRUE)
        /\ Selects(<<>>, 0, <<>>)

\* Mutant: the two have changed places, but not numbers.
SwappedInPlace(list, i, j) == [list EXCEPT ![i] = list[j], ![j] = list[i]]

Swapped(list, i, j) ==
    NormalizeRoutePoolPriorities([list EXCEPT ![i] = list[j], ![j] = list[i]])

MoveSelected(by) ==
    LET list == Candidates(Framed(copy["router"]))
    IN  /\ selected # 0 /\ {selected, selected + by} \subseteq DOMAIN list
        /\ Clicked(Swapped(list, selected, selected + by), TRUE)
        /\ selected' = selected + by
        /\ UNCHANGED <<available, picked>>

MoveUp   == MoveSelected(-1)
MoveDown == MoveSelected(1)

RouterTab ==
    \/ LookAtRouter \/ RouterSave \/ RouterReload \/ TogglePool \/ EditLimits \/ ToggleCandidate
    \/ SelectAvailable \/ SelectInPool \/ AddToPool \/ RemoveFromPool \/ MoveUp \/ MoveDown

--------------------------------------------------------------------------------
(***************************************************************************)
(* The Settings tab, presets and the tray menu.  The port stands for all   *)
(* that the Settings tab edits.                                            *)
(***************************************************************************)
SettingsReload == Loaded("settings", LoadOrDefault) /\ UNCHANGED <<available, selected, picked>>

SettingsSave == Saved("settings", copy["settings"]) /\ UNCHANGED <<copy, available, selected, picked>>

SetPort(c, port) == [c EXCEPT !.port = port]

EditSettings ==
    /\ \E port \in Ports : Changed("settings", SetPort(copy["settings"], port))
    /\ UNCHANGED <<available, selected, picked>>

SettingsTab == SettingsReload \/ SettingsSave \/ EditSettings

Profile(name, words, use, kind, models, route, enabled) ==
    [providers |-> <<Provider(name, words, <<use>>, kind, "explicit", models)>>,
     pool      |-> <<Pool(TRUE, DefaultLimits, <<Candidate(route, enabled, 1)>>)>>]

BuiltinProfiles ==
    {Profile("anthropic", {"/v1/messages", "anthropic"}, "anthropic", "AnthropicMessages",
             <<"claude-sonnet-4-20250514", "claude-opus-4-20250514">>,
             <<"anthropic", "claude-sonnet-4-20250514">>, TRUE),
     Profile("openai", {"/responses"}, "openai", "OpenAiResponses",
             <<"gpt-5.3-codex", "gpt-5", "gpt-4.1">>, <<"openai", "gpt-5.3-codex">>, TRUE),
     Profile("github-copilot", {"/chat/completions"}, "openai", "OpenAiChat", <<>>,
             <<"github-copilot">>, FALSE),
     Profile("anthropic", {"/v1/messages", "anthropic"}, "anthropic", "AnthropicMessages",
             <<"claude-sonnet-4">>, <<"anthropic", "claude-sonnet-4">>, TRUE)}

\* A provider of the same name stays unless it is to be overwritten; the pool is replaced.
InstallPreset(profile, c, overwrite) ==
    LET install(ps, p) ==
            LET i == SelectInSeq(ps, LAMBDA q : q.name = p.name)
            IN  IF i = 0 THEN Append(ps, p) ELSE IF overwrite THEN [ps EXCEPT ![i] = p] ELSE ps
    IN  [c EXCEPT !.providers = FoldLeft(install, @, profile.providers),
                  !.pool      = IF profile.pool = <<>> THEN @ ELSE profile.pool]

ApplyBuiltinProfile ==
    /\ \E profile \in Profiles, overwrite \in BOOLEAN :
          Written([ok |-> TRUE, config |-> InstallPreset(profile, LoadOrDefault, overwrite)], {})
    /\ UNCHANGED <<copy, available, selected, picked>>

ProviderRoutes(c) ==
    {<<p.name, p.models[1]>> : p \in {q \in ToSet(c.providers) : q.models # <<>>}}

\* The route changes places with the first candidate, or becomes it.
Fronted(list, route) ==
    LET i == SelectInSeq(list, LAMBDA k : k.route = route)
    IN  IF i = 0 THEN <<Candidate(route, TRUE, 1)>> \o list
        ELSE [list EXCEPT ![1] = list[i], ![i] = list[1]]

\* The pool is in use then, in an order that the user has asked for.
Reordered(c, candidates) ==
    [c EXCEPT !.pool = <<[enabled |-> TRUE, limits |-> EnsureRoutePool(c).pool[1].limits,
                          candidates |-> candidates, arranged |-> TRUE]>>]

\* Mutant: a route that was there already keeps its number.
SwitchedInPlace(c, route) == Reordered(c, Fronted(Candidates(c), route))

Switched(c, route) == Reordered(c, NormalizeRoutePoolPriorities(Fronted(Candidates(c), route)))

SwitchRoutePoolProvider ==
    /\ \E route \in menu :
          Written([ok |-> TRUE, config |-> Switched(LoadOrDefault, route)], {})
    /\ UNCHANGED <<copy, available, selected, picked>>

--------------------------------------------------------------------------------
TabsInit ==
    /\ \E c \in Files, ok \in BOOLEAN : file = [ok |-> ok, config |-> IF ok THEN c ELSE DefaultConfig]
    /\ copy = [t \in Tabs |-> LoadOrDefault]
    /\ available = <<>> /\ selected = 0 /\ picked = <<>>
    /\ menu = ProviderRoutes(LoadOrDefault)
    /\ fresh = [t \in Tabs |-> file.ok]
    /\ edited = [t \in Tabs |-> FALSE]
    /\ edits = 0 /\ writes = 0

TabsNext ==
    \/ SomebodyWrites \/ ConfigTab \/ RouterTab \/ SettingsTab
    \/ ApplyBuiltinProfile \/ SwitchRoutePoolProvider

TabsSpec == TabsInit /\ [][TabsNext]_tabVars

--------------------------------------------------------------------------------
\* The route that the user has selected in the pool stays the selected one while
\* routes are moved and switched on and off around it and every frame sorts the list
\* anew: the tab remembers a position, not a route.  A route that is added is selected
\* as well, and stays it, if the numbers in the list have no gaps; if they have, the tab
\* goes on with another route, and nothing is claimed (see AddToPool).
SelectionStays ==
    picked # <<>> =>
        LET list == ByPriority(Candidates(copy["router"]))
        IN  selected \in DOMAIN list /\ list[selected].route = picked

\* Once the user has arranged a pool with the buttons, or the tray menu has put a route
\* in front, the server tries the routes in the order in which the Router tab shows
\* them, wherever that configuration has got to: the tab sorts by priority alone, the
\* server by priority and then by name.  A route that is there twice is tried once, at
\* its first place, and so are two that differ in white space only; a blank one, which
\* the tab shows like any other, is never tried.
ArrangedOrderIsServed ==
    \A c \in {file.config} \cup {copy[t] : t \in Tabs} :
        c.pool # <<>> /\ c.pool[1].arranged /\ c.pool[1].enabled => Served(c) = Shown(c)

Spoken(c) ==
    [i \in DOMAIN c.providers |-> <<c.providers[i].name, ResolveProviderApiKind(c.providers[i])>>]

Meaning(c) == [config |-> Spoken(c), router |-> Served(c), settings |-> c.port]

\* The Router tab brings the limits into the range of its fields by being looked at, edited
\* or not: a ban of a week in the file is one of a day after its next save.
Saveable(l, t) == {l} \cup IF t = "router" THEN {InRange(l)} ELSE {}

\* A tab whose copy comes from the file as it is changes, when it saves, only what the
\* user has edited in that tab: not the protocol that any provider is spoken to in, not
\* the routes and not the settings, although all tabs write everything, filling in
\* what the file left out.  The limits of the pool stay as the server reads them, except
\* that an unedited Router tab may have brought them into range.
SavesAreFaithful ==
    [][\A t \in Tabs : writes' # writes /\ fresh[t] /\ fresh'[t] =>
          /\ \A section \in Tabs : section # t \/ ~edited[t] =>
                Meaning(file'.config)[section] = Meaning(file.config)[section]
          /\ t # "router" \/ ~edited[t] =>
                ServedLimits(file'.config) \in Saveable(ServedLimits(file.config), t)]_tabVars
================================================================================
