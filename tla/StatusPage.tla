------------------------------- MODULE StatusPage -------------------------------
(***************************************************************************)
(* The status page of the desktop program (status_tab.rs) and the window   *)
(* around it (app.rs).                                                     *)
(*                                                                         *)
(* All that takes time runs in a thread of its own, which looks at the     *)
(* world at one moment, sends what it saw through a channel and ends; only *)
(* a frame of the page that is drawn takes answers from the channel.  A    *)
(* flag per kind of task disables its button meanwhile.  The threads run   *)
(* side by side, so answers arrive in another order than the looks they    *)
(* report, and the tray menu, the command line, the other tabs and crashes *)
(* change the world behind the page.                                       *)
(***************************************************************************)
EXTENDS Naturals, SequencesExt

CONSTANTS
    Reversible,   \* clients with a backup: Claude Code and Codex
    Additive,     \* clients a provider is added to: OpenCode, OpenClaw and Hermes
    None,
    MaxSessions,  \* bound: servers started
    MaxMoves,     \* bound: buttons pressed and changes made by others
    MaxTasks      \* bound: threads under way when a button is pressed

Clients == Reversible \cup Additive

ASSUME StatusPageAssumption ==
    /\ Reversible \cap Additive = {}
    /\ Clients \cap {"server", "refresh", "health", "runtime", "action"} = {}
    /\ MaxSessions \in Nat \ {0} /\ MaxMoves \in Nat /\ MaxTasks \in Nat

VARIABLES
    world,    \* what a look finds: the running server, the pool's setting, the clients
    sessions, \* servers started so far
    tasks,    \* the threads under way, in the order they began
    answers,  \* the channel from the threads to the page
    page,     \* the StatusTab
    shown,    \* the status page is the tab that is drawn
    calm,     \* history variable: the last look was alone, and nobody interfered
    moves     \* presses and changes so far, for the bounds

vars == <<world, sessions, tasks, answers, page, shown, calm, moves>>

Stopped == 0
Targets == {"server"} \cup Clients
Flags   == Targets \cup {"refresh", "health", "runtime", "action"}

Worlds == [server: 0..MaxSessions, pool: {"enabled", "off"},
           client: [Clients -> {"out", "drifted", "current"}]]

\* A task has the flag of its button and what it does to the world before it looks.
Task(flag, does) ==
    [flag |-> flag, does |-> does, stage |-> IF flag \in Targets THEN "act" ELSE "look",
     saw |-> None, health |-> FALSE]

\* The page begins with a look, and with the start of the server.
Init ==
    /\ world \in [server: {Stopped, 1}, pool: {"enabled"}, client: [Clients -> {"out"}]]
    /\ sessions = world.server
    /\ tasks = <<Task("refresh", "look"), Task("server", "launch")>>
    /\ answers = <<>>
    /\ page = [view |-> None, busy |-> {"refresh", "server"}, fetched |-> "never",
               routes |-> None, metrics |-> None, diagnostics |-> None]
    /\ shown = TRUE
    /\ calm = FALSE
    /\ moves = 0

--------------------------------------------------------------------------------
(***************************************************************************)
(* The threads                                                             *)
(***************************************************************************)
\* What a thread can make of the world.  A start finds out for itself whether a
\* server runs; each of them may fail and change nothing.  The launch leaves the
\* server alone unless the settings want it started.
ServerDone(does) ==
    CASE does \in {"start", "launch"} /\ world.server = Stopped /\ sessions < MaxSessions ->
           {[world EXCEPT !.server = sessions + 1]}
      [] does = "stop" -> {[world EXCEPT !.server = Stopped]}
      [] OTHER -> {}

ReversibleDone(c, does) ==
    CASE does = "activate"   -> {[world EXCEPT !.client[c] = "current"]}
      [] does = "deactivate" -> {[world EXCEPT !.client[c] = "out"]}
      [] OTHER -> {}

AdditiveDone(c, does) ==
    CASE does = "add"    -> {[world EXCEPT !.client[c] = "current"]}
      [] does = "remove" -> {[world EXCEPT !.client[c] = "out"]}
      [] OTHER -> {}

Done(t) ==
    {world} \cup IF t.flag \in Reversible THEN ReversibleDone(t.flag, t.does)
                 ELSE IF t.flag \in Additive THEN AdditiveDone(t.flag, t.does)
                 ELSE ServerDone(t.does)

\* Mutant: an operation takes its look at the world first.
LookFirst(i) ==
    /\ tasks[i].stage = "act"
    /\ tasks' = [tasks EXCEPT ![i].stage = "send", ![i].saw = world]
    /\ world' \in Done(tasks[i])
    /\ sessions' = IF world'.server > sessions THEN world'.server ELSE sessions
    /\ UNCHANGED <<answers, page, shown, calm, moves>>

Act(i) ==
    /\ tasks[i].stage = "act"
    /\ world' \in Done(tasks[i])
    /\ sessions' = IF world'.server > sessions THEN world'.server ELSE sessions
    /\ tasks' = [tasks EXCEPT ![i].stage = "look"]
    /\ UNCHANGED <<answers, page, shown, calm, moves>>

\* The five requests of fetch_runtime_status_snapshot: they reach the server that
\* runs, and report an error (no session) if there is none.
Fetched == world.server

\* read_status_snapshot: the server, the clients and the settings, at one moment.
Looked == world

\* A refresh on demand checks the health of the server it has seen running.
Look(i) ==
    /\ tasks[i].stage = "look"
    /\ tasks' = [tasks EXCEPT
         ![i].stage  = "send",
         ![i].saw    = CASE tasks[i].flag = "health" -> None
                         [] tasks[i].flag \in {"runtime", "action"} -> Fetched
                         [] OTHER -> Looked,
         ![i].health = tasks[i].does = "look and check" /\ world.server # Stopped]
    /\ UNCHANGED <<world, sessions, answers, page, shown, calm, moves>>

Send(i) ==
    /\ tasks[i].stage = "send"
    /\ answers' = Append(answers, tasks[i])
    /\ tasks' = RemoveAt(tasks, i)
    /\ UNCHANGED <<world, sessions, page, shown, calm, moves>>

--------------------------------------------------------------------------------
(***************************************************************************)
(* A frame: the answers are taken, the buttons drawn, the routes refreshed *)
(***************************************************************************)
\* Mutant: the answer to an operation does not enable its button again.
AnsweredStuck(p, a) ==
    IF a.flag \in Targets \cup {"refresh"}
    THEN [p EXCEPT !.view = a.saw, !.busy = @ \ {"refresh"}]
    ELSE [p EXCEPT !.busy = @ \ {a.flag}]

\* poll_task_results, for one answer
Answered(p, a) ==
    CASE a.flag = "refresh" ->
           [p EXCEPT !.view = a.saw,
                     !.busy = @ \ ({"refresh"} \cup IF a.health THEN {"health"} ELSE {})]
      [] a.flag \in Targets ->
           [p EXCEPT !.view = a.saw, !.busy = @ \ {a.flag},
                     !.fetched = IF a.flag = "server" THEN "never" ELSE @]
      [] a.flag = "health" -> [p EXCEPT !.busy = @ \ {"health"}]
      [] a.flag = "runtime" ->
           [p EXCEPT !.routes = a.saw, !.metrics = a.saw, !.diagnostics = a.saw,
                     !.busy = @ \ {"runtime"}]
      [] a.flag = "action" ->
           [p EXCEPT !.routes = a.saw, !.metrics = a.saw,
                     !.busy = @ \ {"action", "runtime"}, !.fetched = "fresh"]

\* The page when the first n answers have been taken from the channel.
Taken[n \in 0..Len(answers)] == IF n = 0 THEN page ELSE Answered(Taken[n - 1], answers[n])

Polled == Taken[Len(answers)]

\* The buttons that can be pressed on page p: the task each of them begins.
ServerButtons(p) ==
    (IF "server" \in p.busy THEN {}
     ELSE {Task("server", IF p.view.server = Stopped THEN "start" ELSE "stop")})
    \cup (IF p.view.server = Stopped \/ "health" \in p.busy THEN {} ELSE {Task("health", "look")})

ReversibleButtons(p) ==
    {Task(c, IF p.view.client[c] = "out" THEN "activate" ELSE "deactivate") :
       c \in {d \in Reversible \ p.busy : p.view.client[d] # "out" \/ p.view.server # Stopped}}

AdditiveButtons(p) ==
    {Task(c, "add") : c \in {d \in Additive \ p.busy :
                               p.view.client[d] # "current" /\ p.view.server # Stopped}}
    \cup {Task(c, "remove") : c \in {d \in Additive \ p.busy : p.view.client[d] # "out"}}

\* "Clear ban" and "Reset state", next to the routes of the last status that arrived.
RouteButtons(p) ==
    IF "action" \in p.busy \/ p.routes \in {None, Stopped} \/ p.view.pool = "off"
       \/ p.view.server = Stopped
    THEN {} ELSE {Task("action", "post")}

\* Until the first snapshot there is nothing but "Refresh Status".
Buttons(p) ==
    (IF "refresh" \in p.busy THEN {} ELSE {Task("refresh", "look and check")})
    \cup IF p.view = None THEN {}
         ELSE ServerButtons(p) \cup RouteButtons(p) \cup ReversibleButtons(p) \cup AdditiveButtons(p)

Pressed(p, t) ==
    [p EXCEPT !.busy = @ \cup {t.flag}, !.fetched = IF t.flag = "refresh" THEN "never" ELSE @]

\* Mutant: the two seconds are not looked at when the server has changed.
RefreshIfDueOnce(p) ==
    IF p.fetched = "never" /\ "runtime" \notin p.busy
    THEN [p EXCEPT !.busy = @ \cup {"runtime"}, !.fetched = "fresh"] ELSE p

RefreshIfDue(p) ==
    IF p.fetched # "fresh" /\ "runtime" \notin p.busy
    THEN [p EXCEPT !.busy = @ \cup {"runtime"}, !.fetched = "fresh"] ELSE p

\* Mutant: what the former server said stays on the page.
RoutedKeeping(p) ==
    IF p.view = None \/ p.view.pool = "off" \/ p.view.server = Stopped
    THEN p ELSE RefreshIfDue(p)

\* show_routing
Routed(p) ==
    IF p.view = None THEN p
    ELSE IF p.view.pool = "off"
         THEN [p EXCEPT !.routes = None, !.diagnostics = None, !.fetched = "never"]
    ELSE IF p.view.server = Stopped
         THEN [p EXCEPT !.routes = None, !.metrics = None, !.diagnostics = None,
                        !.fetched = "never"]
    ELSE RefreshIfDue(p)

\* The flag of a fetch that show_routing has just begun.
Begun(before, after) ==
    IF "runtime" \in after.busy \ before.busy THEN <<Task("runtime", "look")>> ELSE <<>>

\* Tasks whose answer brings a snapshot of the world.
Looking == {t \in ToSet(tasks) \cup ToSet(answers) : t.flag \in Targets \cup {"refresh"}}

Drawn ==
    /\ page' = Routed(Polled)
    /\ tasks' = tasks \o Begun(Polled, page')
    /\ answers' = <<>>

Frame ==
    /\ shown
    /\ Drawn
    /\ UNCHANGED <<world, sessions, shown, calm, moves>>

\* A frame in which a button is pressed.
Click ==
    /\ shown
    /\ moves < MaxMoves /\ Len(tasks) < MaxTasks
    /\ \E t \in Buttons(Polled) :
         /\ page' = Routed(Pressed(Polled, t))
         /\ tasks' = tasks \o <<t>> \o Begun(Pressed(Polled, t), page')
         /\ calm' = IF t.flag \in Targets \cup {"refresh"}
                    THEN ~ \E u \in ToSet(tasks) : u.flag \in Targets \cup {"refresh"}
                    ELSE calm
    /\ answers' = <<>>
    /\ moves' = moves + 1
    /\ UNCHANGED <<world, sessions, shown>>

\* Two seconds have passed since the routes were fetched.
Tick ==
    /\ page.fetched = "fresh"
    /\ page' = [page EXCEPT !.fetched = "due"]
    /\ UNCHANGED <<world, sessions, tasks, answers, shown, calm, moves>>

--------------------------------------------------------------------------------
(***************************************************************************)
(* The window, and everybody else                                          *)
(***************************************************************************)
\* Only the chosen tab is drawn; the others take no answers.
Leave ==
    /\ shown
    /\ shown' = FALSE
    /\ UNCHANGED <<world, sessions, tasks, answers, page, calm, moves>>

\* The tab that is chosen, in the window or through the tray, is drawn at once.
Return ==
    /\ ~shown
    /\ shown' = TRUE
    /\ Drawn
    /\ UNCHANGED <<world, sessions, calm, moves>>

Elsewhere(w) ==
    /\ w # world
    /\ moves < MaxMoves
    /\ world' = w
    /\ sessions' = IF w.server > sessions THEN w.server ELSE sessions
    /\ calm' = FALSE
    /\ moves' = moves + 1
    /\ UNCHANGED <<tasks, answers, page, shown>>

\* The menu of the tray starts, stops and restarts the server and activates clients.
TrayMenu ==
    \/ \E s \in {Stopped, sessions + 1} \cap 0..MaxSessions :
         Elsewhere([world EXCEPT !.server = s])
    \/ \E c \in Reversible : Elsewhere([world EXCEPT !.client[c] = "current"])

\* The command line, the other tabs, a crash of the server, the user's editor.
Others ==
    \/ Elsewhere([world EXCEPT !.server = Stopped])
    \/ \E setting \in {"enabled", "off"} : Elsewhere([world EXCEPT !.pool = setting])
    \/ \E c \in Clients, s \in {"out", "drifted"} : Elsewhere([world EXCEPT !.client[c] = s])

Next ==
    \/ \E i \in DOMAIN tasks : Act(i) \/ Look(i) \/ Send(i)
    \/ Frame \/ Click \/ Tick \/ Leave \/ Return
    \/ TrayMenu \/ Others

\* The oldest thread is scheduled (each of their calls has a timeout), a page that is
\* drawn is drawn again (request_repaint_after), and time passes.  Nobody has to press a
\* button, to change a tab or to change the world.
Fairness ==
    /\ WF_vars(tasks # <<>> /\ (Act(1) \/ Look(1) \/ Send(1)))
    /\ WF_vars(Frame)
    /\ WF_vars(Tick)

Spec == Init /\ [][Next]_vars /\ Fairness

--------------------------------------------------------------------------------
\* The threads of a flag that are under way, and their answers that wait for a frame.
UnderWay(flag) ==
    {<<"thread", i>> : i \in {j \in DOMAIN tasks : tasks[j].flag = flag}}
    \cup {<<"answer", i>> : i \in {j \in DOMAIN answers : answers[j].flag = flag}}

\* A button is disabled for as long as its task is under way and no longer: there are
\* never two operations on the server, or on one client, begun from the page, and no
\* flag stays without a task that will clear it.  (The health check and the fetch of
\* the routes may run twice: answers of others clear their flags, too.)
OneOfEach ==
    /\ \A f \in Targets \cup {"refresh", "action"} :
         IF f \in page.busy THEN \E one \in UnderWay(f) : UnderWay(f) = {one}
         ELSE UnderWay(f) = {}
    /\ \A f \in {"health", "runtime"} \cap page.busy : UnderWay(f) # {}

\* When the last refresh or operation ran alone and nobody else has changed anything
\* since it began, the page shows the world as it is once the answer has arrived:
\* every operation looks after it has acted, and the answer is what is shown.
CalmIsTrue == calm /\ Looking = {} => page.view = world

\* While the page shows the server as stopped it keeps nothing of the routes, bans and
\* figures of the server that was: they start anew with the next one ("restart
\* clears bans and failure counters").
NothingOfTheStopped ==
    page.view # None /\ page.view.server = Stopped /\ page.view.pool = "enabled" =>
        page.routes = None /\ page.metrics = None /\ page.diagnostics = None

\* The page shows the routes of an earlier server than the one it says is running.
Outdated ==
    /\ page.view # None
    /\ page.view.pool = "enabled"
    /\ page.routes \in 1..MaxSessions
    /\ page.routes < page.view.server

\* If the status page is drawn again and again and the user presses nothing more, every
\* button comes back for good.  (The routes are fetched again all the time.)
ButtonsComeBack == []<>shown => <>[](page.busy \subseteq {"runtime"})

\* If the status page is drawn again and again, the routes of a former server give way
\* to those of the one that runs, whatever fetches are still on their way.
RoutesCatchUp == []<>shown => <>[]~Outdated

================================================================================
