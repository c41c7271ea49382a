----------------------------- MODULE ServerLifecycle -----------------------------
(***************************************************************************)
(* Starting, stopping and restarting the server process, and knowing       *)
(* whether it runs (start_server, stop_server, read_server_snapshot of     *)
(* ccr-app-core, the commands of the CLI and the menu of the tray icon).   *)
(*                                                                         *)
(* All that the programs share is a file with a process id.  NoProcess of them  *)
(* waits for a process: neither for the one it stops to end nor for the    *)
(* one it starts to get its port.  The UI outlives the servers it starts   *)
(* and does not reap them, so a dead one stays in the process table, where *)
(* signals still reach it.                                                 *)
(***************************************************************************)
EXTENDS FiniteSets

CONSTANTS
    Ui,    \* threads of the UI that control the server: the tab's task, the tray
    Cli,   \* runs of the command-line program
    Pids,
    NoProcess

ASSUME ServerLifecycleAssumption ==
    /\ Ui \cap Cli = {}
    /\ NoProcess \notin Pids

Controllers == Ui \cup Cli

VARIABLES
    pidFile,   \* what .ccr.pid holds
    proc,      \* the process table
    ctl,       \* the step of every controller, the process it has started, and
               \* whether it goes on to start one
    disturbed  \* history variable: operations have overlapped, or one was cut short

lifecycleVars == <<pidFile, proc, ctl, disturbed>>

\* "draining" and "closing" servers have been told to stop; the former still hold
\* the port.  "other" is a process that has nothing to do with CCR.
States == {"free", "starting", "serving", "draining", "closing", "zombie", "other"}

Process(state, byUi) == [state |-> state, byUi |-> byUi]

Idle == [pc |-> "idle", child |-> NoProcess, restart |-> FALSE]

LifecycleInit ==
    /\ pidFile = NoProcess
    /\ proc = [p \in Pids |-> Process("free", FALSE)]
    /\ ctl = [c \in Controllers |-> Idle]
    /\ disturbed = FALSE

InState(states) == {p \in Pids : proc[p].state \in states}

\* is_process_alive: a signal can be sent to it.
Alive(p) == p \notin InState({"free"})

\* read_server_snapshot
Snapshot ==
    IF pidFile = NoProcess THEN "stopped"
    ELSE IF Alive(pidFile) THEN "running" ELSE "stale"

\* A controller begins an operation.
Begins(c) ==
    /\ ctl[c].pc = "idle"
    /\ disturbed' = (disturbed \/ \E d \in Controllers : ctl[d].pc # "idle")

\* What SIGTERM does to a process.
Terminated(p) ==
    CASE proc[p].state \in {"starting", "serving"} -> [proc[p] EXCEPT !.state = "draining"]
      [] proc[p].state = "other"                   -> [proc[p] EXCEPT !.state = "free"]
      [] OTHER                                     -> proc[p]

--------------------------------------------------------------------------------
(***************************************************************************)
(* start_server, and the command start                                     *)
(***************************************************************************)
\* Mutant: the file is only looked for.
StartUnchecked(c) ==
    /\ Begins(c)
    /\ ctl' = [ctl EXCEPT ![c].pc = "spawn"]
    /\ UNCHANGED <<pidFile, proc>>

\* A server that seems to run is left alone: that changes nothing and is no step.
Start(c) ==
    /\ Begins(c)
    /\ Snapshot # "running"
    /\ ctl' = [ctl EXCEPT ![c].pc = "spawn"]
    /\ UNCHANGED <<pidFile, proc>>

\* After its stop, a restart goes through the same check.
StartAgain(c) ==
    /\ ctl[c].pc = "check"
    /\ ctl' = [ctl EXCEPT ![c] = IF Snapshot = "running" THEN Idle
                                 ELSE [Idle EXCEPT !.pc = "spawn"]]
    /\ UNCHANGED <<pidFile, proc, disturbed>>

\* Mutant: the controller forgets which process it has started.
SpawnForgotten(c) ==
    /\ ctl[c].pc = "spawn"
    /\ \E p \in InState({"free"}) : proc' = [proc EXCEPT ![p] = Process("starting", c \in Ui)]
    /\ ctl' = [ctl EXCEPT ![c].pc = "write"]
    /\ UNCHANGED <<pidFile, disturbed>>

\* The system may choose a process id that was in use before.
Spawn(c) ==
    /\ ctl[c].pc = "spawn"
    /\ \E p \in InState({"free"}) :
         /\ proc' = [proc EXCEPT ![p] = Process("starting", c \in Ui)]
         /\ ctl' = [ctl EXCEPT ![c].pc = "write", ![c].child = p]
    /\ UNCHANGED <<pidFile, disturbed>>

WritePid(c) ==
    /\ ctl[c].pc = "write"
    /\ pidFile' = ctl[c].child
    /\ ctl' = [ctl EXCEPT ![c] = Idle]
    /\ UNCHANGED <<proc, disturbed>>

\* The executable is missing, the file cannot be written, or the program ends.
StartFails(c) ==
    /\ ctl[c].pc \in {"spawn", "write", "check", "unlink"}
    /\ ctl' = [ctl EXCEPT ![c] = Idle]
    /\ disturbed' = (disturbed \/ ctl[c].pc = "write")
    /\ UNCHANGED <<pidFile, proc>>

--------------------------------------------------------------------------------
(***************************************************************************)
(* stop_server and the command stop; the tray's restart, which is a stop   *)
(* followed by a start; the command restart, which leaves the file alone.  *)
(***************************************************************************)
\* A stop whose signal reaches no process fails and leaves the file.
Stop(c) ==
    /\ Begins(c)
    /\ Snapshot = "running"
    /\ proc' = [proc EXCEPT ![pidFile] = Terminated(pidFile)]
    /\ \E restart \in IF c \in Ui THEN BOOLEAN ELSE {FALSE} :
         ctl' = [ctl EXCEPT ![c].pc = "unlink", ![c].restart = restart]
    /\ UNCHANGED pidFile

\* The file is deleted, whatever it holds by now.
Unlink(c) ==
    /\ ctl[c].pc = "unlink"
    /\ pidFile' = NoProcess
    /\ ctl' = [ctl EXCEPT ![c] = IF ctl[c].restart THEN [Idle EXCEPT !.pc = "check"] ELSE Idle]
    /\ UNCHANGED <<proc, disturbed>>

\* The tray goes on to the start when there was nothing to stop; the command waits
\* for half a second, which may be too short.
RestartCommand(c) ==
    /\ c \in Cli
    /\ Begins(c)
    /\ proc' = IF Snapshot = "running" THEN [proc EXCEPT ![pidFile] = Terminated(pidFile)]
               ELSE proc
    /\ ctl' = [ctl EXCEPT ![c].pc = "spawn"]
    /\ UNCHANGED pidFile

--------------------------------------------------------------------------------
(***************************************************************************)
(* The processes                                                           *)
(***************************************************************************)
\* The port is bound when the server starts; a second server cannot have it.
Bind(p) ==
    /\ p \in InState({"starting"})
    /\ InState({"serving", "draining"}) = {}
    /\ proc' = [proc EXCEPT ![p].state = "serving"]
    /\ UNCHANGED <<pidFile, ctl, disturbed>>

\* A server told to stop closes its port at once and finishes its requests.
ReleasePort(p) ==
    /\ p \in InState({"draining"})
    /\ proc' = [proc EXCEPT ![p].state = "closing"]
    /\ UNCHANGED <<pidFile, ctl, disturbed>>

\* A server ends: it did not get its port, it was told to, or it died.  Only the
\* UI stays around as a parent that does not wait.
Exit(p) ==
    /\ p \in InState({"starting", "serving", "draining", "closing"})
    /\ proc' = [proc EXCEPT ![p] = IF proc[p].byUi THEN Process("zombie", TRUE)
                                   ELSE Process("free", FALSE)]
    /\ UNCHANGED <<pidFile, ctl, disturbed>>

\* The process id is used again.
Reuse(p) ==
    /\ p \in InState({"free", "other"})
    /\ proc' = [proc EXCEPT ![p].state = IF @ = "free" THEN "other" ELSE "free"]
    /\ UNCHANGED <<pidFile, ctl, disturbed>>

\* The UI ends, and its dead servers are reaped.
UiEnds ==
    /\ Ui # {}
    /\ proc' = [p \in Pids |-> IF proc[p].state = "zombie" THEN Process("free", FALSE)
                               ELSE [proc[p] EXCEPT !.byUi = FALSE]]
    /\ ctl' = [c \in Controllers |-> IF c \in Ui THEN Idle ELSE ctl[c]]
    /\ disturbed' = (disturbed \/ \E c \in Ui : ctl[c].pc = "write")
    /\ UNCHANGED pidFile

LifecycleNext ==
    \/ \E c \in Controllers :
         \/ Start(c) \/ StartAgain(c) \/ Spawn(c) \/ WritePid(c) \/ StartFails(c)
         \/ Stop(c) \/ Unlink(c) \/ RestartCommand(c)
    \/ \E p \in Pids : Bind(p) \/ ReleasePort(p) \/ Exit(p) \/ Reuse(p)
    \/ UiEnds

LifecycleSpec == LifecycleInit /\ [][LifecycleNext]_lifecycleVars

--------------------------------------------------------------------------------
\* The process ids are ids, and who writes one has one.
TypeOK ==
    /\ pidFile \in Pids \cup {NoProcess}
    /\ proc \in [Pids -> [state: States, byUi: BOOLEAN]]
    /\ ctl \in [Controllers -> [pc: {"idle", "check", "spawn", "write", "unlink"},
                                child: Pids \cup {NoProcess}, restart: BOOLEAN]]
    /\ \A c \in Controllers : ctl[c].pc = "write" <=> ctl[c].child # NoProcess
    /\ disturbed \in BOOLEAN

\* The status page does not show a server as stopped, or as a stale process id, that
\* serves requests and that nothing has told to stop, whatever sequence of starts,
\* stops, restarts, crashes, failed starts and ends of the UI came before; only
\* operations that overlap, or that die before they write the file, lose a server.
\* (A start that is under way is about to write the file.)
StoppedIsTrue ==
    Snapshot # "running" /\ ~disturbed =>
        \A p \in InState({"serving"}) :
          \E c \in Controllers : ctl[c].pc = "write" /\ ctl[c].child = p

================================================================================
