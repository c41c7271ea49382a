---------------------------- MODULE ClientActivation ----------------------------
(***************************************************************************)
(* Putting CCR into a client's configuration files and taking it out again *)
(* (activate_ccr and deactivate_ccr for Claude Code, activate_codex_ccr    *)
(* and deactivate_codex_ccr for Codex, over the helpers of common.rs).     *)
(*                                                                         *)
(* Both clients have two files: the main one, with the base URL, and a     *)
(* second one, with the credentials.  An activation backs both up, or      *)
(* marks them as missing, and then rewrites both.  A deactivation restores *)
(* both, one after the other.  No step is undone when a later one fails,   *)
(* so any error, and any crash, leaves the files as they are at that step. *)
(***************************************************************************)
EXTENDS Naturals

CONSTANTS
    User,       \* contents that users give the files, and that parse
    Bad,        \* such contents that do not
    Blank,      \* nothing, or white space only
    Ours,       \* what CCR writes
    Torn,       \* part of a copy
    Missing,    \* there is no such file
    MaxEdits    \* bound of the model: how often the user edits a file

ASSUME ClientActivationAssumption ==
    /\ MaxEdits \in Nat
    /\ {Bad, Blank, Ours, Torn, Missing} \cap User = {}
    /\ Ours \notin {Bad, Blank, Torn, Missing} /\ Torn \notin {Bad, Blank, Missing}
    /\ Bad \notin {Blank, Missing} /\ Blank # Missing

Main == 1
Side == 2
Files == {Main, Side}

\* The clients differ in which of their files are TOML, the others being JSON, and in
\* whether restoring the second file is optional.
Claude == [toml |-> {}, sideIsOptional |-> FALSE]
Codex  == [toml |-> {Main}, sideIsOptional |-> TRUE]
Clients == {Claude, Codex}

\* What a file is before anybody but its user has touched it.
Theirs == User \cup {Bad, Blank, Missing}

Content == Theirs \cup {Ours, Torn}

VARIABLES
    client,
    live,      \* the client's files
    backup,    \* their backups, under fixed names
    marker,    \* the files that were missing when they were to be backed up
    op,        \* the operation under way: its step, its file, the contents it read
    edits,     \* how often the user has edited a file
    found,     \* history variable: what the activation found in each file
    leftover   \* history variable: generated files that could not be deleted

vars == <<client, live, backup, marker, op, edits, found, leftover>>

Idle == [pc |-> "idle", file |-> Main, text |-> [f \in Files |-> Missing]]

Init ==
    /\ client \in Clients
    /\ live \in [Files -> Theirs]
    /\ backup = [f \in Files |-> Missing]
    /\ marker = {}
    /\ op = Idle
    /\ edits = 0
    /\ found = live
    /\ leftover = {}

\* The outcomes of parsing a file, as the validators do: in TOML no text at all is a
\* document, and part of one may be; in JSON neither is.
Parses(c, f) ==
    CASE c = Bad   -> {FALSE}
      [] c = Blank -> {f \in client.toml}
      [] c = Torn  -> IF f \in client.toml THEN BOOLEAN ELSE {FALSE}
      [] OTHER     -> {TRUE}

\* What a new file is built from need not parse if it is blank.
Builds(c, f) == c = Blank \/ TRUE \in Parses(c, f)

BackedUp(f) == backup[f] # Missing \/ f \in marker

\* check_activation_status
Activated == \E f \in Files : BackedUp(f)

\* The file is done: the operation goes on with the other one, or to `after`.
Advance(step, after) ==
    IF op.file = Main THEN [op EXCEPT !.file = Side, !.pc = step]
    ELSE IF after = "idle" THEN Idle ELSE [op EXCEPT !.file = Main, !.pc = after]

--------------------------------------------------------------------------------
(***************************************************************************)
(* activate_ccr, activate_codex_ccr                                        *)
(***************************************************************************)
\* CCR must be running, and no file may be backed up already.
Activate ==
    /\ op.pc = "idle" /\ ~Activated
    /\ op' = [Idle EXCEPT !.pc = "backup"]
    /\ UNCHANGED <<client, live, backup, marker, edits, found, leftover>>

\* backup_or_mark_missing, for a file that does not exist.
MarkMissing ==
    /\ op.pc = "backup" /\ ~BackedUp(op.file) /\ live[op.file] = Missing
    /\ marker' = marker \cup {op.file}
    /\ found' = [found EXCEPT ![op.file] = Missing]
    /\ op' = Advance("backup", "install")
    /\ UNCHANGED <<client, live, backup, edits, leftover>>

\* It reads the file, which in the case of the second file must parse, and begins
\* the copy.
OpenBackup ==
    /\ op.pc = "backup" /\ ~BackedUp(op.file) /\ live[op.file] # Missing
    /\ op.file = Side => TRUE \in Parses(live[op.file], op.file)
    /\ backup' = [backup EXCEPT ![op.file] = Torn]
    /\ op' = [op EXCEPT !.pc = "copy", !.text[op.file] = live[op.file]]
    /\ UNCHANGED <<client, live, marker, edits, found, leftover>>

\* The copy takes what the file holds by then.
CopyBackup ==
    /\ op.pc = "copy" /\ live[op.file] # Missing
    /\ backup' = [backup EXCEPT ![op.file] = live[op.file]]
    /\ found' = [found EXCEPT ![op.file] = live[op.file]]
    /\ op' = Advance("backup", "install")
    /\ UNCHANGED <<client, live, marker, edits, leftover>>

\* install_claude_settings, install_codex_config and their counterparts merge what
\* was read into the new file and rename it into place.
Install ==
    /\ op.pc = "install"
    /\ Builds(op.text[op.file], op.file)
    /\ live' = [live EXCEPT ![op.file] = Ours]
    /\ op' = Advance("install", "idle")
    /\ UNCHANGED <<client, backup, marker, edits, found, leftover>>

--------------------------------------------------------------------------------
(***************************************************************************)
(* deactivate_ccr, deactivate_codex_ccr                                    *)
(***************************************************************************)
Deactivate ==
    /\ op.pc = "idle"
    /\ op' = [Idle EXCEPT !.pc = "restore"]
    /\ UNCHANGED <<client, live, backup, marker, edits, found, leftover>>

\* Mutant: the backup is deleted before the file is in place.
RestoreFileTooLate ==
    /\ op.pc = "restore" /\ backup[op.file] # Missing
    /\ TRUE \in Parses(backup[op.file], op.file)
    /\ backup' = [backup EXCEPT ![op.file] = Missing]
    /\ op' = [op EXCEPT !.pc = "remove_backup"]
    /\ UNCHANGED <<client, live, marker, edits, found, leftover>>

\* Mutant: the backup is not validated.
RestoreFileUnchecked ==
    /\ op.pc = "restore" /\ backup[op.file] # Missing
    /\ live' = [live EXCEPT ![op.file] = backup[op.file]]
    /\ op' = [op EXCEPT !.pc = "remove_backup"]
    /\ UNCHANGED <<client, backup, marker, edits, found, leftover>>

\* restore_backup_or_remove_generated: a backup that parses is copied to a
\* temporary file and renamed into place.
RestoreFile ==
    /\ op.pc = "restore" /\ backup[op.file] # Missing
    /\ TRUE \in Parses(backup[op.file], op.file)
    /\ live' = [live EXCEPT ![op.file] = backup[op.file]]
    /\ op' = [op EXCEPT !.pc = "remove_backup"]
    /\ UNCHANGED <<client, backup, marker, edits, found, leftover>>

RemoveBackup ==
    /\ op.pc = "remove_backup"
    /\ backup' = [backup EXCEPT ![op.file] = Missing]
    /\ marker' = marker \ {op.file}
    /\ op' = Advance("restore", "idle")
    /\ UNCHANGED <<client, live, edits, found, leftover>>

\* A file that was missing is deleted.  If the system refuses, nobody is told.
RemoveGenerated ==
    /\ op.pc = "restore" /\ backup[op.file] = Missing /\ op.file \in marker
    /\ \/ /\ live' = [live EXCEPT ![op.file] = Missing]
          /\ UNCHANGED leftover
       \/ /\ leftover' = leftover \cup {op.file}
          /\ UNCHANGED live
    /\ op' = [op EXCEPT !.pc = "remove_marker"]
    /\ UNCHANGED <<client, backup, marker, edits, found>>

RemoveMarker ==
    /\ op.pc = "remove_marker"
    /\ marker' = marker \ {op.file}
    /\ op' = Advance("restore", "idle")
    /\ UNCHANGED <<client, live, backup, edits, found, leftover>>

\* Codex may have no backup of its second file.
NothingToRestore ==
    /\ op.pc = "restore" /\ ~BackedUp(op.file)
    /\ op.file = Side /\ client.sideIsOptional
    /\ op' = Idle
    /\ UNCHANGED <<client, live, backup, marker, edits, found, leftover>>

--------------------------------------------------------------------------------
\* Any step may fail, and so may the process.
Stop ==
    /\ op.pc # "idle"
    /\ op' = Idle
    /\ UNCHANGED <<client, live, backup, marker, edits, found, leftover>>

\* The user, or the client itself, writes or deletes a file at any time.
UserEdit ==
    /\ edits < MaxEdits
    /\ edits' = edits + 1
    /\ \E f \in Files : \E c \in Theirs :
         live' = [live EXCEPT ![f] = c]
    /\ UNCHANGED <<client, backup, marker, op, found, leftover>>

Next ==
    \/ Activate \/ MarkMissing \/ OpenBackup \/ CopyBackup \/ Install
    \/ Deactivate \/ RestoreFile \/ RemoveBackup \/ RemoveGenerated \/ RemoveMarker
    \/ NothingToRestore \/ Stop \/ UserEdit

Spec == Init /\ [][Next]_vars

--------------------------------------------------------------------------------
Steps == {"idle", "backup", "copy", "install", "restore", "remove_backup", "remove_marker"}

\* The files hold contents of the model, and the operation's fields have their types.
TypeOK ==
    /\ client \in Clients
    /\ live \in [Files -> Content] /\ backup \in [Files -> Content]
    /\ found \in [Files -> Content]
    /\ marker \in SUBSET Files /\ leftover \in SUBSET Files
    /\ op \in [pc: Steps, file: Files, text: [Files -> Content]]
    /\ edits \in 0..MaxEdits

\* While a client's file is the one CCR generated, what the user had there is kept,
\* wherever an operation failed or died: the backup is whole and is what the
\* activation found, or the marker says that there was no file.  (A file that a
\* deactivation failed to delete, without noticing, is the exception: later
\* activations take it for the user's own.  Whether a deactivation accepts the backup
\* is ActivationIsReversible's question: blank settings of Claude Code are backed up,
\* and then refused.)
OriginalKept ==
    \A f \in Files : live[f] = Ours /\ f \notin leftover =>
        \/ backup[f] = found[f] /\ found[f] \notin {Ours, Missing}
        \/ f \in marker /\ found[f] = Missing

\* A deactivation writes nothing into a client's file but what the activation found
\* there, although the backup may stem from an activation that died halfway.  (Part
\* of a TOML file may parse, and Codex then gets that part.)
RestoresWhatWasFound ==
    [][\A f \in Files : RestoreFile /\ op.file = f /\ f \notin client.toml =>
         live'[f] = found[f]]_vars

\* "Client config injection should be reversible": between operations, a client that
\* counts as activated can be deactivated.  Its first file has something to be
\* restored from, without which no deactivation gets to the second one; and every
\* complete backup can be restored, that is, it parses.
ActivationIsReversible ==
    op.pc = "idle" /\ Activated =>
        /\ BackedUp(Main)
        /\ \A f \in Files : backup[f] \notin {Missing, Torn} => TRUE \in Parses(backup[f], f)

================================================================================
