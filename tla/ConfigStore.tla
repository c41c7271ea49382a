------------------------------ MODULE ConfigStore ------------------------------
(***************************************************************************)
(* config.json, its backups, and the copy that the server serves from      *)
(* (ccr-config: lib.rs, backup.rs, reloadable.rs; put_config and           *)
(* reload_config of the server).                                           *)
(*                                                                         *)
(* The desktop UI, its tray menu and the server each save the whole        *)
(* configuration, in processes of their own and with no lock between them: *)
(* a save backs the file up, merges what the file holds and the new        *)
(* configuration does not, writes a temporary file and renames it.  The    *)
(* server re-reads the file after its own saves and when the admin API     *)
(* asks it to, and takes its lock only to install what it read.  Any step  *)
(* may fail or be the last one of its process, and users edit the file.    *)
(***************************************************************************)
EXTENDS Naturals, SequencesExt

CONSTANTS
    Tabs,        \* savers in the UI: tabs, the tray menu, applying a preset
    Servers,     \* server requests that can run at the same time: each is a PUT
                 \* of /api/config or a POST of /api/admin/reload
    Configs,     \* the settings a file can hold, see ConfigType
    Default,     \* Config::default(), which names no provider
    Sections,    \* values of the optional sections RoutePool and Proxy
    Unknown,     \* top-level keys that Config does not know
    MaxBackups,  \* MAX_BACKUPS
    MaxTime,     \* bound of the model: the last second
    Edits,       \* what users leave in the file when they edit it themselves
    MaxVersion,  \* bound of the model: how often the file is replaced
    None, Missing, Broken, Torn

\* `valid` says whether validate_config accepts the settings.
ConfigType == [settings: Nat, section: Sections \cup {None}, valid: BOOLEAN]

\* What a file that parses holds.  Other files are Missing, Broken (they do not
\* parse) or Torn (partly written).
Content == [cfg: Configs, extra: SUBSET Unknown]

ASSUME ConfigStoreAssumption ==
    /\ Configs \subseteq ConfigType /\ Default \in Configs /\ ~Default.valid
    /\ \A c \in Configs : \A sec \in Sections :
         c.section = None => [c EXCEPT !.section = sec] \in Configs
    /\ MaxBackups \in Nat \ {0} /\ MaxTime \in Nat /\ MaxVersion \in Nat
    /\ Edits \subseteq Content \cup {Broken}
    /\ {None} \cap Sections = {}
    /\ {Missing, Broken, Torn} \cap Content = {}
    /\ Torn \notin {Missing, Broken} /\ Broken # Missing

Tasks == Tabs \cup Servers

VARIABLES
    clock,      \* the second that names a backup
    disk,       \* config.json
    version,    \* how often it has been replaced
    backups,    \* the backup files, by modification time, oldest first
    mem,        \* ReloadableConfig: what the server serves from
    memVersion, \* history variable: the version of the file that mem was read from
    task,       \* the local state of every save and reload
    published   \* history variable: the settings that config.json has held

vars == <<clock, disk, version, backups, mem, memVersion, task, published>>

IdleTask == [pc |-> "idle", cfg |-> Default, name |-> 0, copy |-> Missing,
             out |-> Missing, ver |-> 0, alone |-> FALSE]

Settings(file) == IF file \in Content THEN {file.cfg} ELSE {}

\* The server starts with what it can load, and does not validate it.
Loaded(file) == IF file \in Content THEN file.cfg ELSE Default

Init ==
    /\ clock = 0 /\ version = 0 /\ memVersion = 0
    /\ disk \in Edits \cup {Missing}
    /\ backups = <<>>
    /\ mem = Loaded(disk)
    /\ task = [w \in Tasks |-> IdleTask]
    /\ published = Settings(disk)

\* config.json becomes `file`.
Publish(file) ==
    /\ version < MaxVersion
    /\ version' = version + 1
    /\ disk' = file
    /\ published' = published \cup Settings(file)

--------------------------------------------------------------------------------
(***************************************************************************)
(* save_config                                                             *)
(***************************************************************************)
\* A tab may hold any configuration, however old; so may the body of a PUT.
BeginSave(w) ==
    /\ task[w].pc = "idle"
    /\ \E c \in Configs :
         task' = [v \in Tasks |->
                    IF v = w THEN [IdleTask EXCEPT !.pc = "backup", !.cfg = c,
                                     !.alone = \A x \in Tasks : task[x].pc = "idle"]
                    ELSE [task[v] EXCEPT !.alone = FALSE]]
    /\ UNCHANGED <<clock, disk, version, backups, mem, memVersion, published>>

Names(files) == {files[i].name : i \in DOMAIN files}

\* The file of that name is written: it is now the youngest.
Written(files, name, content) ==
    Append(RemoveFirstMatch(files, LAMBDA b : b.name = name), [name |-> name, content |-> content])

\* create_backup opens config.json and truncates the backup of this second.
OpenBackup(w) ==
    /\ task[w].pc = "backup"
    /\ IF disk = Missing
       THEN /\ task' = [task EXCEPT ![w].pc = "merge"]
            /\ UNCHANGED backups
       ELSE /\ task' = [task EXCEPT ![w].pc = "copy", ![w].name = clock, ![w].copy = disk]
            /\ backups' = Written(backups, clock, Torn)
    /\ UNCHANGED <<clock, disk, version, mem, memVersion, published>>

\* The copy reaches the backup unless another save has removed that file.
CopyBackup(w) ==
    /\ task[w].pc = "copy"
    /\ backups' = IF task[w].name \in Names(backups)
                  THEN Written(backups, task[w].name, task[w].copy)
                  ELSE backups
    /\ task' = [task EXCEPT ![w].pc = "cleanup", ![w].name = 0, ![w].copy = Missing]
    /\ UNCHANGED <<clock, disk, version, mem, memVersion, published>>

\* Mutant: the list is cut at the wrong end.
CleanupKeepsOldest(w) ==
    /\ task[w].pc = "cleanup"
    /\ backups' = IF Len(backups) > MaxBackups THEN SubSeq(backups, 1, MaxBackups)
                  ELSE backups
    /\ task' = [task EXCEPT ![w].pc = "merge"]
    /\ UNCHANGED <<clock, disk, version, mem, memVersion, published>>

\* cleanup_old_backups
Cleanup(w) ==
    /\ task[w].pc = "cleanup"
    /\ backups' = IF Len(backups) > MaxBackups
                  THEN SubSeq(backups, Len(backups) - MaxBackups + 1, Len(backups))
                  ELSE backups
    /\ task' = [task EXCEPT ![w].pc = "merge"]
    /\ UNCHANGED <<clock, disk, version, mem, memVersion, published>>

\* merge_with_existing_unknown_fields.  An optional section that is None is not
\* serialized, so the file's own section is kept as if it were unknown.
Merged(c, file) ==
    IF file \in Content
    THEN [cfg   |-> IF c.section = None THEN [c EXCEPT !.section = file.cfg.section] ELSE c,
          extra |-> file.extra]
    ELSE [cfg |-> c, extra |-> {}]

Merge(w) ==
    /\ task[w].pc = "merge"
    /\ task' = [task EXCEPT ![w].pc = "write", ![w].out = Merged(task[w].cfg, disk),
                            ![w].cfg = Default]
    /\ UNCHANGED <<clock, disk, version, backups, mem, memVersion, published>>

\* Mutant: the file is written in place.
WriteInPlace(w) ==
    /\ task[w].pc = "write"
    /\ disk' = Torn
    /\ task' = [task EXCEPT ![w].pc = "rename"]
    /\ UNCHANGED <<clock, version, backups, mem, memVersion, published>>

\* The temporary file is private to the save.
WriteTemp(w) ==
    /\ task[w].pc = "write"
    /\ task' = [task EXCEPT ![w].pc = "rename"]
    /\ UNCHANGED <<clock, disk, version, backups, mem, memVersion, published>>

\* A PUT goes on to reload, unless the directory cannot be synced: then it fails,
\* although the file has been replaced.
Rename(w) ==
    /\ task[w].pc = "rename"
    /\ Publish(task[w].out)
    /\ task' = [task EXCEPT ![w] = [IdleTask EXCEPT
                    !.pc = IF w \in Servers THEN "load" ELSE "idle"]]
    /\ UNCHANGED <<clock, backups, mem, memVersion>>

SyncFails(w) ==
    /\ task[w].pc = "rename"
    /\ Publish(task[w].out)
    /\ task' = [task EXCEPT ![w] = IdleTask]
    /\ UNCHANGED <<clock, backups, mem, memVersion>>

\* Mutant: a PUT serves its body although it could not be saved.
SaveFailsButServes(w) ==
    /\ task[w].pc \in {"backup", "copy", "cleanup", "merge", "write", "rename"}
    /\ task' = [task EXCEPT ![w] = IdleTask]
    /\ mem' = IF w \in Servers THEN task[w].cfg ELSE mem
    /\ UNCHANGED <<clock, disk, version, backups, memVersion, published>>

SaveFails(w) ==
    /\ task[w].pc \in {"backup", "copy", "cleanup", "merge", "write", "rename"}
    /\ task' = [task EXCEPT ![w] = IdleTask]
    /\ UNCHANGED <<clock, disk, version, backups, mem, memVersion, published>>

--------------------------------------------------------------------------------
(***************************************************************************)
(* ReloadableConfig::reload                                                *)
(***************************************************************************)
BeginReload(w) ==
    /\ w \in Servers /\ task[w].pc = "idle"
    /\ task' = [task EXCEPT ![w].pc = "load"]
    /\ UNCHANGED <<clock, disk, version, backups, mem, memVersion, published>>

\* load_config and validate_config, before the lock is taken.
Load(w) ==
    /\ task[w].pc = "load"
    /\ disk \in Content /\ disk.cfg.valid
    /\ task' = [task EXCEPT ![w].pc = "apply", ![w].cfg = disk.cfg,
                            ![w].ver = version]
    /\ UNCHANGED <<clock, disk, version, backups, mem, memVersion, published>>

ReloadFails(w) ==
    /\ task[w].pc = "load"
    /\ ~(disk \in Content /\ disk.cfg.valid)
    /\ task' = [task EXCEPT ![w] = IdleTask]
    /\ UNCHANGED <<clock, disk, version, backups, mem, memVersion, published>>

Apply(w) ==
    /\ task[w].pc = "apply"
    /\ mem' = task[w].cfg /\ memVersion' = task[w].ver
    /\ task' = [task EXCEPT ![w] = IdleTask]
    /\ UNCHANGED <<clock, disk, version, backups, published>>

--------------------------------------------------------------------------------
(***************************************************************************)
(* The environment.                                                        *)
(***************************************************************************)
HandEdit ==
    /\ \E file \in Edits : Publish(file)
    /\ task' = [v \in Tasks |-> [task[v] EXCEPT !.alone = FALSE]]
    /\ UNCHANGED <<clock, backups, mem, memVersion>>

\* The server stops at any step of its tasks and is started again.
ServerRestart ==
    /\ task' = [w \in Tasks |-> IF w \in Servers THEN IdleTask ELSE task[w]]
    /\ mem' = Loaded(disk) /\ memVersion' = version
    /\ UNCHANGED <<clock, disk, version, backups, published>>

Tick ==
    /\ clock < MaxTime
    /\ clock' = clock + 1
    /\ UNCHANGED <<disk, version, backups, mem, memVersion, task, published>>

Next ==
    \/ \E w \in Tasks :
         \/ BeginSave(w) \/ OpenBackup(w) \/ CopyBackup(w) \/ Cleanup(w) \/ Merge(w)
         \/ WriteTemp(w) \/ Rename(w) \/ SyncFails(w) \/ SaveFails(w)
         \/ BeginReload(w) \/ Load(w) \/ ReloadFails(w) \/ Apply(w)
    \/ HandEdit \/ ServerRestart \/ Tick

Spec == Init /\ [][Next]_vars

--------------------------------------------------------------------------------
\* Whenever a process reads config.json (load_config may run at any moment, in three
\* programs), it finds a whole file, and never finds it gone once it existed: a save
\* that fails or dies halfway leaves the old file.
WholeFileOnDisk ==
    [][/\ disk' # Torn
       /\ disk # Missing => disk' # Missing]_vars

\* A save that no other save and no edit overlaps can be undone and forgets nothing:
\* when it replaces the file, the file's contents are among the backups that the
\* clean-up kept, even if earlier saves fell into the same second or died halfway,
\* and its unknown keys are in the new file.
SoloSaveLosesNothing ==
    [][\A w \in Tasks : Rename(w) /\ task[w].alone /\ disk # Missing =>
         /\ \E i \in DOMAIN backups : backups[i].content = disk
         /\ disk \in Content => disk.extra \subseteq disk'.extra]_vars

\* The server never serves settings that config.json did not hold: neither the body
\* of a PUT that was merged, nor one that could not be saved.
ServedWasPublished == mem \in published \cup {Default}

\* "Reload config to apply changes": a reload never takes the server back from a
\* newer version of config.json to an older one.
ReloadAppliesChanges == [][memVersion' >= memVersion]_vars

================================================================================
