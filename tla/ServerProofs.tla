------------------------------ MODULE ServerProofs ------------------------------
(***************************************************************************)
(* Proofs about the two files that say what the server is: config.json,    *)
(* whoever saves it and wherever a save stops, and the file with the id of *)
(* its process, however many controllers and processes there are.          *)
(***************************************************************************)
EXTENDS ConfigStore, ServerLifecycle, WellFoundedInduction, TLAPS

--------------------------------------------------------------------------------
(***************************************************************************)
(* config.json: the file stays whole, the server serves only what the file *)
(* has held, and a save that is alone keeps what it replaces.              *)
(***************************************************************************)
Steps == {"idle", "backup", "copy", "cleanup", "merge", "write", "rename", "load", "apply"}

TaskType == [pc: Steps, cfg: Configs, name: 0..MaxTime,
             copy: Content \cup {Missing, Broken}, out: Content \cup {Missing},
             ver: 0..MaxVersion, alone: BOOLEAN]

\* A save that is about to replace the file has a whole one to replace it with; a
\* reload that is about to install its settings has read them from the file.
Sound(t) ==
    /\ t.pc \in {"write", "rename"} => t.out \in Content
    /\ t.pc = "apply" => t.cfg \in published

FileInv ==
    /\ clock \in 0..MaxTime /\ version \in 0..MaxVersion
    /\ disk \in Content \cup {Missing, Broken}
    /\ Settings(disk) \subseteq published

TaskInv ==
    /\ task \in [Tasks -> TaskType]
    /\ \A w \in Tasks : Sound(task[w])

IInv == FileInv /\ TaskInv /\ ServedWasPublished

--------------------------------------------------------------------------------
LEMMA IdleFacts ==
    /\ IdleTask \in TaskType /\ IdleTask.pc = "idle" /\ Sound(IdleTask)
    /\ \A c \in Configs, b \in BOOLEAN :
         LET t == [IdleTask EXCEPT !.pc = "backup", !.cfg = c, !.alone = b]
         IN  t \in TaskType /\ Sound(t)
    /\ LET t == [IdleTask EXCEPT !.pc = "load"] IN t \in TaskType /\ Sound(t)
<1>1. IdleTask \in TaskType
    BY ConfigStoreAssumption DEF IdleTask, TaskType, Steps
<1> QED
    BY <1>1 DEF IdleTask, TaskType, Steps, Sound

\* What the server loads has been in the file, or is the default.
LEMMA LoadedFacts == FileInv => Loaded(disk) \in published \cup {Default}
    BY DEF FileInv, Loaded, Settings

\* merge_with_existing_unknown_fields yields a configuration file.
LEMMA MergedType ==
    ASSUME NEW c \in Configs, NEW file \in Content \cup {Missing, Broken}
    PROVE  Merged(c, file) \in Content
<1>1. CASE file \notin Content
    BY <1>1 DEF Merged, Content
<1>2. CASE file \in Content /\ c.section # None
    BY <1>2 DEF Merged, Content
<1>3. CASE file \in Content /\ c.section = None
  <2>1. file.cfg \in ConfigType /\ c \in ConfigType /\ file.extra \subseteq Unknown
      BY <1>3, ConfigStoreAssumption DEF Content
  <2>2. [c EXCEPT !.section = file.cfg.section] \in Configs
    <3>1. CASE file.cfg.section \in Sections
        BY <1>3, <3>1, ConfigStoreAssumption
    <3>2. CASE file.cfg.section = None
        BY <1>3, <2>1, <3>2 DEF ConfigType
    <3> QED
        BY <2>1, <3>1, <3>2 DEF ConfigType
  <2> QED
      BY <1>3, <2>1, <2>2 DEF Merged, Content
<1> QED
    BY <1>1, <1>2, <1>3

\* The file is replaced.
LEMMA PublishFacts ==
    ASSUME FileInv, NEW file \in Content \cup {Broken}, Publish(file)
    PROVE  /\ version' \in 0..MaxVersion /\ disk' = file
           /\ published \subseteq published' /\ Settings(disk') \subseteq published'
    BY ConfigStoreAssumption DEF FileInv, Publish

LEMMA InitIInv == Init => IInv
<1> SUFFICES ASSUME Init PROVE IInv
    OBVIOUS
<1>1. FileInv
    BY ConfigStoreAssumption DEF Init, FileInv
<1>2. TaskInv
    BY IdleFacts DEF Init, TaskInv
<1>3. ServedWasPublished
    BY <1>1, LoadedFacts DEF Init, ServedWasPublished
<1> QED
    BY <1>1, <1>2, <1>3 DEF IInv

--------------------------------------------------------------------------------
(***************************************************************************)
(* The steps.                                                              *)
(***************************************************************************)
\* A step of one task that leaves config.json and the server's copy alone.
LEMMA TaskStep ==
    ASSUME IInv, NEW w \in Tasks, NEW t \in TaskType, Sound(t),
           task' = [task EXCEPT ![w] = t],
           UNCHANGED <<clock, disk, version, mem, published>>
    PROVE  IInv'
<1>1. task' \in [Tasks -> TaskType] /\ \A v \in Tasks : task'[v] \in {t, task[v]}
    BY DEF IInv, TaskInv
<1>2. \A v \in Tasks : Sound(task'[v])
    BY <1>1 DEF IInv, TaskInv
<1>3. TaskInv'
    BY <1>1, <1>2 DEF TaskInv, Sound
<1> QED
    BY <1>3 DEF IInv, FileInv, Settings, ServedWasPublished

LEMMA BeginSaveIInv == ASSUME IInv, NEW w \in Tasks, BeginSave(w) PROVE IInv'
<1>1. PICK c \in Configs :
        task' = [v \in Tasks |->
                   IF v = w THEN [IdleTask EXCEPT !.pc = "backup", !.cfg = c,
                                    !.alone = \A x \in Tasks : task[x].pc = "idle"]
                   ELSE [task[v] EXCEPT !.alone = FALSE]]
    BY DEF BeginSave
<1>2. PICK b \in BOOLEAN : b = \A x \in Tasks : task[x].pc = "idle"
    OBVIOUS
<1> DEFINE t == [IdleTask EXCEPT !.pc = "backup", !.cfg = c, !.alone = b]
<1>3. t \in TaskType /\ Sound(t)
    BY IdleFacts
<1>4. \A v \in Tasks : /\ [task[v] EXCEPT !.alone = FALSE] \in TaskType
                       /\ Sound([task[v] EXCEPT !.alone = FALSE])
    BY DEF IInv, TaskInv, TaskType, Sound
<1>5. task' = [v \in Tasks |-> IF v = w THEN t ELSE [task[v] EXCEPT !.alone = FALSE]]
    BY <1>1, <1>2
<1> HIDE DEF t
<1>6. task' \in [Tasks -> TaskType] /\ \A v \in Tasks : Sound(task'[v])
    BY <1>3, <1>4, <1>5
<1>7. UNCHANGED <<clock, disk, version, mem, published>>
    BY DEF BeginSave
<1> QED
    BY <1>6, <1>7 DEF IInv, TaskInv, FileInv, Settings, ServedWasPublished, Sound

LEMMA BackupIInv ==
    ASSUME IInv, NEW w \in Tasks, OpenBackup(w) \/ CopyBackup(w) \/ Cleanup(w)
    PROVE  IInv'
<1> DEFINE opened == [task[w] EXCEPT !.pc = "copy", !.name = clock, !.copy = disk]
           copied == [task[w] EXCEPT !.pc = "cleanup", !.name = 0, !.copy = Missing]
           merging == [task[w] EXCEPT !.pc = "merge"]
<1>1. /\ task \in [Tasks -> TaskType] /\ task[w] \in TaskType
      /\ clock \in 0..MaxTime /\ disk \in Content \cup {Missing, Broken}
    BY DEF IInv, TaskInv, FileInv
<1>2. /\ opened \in TaskType /\ Sound(opened)
      /\ copied \in TaskType /\ Sound(copied)
      /\ merging \in TaskType /\ Sound(merging)
  <2>1. opened \in TaskType /\ Sound(opened)
      BY <1>1 DEF TaskType, Steps, Sound
  <2>2. copied \in TaskType /\ Sound(copied)
    <3>1. 0 \in 0..MaxTime /\ Missing \in Content \cup {Missing, Broken}
        BY ConfigStoreAssumption
    <3> QED
        BY <1>1, <3>1 DEF TaskType, Steps, Sound
  <2>3. merging \in TaskType /\ Sound(merging)
      BY <1>1 DEF TaskType, Steps, Sound
  <2> QED
      BY <2>1, <2>2, <2>3
<1>3. PICK t \in {opened, copied, merging} : task' = [task EXCEPT ![w] = t]
    BY <1>1 DEF OpenBackup, CopyBackup, Cleanup, TaskType
<1>4. UNCHANGED <<clock, disk, version, mem, published>>
    BY DEF OpenBackup, CopyBackup, Cleanup
<1> HIDE DEF opened, copied, merging
<1>5. t \in TaskType /\ Sound(t)
    BY <1>2, <1>3
<1> QED
    BY <1>3, <1>4, <1>5, TaskStep

LEMMA MergeIInv == ASSUME IInv, NEW w \in Tasks, Merge(w) \/ WriteTemp(w) PROVE IInv'
<1> DEFINE merged == [task[w] EXCEPT !.pc = "write", !.out = Merged(task[w].cfg, disk),
                                     !.cfg = Default]
           written == [task[w] EXCEPT !.pc = "rename"]
<1>1. /\ task \in [Tasks -> TaskType] /\ task[w] \in TaskType /\ Sound(task[w])
      /\ disk \in Content \cup {Missing, Broken}
    BY DEF IInv, TaskInv, FileInv
<1>2. Merged(task[w].cfg, disk) \in Content
    BY <1>1, MergedType DEF TaskType
<1>3. CASE Merge(w)
  <2>1. merged \in TaskType /\ Sound(merged)
      BY <1>1, <1>2, ConfigStoreAssumption DEF TaskType, Steps, Sound
  <2>2. task' = [task EXCEPT ![w] = merged]
      BY <1>1, <1>3 DEF Merge, TaskType
  <2> HIDE DEF merged
  <2> QED
      BY <1>3, <2>1, <2>2, TaskStep DEF Merge
<1>4. CASE WriteTemp(w)
  <2>1. written \in TaskType /\ Sound(written)
      BY <1>1, <1>4 DEF WriteTemp, TaskType, Steps, Sound
  <2>2. task' = [task EXCEPT ![w] = written]
      BY <1>1, <1>4 DEF WriteTemp, TaskType
  <2> HIDE DEF written
  <2> QED
      BY <1>4, <2>1, <2>2, TaskStep DEF WriteTemp
<1> QED
    BY <1>3, <1>4

\* save_config replaces the file by a whole one, or not at all.
LEMMA RenameIInv == ASSUME IInv, NEW w \in Tasks, Rename(w) \/ SyncFails(w) PROVE IInv'
<1>1. task[w].out \in Content /\ Publish(task[w].out)
    BY DEF Rename, SyncFails, IInv, TaskInv, Sound
<1>2. /\ version' \in 0..MaxVersion /\ disk' \in Content
      /\ published \subseteq published' /\ Settings(disk') \subseteq published'
    BY <1>1, PublishFacts DEF IInv
<1>3. UNCHANGED <<clock, mem>>
    BY DEF Rename, SyncFails
<1>4. PICK t \in {IdleTask, [IdleTask EXCEPT !.pc = "load"]} : task' = [task EXCEPT ![w] = t]
    BY DEF Rename, SyncFails, IdleTask
<1>5. t \in TaskType /\ Sound(t)
    BY <1>4, IdleFacts
<1>6. TaskInv'
  <2>1. task' \in [Tasks -> TaskType] /\ \A v \in Tasks : task'[v] \in {t, task[v]}
      BY <1>4, <1>5 DEF IInv, TaskInv
  <2>2. \A v \in Tasks : Sound(task'[v])
      BY <1>5, <2>1 DEF IInv, TaskInv
  <2> QED
      BY <1>2, <2>1, <2>2 DEF TaskInv, Sound
<1>7. FileInv'
    BY <1>2, <1>3 DEF IInv, FileInv
<1> QED
    BY <1>2, <1>3, <1>6, <1>7 DEF IInv, ServedWasPublished

LEMMA ReloadIInv ==
    ASSUME IInv, NEW w \in Tasks, BeginReload(w) \/ Load(w) \/ ReloadFails(w) \/ SaveFails(w)
    PROVE  IInv'
<1> DEFINE begun == [task[w] EXCEPT !.pc = "load"]
           loaded == [task[w] EXCEPT !.pc = "apply", !.cfg = disk.cfg, !.ver = version]
<1>1. /\ task \in [Tasks -> TaskType] /\ task[w] \in TaskType
      /\ version \in 0..MaxVersion /\ Settings(disk) \subseteq published
    BY DEF IInv, TaskInv, FileInv
<1>2. CASE BeginReload(w)
  <2>1. begun \in TaskType /\ Sound(begun)
      BY <1>1 DEF TaskType, Steps, Sound
  <2>2. task' = [task EXCEPT ![w] = begun]
      BY <1>1, <1>2 DEF BeginReload, TaskType
  <2> HIDE DEF begun
  <2> QED
      BY <1>2, <2>1, <2>2, TaskStep DEF BeginReload
<1>3. CASE Load(w)
  <2>1. disk \in Content /\ disk.cfg \in Configs /\ disk.cfg \in published
      BY <1>1, <1>3 DEF Load, Content, Settings
  <2>2. loaded \in TaskType /\ Sound(loaded)
      BY <1>1, <2>1 DEF TaskType, Steps, Sound
  <2>3. task' = [task EXCEPT ![w] = loaded]
      BY <1>1, <1>3 DEF Load, TaskType
  <2> HIDE DEF loaded
  <2> QED
      BY <1>3, <2>2, <2>3, TaskStep DEF Load
<1>4. CASE ReloadFails(w) \/ SaveFails(w)
  <2>1. IdleTask \in TaskType /\ Sound(IdleTask)
      BY IdleFacts
  <2> QED
      BY <1>4, <2>1, TaskStep DEF ReloadFails, SaveFails
<1> QED
    BY <1>2, <1>3, <1>4

LEMMA ApplyIInv == ASSUME IInv, NEW w \in Tasks, Apply(w) PROVE IInv'
<1>1. IdleTask \in TaskType /\ Sound(IdleTask)
    BY IdleFacts
<1>2. TaskInv'
  <2>1. /\ task' \in [Tasks -> TaskType]
        /\ \A v \in Tasks : task'[v] \in {IdleTask, task[v]}
      BY <1>1 DEF Apply, IInv, TaskInv
  <2>2. \A v \in Tasks : Sound(task'[v])
      BY <1>1, <2>1 DEF IInv, TaskInv
  <2> QED
      BY <2>1, <2>2 DEF TaskInv, Sound, Apply
<1>3. ServedWasPublished'
    BY DEF Apply, IInv, TaskInv, Sound, ServedWasPublished
<1> QED
    BY <1>2, <1>3 DEF IInv, FileInv, Settings, Apply

LEMMA EnvironmentIInv == IInv /\ (HandEdit \/ ServerRestart \/ Tick) => IInv'
<1> SUFFICES ASSUME IInv, HandEdit \/ ServerRestart \/ Tick PROVE IInv'
    OBVIOUS
<1>1. CASE HandEdit
  <2>1. PICK file \in Edits : Publish(file)
      BY <1>1 DEF HandEdit
  <2>2. /\ version' \in 0..MaxVersion /\ disk' \in Content \cup {Broken}
        /\ published \subseteq published' /\ Settings(disk') \subseteq published'
      BY <2>1, PublishFacts, ConfigStoreAssumption DEF IInv
  <2>3. task' = [v \in Tasks |-> [task[v] EXCEPT !.alone = FALSE]] /\ UNCHANGED <<clock, mem>>
      BY <1>1 DEF HandEdit
  <2>4. \A v \in Tasks : /\ [task[v] EXCEPT !.alone = FALSE] \in TaskType
                         /\ Sound([task[v] EXCEPT !.alone = FALSE])
      BY DEF IInv, TaskInv, TaskType, Sound
  <2>5. task' \in [Tasks -> TaskType] /\ \A v \in Tasks : Sound(task'[v])
      BY <2>3, <2>4
  <2>6. TaskInv'
      BY <2>2, <2>5 DEF TaskInv, Sound
  <2>7. FileInv'
      BY <2>2, <2>3 DEF IInv, FileInv
  <2> QED
      BY <2>2, <2>3, <2>6, <2>7 DEF IInv, ServedWasPublished
<1>2. CASE ServerRestart
  <2>1. task' \in [Tasks -> TaskType] /\ \A v \in Tasks : Sound(task'[v])
      BY <1>2, IdleFacts DEF ServerRestart, IInv, TaskInv
  <2>2. TaskInv'
      BY <1>2, <2>1 DEF TaskInv, Sound, ServerRestart
  <2>3. ServedWasPublished'
      BY <1>2, LoadedFacts DEF ServerRestart, IInv, ServedWasPublished
  <2> QED
      BY <1>2, <2>2, <2>3 DEF ServerRestart, IInv, FileInv, Settings
<1>3. CASE Tick
  <2>1. clock' \in 0..MaxTime
      BY <1>3, ConfigStoreAssumption DEF Tick, IInv, FileInv
  <2> QED
      BY <1>3, <2>1 DEF Tick, IInv, FileInv, Settings, TaskInv, Sound, ServedWasPublished
<1> QED
    BY <1>1, <1>2, <1>3

LEMMA NextIInv == IInv /\ [Next]_vars => IInv'
<1> SUFFICES ASSUME IInv, [Next]_vars PROVE IInv'
    OBVIOUS
<1>1. CASE UNCHANGED vars
    BY <1>1 DEF vars, IInv, FileInv, Settings, TaskInv, Sound, ServedWasPublished
<1>2. CASE HandEdit \/ ServerRestart \/ Tick
    BY <1>2, EnvironmentIInv
<1>3. ASSUME NEW w \in Tasks,
             \/ BeginSave(w) \/ OpenBackup(w) \/ CopyBackup(w) \/ Cleanup(w) \/ Merge(w)
             \/ WriteTemp(w) \/ Rename(w) \/ SyncFails(w) \/ SaveFails(w)
             \/ BeginReload(w) \/ Load(w) \/ ReloadFails(w) \/ Apply(w)
      PROVE  IInv'
    BY <1>3, BeginSaveIInv, BackupIInv, MergeIInv, RenameIInv, ReloadIInv, ApplyIInv
<1> QED
    BY <1>1, <1>2, <1>3 DEF Next

LEMMA InvariantIInv == Spec => []IInv
<1> QED
    BY InitIInv, NextIInv, PTL DEF Spec

--------------------------------------------------------------------------------
\* ReloadableConfig: the server serves only settings that config.json has held,
\* whatever saves, edits and restarts happen between the steps of its reloads.
THEOREM OnlyThePublishedIsServed == Spec => []ServedWasPublished
<1>1. IInv => ServedWasPublished
    BY DEF IInv
<1> QED
    BY <1>1, InvariantIInv, PTL

\* save_config: config.json is never partly written, and never gone once it existed.
THEOREM FileStaysWhole == Spec => WholeFileOnDisk
<1>1. ASSUME IInv, [Next]_vars, disk # Missing PROVE disk' # Missing
  <2>1. CASE disk' = disk
      BY <1>1, <2>1
  <2>2. CASE HandEdit
      BY <2>2, ConfigStoreAssumption DEF HandEdit, Publish
  <2>3. ASSUME NEW w \in Tasks, Rename(w) \/ SyncFails(w) PROVE disk' # Missing
    <3>1. task[w].out \in Content /\ disk' = task[w].out
        BY <1>1, <2>3 DEF Rename, SyncFails, Publish, IInv, TaskInv, Sound
    <3> QED
        BY <3>1, ConfigStoreAssumption
  <2> QED
      BY <1>1, <2>1, <2>2, <2>3 DEF Next, vars, BeginSave, OpenBackup, CopyBackup, Cleanup,
         Merge, WriteTemp, SaveFails, BeginReload, Load, ReloadFails, Apply, ServerRestart, Tick
<1>2. IInv /\ [Next]_vars => disk' # Torn /\ (disk # Missing => disk' # Missing)
  <2>1. IInv' => disk' # Torn
      BY ConfigStoreAssumption DEF IInv, FileInv
  <2> QED
      BY <1>1, <2>1, NextIInv
<1> QED
    BY <1>2, InvariantIInv, PTL DEF WholeFileOnDisk, Spec

--------------------------------------------------------------------------------
(***************************************************************************)
(* A save that is alone.  What it is going to replace is in its hands, or  *)
(* the youngest of the backups, or among those that the clean-up has kept. *)
(***************************************************************************)
Quiet == {"idle", "load", "apply"}

Solo(w) ==
    LET t == task[w]
    IN  t.alone =>
          /\ t.pc \notin Quiet
          /\ \A v \in Tasks \ {w} : task[v].pc \in Quiet
          /\ t.pc = "copy" => disk # Missing /\ t.copy = disk /\ t.name \in Names(backups)
          /\ t.pc = "cleanup" => Len(backups) > 0 /\ backups[Len(backups)].content = disk
          /\ t.pc \in {"merge", "write", "rename"} /\ disk # Missing =>
                \E i \in DOMAIN backups : backups[i].content = disk
          /\ t.pc \in {"write", "rename"} /\ disk \in Content => disk.extra \subseteq t.out.extra

BackupType == [name: 0..MaxTime, content: Content \cup {Missing, Broken, Torn}]

SoloInv == backups \in Seq(BackupType) /\ \A w \in Tasks : Solo(w)

Less == {ss \in Nat \X Nat : ss[1] < ss[2]}

LEMMA LeastOf ==
    ASSUME NEW S \in SUBSET Nat, S # {}
    PROVE  Min(S) \in S
<1>1. IsWellFoundedOn(Less, Nat)
    BY NatLessThanWellFounded DEF OpToRel, Less
<1>2. PICK n \in S : \A m \in S : ~(<<m, n>> \in Less)
    BY <1>1, WFMin
<1>3. ASSUME NEW m \in S PROVE n <= m
  <2>1. m \in Nat /\ n \in Nat /\ ~(<<m, n>> \in Less)
      BY <1>2
  <2> QED
      BY <2>1 DEF Less
<1> QED
    BY <1>3 DEF Min

\* The file that has been written is the last of the list.
LEMMA WrittenIsLast ==
    ASSUME NEW files \in Seq(BackupType), NEW name \in 0..MaxTime,
           NEW content \in Content \cup {Missing, Broken, Torn}
    PROVE  /\ Written(files, name, content) \in Seq(BackupType)
           /\ Len(Written(files, name, content)) > 0
           /\ Written(files, name, content)[Len(Written(files, name, content))]
                 = [name |-> name, content |-> content]
<1> DEFINE Named == {i \in 1..Len(files) : files[i].name = name}
           rest  == RemoveFirstMatch(files, LAMBDA b : b.name = name)
           entry == [name |-> name, content |-> content]
<1>1. rest \in Seq(BackupType)
  <2>1. CASE Named = {}
    <3>1. ~ \E i \in 1..Len(files) : files[i].name = name
        BY <2>1
    <3> QED
        BY <3>1 DEF RemoveFirstMatch
  <2>2. CASE Named # {}
    <3> Named \in SUBSET Nat
        OBVIOUS
    <3>1. Min(Named) \in Named
      <4> HIDE DEF Named
      <4> QED
          BY <2>2, LeastOf
    <3>2. Min(Named) \in 1..Len(files)
        BY <3>1
    <3>3. rest = RemoveAt(files, Min(Named))
      <4>1. \E i \in 1..Len(files) : files[i].name = name
          BY <2>2
      <4> QED
          BY <2>2, <4>1 DEF RemoveFirstMatch, SelectInSeq
    <3> HIDE DEF Named, rest
    <3>4. RemoveAt(files, Min(Named)) \in Seq(BackupType)
        BY <3>2 DEF RemoveAt
    <3> QED
        BY <3>3, <3>4
  <2> QED
      BY <2>1, <2>2
<1>2. entry \in BackupType
    BY DEF BackupType
<1>3. Written(files, name, content) = Append(rest, entry)
    BY DEF Written
<1> HIDE DEF Named, rest, entry
<1>4. /\ Append(rest, entry) \in Seq(BackupType) /\ Len(Append(rest, entry)) > 0
      /\ Append(rest, entry)[Len(Append(rest, entry))] = entry
    BY <1>1, <1>2
<1> QED
    BY <1>3, <1>4 DEF entry

\* While a save is alone, another task changes nothing that matters to it, unless it
\* is a save that begins.
LEMMA OthersAreQuiet ==
    ASSUME IInv, SoloInv, NEW w \in Tasks, task[w].alone, NEW v \in Tasks, v # w,
           \/ BeginSave(v) \/ OpenBackup(v) \/ CopyBackup(v) \/ Cleanup(v) \/ Merge(v)
           \/ WriteTemp(v) \/ Rename(v) \/ SyncFails(v) \/ SaveFails(v)
           \/ BeginReload(v) \/ Load(v) \/ ReloadFails(v) \/ Apply(v)
    PROVE  Solo(w)'
<1>1. /\ task \in [Tasks -> TaskType] /\ task[v].pc \in Quiet /\ Solo(w)
    BY DEF IInv, TaskInv, SoloInv, Solo
<1>2. CASE BeginSave(v)
  <2>1. task'[w] = [task[w] EXCEPT !.alone = FALSE]
      BY <1>2 DEF BeginSave
  <2>2. task'[w].alone = FALSE
      BY <1>1, <2>1 DEF TaskType
  <2> QED
      BY <2>2 DEF Solo
<1>3. CASE ~BeginSave(v)
  <2>1. /\ task'[w] = task[w] /\ task'[v].pc \in Quiet
        /\ \A x \in Tasks \ {v} : task'[x] = task[x]
    <3> DEFINE begun == [task[v] EXCEPT !.pc = "load"]
               loaded == [task[v] EXCEPT !.pc = "apply", !.cfg = disk.cfg, !.ver = version]
    <3>1. PICK t : task' = [task EXCEPT ![v] = t] /\ t.pc \in Quiet
      <4>1. BeginReload(v) \/ Load(v) \/ ReloadFails(v) \/ Apply(v)
          BY <1>1, <1>3 DEF Quiet, OpenBackup, CopyBackup, Cleanup, Merge, WriteTemp,
             Rename, SyncFails, SaveFails
      <4>2. CASE BeginReload(v)
        <5>1. task' = [task EXCEPT ![v] = begun] /\ begun.pc = "load"
            BY <1>1, <4>2 DEF BeginReload, TaskType
        <5> QED
            BY <5>1 DEF Quiet
      <4>3. CASE Load(v)
        <5>1. task' = [task EXCEPT ![v] = loaded] /\ loaded.pc = "apply"
            BY <1>1, <4>3 DEF Load, TaskType
        <5> QED
            BY <5>1 DEF Quiet
      <4>4. CASE ReloadFails(v) \/ Apply(v)
          BY <1>1, <4>4, IdleFacts DEF ReloadFails, Apply, Quiet
      <4> QED
          BY <4>1, <4>2, <4>3, <4>4
    <3> QED
        BY <1>1, <3>1
  <2>2. UNCHANGED <<disk, backups>>
      BY <1>1, <1>3 DEF Quiet, OpenBackup, CopyBackup, Cleanup, Merge, WriteTemp,
         Rename, SyncFails, SaveFails, BeginReload, Load, ReloadFails, Apply
  <2> QED
      BY <1>1, <2>1, <2>2 DEF Solo, Names
<1> QED
    BY <1>2, <1>3

\* The steps of a save up to the clean-up of its backups.
LEMMA BackingUp ==
    ASSUME IInv, SoloInv, NEW w \in Tasks,
           BeginSave(w) \/ OpenBackup(w) \/ CopyBackup(w) \/ Cleanup(w)
    PROVE  backups' \in Seq(BackupType) /\ Solo(w)'
<1>1. /\ task \in [Tasks -> TaskType] /\ task[w] \in TaskType /\ Solo(w)
      /\ clock \in 0..MaxTime /\ disk \in Content \cup {Missing, Broken}
      /\ backups \in Seq(BackupType) /\ MaxBackups \in Nat \ {0}
    BY ConfigStoreAssumption DEF IInv, FileInv, TaskInv, SoloInv
<1>2. CASE BeginSave(w)
  <2>1. PICK c \in Configs, b \in BOOLEAN :
          /\ b = \A x \in Tasks : task[x].pc = "idle"
          /\ task' = [v \in Tasks |->
                       IF v = w THEN [IdleTask EXCEPT !.pc = "backup", !.cfg = c, !.alone = b]
                       ELSE [task[v] EXCEPT !.alone = FALSE]]
      BY <1>2 DEF BeginSave
  <2>2. /\ task'[w].pc = "backup" /\ task'[w].alone = b
        /\ \A v \in Tasks \ {w} : task'[v].pc = task[v].pc
      BY <1>1, <2>1 DEF TaskType, IdleTask
  <2>3. \A v \in Tasks \ {w} : b => task'[v].pc \in Quiet
      BY <2>1, <2>2 DEF Quiet
  <2>4. backups' = backups
      BY <1>2 DEF BeginSave
  <2> QED
      BY <1>1, <2>2, <2>3, <2>4 DEF Solo, Quiet
<1>3. CASE OpenBackup(w)
  <2> DEFINE opened == [task[w] EXCEPT !.pc = "copy", !.name = clock, !.copy = disk]
             merging == [task[w] EXCEPT !.pc = "merge"]
  <2>1. UNCHANGED disk
      BY <1>3 DEF OpenBackup
  <2>2. CASE disk = Missing
    <3>1. task' = [task EXCEPT ![w] = merging] /\ backups' = backups
        BY <1>1, <1>3, <2>2 DEF OpenBackup, TaskType
    <3>2. merging.pc = "merge" /\ merging.alone = task[w].alone
        BY <1>1 DEF TaskType
    <3> HIDE DEF merging
    <3>3. task'[w] = merging /\ \A v \in Tasks \ {w} : task'[v] = task[v]
        BY <1>1, <3>1
    <3> QED
        BY <1>1, <2>1, <2>2, <3>1, <3>2, <3>3 DEF Solo, Quiet
  <2>3. CASE disk # Missing
    <3>1. task' = [task EXCEPT ![w] = opened] /\ backups' = Written(backups, clock, Torn)
        BY <1>1, <1>3, <2>3 DEF OpenBackup, TaskType
    <3>2. /\ opened.pc = "copy" /\ opened.alone = task[w].alone
          /\ opened.name = clock /\ opened.copy = disk
        BY <1>1 DEF TaskType
    <3> HIDE DEF opened
    <3>3. task'[w] = opened /\ \A v \in Tasks \ {w} : task'[v] = task[v]
        BY <1>1, <3>1
    <3>4. /\ backups' \in Seq(BackupType) /\ Len(backups') > 0
          /\ backups'[Len(backups')] = [name |-> clock, content |-> Torn]
        BY <1>1, <3>1, WrittenIsLast
    <3>5. Len(backups') \in DOMAIN backups'
        BY <3>4
    <3>6. clock \in Names(backups')
        BY <3>4, <3>5 DEF Names
    <3> QED
        BY <1>1, <2>1, <2>3, <3>2, <3>3, <3>4, <3>6 DEF Solo, Quiet, Names
  <2> QED
      BY <2>2, <2>3
<1>4. CASE CopyBackup(w)
  <2> DEFINE copied == [task[w] EXCEPT !.pc = "cleanup", !.name = 0, !.copy = Missing]
             file == [name |-> task[w].name, content |-> task[w].copy]
  <2>1. /\ task' = [task EXCEPT ![w] = copied] /\ UNCHANGED disk /\ task[w].pc = "copy"
        /\ backups' = IF task[w].name \in Names(backups)
                      THEN Written(backups, task[w].name, task[w].copy) ELSE backups
      BY <1>1, <1>4 DEF CopyBackup, TaskType
  <2>2. copied.pc = "cleanup" /\ copied.alone = task[w].alone
      BY <1>1 DEF TaskType
  <2>3. task[w].name \in 0..MaxTime /\ task[w].copy \in Content \cup {Missing, Broken, Torn}
      BY <1>1 DEF TaskType
  <2> HIDE DEF copied
  <2>4. task'[w] = copied /\ \A v \in Tasks \ {w} : task'[v] = task[v]
      BY <1>1, <2>1
  <2>5. /\ backups' \in Seq(BackupType)
        /\ task[w].name \in Names(backups) =>
              Len(backups') > 0 /\ backups'[Len(backups')].content = task[w].copy
    <3>1. LET files == Written(backups, task[w].name, task[w].copy)
          IN  files \in Seq(BackupType) /\ Len(files) > 0 /\ files[Len(files)] = file
        BY <1>1, <2>3, WrittenIsLast
    <3> QED
        BY <1>1, <2>1, <3>1
  <2> QED
      BY <1>1, <2>1, <2>2, <2>4, <2>5 DEF Solo, Quiet
<1>5. CASE Cleanup(w)
  <2> DEFINE merging == [task[w] EXCEPT !.pc = "merge"]
             first == Len(backups) - MaxBackups + 1
  <2>1. /\ task' = [task EXCEPT ![w] = merging] /\ UNCHANGED disk /\ task[w].pc = "cleanup"
        /\ backups' = IF Len(backups) > MaxBackups THEN SubSeq(backups, first, Len(backups))
                      ELSE backups
      BY <1>1, <1>5 DEF Cleanup, TaskType
  <2>2. merging.pc = "merge" /\ merging.alone = task[w].alone
      BY <1>1 DEF TaskType
  <2> HIDE DEF merging
  <2>3. task'[w] = merging /\ \A v \in Tasks \ {w} : task'[v] = task[v]
      BY <1>1, <2>1
  <2>4. /\ backups' \in Seq(BackupType)
        /\ Len(backups) > 0 => /\ Len(backups') > 0
                               /\ backups'[Len(backups')] = backups[Len(backups)]
      BY <1>1, <2>1
  <2>5. task[w].alone => \E i \in DOMAIN backups' : backups'[i].content = disk
    <3> SUFFICES ASSUME task[w].alone PROVE \E i \in DOMAIN backups' : backups'[i].content = disk
        OBVIOUS
    <3>1. Len(backups) > 0 /\ backups[Len(backups)].content = disk
        BY <1>1, <2>1 DEF Solo
    <3>2. Len(backups') \in DOMAIN backups'
        BY <2>4, <3>1
    <3> QED
        BY <2>4, <3>1, <3>2
  <2> QED
      BY <1>1, <2>1, <2>2, <2>3, <2>4, <2>5 DEF Solo, Quiet
<1> QED
    BY <1>2, <1>3, <1>4, <1>5

\* The other steps of a task.
LEMMA Replacing ==
    ASSUME IInv, SoloInv, NEW w \in Tasks,
           \/ Merge(w) \/ WriteTemp(w) \/ Rename(w) \/ SyncFails(w) \/ SaveFails(w)
           \/ BeginReload(w) \/ Load(w) \/ ReloadFails(w) \/ Apply(w)
    PROVE  backups' = backups /\ Solo(w)'
<1>1. /\ task \in [Tasks -> TaskType] /\ task[w] \in TaskType /\ Solo(w)
      /\ disk \in Content \cup {Missing, Broken}
    BY DEF IInv, FileInv, TaskInv, SoloInv
<1>2. backups' = backups
    BY DEF Merge, WriteTemp, Rename, SyncFails, SaveFails, BeginReload, Load, ReloadFails, Apply
<1>3. CASE Merge(w)
  <2> DEFINE merged == [task[w] EXCEPT !.pc = "write", !.out = Merged(task[w].cfg, disk),
                                       !.cfg = Default]
  <2>1. task' = [task EXCEPT ![w] = merged] /\ UNCHANGED disk /\ task[w].pc = "merge"
      BY <1>1, <1>3 DEF Merge, TaskType
  <2>2. /\ merged.pc = "write" /\ merged.alone = task[w].alone
        /\ merged.out = Merged(task[w].cfg, disk)
      BY <1>1 DEF TaskType
  <2> HIDE DEF merged
  <2>3. task'[w] = merged /\ \A v \in Tasks \ {w} : task'[v] = task[v]
      BY <1>1, <2>1
  <2>4. disk \in Content => merged.out.extra = disk.extra
      BY <2>2 DEF Merged
  <2> QED
      BY <1>1, <1>2, <2>1, <2>2, <2>3, <2>4 DEF Solo, Quiet
<1>4. CASE WriteTemp(w)
  <2> DEFINE written == [task[w] EXCEPT !.pc = "rename"]
  <2>1. task' = [task EXCEPT ![w] = written] /\ UNCHANGED disk /\ task[w].pc = "write"
      BY <1>1, <1>4 DEF WriteTemp, TaskType
  <2>2. written.pc = "rename" /\ written.alone = task[w].alone /\ written.out = task[w].out
      BY <1>1 DEF TaskType
  <2> HIDE DEF written
  <2>3. task'[w] = written /\ \A v \in Tasks \ {w} : task'[v] = task[v]
      BY <1>1, <2>1
  <2> QED
      BY <1>1, <1>2, <2>1, <2>2, <2>3 DEF Solo, Quiet
<1>5. CASE BeginReload(w) \/ Load(w)
  <2>1. ~task[w].alone
      BY <1>1, <1>5 DEF BeginReload, Load, Solo, Quiet
  <2>2. task'[w].alone = task[w].alone
      BY <1>1, <1>5 DEF BeginReload, Load, TaskType
  <2> QED
      BY <1>2, <2>1, <2>2 DEF Solo
<1>6. CASE Rename(w) \/ SyncFails(w) \/ SaveFails(w) \/ ReloadFails(w) \/ Apply(w)
  <2>1. task'[w].alone = FALSE
      BY <1>1, <1>6 DEF Rename, SyncFails, SaveFails, ReloadFails, Apply, IdleTask
  <2> QED
      BY <1>2, <2>1 DEF Solo
<1> QED
    BY <1>3, <1>4, <1>5, <1>6

LEMMA NextSoloInv == IInv /\ SoloInv /\ [Next]_vars => SoloInv'
<1> SUFFICES ASSUME IInv, SoloInv, [Next]_vars PROVE SoloInv'
    OBVIOUS
<1>1. task \in [Tasks -> TaskType]
    BY DEF IInv, TaskInv
<1>2. CASE UNCHANGED vars \/ Tick
  <2>1. UNCHANGED <<disk, backups, task>>
      BY <1>2 DEF vars, Tick
  <2> QED
      BY <2>1 DEF SoloInv, Solo, Names
<1>3. CASE HandEdit
  <2>1. backups' = backups /\ \A w \in Tasks : task'[w].alone = FALSE
      BY <1>1, <1>3 DEF HandEdit, TaskType
  <2> QED
      BY <2>1 DEF SoloInv, Solo
<1>4. CASE ServerRestart
  <2>1. /\ UNCHANGED <<disk, backups>>
        /\ \A v \in Tasks : task'[v] \in {IdleTask, task[v]}
        /\ IdleTask.pc \in Quiet /\ ~IdleTask.alone
      BY <1>1, <1>4 DEF ServerRestart, IdleTask, Quiet
  <2>2. ASSUME NEW w \in Tasks, task'[w].alone PROVE Solo(w)'
    <3>1. task'[w] = task[w] /\ Solo(w)
        BY <2>1, <2>2 DEF SoloInv
    <3> QED
        BY <2>1, <2>2, <3>1 DEF Solo, Names
  <2> QED
      BY <2>1, <2>2 DEF SoloInv, Solo
<1>5. ASSUME NEW v \in Tasks,
             \/ BeginSave(v) \/ OpenBackup(v) \/ CopyBackup(v) \/ Cleanup(v) \/ Merge(v)
             \/ WriteTemp(v) \/ Rename(v) \/ SyncFails(v) \/ SaveFails(v)
             \/ BeginReload(v) \/ Load(v) \/ ReloadFails(v) \/ Apply(v)
      PROVE  SoloInv'
  <2>1. backups' \in Seq(BackupType) /\ Solo(v)'
    <3>1. backups \in Seq(BackupType)
        BY DEF SoloInv
    <3> QED
        BY <1>5, <3>1, BackingUp, Replacing
  <2>2. ASSUME NEW w \in Tasks, w # v, task[w].alone PROVE Solo(w)'
      BY <1>5, <2>2, OthersAreQuiet
  <2>3. ASSUME NEW w \in Tasks, w # v, ~task[w].alone PROVE Solo(w)'
    <3>1. ~task'[w].alone
        BY <1>1, <1>5, <2>3 DEF TaskType, BeginSave, OpenBackup, CopyBackup, Cleanup, Merge,
           WriteTemp, Rename, SyncFails, SaveFails, BeginReload, Load, ReloadFails, Apply
    <3> QED
        BY <3>1 DEF Solo
  <2> QED
      BY <2>1, <2>2, <2>3 DEF SoloInv
<1> QED
    BY <1>2, <1>3, <1>4, <1>5 DEF Next

\* save_config: a save that no other save and no edit overlaps leaves the contents of the
\* file that it replaces among the backups, and the file's unknown keys in the new one,
\* however many saves have failed before and whatever is reloaded or restarted meanwhile.
THEOREM SoloSavesLoseNothing == Spec => SoloSaveLosesNothing
<1>1. Init => SoloInv
    BY DEF Init, SoloInv, Solo, IdleTask
<1>2. Spec => [](IInv /\ SoloInv)
    BY <1>1, InitIInv, NextIInv, NextSoloInv, PTL DEF Spec
<1>3. ASSUME IInv, SoloInv, NEW w \in Tasks, Rename(w), task[w].alone, disk # Missing
      PROVE  /\ \E i \in DOMAIN backups : backups[i].content = disk
             /\ disk \in Content => disk.extra \subseteq disk'.extra
  <2>1. Solo(w) /\ task[w].pc = "rename" /\ disk' = task[w].out
      BY <1>3 DEF SoloInv, Rename, Publish
  <2> QED
      BY <1>3, <2>1 DEF Solo
<1>4. IInv /\ SoloInv =>
        \A w \in Tasks : Rename(w) /\ task[w].alone /\ disk # Missing =>
            /\ \E i \in DOMAIN backups : backups[i].content = disk
            /\ disk \in Content => disk.extra \subseteq disk'.extra
    BY <1>3
<1> QED
    BY <1>2, <1>4, PTL DEF SoloSaveLosesNothing

--------------------------------------------------------------------------------
(***************************************************************************)
(* The process: as long as no two operations overlap and none dies before  *)
(* it writes the file, the file accounts for every server.                 *)
(***************************************************************************)
\* The servers that nothing has told to stop.
Live == InState({"starting", "serving"})

ProcessType == [state: States, byUi: BOOLEAN]

CtlType == [pc: {"idle", "check", "spawn", "write", "unlink"},
            child: Pids \cup {NoProcess}, restart: BOOLEAN]

Sane(t) == t.pc = "write" <=> t.child # NoProcess

\* At most one operation is under way.  Between operations the file names the only
\* live server; during one the only live server is the one it has just started.
Track ==
    /\ \A c, d \in Controllers : ctl[c].pc # "idle" /\ ctl[d].pc # "idle" => c = d
    /\ \A p \in Live : \/ p = pidFile
                       \/ \E c \in Controllers : ctl[c].pc = "write" /\ ctl[c].child = p
    /\ \A c \in Controllers : ctl[c].pc # "idle" =>
         \A p \in Live : ctl[c].pc = "write" /\ ctl[c].child = p

TrackInv == TypeOK /\ (~disturbed => Track)

\* What is live after a step of a controller whose record is then t.
Settled(t, live, file) ==
    \A p \in live : IF t.pc = "idle" THEN p = file ELSE t.pc = "write" /\ t.child = p

OthersIdle(c) == \A d \in Controllers \ {c} : ctl[d].pc = "idle"

--------------------------------------------------------------------------------
LEMMA IdleController ==
    /\ Idle \in CtlType /\ Sane(Idle) /\ Idle.pc = "idle"
    /\ \A step \in {"check", "spawn"} :
         [Idle EXCEPT !.pc = step] \in CtlType /\ Sane([Idle EXCEPT !.pc = step])
    BY DEF Idle, CtlType, Sane

LEMMA EndedFacts ==
    \A q \in {Process("zombie", TRUE), Process("free", FALSE)} :
      q \in ProcessType /\ q.state \notin {"starting", "serving"}
<1>1. /\ Process("zombie", TRUE) \in ProcessType
      /\ Process("zombie", TRUE).state \notin {"starting", "serving"}
    BY DEF Process, ProcessType, States
<1>2. /\ Process("free", FALSE) \in ProcessType
      /\ Process("free", FALSE).state \notin {"starting", "serving"}
    BY DEF Process, ProcessType, States
<1> QED
    BY <1>1, <1>2

LEMMA InitTrack == LifecycleInit => TrackInv
<1> SUFFICES ASSUME LifecycleInit PROVE TrackInv
    OBVIOUS
<1>1. /\ proc \in [Pids -> ProcessType] /\ \A p \in Pids : proc[p].state = "free"
    BY DEF LifecycleInit, Process, ProcessType, States
<1>2. TypeOK
    BY <1>1, IdleController DEF LifecycleInit, TypeOK, ProcessType, CtlType, Sane
<1>3. Live = {}
    BY <1>1 DEF Live, InState
<1>4. Track
    BY <1>3, IdleController DEF LifecycleInit, Track
<1> QED
    BY <1>2, <1>4 DEF TrackInv

\* Between operations, a file that names no running process means that there is none.
LEMMA NoneLive ==
    ASSUME TypeOK, Track, \A c \in Controllers : ctl[c].pc = "idle"
    PROVE  /\ Live \subseteq {pidFile}
           /\ Snapshot # "running" => Live = {}
<1>1. Live \subseteq {pidFile}
    BY DEF Track
<1>2. pidFile \in Live => Snapshot = "running"
  <2> SUFFICES ASSUME pidFile \in Live PROVE Snapshot = "running"
      OBVIOUS
  <2>1. pidFile \in Pids /\ pidFile # NoProcess /\ proc[pidFile].state # "free"
      BY ServerLifecycleAssumption DEF Live, InState
  <2> QED
      BY <2>1 DEF Snapshot, Alive, InState
<1> QED
    BY <1>1, <1>2

LEMMA SnapshotFacts == TypeOK /\ Snapshot = "running" => pidFile \in Pids
    BY DEF TypeOK, Snapshot

\* A process that is told to stop is not live.
LEMMA TerminatedFacts ==
    ASSUME TypeOK, pidFile \in Pids, proc' = [proc EXCEPT ![pidFile] = Terminated(pidFile)]
    PROVE  proc' \in [Pids -> ProcessType] /\ Live' \subseteq Live \ {pidFile}
<1>1. proc \in [Pids -> ProcessType] /\ proc[pidFile] \in ProcessType
    BY DEF TypeOK, ProcessType
<1>2. /\ Terminated(pidFile) \in ProcessType
      /\ Terminated(pidFile).state \notin {"starting", "serving"}
  <2>1. CASE proc[pidFile].state \in {"starting", "serving"}
      BY <1>1, <2>1 DEF Terminated, ProcessType, States
  <2>2. CASE proc[pidFile].state = "other"
      BY <1>1, <2>2 DEF Terminated, ProcessType, States
  <2>3. CASE proc[pidFile].state \notin {"starting", "serving", "other"}
      BY <1>1, <2>3 DEF Terminated
  <2> QED
      BY <2>1, <2>2, <2>3
<1>3. PICK q : q = Terminated(pidFile)
    OBVIOUS
<1>4. proc' = [proc EXCEPT ![pidFile] = q]
    BY <1>3
<1>5. proc' \in [Pids -> ProcessType] /\ \A p \in Pids \ {pidFile} : proc'[p] = proc[p]
    BY <1>1, <1>2, <1>3, <1>4
<1>6. proc'[pidFile] = q
    BY <1>1, <1>4
<1>7. \A p \in Live' : p \in Live \ {pidFile}
    BY <1>2, <1>3, <1>5, <1>6 DEF Live, InState
<1> QED
    BY <1>5, <1>7

--------------------------------------------------------------------------------
(***************************************************************************)
(* The steps.                                                              *)
(***************************************************************************)
LEMMA ControllerStep ==
    ASSUME TrackInv, NEW c \in Controllers, NEW t \in CtlType, Sane(t),
           ctl' = [ctl EXCEPT ![c] = t],
           pidFile' \in Pids \cup {NoProcess}, proc' \in [Pids -> ProcessType],
           disturbed' \in BOOLEAN,
           ~disturbed' => OthersIdle(c) /\ Settled(t, Live', pidFile')
    PROVE  TrackInv'
<1>1. /\ ctl' \in [Controllers -> CtlType] /\ ctl'[c] = t
      /\ \A d \in Controllers \ {c} : ctl'[d] = ctl[d]
    BY DEF TrackInv, TypeOK, CtlType
<1>2. \A d \in Controllers : Sane(ctl'[d])
    BY <1>1 DEF TrackInv, TypeOK, Sane
<1>3. TypeOK'
    BY <1>1, <1>2 DEF TypeOK, CtlType, ProcessType, Sane
<1>4. ASSUME ~disturbed' PROVE Track'
  <2>1. \A d \in Controllers \ {c} : ctl'[d].pc = "idle"
      BY <1>1, <1>4 DEF OthersIdle
  <2>2. Settled(t, Live', pidFile')
      BY <1>4
  <2> QED
      BY <1>1, <2>1, <2>2 DEF Track, Settled
<1> QED
    BY <1>3, <1>4 DEF TrackInv

\* When an operation begins undisturbed, all controllers are idle.
LEMMA BeginsFacts ==
    ASSUME TrackInv, NEW c \in Controllers, Begins(c)
    PROVE  /\ disturbed' \in BOOLEAN
           /\ ~disturbed' => Track /\ \A d \in Controllers : ctl[d].pc = "idle"
           /\ ctl[c] \in CtlType /\ ctl[c].child = NoProcess /\ ctl[c].pc = "idle"
<1>1. disturbed' \in BOOLEAN
    BY DEF Begins, TrackInv, TypeOK
<1>2. ~disturbed' => ~disturbed /\ \A d \in Controllers : ctl[d].pc = "idle"
    BY DEF Begins
<1>3. ctl[c] \in CtlType /\ ctl[c].child = NoProcess /\ ctl[c].pc = "idle"
    BY DEF Begins, TrackInv, TypeOK, CtlType
<1> QED
    BY <1>1, <1>2, <1>3 DEF TrackInv

\* An operation under way that is undisturbed is the only one.
LEMMA UnderWay ==
    ASSUME TrackInv, ~disturbed, NEW c \in Controllers, ctl[c].pc # "idle"
    PROVE  /\ OthersIdle(c)
           /\ \A p \in Live : ctl[c].pc = "write" /\ ctl[c].child = p
    BY DEF TrackInv, Track, OthersIdle

LEMMA StartTrack == ASSUME TrackInv, NEW c \in Controllers, Start(c) PROVE TrackInv'
<1> DEFINE t == [ctl[c] EXCEPT !.pc = "spawn"]
<1>1. /\ ctl[c] \in CtlType /\ ctl[c].child = NoProcess /\ disturbed' \in BOOLEAN
      /\ ~disturbed' => Track /\ \A d \in Controllers : ctl[d].pc = "idle"
    BY BeginsFacts DEF Start
<1>2. t \in CtlType /\ Sane(t)
    BY <1>1 DEF CtlType, Sane
<1>3. ctl' = [ctl EXCEPT ![c] = t] /\ UNCHANGED <<pidFile, proc>>
    BY <1>1 DEF Start, CtlType
<1>4. pidFile' \in Pids \cup {NoProcess} /\ proc' \in [Pids -> ProcessType] /\ Live' = Live
    BY <1>3 DEF TrackInv, TypeOK, ProcessType, Live, InState
<1>5. ~disturbed' => OthersIdle(c) /\ Live = {}
    BY <1>1, NoneLive DEF Start, TrackInv, OthersIdle
<1> HIDE DEF t
<1>6. ~disturbed' => Settled(t, Live', pidFile')
    BY <1>4, <1>5 DEF Settled
<1> QED
    BY <1>1, <1>2, <1>3, <1>4, <1>5, <1>6, ControllerStep

LEMMA StartAgainTrack == ASSUME TrackInv, NEW c \in Controllers, StartAgain(c) PROVE TrackInv'
<1>1. PICK t \in {Idle, [Idle EXCEPT !.pc = "spawn"]} : ctl' = [ctl EXCEPT ![c] = t]
    BY DEF StartAgain
<1>2. t \in CtlType /\ Sane(t)
    BY <1>1, IdleController
<1>3. ctl[c].pc = "check" /\ UNCHANGED <<pidFile, proc, disturbed>>
    BY DEF StartAgain
<1>4. /\ pidFile' \in Pids \cup {NoProcess} /\ proc' \in [Pids -> ProcessType]
      /\ disturbed' \in BOOLEAN /\ Live' = Live
    BY <1>3 DEF TrackInv, TypeOK, ProcessType, Live, InState
<1>5. ~disturbed' => OthersIdle(c) /\ Live = {}
    BY <1>3, UnderWay
<1>6. ~disturbed' => Settled(t, Live', pidFile')
    BY <1>4, <1>5 DEF Settled
<1> QED
    BY <1>1, <1>2, <1>4, <1>5, <1>6, ControllerStep

LEMMA SpawnTrack == ASSUME TrackInv, NEW c \in Controllers, Spawn(c) PROVE TrackInv'
<1>1. PICK p \in Pids :
        /\ proc' = [proc EXCEPT ![p] = Process("starting", c \in Ui)]
        /\ ctl' = [ctl EXCEPT ![c].pc = "write", ![c].child = p]
    BY DEF Spawn, InState
<1>2. ctl[c].pc = "spawn" /\ UNCHANGED <<pidFile, disturbed>>
    BY DEF Spawn
<1> DEFINE t == [ctl[c] EXCEPT !.pc = "write", !.child = p]
<1>3. ctl[c] \in CtlType /\ proc \in [Pids -> ProcessType]
    BY DEF TrackInv, TypeOK, CtlType, ProcessType
<1>4. t \in CtlType /\ Sane(t) /\ t.pc = "write" /\ t.child = p
    BY <1>3, ServerLifecycleAssumption DEF CtlType, Sane
<1>5. ctl' = [ctl EXCEPT ![c] = t]
    BY <1>1, <1>3 DEF CtlType
<1>6. Process("starting", c \in Ui) \in ProcessType
    BY DEF Process, ProcessType, States
<1>7. proc' \in [Pids -> ProcessType] /\ \A q \in Pids \ {p} : proc'[q] = proc[q]
    BY <1>1, <1>3, <1>6
<1>8. pidFile' \in Pids \cup {NoProcess} /\ disturbed' \in BOOLEAN
    BY <1>2 DEF TrackInv, TypeOK
<1>9. ~disturbed' => OthersIdle(c) /\ Live = {}
    BY <1>2, UnderWay
<1>10. ~disturbed' => \A q \in Live' : q = p
    BY <1>7, <1>9 DEF Live, InState
<1> HIDE DEF t
<1>11. ~disturbed' => Settled(t, Live', pidFile')
    BY <1>4, <1>10 DEF Settled
<1> QED
    BY <1>4, <1>5, <1>7, <1>8, <1>9, <1>11, ControllerStep

\* The file now names the server, which may be dead already.
LEMMA WritePidTrack == ASSUME TrackInv, NEW c \in Controllers, WritePid(c) PROVE TrackInv'
<1>1. /\ ctl[c].pc = "write" /\ pidFile' = ctl[c].child
      /\ ctl' = [ctl EXCEPT ![c] = Idle] /\ UNCHANGED <<proc, disturbed>>
    BY DEF WritePid
<1>2. /\ pidFile' \in Pids \cup {NoProcess} /\ proc' \in [Pids -> ProcessType]
      /\ disturbed' \in BOOLEAN /\ Live' = Live
    BY <1>1 DEF TrackInv, TypeOK, ProcessType, Live, InState
<1>3. ~disturbed' => OthersIdle(c) /\ \A p \in Live : p = pidFile'
    BY <1>1, UnderWay
<1>4. ~disturbed' => Settled(Idle, Live', pidFile')
    BY <1>2, <1>3, IdleController DEF Settled
<1> QED
    BY <1>1, <1>2, <1>3, <1>4, IdleController, ControllerStep

\* A start that fails has started nothing, or leaves the system disturbed.
LEMMA StartFailsTrack == ASSUME TrackInv, NEW c \in Controllers, StartFails(c) PROVE TrackInv'
<1>1. /\ ctl[c].pc \in {"spawn", "write", "check", "unlink"}
      /\ ctl' = [ctl EXCEPT ![c] = Idle] /\ UNCHANGED <<pidFile, proc>>
      /\ disturbed' = (disturbed \/ ctl[c].pc = "write")
    BY DEF StartFails
<1>2. disturbed' \in BOOLEAN /\ (~disturbed' => ~disturbed /\ ctl[c].pc # "write")
    BY <1>1 DEF TrackInv, TypeOK
<1>3. pidFile' \in Pids \cup {NoProcess} /\ proc' \in [Pids -> ProcessType] /\ Live' = Live
    BY <1>1 DEF TrackInv, TypeOK, ProcessType, Live, InState
<1>4. ~disturbed' => OthersIdle(c) /\ Live = {}
    BY <1>1, <1>2, UnderWay
<1>5. ~disturbed' => Settled(Idle, Live', pidFile')
    BY <1>3, <1>4 DEF Settled
<1> QED
    BY <1>1, <1>2, <1>3, <1>4, <1>5, IdleController, ControllerStep

LEMMA StopTrack == ASSUME TrackInv, NEW c \in Controllers, Stop(c) PROVE TrackInv'
<1>1. /\ ctl[c] \in CtlType /\ ctl[c].child = NoProcess /\ disturbed' \in BOOLEAN
      /\ ~disturbed' => Track /\ \A d \in Controllers : ctl[d].pc = "idle"
    BY BeginsFacts DEF Stop
<1>2. /\ Snapshot = "running" /\ pidFile' = pidFile
      /\ proc' = [proc EXCEPT ![pidFile] = Terminated(pidFile)]
    BY DEF Stop
<1>3. PICK restart \in BOOLEAN : ctl' = [ctl EXCEPT ![c].pc = "unlink", ![c].restart = restart]
    BY DEF Stop
<1> DEFINE t == [ctl[c] EXCEPT !.pc = "unlink", !.restart = restart]
<1>4. t \in CtlType /\ Sane(t)
    BY <1>1 DEF CtlType, Sane
<1>5. ctl' = [ctl EXCEPT ![c] = t]
    BY <1>1, <1>3 DEF CtlType
<1>6. /\ pidFile' \in Pids \cup {NoProcess} /\ proc' \in [Pids -> ProcessType]
      /\ Live' \subseteq Live \ {pidFile}
    BY <1>2, SnapshotFacts, TerminatedFacts DEF TrackInv
<1>7. ~disturbed' => OthersIdle(c) /\ Live' = {}
    BY <1>1, <1>6, NoneLive DEF TrackInv, OthersIdle
<1> HIDE DEF t
<1>8. ~disturbed' => Settled(t, Live', pidFile')
    BY <1>7 DEF Settled
<1> QED
    BY <1>1, <1>4, <1>5, <1>6, <1>7, <1>8, ControllerStep

LEMMA UnlinkTrack == ASSUME TrackInv, NEW c \in Controllers, Unlink(c) PROVE TrackInv'
<1>1. PICK t \in {Idle, [Idle EXCEPT !.pc = "check"]} : ctl' = [ctl EXCEPT ![c] = t]
    BY DEF Unlink
<1>2. t \in CtlType /\ Sane(t)
    BY <1>1, IdleController
<1>3. ctl[c].pc = "unlink" /\ pidFile' = NoProcess /\ UNCHANGED <<proc, disturbed>>
    BY DEF Unlink
<1>4. /\ pidFile' \in Pids \cup {NoProcess} /\ proc' \in [Pids -> ProcessType]
      /\ disturbed' \in BOOLEAN /\ Live' = Live
    BY <1>3 DEF TrackInv, TypeOK, ProcessType, Live, InState
<1>5. ~disturbed' => OthersIdle(c) /\ Live = {}
    BY <1>3, UnderWay
<1>6. ~disturbed' => Settled(t, Live', pidFile')
    BY <1>4, <1>5 DEF Settled
<1> QED
    BY <1>1, <1>2, <1>4, <1>5, <1>6, ControllerStep

LEMMA RestartCommandTrack ==
    ASSUME TrackInv, NEW c \in Controllers, RestartCommand(c) PROVE TrackInv'
<1> DEFINE t == [ctl[c] EXCEPT !.pc = "spawn"]
<1>1. /\ ctl[c] \in CtlType /\ ctl[c].child = NoProcess /\ disturbed' \in BOOLEAN
      /\ ~disturbed' => Track /\ \A d \in Controllers : ctl[d].pc = "idle"
    BY BeginsFacts DEF RestartCommand
<1>2. t \in CtlType /\ Sane(t)
    BY <1>1 DEF CtlType, Sane
<1>3. ctl' = [ctl EXCEPT ![c] = t] /\ pidFile' = pidFile
    BY <1>1 DEF RestartCommand, CtlType
<1>4. pidFile' \in Pids \cup {NoProcess}
    BY <1>3 DEF TrackInv, TypeOK
<1>5. proc' \in [Pids -> ProcessType] /\ (~disturbed' => Live' = {})
  <2>1. CASE Snapshot = "running"
    <3>1. proc' \in [Pids -> ProcessType] /\ Live' \subseteq Live \ {pidFile}
        BY <2>1, SnapshotFacts, TerminatedFacts DEF RestartCommand, TrackInv
    <3> QED
        BY <1>1, <3>1, NoneLive DEF TrackInv
  <2>2. CASE Snapshot # "running"
    <3>1. proc' = proc
        BY <2>2 DEF RestartCommand
    <3>2. proc' \in [Pids -> ProcessType] /\ Live' = Live
        BY <3>1 DEF TrackInv, TypeOK, ProcessType, Live, InState
    <3> QED
        BY <1>1, <2>2, <3>2, NoneLive DEF TrackInv
  <2> QED
      BY <2>1, <2>2
<1>6. ~disturbed' => OthersIdle(c)
    BY <1>1 DEF OthersIdle
<1> HIDE DEF t
<1>7. ~disturbed' => Settled(t, Live', pidFile')
    BY <1>5 DEF Settled
<1> QED
    BY <1>1, <1>2, <1>3, <1>4, <1>5, <1>6, <1>7, ControllerStep

\* A process never becomes live by itself.
LEMMA ProcessTrack ==
    ASSUME TrackInv, NEW p \in Pids, Bind(p) \/ ReleasePort(p) \/ Exit(p) \/ Reuse(p)
    PROVE  TrackInv'
<1>1. UNCHANGED <<pidFile, ctl, disturbed>>
    BY DEF Bind, ReleasePort, Exit, Reuse
<1>2. proc \in [Pids -> ProcessType] /\ proc[p] \in ProcessType
    BY DEF TrackInv, TypeOK, ProcessType
<1>3. PICK q \in ProcessType : /\ proc' = [proc EXCEPT ![p] = q]
                               /\ q.state \in {"starting", "serving"} => p \in Live
  <2>1. CASE Bind(p)
    <3>1. /\ [proc[p] EXCEPT !.state = "serving"] \in ProcessType /\ p \in Live
          /\ proc' = [proc EXCEPT ![p] = [proc[p] EXCEPT !.state = "serving"]]
        BY <1>2, <2>1 DEF Bind, ProcessType, States, Live, InState
    <3> QED
        BY <3>1
  <2>2. CASE ReleasePort(p)
    <3>1. /\ [proc[p] EXCEPT !.state = "closing"] \in ProcessType
          /\ [proc[p] EXCEPT !.state = "closing"].state = "closing"
          /\ proc' = [proc EXCEPT ![p] = [proc[p] EXCEPT !.state = "closing"]]
        BY <1>2, <2>2 DEF ReleasePort, ProcessType, States
    <3> QED
        BY <3>1
  <2>3. CASE Exit(p)
    <3>1. \E q \in {Process("zombie", TRUE), Process("free", FALSE)} :
            proc' = [proc EXCEPT ![p] = q]
        BY <2>3 DEF Exit
    <3> QED
        BY <3>1, EndedFacts
  <2>4. CASE Reuse(p)
    <3> DEFINE s == IF proc[p].state = "free" THEN "other" ELSE "free"
               r == [proc[p] EXCEPT !.state = s]
    <3>1. r \in ProcessType /\ r.state = s
        BY <1>2 DEF ProcessType, States
    <3>2. proc' = [proc EXCEPT ![p] = r]
        BY <1>2, <2>4 DEF Reuse, ProcessType
    <3>3. s \notin {"starting", "serving"}
        OBVIOUS
    <3> HIDE DEF s, r
    <3> QED
        BY <3>1, <3>2, <3>3
  <2> QED
      BY <2>1, <2>2, <2>3, <2>4
<1>4. /\ proc' \in [Pids -> ProcessType] /\ proc'[p] = q
      /\ \A r \in Pids \ {p} : proc'[r] = proc[r]
    BY <1>2, <1>3
<1>5. \A r \in Live' : r \in Live
    BY <1>3, <1>4 DEF Live, InState
<1>6. TypeOK'
    BY <1>1, <1>4 DEF TrackInv, TypeOK, ProcessType
<1>7. Track => Track'
    BY <1>1, <1>5 DEF Track
<1> QED
    BY <1>1, <1>6, <1>7 DEF TrackInv

\* The UI takes its operations with it, and its dead servers.
LEMMA UiEndsTrack == ASSUME TrackInv, UiEnds PROVE TrackInv'
<1>1. /\ pidFile' = pidFile
      /\ proc' = [p \in Pids |-> IF proc[p].state = "zombie" THEN Process("free", FALSE)
                                 ELSE [proc[p] EXCEPT !.byUi = FALSE]]
      /\ ctl' = [c \in Controllers |-> IF c \in Ui THEN Idle ELSE ctl[c]]
      /\ disturbed' = (disturbed \/ \E c \in Ui : ctl[c].pc = "write")
    BY DEF UiEnds
<1>2. \A p \in Pids : proc[p] \in ProcessType
    BY DEF TrackInv, TypeOK, ProcessType
<1>3. \A p \in Pids : /\ proc'[p] \in ProcessType
                      /\ proc'[p].state \in {"starting", "serving"} => proc'[p].state = proc[p].state
  <2> SUFFICES ASSUME NEW p \in Pids
               PROVE  /\ proc'[p] \in ProcessType
                      /\ proc'[p].state \in {"starting", "serving"} => proc'[p].state = proc[p].state
      OBVIOUS
  <2>1. CASE proc[p].state = "zombie"
      BY <1>1, <2>1 DEF Process, ProcessType, States
  <2>2. CASE proc[p].state # "zombie"
      BY <1>1, <1>2, <2>2 DEF ProcessType
  <2> QED
      BY <2>1, <2>2
<1>4. /\ proc' \in [Pids -> ProcessType]
      /\ \A p \in Live' : p \in Live
  <2>1. proc' \in [Pids -> ProcessType]
      BY <1>1, <1>3
  <2> QED
      BY <1>3, <2>1 DEF Live, InState
<1>5. /\ ctl' \in [Controllers -> CtlType] /\ \A c \in Controllers : Sane(ctl'[c])
      /\ \A c \in Controllers : IF c \in Ui THEN ctl'[c] = Idle ELSE ctl'[c] = ctl[c]
    BY <1>1, IdleController DEF TrackInv, TypeOK, CtlType, Sane
<1>6. disturbed' \in BOOLEAN /\ (~disturbed' => ~disturbed /\ \A c \in Ui : ctl[c].pc # "write")
    BY <1>1 DEF TrackInv, TypeOK
<1>7. TypeOK'
    BY <1>1, <1>4, <1>5, <1>6 DEF TrackInv, TypeOK, CtlType, ProcessType, Sane
<1>8. ASSUME ~disturbed' PROVE Track'
  <2>1. Track /\ \A c \in Ui : ctl[c].pc # "write"
      BY <1>6, <1>8 DEF TrackInv
  <2>2. \A c \in Controllers : ctl'[c].pc # "idle" => ctl'[c] = ctl[c]
      BY <1>5, IdleController
  <2>3. \A c \in Controllers : ctl[c].pc = "write" => ctl'[c] = ctl[c]
      BY <1>5, <2>1
  <2> QED
      BY <1>1, <1>4, <2>1, <2>2, <2>3 DEF Track
<1> QED
    BY <1>7, <1>8 DEF TrackInv

LEMMA NextTrack == TrackInv /\ [LifecycleNext]_lifecycleVars => TrackInv'
<1> SUFFICES ASSUME TrackInv, [LifecycleNext]_lifecycleVars PROVE TrackInv'
    OBVIOUS
<1>1. CASE UNCHANGED lifecycleVars
  <2>1. TypeOK' /\ (Track => Track')
      BY <1>1 DEF lifecycleVars, TrackInv, TypeOK, Track, Live, InState
  <2> QED
      BY <1>1, <2>1 DEF lifecycleVars, TrackInv
<1>2. ASSUME NEW c \in Controllers,
             \/ Start(c) \/ StartAgain(c) \/ Spawn(c) \/ WritePid(c) \/ StartFails(c)
             \/ Stop(c) \/ Unlink(c) \/ RestartCommand(c)
      PROVE  TrackInv'
    BY <1>2, StartTrack, StartAgainTrack, SpawnTrack, WritePidTrack, StartFailsTrack, StopTrack,
       UnlinkTrack, RestartCommandTrack
<1>3. ASSUME NEW p \in Pids, Bind(p) \/ ReleasePort(p) \/ Exit(p) \/ Reuse(p) PROVE TrackInv'
    BY <1>3, ProcessTrack
<1>4. CASE UiEnds
    BY <1>4, UiEndsTrack
<1> QED
    BY <1>1, <1>2, <1>3, <1>4 DEF LifecycleNext

LEMMA TrackIsInvariant == LifecycleSpec => []TrackInv
<1> QED
    BY InitTrack, NextTrack, PTL DEF LifecycleSpec

--------------------------------------------------------------------------------
\* The process ids are ids, and who writes one has one.
THEOREM TypeCorrect == LifecycleSpec => []TypeOK
<1>1. TrackInv => TypeOK
    BY DEF TrackInv
<1> QED
    BY <1>1, TrackIsInvariant, PTL

\* read_server_snapshot: a server that nothing has told to stop is not shown as stopped
\* or stale, unless operations overlapped or one died before it wrote the file.
THEOREM StoppedIsAlwaysTrue == LifecycleSpec => []StoppedIsTrue
<1>1. TrackInv => StoppedIsTrue
  <2> SUFFICES ASSUME TrackInv, Snapshot # "running", ~disturbed, NEW p \in InState({"serving"})
               PROVE  \E c \in Controllers : ctl[c].pc = "write" /\ ctl[c].child = p
      BY DEF StoppedIsTrue
  <2>1. p \in Pids /\ p \in Live /\ Alive(p) /\ p # NoProcess
      BY ServerLifecycleAssumption DEF Live, InState, Alive
  <2>2. p # pidFile
      BY <2>1 DEF Snapshot
  <2> QED
      BY <2>1, <2>2 DEF TrackInv, Track
<1> QED
    BY <1>1, TrackIsInvariant, PTL

================================================================================
