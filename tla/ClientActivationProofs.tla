------------------------- MODULE ClientActivationProofs -------------------------
(***************************************************************************)
(* ClientActivation keeps what the user had, for any contents and any      *)
(* number of edits, wherever operations fail or die; and what              *)
(* OfficialCredential reads of it meanwhile is the user's.                 *)
(***************************************************************************)
EXTENDS OfficialCredential, TLAPS

\* What was found in f can be put back; or f is a generated file that could not be
\* deleted.
Ready(f) ==
    \/ f \in leftover
    \/ backup[f] = found[f] /\ found[f] \notin {Ours, Missing}
    \/ f \in marker /\ found[f] = Missing

NotOurs(f) == live[f] # Ours \/ f \in leftover

\* Files are rewritten when all of them are ready, and a backup is begun, or removed,
\* when nothing depends on it.
OpInv ==
    /\ op.pc \in {"backup", "copy"} /\ op.file = Side => Ready(Main)
    /\ op.pc = "install" => \A f \in Files : Ready(f)
    /\ op.pc \in {"copy", "remove_backup", "remove_marker"} => NotOurs(op.file)

BackupInv ==
    \A f \in Files : /\ backup[f] = Ours => f \in leftover
                     /\ backup[f] \notin {Missing, Torn} => backup[f] = found[f]

IInv == TypeOK /\ OriginalKept /\ OpInv /\ BackupInv

OpType == [pc: Steps, file: Files, text: [Files -> Content]]

--------------------------------------------------------------------------------
LEMMA FilesFacts == Files = {Main, Side} /\ Main # Side /\ Main \in Files /\ Side \in Files
    BY DEF Files, Main, Side

LEMMA ContentFacts ==
    /\ Missing \in Content /\ Ours \in Content /\ Torn \in Content /\ Theirs \subseteq Content
    /\ Ours # Missing /\ Torn # Missing /\ Ours # Torn
    /\ \A c \in Theirs : c \in Content /\ c # Ours
    BY ClientActivationAssumption DEF Content, Theirs

LEMMA IdleFacts ==
    /\ Idle \in OpType /\ Idle.pc = "idle" /\ Idle.file = Main
    /\ \A s \in Steps : /\ [Idle EXCEPT !.pc = s] \in OpType
                        /\ [Idle EXCEPT !.pc = s].pc = s
                        /\ [Idle EXCEPT !.pc = s].file = Main
    BY ContentFacts, FilesFacts DEF Idle, OpType, Steps

\* Where an operation goes when it is done with a file.
LEMMA AdvanceFacts ==
    ASSUME op \in OpType, NEW step \in Steps, NEW after \in Steps
    PROVE  /\ Advance(step, after) \in OpType
           /\ op.file = Main => Advance(step, after).pc = step /\ Advance(step, after).file = Side
           /\ op.file = Side => Advance(step, after).pc = after /\ Advance(step, after).file = Main
<1>1. CASE op.file = Main
    BY <1>1, FilesFacts DEF Advance, OpType
<1>2. CASE op.file = Side /\ after = "idle"
    BY <1>2, FilesFacts, IdleFacts DEF Advance
<1>3. CASE op.file = Side /\ after # "idle"
    BY <1>3, FilesFacts DEF Advance, OpType
<1> QED
    BY <1>1, <1>2, <1>3, FilesFacts DEF OpType

LEMMA InitIInv == Init => IInv
<1> SUFFICES ASSUME Init PROVE IInv
    OBVIOUS
<1>1. TypeOK
    BY ContentFacts, FilesFacts, IdleFacts, ClientActivationAssumption DEF Init, TypeOK, OpType
<1>2. \A f \in Files : live[f] # Ours /\ backup[f] = Missing
    BY ContentFacts DEF Init
<1>3. OriginalKept /\ BackupInv
    BY <1>2, ContentFacts DEF OriginalKept, BackupInv
<1>4. OpInv
    BY IdleFacts DEF Init, OpInv
<1> QED
    BY <1>1, <1>3, <1>4 DEF IInv

--------------------------------------------------------------------------------
(***************************************************************************)
(* The steps.                                                              *)
(***************************************************************************)
LEMMA ActivateIInv == IInv /\ Activate => IInv'
<1> SUFFICES ASSUME IInv, Activate PROVE IInv'
    OBVIOUS
<1>1. /\ op' \in OpType /\ op'.pc = "backup" /\ op'.file = Main
      /\ UNCHANGED <<client, live, backup, marker, edits, found, leftover>>
    BY IdleFacts DEF Activate, Steps
<1>2. TypeOK'
    BY <1>1 DEF IInv, TypeOK, OpType
<1>3. OpInv'
    BY <1>1, FilesFacts DEF OpInv
<1> QED
    BY <1>1, <1>2, <1>3 DEF IInv, OriginalKept, BackupInv

LEMMA DeactivateIInv == IInv /\ Deactivate => IInv'
<1> SUFFICES ASSUME IInv, Deactivate PROVE IInv'
    OBVIOUS
<1>1. /\ op' \in OpType /\ op'.pc = "restore"
      /\ UNCHANGED <<client, live, backup, marker, edits, found, leftover>>
    BY IdleFacts DEF Deactivate, Steps
<1>2. TypeOK'
    BY <1>1 DEF IInv, TypeOK, OpType
<1>3. OpInv'
    BY <1>1 DEF OpInv
<1> QED
    BY <1>1, <1>2, <1>3 DEF IInv, OriginalKept, BackupInv

\* An operation that ends, anywhere, leaves the files as they are.
LEMMA StopIInv == IInv /\ (Stop \/ NothingToRestore) => IInv'
<1> SUFFICES ASSUME IInv, Stop \/ NothingToRestore PROVE IInv'
    OBVIOUS
<1>1. op' = Idle /\ UNCHANGED <<client, live, backup, marker, edits, found, leftover>>
    BY DEF Stop, NothingToRestore
<1>2. TypeOK'
    BY <1>1, IdleFacts DEF IInv, TypeOK, OpType
<1>3. OpInv'
    BY <1>1, IdleFacts DEF OpInv
<1> QED
    BY <1>1, <1>2, <1>3 DEF IInv, OriginalKept, BackupInv

\* A file that is not backed up is not one CCR generated.
LEMMA UnprotectedFacts ==
    ASSUME OriginalKept, NEW f \in Files, ~BackedUp(f)
    PROVE  NotOurs(f) /\ backup[f] = Missing /\ f \notin marker
    BY DEF OriginalKept, BackedUp, NotOurs

LEMMA MarkMissingIInv == IInv /\ MarkMissing => IInv'
<1> SUFFICES ASSUME IInv, MarkMissing PROVE IInv'
    OBVIOUS
<1>0. PICK f \in Files : f = op.file
    BY DEF IInv, TypeOK
<1>1. /\ op \in OpType /\ f \in Files /\ f \in {Main, Side}
      /\ found \in [Files -> Content] /\ marker \subseteq Files
    BY <1>0, FilesFacts DEF IInv, TypeOK, OpType
<1>2. op.pc = "backup" /\ live[f] = Missing /\ backup[f] = Missing
    BY <1>0, <1>1, UnprotectedFacts DEF MarkMissing, IInv
<1>3. /\ marker' = marker \cup {f} /\ found' = [found EXCEPT ![f] = Missing]
      /\ op' = Advance("backup", "install")
      /\ UNCHANGED <<client, live, backup, edits, leftover>>
    BY <1>0 DEF MarkMissing
<1>4. /\ op' \in OpType
      /\ f = Main => op'.pc = "backup" /\ op'.file = Side
      /\ f = Side => op'.pc = "install" /\ op'.file = Main
    BY <1>0, <1>1, <1>3, AdvanceFacts DEF Steps
<1>5. /\ found'[f] = Missing /\ f \in marker'
      /\ \A g \in Files \ {f} : found'[g] = found[g] /\ (g \in marker => g \in marker')
    BY <1>1, <1>3
<1>6. TypeOK'
    BY <1>1, <1>3, <1>4, ContentFacts DEF IInv, TypeOK, OpType
<1>7. OriginalKept' /\ BackupInv'
    BY <1>2, <1>3, <1>5, ContentFacts DEF IInv, OriginalKept, BackupInv
<1>8. Ready(f)' /\ (f = Side => Ready(Main)')
    BY <1>0, <1>1, <1>2, <1>3, <1>5, FilesFacts DEF IInv, OpInv, Ready
<1>9. OpInv'
    BY <1>0, <1>1, <1>4, <1>8, FilesFacts DEF OpInv
<1> QED
    BY <1>6, <1>7, <1>9 DEF IInv

LEMMA OpenBackupIInv == IInv /\ OpenBackup => IInv'
<1> SUFFICES ASSUME IInv, OpenBackup PROVE IInv'
    OBVIOUS
<1>0. PICK f \in Files : f = op.file
    BY DEF IInv, TypeOK
<1>1. /\ op \in OpType /\ f \in Files /\ f \in {Main, Side}
      /\ live \in [Files -> Content] /\ backup \in [Files -> Content]
    BY <1>0, FilesFacts DEF IInv, TypeOK, OpType
<1>2. op.pc = "backup" /\ NotOurs(f) /\ backup[f] = Missing
    BY <1>0, <1>1, UnprotectedFacts DEF OpenBackup, IInv
<1>3. /\ backup' = [backup EXCEPT ![f] = Torn]
      /\ op' = [op EXCEPT !.pc = "copy", !.text[op.file] = live[op.file]]
      /\ UNCHANGED <<client, live, marker, edits, found, leftover>>
    BY <1>0 DEF OpenBackup
<1>4. op' \in OpType /\ op'.pc = "copy" /\ op'.file = f
  <2>1. live[op.file] \in Content /\ op.text \in [Files -> Content]
      BY <1>0, <1>1 DEF OpType
  <2>2. [op.text EXCEPT ![op.file] = live[op.file]] \in [Files -> Content]
      BY <2>1
  <2>3. op' = [op EXCEPT !.pc = "copy", !.text = [op.text EXCEPT ![op.file] = live[op.file]]]
      BY <1>0, <1>1, <1>3 DEF OpType
  <2> QED
      BY <1>0, <1>1, <2>2, <2>3 DEF OpType, Steps
<1>5. backup'[f] = Torn /\ \A g \in Files \ {f} : backup'[g] = backup[g]
    BY <1>1, <1>3
<1>6. TypeOK'
    BY <1>1, <1>3, <1>4, ContentFacts DEF IInv, TypeOK, OpType
<1>7. OriginalKept' /\ BackupInv'
    BY <1>2, <1>3, <1>5, ContentFacts DEF IInv, OriginalKept, BackupInv, NotOurs
<1>8. NotOurs(f)' /\ (f = Side => Ready(Main)')
    BY <1>0, <1>1, <1>2, <1>3, <1>5, FilesFacts DEF IInv, OpInv, Ready, NotOurs
<1>9. OpInv'
    BY <1>0, <1>4, <1>8 DEF OpInv
<1> QED
    BY <1>6, <1>7, <1>9 DEF IInv

LEMMA CopyBackupIInv == IInv /\ CopyBackup => IInv'
<1> SUFFICES ASSUME IInv, CopyBackup PROVE IInv'
    OBVIOUS
<1>0. PICK f \in Files : f = op.file
    BY DEF IInv, TypeOK
<1>1. /\ op \in OpType /\ f \in Files /\ f \in {Main, Side} /\ live[f] \in Content
      /\ backup \in [Files -> Content] /\ found \in [Files -> Content]
    BY <1>0, FilesFacts DEF IInv, TypeOK, OpType
<1>2. op.pc = "copy" /\ NotOurs(f) /\ live[f] # Missing
    BY <1>0 DEF CopyBackup, IInv, OpInv
<1>3. /\ backup' = [backup EXCEPT ![f] = live[f]] /\ found' = [found EXCEPT ![f] = live[f]]
      /\ op' = Advance("backup", "install")
      /\ UNCHANGED <<client, live, marker, edits, leftover>>
    BY <1>0 DEF CopyBackup
<1>4. /\ op' \in OpType
      /\ f = Main => op'.pc = "backup" /\ op'.file = Side
      /\ f = Side => op'.pc = "install" /\ op'.file = Main
    BY <1>0, <1>1, <1>3, AdvanceFacts DEF Steps
<1>5. /\ backup'[f] = live[f] /\ found'[f] = live[f]
      /\ \A g \in Files \ {f} : backup'[g] = backup[g] /\ found'[g] = found[g]
    BY <1>1, <1>3
<1>6. TypeOK'
    BY <1>1, <1>3, <1>4, ContentFacts DEF IInv, TypeOK, OpType
<1>7. OriginalKept' /\ BackupInv'
    BY <1>2, <1>3, <1>5 DEF IInv, OriginalKept, BackupInv, NotOurs
<1>8. Ready(f)' /\ (f = Side => Ready(Main)')
    BY <1>0, <1>1, <1>2, <1>3, <1>5, FilesFacts DEF IInv, OpInv, Ready, NotOurs
<1>9. OpInv'
    BY <1>0, <1>1, <1>4, <1>8, FilesFacts DEF OpInv
<1> QED
    BY <1>6, <1>7, <1>9 DEF IInv

LEMMA InstallIInv == IInv /\ Install => IInv'
<1> SUFFICES ASSUME IInv, Install PROVE IInv'
    OBVIOUS
<1>0. PICK f \in Files : f = op.file
    BY DEF IInv, TypeOK
<1>1. op \in OpType /\ f \in Files /\ f \in {Main, Side} /\ live \in [Files -> Content]
    BY <1>0, FilesFacts DEF IInv, TypeOK, OpType
<1>2. \A g \in Files : Ready(g)
    BY <1>0 DEF Install, IInv, OpInv
<1>3. /\ live' = [live EXCEPT ![f] = Ours] /\ op' = Advance("install", "idle")
      /\ UNCHANGED <<client, backup, marker, edits, found, leftover>>
    BY <1>0 DEF Install
<1>4. op' \in OpType /\ op'.pc \in {"install", "idle"}
    BY <1>0, <1>1, <1>3, AdvanceFacts DEF Steps
<1>5. TypeOK'
    BY <1>1, <1>3, <1>4, ContentFacts DEF IInv, TypeOK, OpType
<1>6. OriginalKept' /\ BackupInv'
    BY <1>2, <1>3 DEF IInv, OriginalKept, BackupInv, Ready
<1>7. OpInv'
    BY <1>0, <1>2, <1>3, <1>4 DEF OpInv, Ready
<1> QED
    BY <1>5, <1>6, <1>7 DEF IInv

\* A complete backup is what was found, so it is the user's, unless a generated file
\* had been left behind.
LEMMA RestoreFileIInv == IInv /\ RestoreFile => IInv'
<1> SUFFICES ASSUME IInv, RestoreFile PROVE IInv'
    OBVIOUS
<1>0. PICK f \in Files : f = op.file
    BY DEF IInv, TypeOK
<1>1. /\ op \in OpType /\ f \in Files
      /\ live \in [Files -> Content] /\ backup[f] \in Content
    BY <1>0 DEF IInv, TypeOK, OpType
<1>2. backup[f] = Ours => f \in leftover
    BY <1>1 DEF IInv, BackupInv
<1>3. /\ live' = [live EXCEPT ![f] = backup[f]]
      /\ op' = [op EXCEPT !.pc = "remove_backup"]
      /\ UNCHANGED <<client, backup, marker, edits, found, leftover>>
    BY <1>0 DEF RestoreFile
<1>4. op' \in OpType /\ op'.pc = "remove_backup" /\ op'.file = f
    BY <1>0, <1>1, <1>3 DEF OpType, Steps
<1>5. live'[f] = backup[f] /\ \A g \in Files \ {f} : live'[g] = live[g]
    BY <1>1, <1>3
<1>6. TypeOK'
    BY <1>1, <1>3, <1>4 DEF IInv, TypeOK, OpType
<1>7. OriginalKept' /\ BackupInv'
    BY <1>2, <1>3, <1>5 DEF IInv, OriginalKept, BackupInv
<1>8. OpInv'
    BY <1>0, <1>2, <1>3, <1>4, <1>5 DEF OpInv, NotOurs
<1> QED
    BY <1>6, <1>7, <1>8 DEF IInv

LEMMA RemoveIInv == IInv /\ (RemoveBackup \/ RemoveMarker) => IInv'
<1> SUFFICES ASSUME IInv, RemoveBackup \/ RemoveMarker PROVE IInv'
    OBVIOUS
<1>0. PICK f \in Files : f = op.file
    BY DEF IInv, TypeOK
<1>1. /\ op \in OpType /\ f \in Files /\ f \in {Main, Side}
      /\ backup \in [Files -> Content] /\ marker \subseteq Files
    BY <1>0, FilesFacts DEF IInv, TypeOK, OpType
<1>2. NotOurs(f)
    BY <1>0 DEF RemoveBackup, RemoveMarker, IInv, OpInv
<1>3. /\ backup' \in {backup, [backup EXCEPT ![f] = Missing]} /\ marker' = marker \ {f}
      /\ op' = Advance("restore", "idle")
      /\ UNCHANGED <<client, live, edits, found, leftover>>
    BY <1>0 DEF RemoveBackup, RemoveMarker
<1>4. op' \in OpType /\ op'.pc \in {"restore", "idle"}
    BY <1>0, <1>1, <1>3, AdvanceFacts DEF Steps
<1>5. /\ backup'[f] \in {backup[f], Missing}
      /\ \A g \in Files \ {f} : backup'[g] = backup[g] /\ (g \in marker => g \in marker')
    BY <1>1, <1>3
<1>6. TypeOK'
  <2>1. backup' \in [Files -> Content]
      BY <1>1, <1>3, ContentFacts
  <2> QED
      BY <1>0, <1>1, <1>3, <1>4, <2>1 DEF IInv, TypeOK, OpType
<1>7. OriginalKept' /\ BackupInv'
    BY <1>2, <1>3, <1>5, ContentFacts DEF IInv, OriginalKept, BackupInv, NotOurs
<1>8. OpInv'
    BY <1>0, <1>4 DEF OpInv
<1> QED
    BY <1>6, <1>7, <1>8 DEF IInv

LEMMA RemoveGeneratedIInv == IInv /\ RemoveGenerated => IInv'
<1> SUFFICES ASSUME IInv, RemoveGenerated PROVE IInv'
    OBVIOUS
<1>0. PICK f \in Files : f = op.file
    BY DEF IInv, TypeOK
<1>1. /\ op \in OpType /\ f \in Files
      /\ live \in [Files -> Content] /\ leftover \subseteq Files
    BY <1>0 DEF IInv, TypeOK, OpType
<1>2. /\ \/ live' = [live EXCEPT ![f] = Missing] /\ leftover' = leftover
         \/ live' = live /\ leftover' = leftover \cup {f}
      /\ op' = [op EXCEPT !.pc = "remove_marker"]
      /\ UNCHANGED <<client, backup, marker, edits, found>>
    BY <1>0 DEF RemoveGenerated
<1>3. op' \in OpType /\ op'.pc = "remove_marker" /\ op'.file = f
    BY <1>0, <1>1, <1>2 DEF OpType, Steps
<1>4. /\ live'[f] # Ours \/ f \in leftover'
      /\ \A g \in Files \ {f} : live'[g] = live[g]
      /\ \A g \in Files : g \in leftover => g \in leftover'
    BY <1>1, <1>2, ContentFacts
<1>5. TypeOK'
  <2>1. live' \in [Files -> Content] /\ leftover' \subseteq Files
      BY <1>1, <1>2, ContentFacts
  <2> QED
      BY <1>0, <1>2, <1>3, <2>1 DEF IInv, TypeOK, OpType
<1>6. OriginalKept' /\ BackupInv'
    BY <1>2, <1>4 DEF IInv, OriginalKept, BackupInv
<1>7. OpInv'
    BY <1>0, <1>3, <1>4 DEF OpInv, NotOurs
<1> QED
    BY <1>5, <1>6, <1>7 DEF IInv

LEMMA UserEditIInv == IInv /\ UserEdit => IInv'
<1> SUFFICES ASSUME IInv, UserEdit PROVE IInv'
    OBVIOUS
<1>1. PICK f \in Files, c \in Theirs : live' = [live EXCEPT ![f] = c]
    BY DEF UserEdit
<1>2. /\ edits < MaxEdits /\ edits' = edits + 1
      /\ UNCHANGED <<client, backup, marker, op, found, leftover>>
    BY DEF UserEdit
<1>3. live \in [Files -> Content] /\ c \in Content /\ c # Ours
    BY ContentFacts DEF IInv, TypeOK
<1>4. /\ live' \in [Files -> Content]
      /\ \A g \in Files : live'[g] = Ours => live[g] = Ours
    BY <1>1, <1>3
<1>5. edits' \in 0..MaxEdits
    BY <1>2, ClientActivationAssumption DEF IInv, TypeOK
<1>6. TypeOK'
    BY <1>2, <1>4, <1>5 DEF IInv, TypeOK
<1>7. OriginalKept' /\ BackupInv'
    BY <1>2, <1>4 DEF IInv, OriginalKept, BackupInv
<1>8. \A g \in Files : (Ready(g) => Ready(g)') /\ (NotOurs(g) => NotOurs(g)')
    BY <1>2, <1>4 DEF Ready, NotOurs
<1>9. OpInv'
  <2>1. op.file \in Files
      BY DEF IInv, TypeOK
  <2> QED
      BY <1>2, <1>8, <2>1, FilesFacts DEF IInv, OpInv
<1> QED
    BY <1>6, <1>7, <1>9 DEF IInv

LEMMA StutterIInv == IInv /\ UNCHANGED vars => IInv'
    BY DEF IInv, TypeOK, OriginalKept, OpInv, BackupInv, Ready, NotOurs, vars

LEMMA NextIInv == IInv /\ [Next]_vars => IInv'
    BY ActivateIInv, DeactivateIInv, StopIInv, MarkMissingIInv, OpenBackupIInv,
       CopyBackupIInv, InstallIInv, RestoreFileIInv, RemoveIInv, RemoveGeneratedIInv,
       UserEditIInv, StutterIInv DEF Next

LEMMA InvariantIInv == Spec => []IInv
<1> QED
    BY InitIInv, NextIInv, PTL DEF Spec

--------------------------------------------------------------------------------
\* The files hold contents of the model, and the operation's fields have their types.
THEOREM TypeCorrect == Spec => []TypeOK
<1>1. IInv => TypeOK
    BY DEF IInv
<1> QED
    BY <1>1, InvariantIInv, PTL

\* activate_ccr and activate_codex_ccr: while a client's file is the generated one,
\* what the user had there can be put back, wherever operations failed or died and
\* whatever the user wrote in the meantime.
THEOREM OriginalAlwaysKept == Spec => []OriginalKept
<1>1. IInv => OriginalKept
    BY DEF IInv
<1> QED
    BY <1>1, InvariantIInv, PTL

\* deactivate_ccr and deactivate_codex_ccr write nothing into a file but what the
\* activation found there, unless part of a backup parses.
THEOREM OnlyTheFoundIsRestored == Spec => RestoresWhatWasFound
<1>1. ASSUME IInv, NEW f \in Files, RestoreFile, op.file = f, f \notin client.toml
      PROVE  live'[f] = found[f]
  <2>1. live \in [Files -> Content] /\ live' = [live EXCEPT ![f] = backup[f]]
      BY <1>1 DEF RestoreFile, IInv, TypeOK
  <2>2. backup[f] # Missing /\ TRUE \in Parses(backup[f], f)
      BY <1>1 DEF RestoreFile
  <2>3. Parses(Torn, f) = {FALSE}
      BY <1>1, ClientActivationAssumption DEF Parses
  <2>4. backup[f] # Torn
      BY <2>2, <2>3
  <2>5. backup[f] = found[f]
      BY <1>1, <2>2, <2>4 DEF IInv, BackupInv
  <2> QED
      BY <2>1, <2>5
<1>2. IInv => \A f \in Files : RestoreFile /\ op.file = f /\ f \notin client.toml =>
                 live'[f] = found[f]
    BY <1>1
<1> QED
    BY <1>2, InvariantIInv, PTL DEF RestoresWhatWasFound

--------------------------------------------------------------------------------
(***************************************************************************)
(* The login that is read is the user's, for any contents and edits: the   *)
(* invariant of the activation is one of its steps between the two         *)
(* readings, too.                                                          *)
(***************************************************************************)
LEMMA SecretFileInFiles == SecretFile \in Files
    BY FilesFacts DEF SecretFile

\* A login is neither a file that is missing nor one that CCR has written.
LEMMA KeyedFacts ==
    \A c \in Keyed : c \in User /\ c \notin {Missing, Ours, Torn, Bad}
    BY OfficialCredentialAssumption, ClientActivationAssumption

\* A usable backup is what the activation found.
LEMMA UsableBackup ==
    ASSUME IInv, UsableSecret(backup[SecretFile])
    PROVE  backup[SecretFile] = found[SecretFile]
<1>1. backup[SecretFile] \notin {Missing, Torn}
    BY KeyedFacts DEF UsableSecret
<1> QED
    BY <1>1, SecretFileInFiles DEF IInv, BackupInv

\* Reading the client's own file gives what is in it.
LEMMA ReadOwnFileIsRight ==
    ASSUME ReadOwnFile, secret'.state # "Missing", secret' # secret
    PROVE  secret'.of \in Keyed \cap {live[SecretFile], found[SecretFile]}
    BY DEF ReadOwnFile, Secret, UsableSecret

\* Reading the backup gives what the activation found, if it found a login.
LEMMA ReadBackupIsRight ==
    ASSUME IInv, ReadBackup
    PROVE  /\ secret'.state # "Missing" =>
                secret'.of \in Keyed \cap {live[SecretFile], found[SecretFile]}
           /\ /\ live[SecretFile] = Ours /\ SecretFile \notin leftover
              /\ found[SecretFile] \in Keyed
              => secret'.of = found[SecretFile]
<1>1. CASE UsableSecret(backup[SecretFile])
  <2>1. secret'.of = backup[SecretFile] /\ backup[SecretFile] \in Keyed
    BY <1>1 DEF ReadBackup, Secret, UsableSecret
  <2> QED
    BY <1>1, <2>1, UsableBackup
<1>2. CASE ~UsableSecret(backup[SecretFile])
  <2>1. secret' = NoSecret /\ secret'.state = "Missing"
    BY <1>2 DEF ReadBackup, NoSecret
  <2>2. ASSUME live[SecretFile] = Ours, SecretFile \notin leftover, found[SecretFile] \in Keyed
        PROVE  FALSE
    <3>1. backup[SecretFile] = found[SecretFile]
      BY <2>2, KeyedFacts, SecretFileInFiles DEF IInv, OriginalKept
    <3> QED
      BY <1>2, <2>2, <3>1 DEF UsableSecret
  <2> QED
    BY <2>1, <2>2
<1> QED
    BY <1>1, <1>2

\* The invariant of the activation, while credentials are read.
THEOREM CredInvariant == CredSpec => []IInv
<1>1. CredInit => IInv
    BY InitIInv DEF CredInit
<1>2. IInv /\ [CredNext]_<<vars, credVars>> => IInv'
  <2> SUFFICES ASSUME IInv, [CredNext]_<<vars, credVars>> PROVE [Next]_vars
    BY NextIInv
  <2> QED
    BY DEF CredNext, vars
<1> QED
    BY <1>1, <1>2, PTL DEF CredSpec

\* A login that is read is the one in the client's file or the one that the activation
\* found there, and while the file is the generated one, the latter is read.
THEOREM CredentialIsAlwaysTheUsers == CredSpec => CredentialIsTheUsers
<1> DEFINE Right ==
      Reads =>
         /\ secret'.state # "Missing" /\ secret' # secret =>
              secret'.of \in Keyed \cap {live[SecretFile], found[SecretFile]}
         /\ /\ reader = "tried" /\ live[SecretFile] = Ours
            /\ SecretFile \notin leftover /\ found[SecretFile] \in Keyed
            => secret'.of = found[SecretFile]
<1>1. IInv /\ [CredNext]_<<vars, credVars>> => [Right]_<<vars, credVars>>
  <2> SUFFICES ASSUME IInv, Reads PROVE Right
    OBVIOUS
  <2>1. CASE ReadOwnFile
    <3>1. reader # "tried"
      BY <2>1 DEF ReadOwnFile
    <3> QED
      BY <2>1, <3>1, ReadOwnFileIsRight
  <2>2. CASE ReadBackup
    BY <2>2, ReadBackupIsRight
  <2> QED
    BY <2>1, <2>2 DEF Reads
<1>2. CredSpec => [][Right]_<<vars, credVars>>
    BY <1>1, CredInvariant, PTL DEF CredSpec
<1> QED
    BY <1>2 DEF CredentialIsTheUsers

================================================================================
