--------------------------- MODULE OfficialCredential ---------------------------
(***************************************************************************)
(* The login that a provider of kind "official" uses: official_provider.rs *)
(* of ccr-app-core.  The configuration only says whose it is.  For every   *)
(* request, and every status, it is read from the client's own file and,   *)
(* if there is none to be used in it, from the backup that the activation  *)
(* has made of that file - while activations and deactivations, in another *)
(* process, move both.                                                     *)
(***************************************************************************)
EXTENDS ClientActivation

CONSTANT Keyed      \* those of the users' contents that have a login

ASSUME OfficialCredentialAssumption == Keyed \subseteq User

VARIABLES
    reader,     \* "idle", or "tried" once the client's own file has not helped
    secret      \* the result of the last reading: its state, and the content it is from

credVars == <<reader, secret>>

NoSecret == [state |-> "Missing", of |-> Missing]

Secret(state, content) == [state |-> state, of |-> content]

\* Claude Code has it in its settings, Codex in its second file.
SecretFile == IF client = Claude THEN Main ELSE Side

\* The file that CCR generates has "any" in place of the login, which is none, and a
\* part of a copy does not parse.  (A Claude Code login in ANTHROPIC_API_KEY stays where
\* it is, and is then found in the first file.)
UsableSecret(content) == content \in Keyed

\* Mutant: whatever has been generated is taken for a login.
ReadOwnFileUnchecked ==
    /\ reader = "idle"
    /\ IF live[SecretFile] \in Keyed \cup {Ours}
       THEN secret' = Secret("Available", live[SecretFile]) /\ UNCHANGED reader
       ELSE reader' = "tried" /\ UNCHANGED secret

ReadOwnFile ==
    /\ reader = "idle"
    /\ IF UsableSecret(live[SecretFile])
       THEN secret' = Secret("Available", live[SecretFile]) /\ UNCHANGED reader
       ELSE reader' = "tried" /\ UNCHANGED secret

ReadBackup ==
    /\ reader = "tried"
    /\ secret' = IF UsableSecret(backup[SecretFile])
                 THEN Secret("AvailableFromCcrBackup", backup[SecretFile]) ELSE NoSecret
    /\ reader' = "idle"

CredInit == Init /\ reader = "idle" /\ secret = NoSecret

CredNext ==
    \/ Next /\ UNCHANGED credVars
    \/ (ReadOwnFile \/ ReadBackup) /\ UNCHANGED vars

CredSpec == CredInit /\ [][CredNext]_<<vars, credVars>>

--------------------------------------------------------------------------------
Reads == ReadOwnFile \/ ReadBackup

\* A login that is read is the user's: the one in the client's file, or the one that the
\* activation found there, never one of an earlier activation.  And while the file is the
\* one that CCR generated, a login that the activation found is read, wherever an
\* activation or a deactivation is or has stopped.  (If a deactivation comes between the
\* two readings, both may find nothing; and see OriginalKept for leftover files.)
CredentialIsTheUsers ==
    [][Reads =>
         /\ secret'.state # "Missing" /\ secret' # secret =>
              secret'.of \in Keyed \cap {live[SecretFile], found[SecretFile]}
         /\ /\ reader = "tried" /\ live[SecretFile] = Ours
            /\ SecretFile \notin leftover /\ found[SecretFile] \in Keyed
            => secret'.of = found[SecretFile]]_<<vars, credVars>>

================================================================================
