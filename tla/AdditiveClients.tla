----------------------------- MODULE AdditiveClients -----------------------------
(***************************************************************************)
(* The clients CCR adds a provider to: OpenCode, OpenClaw and Hermes       *)
(* (client_config/opencode.rs, openclaw.rs and hermes.rs of ccr-app-core). *)
(* Their files belong to the user and to the client; there is no backup.   *)
(* An operation reads the file, changes the document in memory, writes it  *)
(* to a temporary file and renames that over the file.  Whoever writes the *)
(* file meanwhile is overwritten.                                          *)
(***************************************************************************)
CONSTANTS
    OpenCode, OpenClaw, Hermes,
    Models,   \* models of the first route of the pool
    Ports,
    Missing, Unreadable, Broken,  \* files without a document
    Absent, Wrong,                \* no table of providers, or something else in its place
    None

Clients == {OpenCode, OpenClaw, Hermes}

\* An entry of the table, or list, of providers.
Entry(port, model) == [port |-> port, model |-> model]
UserEntry == Entry(None, None)
CcrEntries == {Entry(p, m) : p \in Ports, m \in Models}

\* The table is keyed by name: it has at most one entry for CCR.
Tables == {t \in SUBSET ({UserEntry} \cup CcrEntries) : \A x, y \in t \ {UserEntry} : x = y}

\* A document: its providers, and what it says of the default model: nothing, a table
\* without a choice, something that is no table, the user's choice or CCR.
Documents == [providers: {Absent, Wrong} \cup Tables,
              default: {"absent", "bare", "plain", "user", "ccr"}]

Files == Documents \cup {Missing, Unreadable, Broken}

\* The marks are no documents and no tables, and differ where the code tells them apart.
ASSUME AdditiveClientsAssumption ==
    /\ OpenClaw # OpenCode /\ Hermes \notin {OpenCode, OpenClaw}
    /\ Absent # Wrong /\ \A t \in Tables : t \notin {Absent, Wrong}
    /\ \A mark \in {Missing, Unreadable, Broken, None} : mark \notin Documents
    /\ Broken \notin {Missing, Unreadable}
    /\ None \notin Models

VARIABLES
    client, \* whose file it is: the files of two clients have nothing to do with each other
    file,   \* the configuration file of the client
    ccr,    \* the configuration of CCR: the port, and the model of the first route
    op,     \* the operation under way and the document it is going to install
    own,    \* history variable: what the user has put into the file himself
    raced,  \* history variable: somebody has written the file during an operation
    byHand  \* history variable: the user has taken CCR's provider out himself

vars == <<client, file, ccr, op, own, raced, byHand>>

Providers(d) == IF d.providers \in {Absent, Wrong} THEN {} ELSE d.providers
Ccr(d) == Providers(d) \cap CcrEntries

\* What is the user's own in a file.  Hermes has one place for the default model, and
\* adding CCR takes it.
Own(f) ==
    [providers |-> IF f \in Documents THEN Providers(f) \ CcrEntries ELSE {},
     choice    |-> f \in Documents /\ client # Hermes /\ f.default = "user"]

UserDocuments == {d \in Documents : Ccr(d) = {} /\ d.default # "ccr"}

Init ==
    /\ client \in Clients
    /\ file \in {Missing, Unreadable, Broken} \cup UserDocuments
    /\ ccr \in [port: Ports, model: Models \cup {None}]
    /\ op = None
    /\ own = Own(file)
    /\ raced = FALSE
    /\ byHand = FALSE

--------------------------------------------------------------------------------
(***************************************************************************)
(* Reading and changing the document                                       *)
(***************************************************************************)
\* A file that is missing or cannot be read counts as empty.  One that does not parse
\* is refused (no document).
Empty == [providers |-> Absent, default |-> "absent"]

Parsed(f) == IF f \in {Missing, Unreadable} THEN {Empty} ELSE {f} \cap Documents

\* ensure_object_field, and the list of Hermes: absent is empty, wrong is refused.
Opened(d) == IF d.providers = Absent THEN {[d EXCEPT !.providers = {}]}
             ELSE {d} \ {e \in {d} : e.providers = Wrong}

Inserted(d) == [d EXCEPT !.providers = (@ \ CcrEntries) \cup {Entry(ccr.port, ccr.model)}]

AddedToOpenCode(d) == {Inserted(e) : e \in Opened(d)}

\* Mutant: CCR becomes the default model whatever the user has chosen.
AddedToOpenClawFirst(d) == {[Inserted(e) EXCEPT !.default = "ccr"] : e \in Opened(d)}

\* Without a primary model, "ccr/<model>" becomes the default; a plain name has none.
AddedToOpenClaw(d) ==
    {[Inserted(e) EXCEPT !.default = IF @ \in {"user", "ccr"} THEN @ ELSE "ccr"] :
       e \in Opened(d)}

\* CCR becomes the default model.
AddedToHermes(d) ==
    {[Inserted(e) EXCEPT !.default = "ccr"] : e \in {f \in Opened(d) : f.default # "plain"}}

Added(d) ==
    CASE client = OpenCode -> AddedToOpenCode(d)
      [] client = OpenClaw -> AddedToOpenClaw(d)
      [] client = Hermes   -> AddedToHermes(d)

WithoutCcr(d) ==
    IF d.providers \in {Absent, Wrong} THEN d ELSE [d EXCEPT !.providers = @ \ CcrEntries]

RemovedFromOpenCode(d) == WithoutCcr(d)

\* Mutant: the default model stays.
RemovedFromOpenClawOnly(d) == WithoutCcr(d)

\* A default model that begins with "ccr/" goes, too.
RemovedFromOpenClaw(d) ==
    [WithoutCcr(d) EXCEPT !.default = IF @ = "ccr" THEN "bare" ELSE @]

RemovedFromHermes(d) ==
    [WithoutCcr(d) EXCEPT !.default = IF @ = "ccr" THEN "bare" ELSE @]

Removed(d) ==
    CASE client = OpenCode -> RemovedFromOpenCode(d)
      [] client = OpenClaw -> RemovedFromOpenClaw(d)
      [] client = Hermes   -> RemovedFromHermes(d)

--------------------------------------------------------------------------------
(***************************************************************************)
(* The operations                                                          *)
(***************************************************************************)
\* An operation that is refused (no route, a file that does not parse, a field of
\* another kind) writes nothing: it is no step.
Add ==
    /\ op = None
    /\ ccr.model # None
    /\ \E d \in Parsed(file) : \E e \in Added(d) : op' = e
    /\ UNCHANGED <<client, file, ccr, own, raced, byHand>>

Remove ==
    /\ op = None
    /\ \E d \in Parsed(file) : op' = Removed(d)
    /\ UNCHANGED <<client, file, ccr, own, raced, byHand>>

\* The rename of atomic_write.  A file nobody could read is the operation's from now.
Install ==
    /\ op # None
    /\ file' = op
    /\ op' = None
    /\ own' = IF raced THEN Own(op) ELSE own
    /\ raced' = FALSE
    /\ byHand' = (byHand /\ Ccr(op) = {} /\ op.default = "ccr")
    /\ UNCHANGED <<client, ccr>>

\* The disk is full, a directory cannot be made, or the program ends.
Fail ==
    /\ op # None
    /\ op' = None
    /\ raced' = FALSE
    /\ UNCHANGED <<client, file, ccr, own, byHand>>

--------------------------------------------------------------------------------
(***************************************************************************)
(* The user, the client, and the configuration of CCR                      *)
(***************************************************************************)
\* What the user or the client makes of a file: a provider or the default model of his
\* own is set or taken out, CCR's provider is taken out, the file is broken.
Edited(d) ==
    {[d EXCEPT !.providers = p] : p \in {Providers(d) \cup {UserEntry}, Providers(d) \ {UserEntry},
                                         Providers(d) \ CcrEntries}}
    \cup {[d EXCEPT !.default = m] : m \in {"user", "plain", "absent"}}
    \cup {Broken}

Edit ==
    /\ \E f \in Edited(IF file \in Documents THEN file ELSE Empty) :
         /\ f # file
         /\ file' = f
         /\ own' = Own(f)
         /\ byHand' = (f \in Documents /\ Ccr(f) = {} /\ f.default = "ccr")
    /\ raced' = (op # None)
    /\ UNCHANGED <<client, ccr, op>>

Configure ==
    /\ ccr' \in [port: Ports, model: Models \cup {None}]
    /\ UNCHANGED <<client, file, op, own, raced, byHand>>

Next ==
    \/ Add \/ Remove \/ Install \/ Fail \/ Edit
    \/ Configure

Spec == Init /\ [][Next]_vars

--------------------------------------------------------------------------------
\* additive_client_snapshot: what the status page says of a client.
Status ==
    IF file \notin Documents \/ Ccr(file) = {} THEN "missing"
    ELSE IF \E e \in Ccr(file) : e.port = ccr.port THEN "current"
    ELSE "drifted"

\* However often CCR is added with other ports and models, removed, and interrupted, the
\* user's providers and choice of a default model stay as he left them: "do not cover
\* the user's other providers" (client-model-mapping.md).  Lost is only what is written
\* while an operation is under way.
OwnKept == Own(file) = own

\* The default model of a client refers to CCR only while the client knows CCR as a
\* provider ("so that OpenClaw does not point to a provider that does not exist"),
\* unless the user has taken the provider out by hand.
DefaultIsServed ==
    file \in Documents /\ file.default = "ccr" =>
        Ccr(file) # {} \/ byHand

\* When a removal nobody interferes with has been installed, neither the providers nor
\* the default model lead to CCR, by whatever way they came there.
RemovedForGood ==
    [][op # None /\ Ccr(op) = {} /\ file' = op /\ op' = None =>
         Status' = "missing" /\ (client # OpenCode => file'.default # "ccr")]_vars

================================================================================
