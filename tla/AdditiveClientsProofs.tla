-------------------------- MODULE AdditiveClientsProofs --------------------------
(***************************************************************************)
(* Proofs about the files of OpenCode, OpenClaw and Hermes, for any number *)
(* of ports and models: whatever is done to them by CCR, the user's part   *)
(* of a file stays, and no default model is left that nobody serves.       *)
(***************************************************************************)
EXTENDS AdditiveClients, TLAPS

TypeOK ==
    /\ client \in Clients
    /\ file \in Files
    /\ ccr \in [port: Ports, model: Models \cup {None}]
    /\ op \in Documents \cup {None}
    /\ raced \in BOOLEAN /\ byHand \in BOOLEAN

\* The document about to be installed: it has what the user's file had when it was read,
\* and if it makes CCR the default model, it has CCR as a provider.
OpInv ==
    op # None =>
      /\ ~raced => Own(op) = own
      /\ op.default = "ccr" => Ccr(op) # {} /\ client # OpenCode

FileInv ==
    /\ Own(file) = own
    /\ raced => op # None
    /\ file \in Documents /\ file.default = "ccr" =>
         (Ccr(file) # {} \/ byHand) /\ client # OpenCode

IInv == TypeOK /\ OpInv /\ FileInv

--------------------------------------------------------------------------------
(***************************************************************************)
(* Documents                                                               *)
(***************************************************************************)
Defaults == {"absent", "bare", "plain", "user", "ccr"}

LEMMA MarksDiffer ==
    /\ \A d \in Documents : d \notin {Missing, Unreadable, Broken, None}
    /\ \A t \in Tables : t \notin {Absent, Wrong}
    /\ Absent # Wrong
    /\ UserEntry \notin CcrEntries
<1>1. UserEntry \notin CcrEntries
  <2>1. \A p, m : Entry(p, m).model = m
    BY DEF Entry
  <2> QED
    BY <2>1, AdditiveClientsAssumption DEF UserEntry, CcrEntries
<1> QED
    BY <1>1, AdditiveClientsAssumption

LEMMA TableFacts ==
    ASSUME NEW t \in Tables
    PROVE  /\ {} \in Tables
           /\ t \ CcrEntries \in Tables
           /\ t \ {UserEntry} \in Tables
           /\ t \cup {UserEntry} \in Tables
           /\ \A e \in CcrEntries : (t \ CcrEntries) \cup {e} \in Tables
    BY DEF Tables

LEMMA DocumentFacts ==
    ASSUME NEW d \in Documents
    PROVE  /\ d.providers \in {Absent, Wrong} \cup Tables
           /\ d.default \in Defaults
           /\ Providers(d) \in Tables
           /\ d.providers \in Tables => Providers(d) = d.providers
           /\ d.providers \in {Absent, Wrong} => Providers(d) = {}
<1>1. {} \in Tables
    BY DEF Tables
<1> QED
    BY <1>1, MarksDiffer DEF Documents, Providers, Defaults

\* A document with a table of its own, or another default model.
LEMMA NewTable ==
    ASSUME NEW d \in Documents, NEW t \in Tables
    PROVE  /\ [d EXCEPT !.providers = t] \in Documents
           /\ [d EXCEPT !.providers = t].default = d.default
           /\ [d EXCEPT !.providers = t].providers = t
           /\ Providers([d EXCEPT !.providers = t]) = t
<1>1. t \notin {Absent, Wrong}
    BY MarksDiffer
<1> QED
    BY <1>1 DEF Documents, Providers

LEMMA NewDefault ==
    ASSUME NEW d \in Documents, NEW m \in Defaults
    PROVE  /\ [d EXCEPT !.default = m] \in Documents
           /\ [d EXCEPT !.default = m].default = m
           /\ Providers([d EXCEPT !.default = m]) = Providers(d)
    BY DEF Documents, Providers, Defaults

\* What an operation reads has what the user has in the file.
LEMMA ParsedFacts ==
    ASSUME NEW f \in Files, NEW d \in Parsed(f)
    PROVE  /\ d \in Documents
           /\ Own(d) = Own(f)
           /\ d = f \/ d.default = "absent"
<1>1. CASE f \in {Missing, Unreadable}
  <2>1. d = Empty /\ f \notin Documents
    BY <1>1, MarksDiffer DEF Parsed
  <2>2. Empty \in Documents /\ Empty.default = "absent" /\ Empty.providers = Absent
    BY DEF Empty, Documents
  <2>3. Providers(Empty) = {}
    BY <2>2 DEF Providers
  <2> QED
    BY <2>1, <2>2, <2>3 DEF Own
<1>2. CASE f \notin {Missing, Unreadable}
    BY <1>2 DEF Parsed
<1> QED
    BY <1>1, <1>2

LEMMA OpenedFacts ==
    ASSUME NEW d \in Documents, NEW e \in Opened(d)
    PROVE  /\ e \in Documents /\ Providers(e) = Providers(d) /\ e.default = d.default
           /\ e.providers \in Tables
<1>1. CASE d.providers = Absent
  <2>1. e = [d EXCEPT !.providers = {}]
    BY <1>1 DEF Opened
  <2>2. {} \in Tables
    BY DEF Tables
  <2> QED
    BY <1>1, <2>1, <2>2, NewTable, DocumentFacts
<1>2. CASE d.providers # Absent
    BY <1>2, DocumentFacts DEF Opened
<1> QED
    BY <1>1, <1>2

\* CCR's entry replaces what CCR had in the table, and touches nothing else.
LEMMA InsertedFacts ==
    ASSUME ccr \in [port: Ports, model: Models], NEW d \in Documents, NEW o \in Opened(d)
    PROVE  /\ Inserted(o) \in Documents
           /\ Inserted(o).default = d.default
           /\ Providers(Inserted(o)) \ CcrEntries = Providers(d) \ CcrEntries
           /\ Ccr(Inserted(o)) # {}
<1> DEFINE c == Entry(ccr.port, ccr.model)
           t == (o.providers \ CcrEntries) \cup {c}
<1>1. c \in CcrEntries
    BY DEF CcrEntries
<1>2. /\ o \in Documents /\ o.default = d.default
      /\ o.providers \in Tables /\ o.providers = Providers(d)
    BY OpenedFacts, DocumentFacts
<1>3. t \in Tables
    BY <1>1, <1>2, TableFacts
<1>4. Inserted(o) = [o EXCEPT !.providers = t]
    BY DEF Inserted
<1>5. t \ CcrEntries = Providers(d) \ CcrEntries /\ c \in t
    BY <1>1, <1>2
<1> HIDE DEF c, t
<1> QED
    BY <1>1, <1>2, <1>3, <1>4, <1>5, NewTable DEF Ccr

\* Adding CCR to a document, for every client: the user's part stays, CCR is a provider.
LEMMA AddedFacts ==
    ASSUME client \in Clients, ccr \in [port: Ports, model: Models], NEW d \in Documents,
           NEW e \in Added(d)
    PROVE  /\ e \in Documents /\ Own(e) = Own(d) /\ Ccr(e) # {}
           /\ client = OpenCode => e.default = d.default
<1>1. CASE client = OpenCode
  <2>1. PICK o \in Opened(d) : e = Inserted(o)
    BY <1>1, AdditiveClientsAssumption DEF Added, AddedToOpenCode
  <2> QED
    BY <2>1, InsertedFacts DEF Own
<1>2. CASE client = OpenClaw
  <2> DEFINE m == IF d.default \in {"user", "ccr"} THEN d.default ELSE "ccr"
  <2>1. PICK o \in Opened(d) :
           e = [Inserted(o) EXCEPT !.default =
                  IF Inserted(o).default \in {"user", "ccr"} THEN Inserted(o).default ELSE "ccr"]
    BY <1>2, AdditiveClientsAssumption DEF Added, AddedToOpenClaw
  <2>2. e = [Inserted(o) EXCEPT !.default = m] /\ Inserted(o) \in Documents
    BY <2>1, InsertedFacts
  <2>m. m \in Defaults
    BY DocumentFacts DEF Defaults
  <2> HIDE DEF m
  <2>3. e \in Documents /\ Providers(e) = Providers(Inserted(o)) /\ e.default = m
    BY <2>2, <2>m, NewDefault
  <2> USE DEF m
  <2> QED
    BY <2>3, <1>2, InsertedFacts, AdditiveClientsAssumption DEF Own, Ccr
<1>3. CASE client = Hermes
  <2>1. PICK o \in Opened(d) : e = [Inserted(o) EXCEPT !.default = "ccr"]
    BY <1>3, AdditiveClientsAssumption DEF Added, AddedToHermes
  <2>2. e \in Documents /\ Providers(e) = Providers(Inserted(o))
    BY <2>1, InsertedFacts, NewDefault DEF Defaults
  <2> QED
    BY <2>2, <1>3, InsertedFacts, AdditiveClientsAssumption DEF Own, Ccr
<1> QED
    BY <1>1, <1>2, <1>3 DEF Clients

LEMMA WithoutCcrFacts ==
    ASSUME NEW d \in Documents
    PROVE  /\ WithoutCcr(d) \in Documents /\ WithoutCcr(d).default = d.default
           /\ Providers(WithoutCcr(d)) = Providers(d) \ CcrEntries
<1>1. CASE d.providers \in {Absent, Wrong}
    BY <1>1, DocumentFacts DEF WithoutCcr
<1>2. CASE d.providers \notin {Absent, Wrong}
  <2> DEFINE t == d.providers \ CcrEntries
  <2>1. t \in Tables /\ t = Providers(d) \ CcrEntries
    BY <1>2, DocumentFacts, TableFacts
  <2>2. WithoutCcr(d) = [d EXCEPT !.providers = t]
    BY <1>2 DEF WithoutCcr
  <2> HIDE DEF t
  <2> QED
    BY <2>1, <2>2, NewTable
<1> QED
    BY <1>1, <1>2

\* Removing CCR from a document, for every client: the user's part stays, and neither the
\* table nor, except in OpenCode, the default model names CCR.
LEMMA RemovedFacts ==
    ASSUME client \in Clients, NEW d \in Documents
    PROVE  /\ Removed(d) \in Documents /\ Own(Removed(d)) = Own(d) /\ Ccr(Removed(d)) = {}
           /\ IF client = OpenCode THEN Removed(d).default = d.default
              ELSE Removed(d).default # "ccr"
<1>1. CASE client = OpenCode
  <2>1. Removed(d) = WithoutCcr(d)
    BY <1>1, AdditiveClientsAssumption DEF Removed, RemovedFromOpenCode
  <2> QED
    BY <2>1, <1>1, WithoutCcrFacts DEF Own, Ccr
<1>2. CASE client \in {OpenClaw, Hermes}
  <2> DEFINE w == WithoutCcr(d)
             m == IF w.default = "ccr" THEN "bare" ELSE w.default
  <2>1. Removed(d) = [w EXCEPT !.default = m]
    BY <1>2, AdditiveClientsAssumption DEF Removed, RemovedFromOpenClaw, RemovedFromHermes
  <2>2. /\ w \in Documents /\ m \in Defaults /\ m # "ccr" /\ (m = "user" <=> d.default = "user")
        /\ Providers(w) = Providers(d) \ CcrEntries
    BY WithoutCcrFacts, DocumentFacts DEF Defaults
  <2> HIDE DEF w, m
  <2>3. /\ Removed(d) \in Documents /\ Removed(d).default = m
        /\ Providers(Removed(d)) = Providers(d) \ CcrEntries
    BY <2>1, <2>2, NewDefault
  <2> QED
    BY <2>2, <2>3, <1>2, AdditiveClientsAssumption DEF Own, Ccr
<1> QED
    BY <1>1, <1>2 DEF Clients

\* What the user or the client leaves is a file.
LEMMA EditedFacts ==
    ASSUME NEW d \in Documents, NEW f \in Edited(d)
    PROVE  /\ f \in Files
           /\ f \in Documents /\ f.default = "ccr" => d.default = "ccr"
<1>1. CASE f = Broken
    BY <1>1, MarksDiffer DEF Files
<1>2. ASSUME NEW p \in {Providers(d) \cup {UserEntry}, Providers(d) \ {UserEntry},
                        Providers(d) \ CcrEntries},
             f = [d EXCEPT !.providers = p]
      PROVE  f \in Documents /\ f.default = d.default
  <2>1. p \in Tables
    BY DocumentFacts, TableFacts
  <2> QED
    BY <2>1, <1>2, NewTable
<1>3. ASSUME NEW m \in {"user", "plain", "absent"}, f = [d EXCEPT !.default = m]
      PROVE  f \in Documents /\ f.default # "ccr"
    BY <1>3, NewDefault DEF Defaults
<1> QED
    BY <1>1, <1>2, <1>3 DEF Edited, Files

--------------------------------------------------------------------------------
(***************************************************************************)
(* The inductive step                                                      *)
(***************************************************************************)
LEMMA InitIInv == Init => IInv
<1> SUFFICES ASSUME Init PROVE IInv
    OBVIOUS
<1>1. TypeOK
    BY DEF Init, TypeOK, Files, UserDocuments
<1>2. OpInv
    BY DEF Init, OpInv
<1>3. FileInv
  <2>1. file \in Documents => file.default # "ccr"
    BY MarksDiffer DEF Init, UserDocuments
  <2> QED
    BY <2>1 DEF Init, FileInv
<1> QED
    BY <1>1, <1>2, <1>3 DEF IInv

LEMMA NextIInv == IInv /\ [Next]_vars => IInv'
<1> SUFFICES ASSUME IInv, [Next]_vars PROVE IInv'
    OBVIOUS
<1>i. TypeOK /\ OpInv /\ FileInv
    BY DEF IInv
<1>1. CASE Add
  <2>1. PICK d \in Parsed(file) : \E e \in Added(d) : op' = e
    BY <1>1 DEF Add
  <2>2. PICK e \in Added(d) : op' = e
    BY <2>1
  <2>3. /\ op = None /\ ccr.model # None
        /\ UNCHANGED <<client, file, ccr, own, raced, byHand>>
    BY <1>1 DEF Add
  <2>4. d \in Documents /\ Own(d) = own /\ (d = file \/ d.default = "absent")
    BY <1>i, ParsedFacts DEF TypeOK, FileInv
  <2>5. ccr \in [port: Ports, model: Models]
    BY <2>3, <1>i DEF TypeOK
  <2>6. /\ e \in Documents /\ Own(e) = Own(d) /\ Ccr(e) # {}
        /\ client = OpenCode => e.default = d.default
    BY <2>4, <2>5, <1>i, AddedFacts DEF TypeOK
  <2>7. TypeOK'
    BY <2>2, <2>3, <2>6, <1>i DEF TypeOK
  <2>8. FileInv'
    BY <2>3, <2>2, <2>6, <1>i, MarksDiffer DEF FileInv, Own
  <2>9. OpInv'
    BY <2>2, <2>3, <2>4, <2>6, <1>i DEF OpInv, FileInv, Own
  <2> QED
    BY <2>7, <2>8, <2>9 DEF IInv
<1>2. CASE Remove
  <2>1. PICK d \in Parsed(file) : op' = Removed(d)
    BY <1>2 DEF Remove
  <2>2. op = None /\ UNCHANGED <<client, file, ccr, own, raced, byHand>>
    BY <1>2 DEF Remove
  <2>3. d \in Documents /\ Own(d) = own /\ (d = file \/ d.default = "absent")
    BY <1>i, ParsedFacts DEF TypeOK, FileInv
  <2> DEFINE e == Removed(d)
  <2>4. /\ e \in Documents /\ Own(e) = Own(d)
        /\ IF client = OpenCode THEN e.default = d.default ELSE e.default # "ccr"
    BY <2>3, <1>i, RemovedFacts DEF TypeOK
  <2> HIDE DEF e
  <2>5. op' = e
    BY <2>1 DEF e
  <2>7. TypeOK'
    BY <2>2, <2>4, <2>5, <1>i DEF TypeOK
  <2>8. FileInv'
    BY <2>2, <2>4, <2>5, <1>i, MarksDiffer DEF FileInv, Own
  <2>9. OpInv'
    BY <2>2, <2>3, <2>4, <2>5, <1>i DEF OpInv, FileInv, Own
  <2> QED
    BY <2>7, <2>8, <2>9 DEF IInv
<1>3. CASE Install
  <2>1. /\ op # None /\ file' = op /\ op' = None /\ raced' = FALSE
        /\ own' = (IF raced THEN Own(op) ELSE own) /\ UNCHANGED <<client, ccr>>
        /\ byHand' = (byHand /\ Ccr(op) = {} /\ op.default = "ccr")
    BY <1>3 DEF Install
  <2>2. TypeOK'
    BY <2>1, <1>i DEF TypeOK, Files
  <2>3. OpInv'
    BY <2>1 DEF OpInv
  <2>4. Own(op) = own'
    BY <2>1, <1>i DEF OpInv
  <2>5. FileInv'
    BY <2>1, <2>4, <1>i DEF FileInv, OpInv, Own
  <2> QED
    BY <2>2, <2>3, <2>5 DEF IInv
<1>4. CASE Fail
  <2>1. op' = None /\ raced' = FALSE /\ UNCHANGED <<client, file, ccr, own, byHand>>
    BY <1>4 DEF Fail
  <2>2. TypeOK' /\ OpInv'
    BY <2>1, <1>i DEF TypeOK, OpInv
  <2>3. FileInv'
    BY <2>1, <1>i DEF FileInv, Own
  <2> QED
    BY <2>2, <2>3 DEF IInv
<1>5. CASE Edit
  <2> DEFINE d == IF file \in Documents THEN file ELSE Empty
  <2>1. PICK f \in Edited(d) :
           /\ file' = f /\ own' = Own(f)
           /\ byHand' = (f \in Documents /\ Ccr(f) = {} /\ f.default = "ccr")
    BY <1>5 DEF Edit
  <2>2. raced' = (op # None) /\ UNCHANGED <<client, ccr, op>>
    BY <1>5 DEF Edit
  <2>3. d \in Documents /\ (d.default = "ccr" => file \in Documents /\ file.default = "ccr")
    BY DEF Documents, Empty
  <2>4. f \in Files /\ (f \in Documents /\ f.default = "ccr" => d.default = "ccr")
    BY <2>3, EditedFacts
  <2> HIDE DEF d
  <2>5. TypeOK'
    BY <2>1, <2>2, <2>4, <1>i DEF TypeOK
  <2>6. OpInv'
    BY <2>2, <1>i DEF OpInv
  <2>7. FileInv'
    BY <2>1, <2>2, <2>3, <2>4, <1>i DEF FileInv, Own
  <2> QED
    BY <2>5, <2>6, <2>7 DEF IInv
<1>6. CASE Configure \/ UNCHANGED vars
  <2>1. /\ UNCHANGED <<client, file, op, own, raced, byHand>>
        /\ ccr' \in [port: Ports, model: Models \cup {None}]
    BY <1>6, <1>i DEF Configure, vars, TypeOK
  <2> QED
    BY <2>1, <1>i DEF IInv, TypeOK, OpInv, FileInv, Own
<1> QED
    BY <1>1, <1>2, <1>3, <1>4, <1>5, <1>6 DEF Next

--------------------------------------------------------------------------------
\* The user's providers and choice of a default model survive every sequence of
\* activations, deactivations, failures and changes of the configuration
\* (install_..._ccr, remove_..._ccr of the three clients).
THEOREM OwnIsKept == Spec => []OwnKept
<1>1. IInv => OwnKept
    BY DEF IInv, FileInv, OwnKept
<1> QED
    BY <1>1, InitIInv, NextIInv, PTL DEF Spec

\* A default model that leads to CCR finds CCR among the providers, unless the user has
\* taken that out himself (build_..._config, remove_..._ccr_provider).
THEOREM TheDefaultIsServed == Spec => []DefaultIsServed
<1>1. IInv => DefaultIsServed
    BY DEF IInv, FileInv, DefaultIsServed
<1> QED
    BY <1>1, InitIInv, NextIInv, PTL DEF Spec

\* Once a removal is installed nothing in the file leads to CCR, whatever the file was
\* like before (deactivate_..._ccr).
THEOREM RemovalIsForGood == Spec => RemovedForGood
<1>1. ASSUME IInv, op # None, Ccr(op) = {}, file' = op
      PROVE  Status' = "missing" /\ (client # OpenCode => file'.default # "ccr")
  <2>1. op.default # "ccr"
    BY <1>1 DEF IInv, OpInv
  <2>2. Ccr(file') = {}
    BY <1>1
  <2>3. Status' = "missing"
    BY <2>2 DEF Status, Ccr, Providers
  <2> QED
    BY <2>1, <2>3, <1>1
<1>2. IInv /\ [Next]_vars =>
        [op # None /\ Ccr(op) = {} /\ file' = op /\ op' = None =>
           Status' = "missing" /\ (client # OpenCode => file'.default # "ccr")]_vars
    BY <1>1
<1> QED
    BY <1>2, InitIInv, NextIInv, PTL DEF Spec, RemovedForGood

================================================================================
