----------------------------- MODULE DesktopProofs -----------------------------
(***************************************************************************)
(* Proofs about the desktop application: first its status page, for any    *)
(* clients and any number of threads, answers and restarts of the server,  *)
(* and then its tabs and its tray menu, for any files, providers, routes,  *)
(* presets and any number of clicks.                                       *)
(***************************************************************************)
EXTENDS StatusPage, DesktopTabs, FiniteSetTheorems, SequenceTheorems, WellFoundedInduction, TLAPS

--------------------------------------------------------------------------------
(***************************************************************************)
(* Induction up to a number, for a set: what is in the set from 0 on.      *)
(***************************************************************************)
Less == {ss \in Nat \X Nat : ss[1] < ss[2]}

LEMMA LessIsWellFounded == IsWellFoundedOn(Less, Nat)
    BY NatLessThanWellFounded DEF OpToRel, Less

LEMMA InductionUpTo ==
    ASSUME NEW N \in Nat, NEW T, 0 \in T, \A n \in 0..N : n \in T /\ n < N => n + 1 \in T
    PROVE  \A n \in 0..N : n \in T
<1> DEFINE C == {n \in 0..N : n \notin T}
<1> SUFFICES ASSUME C # {} PROVE FALSE
    OBVIOUS
<1>1. PICK n \in C : \A m \in C : ~ (<<m, n>> \in Less)
  <2>1. C \subseteq Nat
    OBVIOUS
  <2> HIDE DEF C
  <2> QED
    BY <2>1, WFMin, LessIsWellFounded
<1>2. n \in Nat /\ n # 0 /\ n - 1 \in 0..N /\ n - 1 < N /\ n - 1 + 1 = n
    OBVIOUS
<1>3. n - 1 \in C
    BY <1>2
<1>4. <<n - 1, n>> \in Less
    BY <1>2 DEF Less
<1> QED
    BY <1>1, <1>3, <1>4

--------------------------------------------------------------------------------
(***************************************************************************)
(* Types                                                                   *)
(***************************************************************************)
Looks == Targets \cup {"refresh"}

Deeds == {"look", "look and check", "launch", "start", "stop", "activate", "deactivate",
          "add", "remove", "post"}

TaskType ==
    [flag: Flags, does: Deeds, stage: {"act", "look", "send"},
     saw: Worlds \cup (0..MaxSessions) \cup {None}, health: BOOLEAN]

\* Only operations act; who is done has seen what his answer brings.
Sane(t) ==
    /\ t.stage = "act" => t.flag \in Targets
    /\ t.stage = "send" /\ t.flag \in Looks => t.saw \in Worlds
    /\ t.stage = "send" /\ t.flag \in {"runtime", "action"} => t.saw \in 0..MaxSessions

PageType ==
    [view: Worlds \cup {None}, busy: SUBSET Flags, fetched: {"never", "fresh", "due"},
     routes: (0..MaxSessions) \cup {None}, metrics: (0..MaxSessions) \cup {None},
     diagnostics: (0..MaxSessions) \cup {None}]

TypeOK ==
    /\ world \in Worlds /\ sessions \in 0..MaxSessions
    /\ tasks \in Seq(TaskType) /\ answers \in Seq(TaskType)
    /\ \A i \in DOMAIN tasks : Sane(tasks[i])
    /\ \A i \in DOMAIN answers : Sane(answers[i]) /\ answers[i].stage = "send"
    /\ page \in PageType
    /\ shown \in BOOLEAN /\ calm \in BOOLEAN

LEMMA FlagsDiffer ==
    /\ Targets \cap {"refresh", "health", "runtime", "action"} = {}
    /\ Flags = Targets \cup {"refresh", "health", "runtime", "action"}
    /\ "server" \in Targets /\ Clients \subseteq Targets /\ Looks \subseteq Flags
    /\ "server" \notin Clients
    /\ Reversible \subseteq Clients /\ Additive \subseteq Clients
    BY StatusPageAssumption DEF Targets, Flags, Clients, Looks

--------------------------------------------------------------------------------
(***************************************************************************)
(* A frame takes the answers one after the other.                          *)
(***************************************************************************)
LEMMA AnsweredFacts ==
    ASSUME NEW p \in PageType, NEW a \in TaskType, Sane(a), a.stage = "send"
    PROVE  LET q == Answered(p, a)
           IN  /\ q \in PageType
               /\ q.busy \subseteq p.busy /\ a.flag \notin q.busy
               /\ p.busy \ q.busy \subseteq {a.flag} \cup {"health", "runtime"}
               /\ q.view = IF a.flag \in Looks THEN a.saw ELSE p.view
<1>1. CASE a.flag = "refresh"
    BY <1>1, FlagsDiffer DEF Answered, PageType, Sane, Looks
<1>2. CASE a.flag \in Targets
    BY <1>2, FlagsDiffer DEF Answered, PageType, Sane, Looks
<1>3. CASE a.flag = "health"
    BY <1>3, FlagsDiffer DEF Answered, PageType, Sane, Looks
<1>4. CASE a.flag = "runtime"
    BY <1>4, FlagsDiffer DEF Answered, PageType, Sane, Looks
<1>5. CASE a.flag = "action"
    BY <1>5, FlagsDiffer DEF Answered, PageType, Sane, Looks
<1> QED
    BY <1>1, <1>2, <1>3, <1>4, <1>5, FlagsDiffer DEF TaskType

\* Taken is what its recursive definition says.
TakenUpTo(g, n) ==
    g = [i \in 0..n |-> IF i = 0 THEN page ELSE Answered(g[i - 1], answers[i])]

LEMMA TakenExists ==
    ASSUME NEW N \in Nat
    PROVE  \E g : TakenUpTo(g, N)
<1> DEFINE T == {n \in 0..N : \E g : TakenUpTo(g, n)}
<1>1. 0 \in T
  <2>1. TakenUpTo([i \in 0..0 |-> page], 0)
    BY DEF TakenUpTo
  <2> QED
    BY <2>1
<1>2. ASSUME NEW n \in 0..N, n \in T, n < N
      PROVE  n + 1 \in T
  <2>1. PICK g : TakenUpTo(g, n)
    BY <1>2
  <2> DEFINE h == [i \in 0..(n + 1) |-> IF i <= n THEN g[i] ELSE Answered(g[n], answers[n + 1])]
  <2>2. \A i \in 0..(n + 1) :
           h[i] = IF i = 0 THEN page ELSE Answered(h[i - 1], answers[i])
    <3> SUFFICES ASSUME NEW i \in 0..(n + 1)
                 PROVE  h[i] = IF i = 0 THEN page ELSE Answered(h[i - 1], answers[i])
      OBVIOUS
    <3>1. CASE i <= n
      <4>1. i \in 0..n /\ h[i] = g[i]
        BY <3>1
      <4>2. g[i] = IF i = 0 THEN page ELSE Answered(g[i - 1], answers[i])
        BY <4>1, <2>1 DEF TakenUpTo
      <4>3. i # 0 => h[i - 1] = g[i - 1]
        BY <3>1
      <4> QED
        BY <4>1, <4>2, <4>3
    <3>2. CASE i = n + 1
      BY <3>2
    <3> QED
      BY <3>1, <3>2
  <2>3. TakenUpTo(h, n + 1)
    BY <2>2 DEF TakenUpTo
  <2> HIDE DEF h
  <2> QED
    BY <1>2, <2>3
<1> HIDE DEF T
<1>3. N \in T
    BY <1>1, <1>2, InductionUpTo
<1> QED
    BY <1>3 DEF T

LEMMA TakenUnfolds ==
    ASSUME Len(answers) \in Nat
    PROVE  /\ Taken[0] = page
           /\ \A n \in 1..Len(answers) : Taken[n] = Answered(Taken[n - 1], answers[n])
<1>1. TakenUpTo(Taken, Len(answers))
  <2>1. Taken = CHOOSE g : TakenUpTo(g, Len(answers))
    BY DEF Taken, TakenUpTo
  <2> QED
    BY <2>1, TakenExists
<1> QED
    BY <1>1 DEF TakenUpTo

Singles == Looks \cup {"action"}

LEMMA TakenFacts ==
    ASSUME TypeOK
    PROVE  \A n \in 0..Len(answers) :
             /\ Taken[n] \in PageType
             /\ Taken[n].busy \subseteq page.busy
             /\ \A f \in Singles : f \in page.busy /\ (\A i \in 1..n : answers[i].flag # f)
                                   => f \in Taken[n].busy
             /\ \A i \in 1..n : answers[i].flag \notin Taken[n].busy
             /\ \A w : (\A i \in 1..n : answers[i].flag \in Looks => answers[i].saw = w)
                      => Taken[n].view = IF \E i \in 1..n : answers[i].flag \in Looks
                                         THEN w ELSE page.view
<1> DEFINE Good(n) ==
             /\ Taken[n] \in PageType
             /\ Taken[n].busy \subseteq page.busy
             /\ \A f \in Singles : f \in page.busy /\ (\A i \in 1..n : answers[i].flag # f)
                                   => f \in Taken[n].busy
             /\ \A i \in 1..n : answers[i].flag \notin Taken[n].busy
             /\ \A w : (\A i \in 1..n : answers[i].flag \in Looks => answers[i].saw = w)
                      => Taken[n].view = IF \E i \in 1..n : answers[i].flag \in Looks
                                         THEN w ELSE page.view
           T == {n \in 0..Len(answers) : Good(n)}
<1>1. Len(answers) \in Nat /\ DOMAIN answers = 1..Len(answers) /\ page \in PageType
    BY DEF TypeOK
<1>2. 0 \in T
  <2>1. Taken[0] = page /\ 1..0 = {}
    BY <1>1, TakenUnfolds
  <2>2. Good(0)
    BY <1>1, <2>1
  <2> QED
    BY <1>1, <2>2
<1>3. ASSUME NEW n \in 0..Len(answers), n \in T, n < Len(answers)
      PROVE  n + 1 \in T
  <2>1. PICK a : a = answers[n + 1]
    OBVIOUS
  <2>2. PICK p : p = Taken[n]
    OBVIOUS
  <2>3. PICK q : q = Taken[n + 1]
    OBVIOUS
  <2>4. n + 1 \in 1..Len(answers) /\ n + 1 - 1 = n /\ 1..(n + 1) = 1..n \cup {n + 1}
    BY <1>1, <1>3
  <2>5. q = Answered(p, a)
    BY <1>1, <2>1, <2>2, <2>3, <2>4, TakenUnfolds
  <2>6. a \in TaskType /\ Sane(a) /\ a.stage = "send"
    BY <1>1, <2>1, <2>4 DEF TypeOK
  <2>7. Good(n)
    BY <1>3
  <2>8. /\ q \in PageType
        /\ q.busy \subseteq p.busy /\ a.flag \notin q.busy
        /\ p.busy \ q.busy \subseteq {a.flag} \cup {"health", "runtime"}
        /\ q.view = IF a.flag \in Looks THEN a.saw ELSE p.view
    BY <2>2, <2>5, <2>6, <2>7, AnsweredFacts
  <2>9. Good(n + 1)
    <3>1. Taken[n + 1] \in PageType /\ Taken[n + 1].busy \subseteq page.busy
      BY <2>2, <2>3, <2>7, <2>8
    <3>2. ASSUME NEW f \in Singles, f \in page.busy, \A i \in 1..(n + 1) : answers[i].flag # f
          PROVE  f \in Taken[n + 1].busy
      <4>1. f \in p.busy /\ a.flag # f
        BY <2>1, <2>2, <2>4, <2>7, <3>2
      <4>2. f \notin {"health", "runtime"}
        BY FlagsDiffer DEF Singles, Looks
      <4> QED
        BY <2>3, <2>8, <4>1, <4>2
    <3>3. \A i \in 1..(n + 1) : answers[i].flag \notin Taken[n + 1].busy
      BY <2>1, <2>2, <2>3, <2>4, <2>7, <2>8
    <3>4. ASSUME NEW w,
                 \A i \in 1..(n + 1) : answers[i].flag \in Looks => answers[i].saw = w
          PROVE  Taken[n + 1].view = IF \E i \in 1..(n + 1) : answers[i].flag \in Looks
                                     THEN w ELSE page.view
      <4>1. p.view = IF \E i \in 1..n : answers[i].flag \in Looks THEN w ELSE page.view
        BY <2>2, <2>4, <2>7, <3>4
      <4>2. a.flag \in Looks => a.saw = w
        BY <2>1, <2>4, <3>4
      <4> QED
        BY <2>1, <2>3, <2>4, <2>8, <4>1, <4>2
    <3> QED
      BY <3>1, <3>2, <3>3, <3>4
  <2> HIDE DEF Good
  <2> QED
    BY <2>4, <2>9
<1> HIDE DEF T
<1>4. \A n \in 0..Len(answers) : n \in T
    BY <1>1, <1>2, <1>3, InductionUpTo
<1> QED
    BY <1>4 DEF T

\* The page when all answers have been taken.
LEMMA PolledFacts ==
    ASSUME TypeOK
    PROVE  /\ Polled \in PageType
           /\ Polled.busy \subseteq page.busy
           /\ \A f \in Singles : f \in page.busy /\ (\A i \in DOMAIN answers : answers[i].flag # f)
                                 => f \in Polled.busy
           /\ \A i \in DOMAIN answers : answers[i].flag \notin Polled.busy
           /\ \A w : (\A i \in DOMAIN answers : answers[i].flag \in Looks => answers[i].saw = w)
                    => Polled.view = IF \E i \in DOMAIN answers : answers[i].flag \in Looks
                                     THEN w ELSE page.view
<1>1. PICK n : n = Len(answers)
    OBVIOUS
<1>2. n \in 0..n /\ DOMAIN answers = 1..n
    BY <1>1 DEF TypeOK
<1>3. PICK p : p = Polled
    OBVIOUS
<1>4. p = Taken[n]
    BY <1>1, <1>3 DEF Polled
<1>5. /\ p \in PageType /\ p.busy \subseteq page.busy
      /\ \A f \in Singles : f \in page.busy /\ (\A i \in 1..n : answers[i].flag # f)
                            => f \in p.busy
      /\ \A i \in 1..n : answers[i].flag \notin p.busy
      /\ \A w : (\A i \in 1..n : answers[i].flag \in Looks => answers[i].saw = w)
               => p.view = IF \E i \in 1..n : answers[i].flag \in Looks THEN w ELSE page.view
    BY <1>1, <1>2, <1>4, TakenFacts
<1> QED
    BY <1>2, <1>3, <1>5

--------------------------------------------------------------------------------
(***************************************************************************)
(* Tasks in sequences                                                      *)
(***************************************************************************)
In(s, F)   == \E i \in DOMAIN s : s[i].flag \in F
Once(s, F) == \A i, j \in DOMAIN s : s[i].flag \in F /\ s[j].flag \in F => i = j

LEMMA AppendFacts ==
    ASSUME NEW s \in Seq(TaskType), NEW t \in TaskType
    PROVE  /\ Append(s, t) \in Seq(TaskType)
           /\ DOMAIN Append(s, t) = DOMAIN s \cup {Len(s) + 1} /\ Len(s) + 1 \notin DOMAIN s
           /\ \A i \in DOMAIN s : Append(s, t)[i] = s[i]
           /\ Append(s, t)[Len(s) + 1] = t
    OBVIOUS

LEMMA InAppend ==
    ASSUME NEW s \in Seq(TaskType), NEW t \in TaskType, NEW F
    PROVE  /\ In(Append(s, t), F) <=> In(s, F) \/ t.flag \in F
           /\ Once(s, F) /\ ~ (In(s, F) /\ t.flag \in F) => Once(Append(s, t), F)
<1> DEFINE q == Append(s, t)
           n == Len(s) + 1
<1>1. /\ DOMAIN q = DOMAIN s \cup {n} /\ n \notin DOMAIN s
      /\ \A i \in DOMAIN s : q[i] = s[i]
      /\ q[n] = t
    BY AppendFacts
<1> HIDE DEF q, n
<1>2. In(q, F) <=> In(s, F) \/ t.flag \in F
    BY <1>1, Zenon DEF In
<1>3. Once(s, F) /\ ~ (In(s, F) /\ t.flag \in F) => Once(q, F)
    BY <1>1 DEF In, Once
<1> QED
    BY <1>2, <1>3 DEF q

\* What is left when one is taken out: every place is that of another one before.
LEMMA RemoveFacts ==
    ASSUME NEW s \in Seq(TaskType), NEW i \in DOMAIN s
    PROVE  LET q == RemoveAt(s, i)
               was(j) == IF j < i THEN j ELSE j + 1
               now(j) == IF j < i THEN j ELSE j - 1
           IN  /\ q \in Seq(TaskType)
               /\ \A j \in DOMAIN q : was(j) \in DOMAIN s \ {i} /\ q[j] = s[was(j)]
               /\ \A j \in DOMAIN s \ {i} : now(j) \in DOMAIN q /\ q[now(j)] = s[j]
<1>1. Len(s) \in Nat /\ DOMAIN s = 1..Len(s) /\ i \in 1..Len(s)
    OBVIOUS
<1> DEFINE a == SubSeq(s, 1, i - 1)
           b == SubSeq(s, i + 1, Len(s))
           q == a \o b
<1>2. /\ a \in Seq(TaskType) /\ Len(a) = i - 1
      /\ \A j \in 1..(i - 1) : a[j] = s[j]
    BY <1>1
<1>3. /\ b \in Seq(TaskType) /\ Len(b) = Len(s) - i
      /\ \A j \in 1..(Len(s) - i) : b[j] = s[i + j]
    BY <1>1
<1> HIDE DEF a, b
<1>4. /\ q \in Seq(TaskType) /\ Len(q) = Len(s) - 1
      /\ \A j \in 1..(Len(s) - 1) : q[j] = IF j < i THEN a[j] ELSE b[j - (i - 1)]
  <2>1. q \in Seq(TaskType) /\ Len(q) = Len(a) + Len(b)
    BY <1>2, <1>3, ConcatProperties
  <2>2. \A j \in 1..(Len(a) + Len(b)) : q[j] = IF j <= Len(a) THEN a[j] ELSE b[j - Len(a)]
    BY <1>2, <1>3, ConcatProperties
  <2> HIDE DEF q
  <2> QED
    BY <1>1, <1>2, <1>3, <2>1, <2>2
<1>5. DOMAIN q = 1..(Len(s) - 1)
    BY <1>4
<1>6. q = RemoveAt(s, i)
    BY DEF RemoveAt, a, b
<1> HIDE DEF q
<1>7. \A j \in 1..(Len(s) - 1) : q[j] = IF j < i THEN s[j] ELSE s[j + 1]
  <2> SUFFICES ASSUME NEW j \in 1..(Len(s) - 1)
               PROVE  q[j] = IF j < i THEN s[j] ELSE s[j + 1]
    OBVIOUS
  <2>1. CASE j < i
    BY <1>1, <1>2, <1>4, <2>1
  <2>2. CASE ~ (j < i)
    <3>1. j - (i - 1) \in 1..(Len(s) - i) /\ i + (j - (i - 1)) = j + 1
      BY <1>1, <2>2
    <3>2. b[j - (i - 1)] = s[j + 1]
      BY <1>3, <3>1
    <3> QED
      BY <1>4, <2>2, <3>2
  <2> QED
    BY <2>1, <2>2
<1>8. ASSUME NEW j \in DOMAIN q
      PROVE  LET k == IF j < i THEN j ELSE j + 1 IN k \in DOMAIN s \ {i} /\ q[j] = s[k]
    BY <1>1, <1>5, <1>7
<1>9. ASSUME NEW j \in DOMAIN s \ {i}
      PROVE  LET k == IF j < i THEN j ELSE j - 1 IN k \in DOMAIN q /\ q[k] = s[j]
    BY <1>1, <1>5, <1>7
<1> QED
    BY <1>4, <1>6, <1>8, <1>9

LEMMA InRemove ==
    ASSUME NEW s \in Seq(TaskType), NEW i \in DOMAIN s, NEW F
    PROVE  LET q == RemoveAt(s, i)
           IN  /\ In(q, F) => In(s, F)
               /\ s[i].flag \notin F => (In(s, F) => In(q, F))
               /\ Once(s, F) => Once(q, F)
               /\ Once(s, F) /\ s[i].flag \in F => ~ In(q, F)
<1> DEFINE q == RemoveAt(s, i)
           was(j) == IF j < i THEN j ELSE j + 1
           now(j) == IF j < i THEN j ELSE j - 1
<1>1. /\ q \in Seq(TaskType)
      /\ \A j \in DOMAIN q : was(j) \in DOMAIN s \ {i} /\ q[j] = s[was(j)]
      /\ \A j \in DOMAIN s \ {i} : now(j) \in DOMAIN q /\ q[now(j)] = s[j]
    BY RemoveFacts
<1>2. ASSUME NEW j \in DOMAIN q, NEW k \in DOMAIN q, was(j) = was(k)
      PROVE  j = k
    BY <1>1, <1>2
<1> HIDE DEF q, was, now
<1>3. In(q, F) => In(s, F)
    BY <1>1 DEF In
<1>4. s[i].flag \notin F /\ In(s, F) => In(q, F)
    BY <1>1, Zenon DEF In
<1>5. Once(s, F) => Once(q, F)
    BY <1>1, <1>2 DEF Once
<1>6. Once(s, F) /\ s[i].flag \in F => ~ In(q, F)
    BY <1>1 DEF Once, In
<1> QED
    BY <1>3, <1>4, <1>5, <1>6 DEF q

\* A step of a thread leaves its flag, and with it what is under way.
LEMMA InStepped ==
    ASSUME NEW s, NEW q, NEW F, DOMAIN q = DOMAIN s, \A i \in DOMAIN s : q[i].flag = s[i].flag
    PROVE  (In(q, F) <=> In(s, F)) /\ (Once(q, F) <=> Once(s, F))
    BY DEF In, Once

--------------------------------------------------------------------------------
(***************************************************************************)
(* The inductive invariant: the flags of the page and the tasks under way, *)
(* and what a calm page shows                                              *)
(***************************************************************************)
\* One task for a flag, and the flag is set for as long as it is under way.
Sole(f, ts, as, p) ==
    /\ Once(ts, {f}) /\ Once(as, {f}) /\ ~ (In(ts, {f}) /\ In(as, {f}))
    /\ f \in p.busy <=> In(ts, {f}) \/ In(as, {f})

FlagsFit(ts, as, p) ==
    /\ \A f \in Singles : Sole(f, ts, as, p)
    /\ \A f \in {"health", "runtime"} \cap p.busy : In(ts, {f}) \/ In(as, {f})

\* One look is under way at most, what it has seen is the world, and so is the page.
CalmFits(ts, as, p, w) ==
    /\ Once(ts, Looks) /\ Once(as, Looks) /\ ~ (In(ts, Looks) /\ In(as, Looks))
    /\ \A i \in DOMAIN ts : ts[i].flag \in Looks /\ ts[i].stage = "send" => ts[i].saw = w
    /\ \A i \in DOMAIN as : as[i].flag \in Looks => as[i].saw = w
    /\ ~ In(ts, Looks) /\ ~ In(as, Looks) => p.view = w

FlagInv == FlagsFit(tasks, answers, page)
CalmInv == calm => CalmFits(tasks, answers, page, world)
IInv    == TypeOK /\ FlagInv /\ CalmInv /\ NothingOfTheStopped

AllSane(ts) == ts \in Seq(TaskType) /\ \A i \in DOMAIN ts : Sane(ts[i])

LEMMA TaskFacts ==
    ASSUME NEW flag \in Flags, NEW does \in Deeds
    PROVE  /\ Task(flag, does) \in TaskType /\ Sane(Task(flag, does))
           /\ Task(flag, does).flag = flag /\ Task(flag, does).stage # "send"
    BY DEF Task, TaskType, Sane

LEMMA AppendSane ==
    ASSUME NEW s, AllSane(s), NEW t \in TaskType, Sane(t)
    PROVE  s \o <<t>> = Append(s, t) /\ AllSane(Append(s, t))
<1>1. s \in Seq(TaskType)
    BY DEF AllSane
<1>2. s \o <<t>> = Append(s, t)
    BY <1>1, AppendIsConcat
<1>3. \A i \in DOMAIN Append(s, t) : Sane(Append(s, t)[i])
  <2>1. PICK q : q = Append(s, t)
    OBVIOUS
  <2>2. /\ DOMAIN q = DOMAIN s \cup {Len(s) + 1}
        /\ \A i \in DOMAIN s : q[i] = s[i]
        /\ q[Len(s) + 1] = t
    BY <1>1, <2>1, AppendFacts
  <2> QED
    BY <2>1, <2>2 DEF AllSane
<1> QED
    BY <1>1, <1>2, <1>3, AppendFacts DEF AllSane

--------------------------------------------------------------------------------
(***************************************************************************)
(* The parts of a frame                                                    *)
(***************************************************************************)
LEMMA RoutedFacts ==
    ASSUME NEW p \in PageType
    PROVE  LET q == Routed(p)
           IN  /\ q \in PageType /\ q.view = p.view
               /\ p.busy \subseteq q.busy /\ q.busy \subseteq p.busy \cup {"runtime"}
               /\ q.view # None /\ q.view.server = Stopped /\ q.view.pool = "enabled"
                    => q.routes = None /\ q.metrics = None /\ q.diagnostics = None
<1>1. CASE p.view = None
    BY <1>1 DEF Routed
<1>2. CASE p.view # None /\ p.view.pool = "off"
    BY <1>2 DEF Routed, PageType
<1>3. CASE p.view # None /\ p.view.pool # "off" /\ p.view.server = Stopped
    BY <1>3 DEF Routed, PageType
<1>4. CASE p.view # None /\ p.view.pool # "off" /\ p.view.server # Stopped
  <2>1. Routed(p) = RefreshIfDue(p)
    BY <1>4 DEF Routed
  <2>2. LET q == RefreshIfDue(p)
        IN  /\ q \in PageType /\ q.view = p.view
            /\ p.busy \subseteq q.busy /\ q.busy \subseteq p.busy \cup {"runtime"}
    BY FlagsDiffer DEF RefreshIfDue, PageType
  <2> QED
    BY <1>4, <2>1, <2>2
<1> QED
    BY <1>1, <1>2, <1>3, <1>4

LEMMA ButtonFacts ==
    ASSUME NEW p \in PageType, NEW t \in Buttons(p)
    PROVE  /\ t \in TaskType /\ Sane(t) /\ t.stage # "send"
           /\ t.flag \in Singles \cup {"health"} /\ t.flag \notin p.busy
<1>0. {"server", "refresh", "action"} \cup Clients \subseteq Singles
    BY FlagsDiffer DEF Singles, Looks
<1>1. PICK f, d : /\ f \in (Singles \cup {"health"}) \ p.busy /\ d \in Deeds
                  /\ t = Task(f, d)
  <2>1. CASE t \in ServerButtons(p)
    <3>1. \/ /\ "server" \notin p.busy
             /\ t = Task("server", "start") \/ t = Task("server", "stop")
          \/ "health" \notin p.busy /\ t = Task("health", "look")
      BY <2>1 DEF ServerButtons
    <3> QED
      BY <1>0, <3>1 DEF Deeds
  <2>2. CASE t \in ReversibleButtons(p)
    <3>1. PICK c \in Reversible \ p.busy : t = Task(c, "activate") \/ t = Task(c, "deactivate")
      BY <2>2 DEF ReversibleButtons
    <3>2. c \in (Singles \cup {"health"}) \ p.busy
      BY <1>0, FlagsDiffer
    <3> QED
      BY <3>1, <3>2 DEF Deeds
  <2>3. CASE t \in AdditiveButtons(p)
    <3>1. PICK c \in Additive \ p.busy : t = Task(c, "add") \/ t = Task(c, "remove")
      BY <2>3 DEF AdditiveButtons
    <3>2. c \in (Singles \cup {"health"}) \ p.busy
      BY <1>0, FlagsDiffer
    <3> QED
      BY <3>1, <3>2 DEF Deeds
  <2>4. CASE t \in RouteButtons(p)
    <3>1. "action" \notin p.busy /\ t = Task("action", "post")
      BY <2>4 DEF RouteButtons
    <3> QED
      BY <1>0, <3>1 DEF Deeds
  <2>5. CASE t = Task("refresh", "look and check") /\ "refresh" \notin p.busy
    BY <1>0, <2>5 DEF Deeds
  <2>6. \/ "refresh" \notin p.busy /\ t = Task("refresh", "look and check")
        \/ t \in ServerButtons(p) \/ t \in RouteButtons(p)
        \/ t \in ReversibleButtons(p) \/ t \in AdditiveButtons(p)
    BY DEF Buttons
  <2> QED
    BY <2>1, <2>2, <2>3, <2>4, <2>5, <2>6
<1>2. f \in Flags
    BY <1>1, FlagsDiffer DEF Singles
<1> QED
    BY <1>1, <1>2, TaskFacts

\* The answers that are taken leave the channel and clear their flags.
LEMMA PolledFits ==
    ASSUME TypeOK
    PROVE  /\ FlagInv => FlagsFit(tasks, <<>>, Polled)
           /\ CalmFits(tasks, answers, page, world) => CalmFits(tasks, <<>>, Polled, world)
<1>1. PICK p : p = Polled
    OBVIOUS
<1>2. /\ p \in PageType
      /\ p.busy \subseteq page.busy
      /\ \A f \in Singles : f \in page.busy /\ (\A i \in DOMAIN answers : answers[i].flag # f)
                            => f \in p.busy
      /\ \A i \in DOMAIN answers : answers[i].flag \notin p.busy
      /\ \A w : (\A i \in DOMAIN answers : answers[i].flag \in Looks => answers[i].saw = w)
               => p.view = IF \E i \in DOMAIN answers : answers[i].flag \in Looks
                           THEN w ELSE page.view
    BY <1>1, PolledFacts
<1>3. \A F : ~ In(<<>>, F) /\ Once(<<>>, F)
    BY DEF In, Once
<1>4. ASSUME FlagInv
      PROVE  FlagsFit(tasks, <<>>, p)
  <2>1. ASSUME NEW f \in Singles
        PROVE  Sole(f, tasks, <<>>, p)
    <3>1. Sole(f, tasks, answers, page)
      BY <1>4 DEF FlagInv, FlagsFit
    <3>2. f \in p.busy <=> f \in page.busy /\ ~ In(answers, {f})
      BY <1>2 DEF In
    <3> QED
      BY <1>3, <3>1, <3>2 DEF Sole
  <2>2. ASSUME NEW f \in {"health", "runtime"} \cap p.busy
        PROVE  In(tasks, {f})
    <3>1. f \in page.busy /\ ~ In(answers, {f})
      BY <1>2 DEF In
    <3> QED
      BY <1>4, <3>1 DEF FlagInv, FlagsFit
  <2> QED
    BY <2>1, <2>2 DEF FlagsFit
<1>5. ASSUME CalmFits(tasks, answers, page, world)
      PROVE  CalmFits(tasks, <<>>, p, world)
  <2>1. p.view = IF In(answers, Looks) THEN world ELSE page.view
    BY <1>2, <1>5 DEF CalmFits, In
  <2> QED
    BY <1>3, <1>5, <2>1 DEF CalmFits
<1> QED
    BY <1>1, <1>4, <1>5

\* A task that begins: a button has been pressed.
LEMMA PressedFits ==
    ASSUME NEW s, AllSane(s), NEW p \in PageType, FlagsFit(s, <<>>, p), NEW t \in Buttons(p)
    PROVE  LET q == Pressed(p, t)
           IN  /\ q \in PageType /\ q.view = p.view
               /\ FlagsFit(Append(s, t), <<>>, q)
               /\ \A w : CalmFits(s, <<>>, p, w) /\ t.flag \notin Looks
                         => CalmFits(Append(s, t), <<>>, q, w)
               /\ \A w : t.flag \in Looks /\ ~ In(s, Looks) => CalmFits(Append(s, t), <<>>, q, w)
<1> DEFINE q == Pressed(p, t)
<1>1. /\ t \in TaskType /\ Sane(t) /\ t.stage # "send"
      /\ t.flag \in Singles \cup {"health"} /\ t.flag \notin p.busy
    BY ButtonFacts
<1>2. q \in PageType /\ q.view = p.view /\ q.busy = p.busy \cup {t.flag}
    BY <1>1, FlagsDiffer DEF Pressed, PageType, TaskType
<1> HIDE DEF q
<1>3. PICK r : r = Append(s, t)
    OBVIOUS
<1>4. /\ s \in Seq(TaskType)
      /\ \A F : In(r, F) <=> In(s, F) \/ t.flag \in F
      /\ \A F : Once(s, F) /\ ~ (In(s, F) /\ t.flag \in F) => Once(r, F)
    BY <1>1, <1>3, InAppend, Zenon DEF AllSane
<1>5. \A F : ~ In(<<>>, F) /\ Once(<<>>, F)
    BY DEF In, Once
<1>6. FlagsFit(r, <<>>, q)
  <2>1. ASSUME NEW f \in Singles
        PROVE  Sole(f, r, <<>>, q)
    BY <1>2, <1>4, <1>5, <1>1 DEF FlagsFit, Sole
  <2>2. ASSUME NEW f \in {"health", "runtime"} \cap q.busy
        PROVE  In(r, {f})
    BY <1>2, <1>4, <1>5 DEF FlagsFit
  <2> QED
    BY <2>1, <2>2 DEF FlagsFit
<1>7. \A i \in DOMAIN r : r[i].stage = "send" => i \in DOMAIN s /\ r[i] = s[i]
    BY <1>1, <1>3, <1>4, AppendFacts
<1>8. ASSUME NEW w, CalmFits(s, <<>>, p, w), t.flag \notin Looks
      PROVE  CalmFits(r, <<>>, q, w)
    BY <1>2, <1>4, <1>5, <1>7, <1>8 DEF CalmFits
<1>9. ASSUME NEW w, t.flag \in Looks, ~ In(s, Looks)
      PROVE  CalmFits(r, <<>>, q, w)
  <2>1. Once(s, Looks)
    BY <1>9 DEF In, Once
  <2>2. \A i \in DOMAIN r : ~ (r[i].flag \in Looks /\ r[i].stage = "send")
    BY <1>7, <1>9 DEF In
  <2> QED
    BY <1>4, <1>5, <1>9, <2>1, <2>2 DEF CalmFits
<1> QED
    BY <1>2, <1>3, <1>6, <1>8, <1>9 DEF q

\* The routes are fetched again: a fetch begins, or nothing does.
LEMMA RoutedFits ==
    ASSUME NEW s, AllSane(s), NEW p \in PageType, FlagsFit(s, <<>>, p)
    PROVE  LET q == Routed(p)
               r == s \o Begun(p, q)
           IN  /\ AllSane(r)
               /\ FlagsFit(r, <<>>, q)
               /\ \A w : CalmFits(s, <<>>, p, w) => CalmFits(r, <<>>, q, w)
<1> DEFINE t == Task("runtime", "look")
<1>1. PICK q : q = Routed(p)
    OBVIOUS
<1>2. /\ q \in PageType /\ q.view = p.view
      /\ p.busy \subseteq q.busy /\ q.busy \subseteq p.busy \cup {"runtime"}
    BY <1>1, RoutedFacts
<1>3. /\ t \in TaskType /\ Sane(t) /\ t.flag = "runtime" /\ t.stage # "send"
      /\ "runtime" \notin Singles
  <2>1. "runtime" \in Flags /\ "look" \in Deeds /\ "runtime" \notin Singles
    BY FlagsDiffer DEF Singles, Looks, Deeds
  <2> QED
    BY <2>1, TaskFacts
<1> HIDE DEF t
<1>4. PICK r : r = s \o Begun(p, q)
    OBVIOUS
<1>5. s \in Seq(TaskType) /\ s \o <<>> = s
    BY DEF AllSane
<1>6. CASE "runtime" \notin q.busy \ p.busy
  <2>1. r = s /\ q.busy = p.busy
    BY <1>2, <1>4, <1>5, <1>6 DEF Begun
  <2>2. FlagsFit(s, <<>>, q)
    BY <2>1 DEF FlagsFit, Sole
  <2>3. ASSUME NEW w, CalmFits(s, <<>>, p, w)
        PROVE  CalmFits(s, <<>>, q, w)
    BY <1>2, <2>3 DEF CalmFits
  <2> QED
    BY <1>1, <1>4, <2>1, <2>2, <2>3
<1>7. CASE "runtime" \in q.busy \ p.busy
  <2>1. r = Append(s, t) /\ AllSane(r)
    BY <1>3, <1>4, <1>7, AppendSane DEF Begun, t
  <2>2. /\ \A F : In(r, F) <=> In(s, F) \/ "runtime" \in F
        /\ \A F : Once(s, F) /\ "runtime" \notin F => Once(r, F)
    <3>1. \A F : /\ In(Append(s, t), F) <=> In(s, F) \/ t.flag \in F
                 /\ Once(s, F) /\ ~ (In(s, F) /\ t.flag \in F) => Once(Append(s, t), F)
      BY <1>3, <1>5, InAppend
    <3> QED
      BY <1>3, <2>1, <3>1
  <2>3. \A F : ~ In(<<>>, F) /\ Once(<<>>, F)
    BY DEF In, Once
  <2>4. FlagsFit(r, <<>>, q)
    <3>1. ASSUME NEW f \in Singles
          PROVE  Sole(f, r, <<>>, q)
      <4>1. f # "runtime"
        BY <1>3
      <4>2. Sole(f, s, <<>>, p) /\ (f \in q.busy <=> f \in p.busy)
        BY <1>2, <4>1 DEF FlagsFit
      <4> QED
        BY <2>2, <2>3, <4>1, <4>2 DEF Sole
    <3>2. ASSUME NEW f \in {"health", "runtime"} \cap q.busy
          PROVE  In(r, {f})
      BY <1>2, <2>2, <2>3 DEF FlagsFit
    <3> QED
      BY <3>1, <3>2 DEF FlagsFit
  <2>5. \A i \in DOMAIN r : r[i].stage = "send" => i \in DOMAIN s /\ r[i] = s[i]
    BY <1>3, <1>5, <2>1, AppendFacts
  <2>6. ASSUME NEW w, CalmFits(s, <<>>, p, w)
        PROVE  CalmFits(r, <<>>, q, w)
    <3>1. "runtime" \notin Looks
      BY <1>3 DEF Singles
    <3> QED
      BY <1>2, <2>2, <2>3, <2>5, <2>6, <3>1 DEF CalmFits
  <2> QED
    BY <1>1, <1>4, <2>1, <2>4, <2>6
<1> QED
    BY <1>6, <1>7

--------------------------------------------------------------------------------
(***************************************************************************)
(* The steps of the threads                                                *)
(***************************************************************************)
LEMMA DoneFacts ==
    ASSUME TypeOK, NEW t \in TaskType, NEW w \in Done(t)
    PROVE  w \in Worlds
<1>1. ASSUME NEW c \in Clients, NEW how \in {"out", "current"}
      PROVE  [world EXCEPT !.client[c] = how] \in Worlds
    BY DEF TypeOK, Worlds
<1>2. ASSUME NEW s \in 0..MaxSessions
      PROVE  [world EXCEPT !.server = s] \in Worlds
    BY DEF TypeOK, Worlds
<1>3. world \in Worlds
    BY DEF TypeOK
<1>4. CASE t.flag \in Reversible
  <2>1. w = world \/ \E how \in {"out", "current"} : w = [world EXCEPT !.client[t.flag] = how]
    BY <1>4 DEF Done, ReversibleDone
  <2> QED
    BY <1>1, <1>3, <1>4, <2>1, FlagsDiffer, ZenonT(60)
<1>5. CASE t.flag \notin Reversible /\ t.flag \in Additive
  <2>1. w = world \/ \E how \in {"out", "current"} : w = [world EXCEPT !.client[t.flag] = how]
    BY <1>5 DEF Done, AdditiveDone
  <2> QED
    BY <1>1, <1>3, <1>5, <2>1, FlagsDiffer, ZenonT(60)
<1>6. CASE t.flag \notin Reversible /\ t.flag \notin Additive
  <2>1. \/ w = world
        \/ sessions < MaxSessions /\ w = [world EXCEPT !.server = sessions + 1]
        \/ w = [world EXCEPT !.server = Stopped]
    BY <1>6 DEF Done, ServerDone
  <2>2. Stopped \in 0..MaxSessions /\ (sessions < MaxSessions => sessions + 1 \in 0..MaxSessions)
    BY StatusPageAssumption DEF TypeOK, Stopped
  <2> QED
    BY <1>2, <1>3, <2>1, <2>2
<1> QED
    BY <1>4, <1>5, <1>6

LEMMA ActKeeps ==
    ASSUME IInv, NEW i \in DOMAIN tasks, Act(i)
    PROVE  IInv'
<1> DEFINE t == tasks[i]
<1>1. /\ tasks \in Seq(TaskType) /\ t \in TaskType /\ t.stage = "act" /\ t.flag \in Targets
    BY DEF IInv, TypeOK, Act, Sane
<1>2. /\ tasks' \in Seq(TaskType) /\ DOMAIN tasks' = DOMAIN tasks
      /\ \A j \in DOMAIN tasks : /\ tasks'[j].flag = tasks[j].flag
                                 /\ j # i => tasks'[j] = tasks[j]
      /\ tasks'[i].stage = "look"
  <2>1. PICK u : u = [t EXCEPT !.stage = "look"]
    OBVIOUS
  <2>2. tasks' = [tasks EXCEPT ![i] = u]
    BY <2>1 DEF Act
  <2>3. u \in TaskType /\ u.flag = t.flag /\ u.stage = "look"
    BY <1>1, <2>1 DEF TaskType
  <2> QED
    BY <1>1, <2>2, <2>3
<1>3. world' \in Worlds /\ sessions' \in 0..MaxSessions
  <2>1. world' \in Worlds
    BY <1>1, DoneFacts DEF IInv, Act
  <2> QED
    BY <2>1 DEF IInv, TypeOK, Act, Worlds
<1>4. TypeOK'
  <2>1. \A j \in DOMAIN tasks' : Sane(tasks'[j])
    BY <1>2 DEF IInv, TypeOK, Sane
  <2> QED
    BY <1>2, <1>3, <2>1 DEF IInv, TypeOK, Act
<1>5. \A F : (In(tasks', F) <=> In(tasks, F)) /\ (Once(tasks', F) <=> Once(tasks, F))
    BY <1>2, InStepped
<1>6. answers' = answers /\ page' = page /\ calm' = calm
    BY DEF Act
<1>7. FlagInv'
    BY <1>5, <1>6, Zenon DEF IInv, FlagInv, FlagsFit, Sole
<1>8. ASSUME calm
      PROVE  CalmFits(tasks', answers, page, world')
  <2>1. CalmFits(tasks, answers, page, world)
    BY <1>8 DEF IInv, CalmInv
  <2>2. i \in DOMAIN tasks /\ tasks[i].flag \in Looks
    BY <1>1 DEF Looks
  <2>3. In(tasks, Looks) /\ ~ In(answers, Looks)
    BY <2>1, <2>2 DEF CalmFits, In
  <2>4. \A j \in DOMAIN tasks : tasks[j].flag \in Looks => j = i
    BY <2>1, <2>2 DEF CalmFits, Once
  <2>5. \A j \in DOMAIN tasks' : ~ (tasks'[j].flag \in Looks /\ tasks'[j].stage = "send")
    BY <1>2, <2>4
  <2>6. \A j \in DOMAIN answers : answers[j].flag \notin Looks
    BY <2>3 DEF In
  <2> QED
    BY <1>5, <2>1, <2>3, <2>5, <2>6 DEF CalmFits
<1> QED
    BY <1>4, <1>6, <1>7, <1>8 DEF IInv, CalmInv, NothingOfTheStopped

LEMMA LookKeeps ==
    ASSUME IInv, NEW i \in DOMAIN tasks, Look(i)
    PROVE  IInv'
<1> DEFINE t == tasks[i]
           saw == CASE t.flag = "health" -> None
                    [] t.flag \in {"runtime", "action"} -> Fetched
                    [] OTHER -> Looked
           u == [t EXCEPT !.stage = "send", !.saw = saw,
                          !.health = t.does = "look and check" /\ world.server # Stopped]
<1>1. /\ tasks \in Seq(TaskType) /\ t \in TaskType /\ t.stage = "look"
      /\ world \in Worlds /\ world.server \in 0..MaxSessions
    BY DEF IInv, TypeOK, Look, Worlds
<1>2. /\ t.flag \in Looks => saw = world
      /\ t.flag \in {"runtime", "action"} => saw = world.server
      /\ saw \in Worlds \cup (0..MaxSessions) \cup {None}
    BY <1>1, FlagsDiffer DEF Fetched, Looked, Looks
<1>3. tasks' = [tasks EXCEPT ![i] = u]
    BY DEF Look
<1>4. u \in TaskType /\ u.flag = t.flag /\ u.stage = "send" /\ u.saw = saw
  <2> HIDE DEF saw
  <2> QED
    BY <1>1, <1>2 DEF TaskType
<1> HIDE DEF u, saw
<1>5. /\ tasks' \in Seq(TaskType) /\ DOMAIN tasks' = DOMAIN tasks
      /\ \A j \in DOMAIN tasks : /\ tasks'[j].flag = tasks[j].flag
                                 /\ j # i => tasks'[j] = tasks[j]
      /\ tasks'[i] = u
    BY <1>1, <1>3, <1>4
<1>6. Sane(u)
    BY <1>1, <1>2, <1>4 DEF Sane
<1>7. UNCHANGED <<world, sessions, answers, page, shown, calm>>
    BY DEF Look
<1>8. TypeOK'
  <2>1. \A j \in DOMAIN tasks' : Sane(tasks'[j])
    BY <1>5, <1>6 DEF IInv, TypeOK
  <2> QED
    BY <1>5, <1>7, <2>1 DEF IInv, TypeOK
<1>9. \A F : (In(tasks', F) <=> In(tasks, F)) /\ (Once(tasks', F) <=> Once(tasks, F))
    BY <1>5, InStepped
<1>10. FlagInv'
    BY <1>7, <1>9, Zenon DEF IInv, FlagInv, FlagsFit, Sole
<1>11. ASSUME calm
       PROVE  CalmFits(tasks', answers, page, world)
  <2>1. CalmFits(tasks, answers, page, world)
    BY <1>11 DEF IInv, CalmInv
  <2>2. \A j \in DOMAIN tasks' :
          tasks'[j].flag \in Looks /\ tasks'[j].stage = "send" => tasks'[j].saw = world
    BY <1>2, <1>4, <1>5, <2>1 DEF CalmFits
  <2> QED
    BY <1>9, <2>1, <2>2 DEF CalmFits
<1> QED
    BY <1>7, <1>8, <1>10, <1>11 DEF IInv, CalmInv, NothingOfTheStopped

LEMMA SendKeeps ==
    ASSUME IInv, NEW i \in DOMAIN tasks, Send(i)
    PROVE  IInv'
<1> DEFINE t == tasks[i]
<1>1. /\ tasks \in Seq(TaskType) /\ answers \in Seq(TaskType)
      /\ t \in TaskType /\ Sane(t) /\ t.stage = "send"
    BY DEF IInv, TypeOK, Send
<1>2. tasks' = RemoveAt(tasks, i) /\ answers' = Append(answers, t)
    BY DEF Send
<1>3. UNCHANGED <<world, sessions, page, shown, calm>>
    BY DEF Send
<1>4. /\ tasks' \in Seq(TaskType)
      /\ \A j \in DOMAIN tasks' : \E k \in DOMAIN tasks : tasks'[j] = tasks[k]
  <2>1. PICK q : q = RemoveAt(tasks, i)
    OBVIOUS
  <2>2. q \in Seq(TaskType) /\ \A j \in DOMAIN q : \E k \in DOMAIN tasks : q[j] = tasks[k]
    BY <1>1, <2>1, RemoveFacts
  <2> QED
    BY <1>2, <2>1, <2>2
<1>5. /\ answers' \in Seq(TaskType)
      /\ \A j \in DOMAIN answers' : answers'[j] = t \/ (j \in DOMAIN answers /\ answers'[j] = answers[j])
  <2>1. PICK q : q = Append(answers, t)
    OBVIOUS
  <2>2. /\ q \in Seq(TaskType)
        /\ DOMAIN q = DOMAIN answers \cup {Len(answers) + 1}
        /\ \A j \in DOMAIN answers : q[j] = answers[j]
        /\ q[Len(answers) + 1] = t
    BY <1>1, <2>1, AppendFacts
  <2> QED
    BY <1>2, <2>1, <2>2
<1>6. \A F : /\ In(tasks', F) => In(tasks, F)
             /\ t.flag \notin F => (In(tasks, F) => In(tasks', F))
             /\ Once(tasks, F) => Once(tasks', F)
             /\ Once(tasks, F) /\ t.flag \in F => ~ In(tasks', F)
    BY <1>1, <1>2, InRemove
<1>7. \A F : /\ In(answers', F) <=> In(answers, F) \/ t.flag \in F
             /\ Once(answers, F) /\ ~ (In(answers, F) /\ t.flag \in F) => Once(answers', F)
    BY <1>1, <1>2, InAppend
<1>8. \A F : t.flag \in F => In(tasks, F)
    BY DEF In
<1> HIDE DEF t
<1>9. TypeOK'
  <2>1. \A j \in DOMAIN tasks' : Sane(tasks'[j])
    BY <1>4 DEF IInv, TypeOK
  <2>2. \A j \in DOMAIN answers' : Sane(answers'[j]) /\ answers'[j].stage = "send"
    BY <1>1, <1>5 DEF IInv, TypeOK
  <2> QED
    BY <1>3, <1>4, <1>5, <2>1, <2>2 DEF IInv, TypeOK
<1>10. FlagInv'
  <2>1. FlagsFit(tasks, answers, page)
    BY DEF IInv, FlagInv
  <2>2. ASSUME NEW f \in Singles
        PROVE  Sole(f, tasks', answers', page)
    <3>1. Sole(f, tasks, answers, page)
      BY <2>1 DEF FlagsFit
    <3> QED
      BY <1>6, <1>7, <1>8, <3>1 DEF Sole
  <2>3. ASSUME NEW f \in {"health", "runtime"} \cap page.busy
        PROVE  In(tasks', {f}) \/ In(answers', {f})
    BY <1>6, <1>7, <2>1 DEF FlagsFit
  <2> QED
    BY <1>3, <2>2, <2>3 DEF FlagInv, FlagsFit
<1>11. ASSUME calm
       PROVE  CalmFits(tasks', answers', page, world)
  <2>1. CalmFits(tasks, answers, page, world)
    BY <1>11 DEF IInv, CalmInv
  <2>2. /\ Once(tasks', Looks) /\ Once(answers', Looks)
        /\ ~ (In(tasks', Looks) /\ In(answers', Looks))
    BY <1>6, <1>7, <1>8, <2>1 DEF CalmFits
  <2>3. \A j \in DOMAIN tasks' :
          tasks'[j].flag \in Looks /\ tasks'[j].stage = "send" => tasks'[j].saw = world
    BY <1>4, <2>1 DEF CalmFits
  <2>4. \A j \in DOMAIN answers' : answers'[j].flag \in Looks => answers'[j].saw = world
    BY <1>1, <1>5, <2>1 DEF CalmFits, t
  <2>5. ~ In(tasks', Looks) /\ ~ In(answers', Looks) => page.view = world
    BY <1>6, <1>7, <1>8, <2>1 DEF CalmFits
  <2> QED
    BY <2>2, <2>3, <2>4, <2>5 DEF CalmFits
<1> QED
    BY <1>3, <1>9, <1>10, <1>11 DEF IInv, CalmInv, NothingOfTheStopped

--------------------------------------------------------------------------------
(***************************************************************************)
(* The steps of the window, and of everybody else                          *)
(***************************************************************************)
\* A frame from the page p and the tasks s: the routes are refreshed, a fetch begins.
LEMMA FrameFits ==
    ASSUME IInv, NEW s, AllSane(s), NEW p \in PageType, FlagsFit(s, <<>>, p),
           page' = Routed(p), tasks' = s \o Begun(p, page'), answers' = <<>>,
           UNCHANGED <<world, sessions>>, shown' \in BOOLEAN, calm' \in BOOLEAN,
           calm' => CalmFits(s, <<>>, p, world)
    PROVE  IInv'
<1>1. PICK r : r = s \o Begun(p, Routed(p))
    OBVIOUS
<1>2. PICK q : q = Routed(p)
    OBVIOUS
<1>3. tasks' = r /\ page' = q
    BY <1>1, <1>2
<1>4. /\ AllSane(r) /\ FlagsFit(r, <<>>, q)
      /\ \A w : CalmFits(s, <<>>, p, w) => CalmFits(r, <<>>, q, w)
    BY <1>1, <1>2, RoutedFits
<1>5. /\ q \in PageType
      /\ q.view # None /\ q.view.server = Stopped /\ q.view.pool = "enabled"
           => q.routes = None /\ q.metrics = None /\ q.diagnostics = None
    BY <1>2, RoutedFacts
<1>6. TypeOK'
  <2>1. /\ <<>> \in Seq(TaskType) /\ DOMAIN <<>> = {}
        /\ r \in Seq(TaskType) /\ \A i \in DOMAIN r : Sane(r[i])
    BY <1>4 DEF AllSane
  <2> QED
    BY <1>3, <1>5, <2>1 DEF IInv, TypeOK
<1>7. FlagInv'
    BY <1>3, <1>4 DEF FlagInv
<1>8. CalmInv'
    BY <1>3, <1>4 DEF CalmInv
<1>9. NothingOfTheStopped'
    BY <1>3, <1>5 DEF NothingOfTheStopped
<1> QED
    BY <1>6, <1>7, <1>8, <1>9 DEF IInv

LEMMA DrawnKeeps ==
    ASSUME IInv, Drawn, shown' \in BOOLEAN, UNCHANGED <<world, sessions, calm>>
    PROVE  IInv'
<1>1. AllSane(tasks) /\ Polled \in PageType
    BY PolledFacts DEF IInv, TypeOK, AllSane
<1>2. FlagsFit(tasks, <<>>, Polled)
    BY PolledFits DEF IInv
<1>3. calm' \in BOOLEAN /\ (calm' => CalmFits(tasks, <<>>, Polled, world))
    BY PolledFits DEF IInv, TypeOK, CalmInv
<1>4. page' = Routed(Polled) /\ tasks' = tasks \o Begun(Polled, page') /\ answers' = <<>>
    BY DEF Drawn
<1> QED
    BY <1>1, <1>2, <1>3, <1>4, FrameFits

LEMMA ClickKeeps ==
    ASSUME IInv, Click
    PROVE  IInv'
<1>1. PICK t \in Buttons(Polled) :
         /\ page' = Routed(Pressed(Polled, t))
         /\ tasks' = tasks \o <<t>> \o Begun(Pressed(Polled, t), page')
         /\ calm' = IF t.flag \in Looks
                    THEN ~ \E u \in ToSet(tasks) : u.flag \in Looks
                    ELSE calm
    BY DEF Click, Looks
<1>2. UNCHANGED <<world, sessions, shown>> /\ answers' = <<>>
    BY DEF Click
<1>3. AllSane(tasks) /\ Polled \in PageType /\ FlagsFit(tasks, <<>>, Polled)
    BY PolledFacts, PolledFits DEF IInv, TypeOK, AllSane
<1>4. PICK p : p = Pressed(Polled, t)
    OBVIOUS
<1>5. PICK s : s = Append(tasks, t)
    OBVIOUS
<1>6. t \in TaskType /\ Sane(t)
    BY <1>3, ButtonFacts
<1>7. AllSane(s) /\ s = tasks \o <<t>>
    BY <1>3, <1>5, <1>6, AppendSane
<1>8. /\ p \in PageType /\ FlagsFit(s, <<>>, p)
      /\ \A w : CalmFits(tasks, <<>>, Polled, w) /\ t.flag \notin Looks
                => CalmFits(s, <<>>, p, w)
      /\ \A w : t.flag \in Looks /\ ~ In(tasks, Looks) => CalmFits(s, <<>>, p, w)
    BY <1>3, <1>4, <1>5, PressedFits
<1>9. (\E u \in ToSet(tasks) : u.flag \in Looks) <=> In(tasks, Looks)
    BY DEF ToSet, In
<1>10. ASSUME calm'
       PROVE  CalmFits(s, <<>>, p, world)
  <2>1. CASE t.flag \in Looks
    BY <1>1, <1>8, <1>9, <1>10, <2>1
  <2>2. CASE t.flag \notin Looks
    <3>1. calm
      BY <1>1, <1>10, <2>2
    <3>2. CalmFits(tasks, <<>>, Polled, world)
      BY <3>1, PolledFits DEF IInv, CalmInv
    <3> QED
      BY <1>8, <2>2, <3>2
  <2> QED
    BY <2>1, <2>2
<1>11. calm' \in BOOLEAN /\ shown' \in BOOLEAN
    BY <1>1, <1>2 DEF IInv, TypeOK
<1>12. page' = Routed(p) /\ tasks' = s \o Begun(p, page')
    BY <1>1, <1>4, <1>7
<1> QED
    BY <1>2, <1>7, <1>8, <1>10, <1>11, <1>12, FrameFits

LEMMA TickKeeps ==
    ASSUME IInv, Tick
    PROVE  IInv'
<1>1. /\ page' \in PageType /\ page'.view = page.view /\ page'.busy = page.busy
      /\ page'.routes = page.routes /\ page'.metrics = page.metrics
      /\ page'.diagnostics = page.diagnostics
    BY DEF IInv, TypeOK, Tick, PageType
<1>2. UNCHANGED <<world, sessions, tasks, answers, shown, calm>>
    BY DEF Tick
<1>3. TypeOK'
    BY <1>1, <1>2 DEF IInv, TypeOK
<1>4. FlagInv'
    BY <1>1, <1>2 DEF IInv, FlagInv, FlagsFit, Sole
<1>5. CalmInv'
    BY <1>1, <1>2 DEF IInv, CalmInv, CalmFits
<1> QED
    BY <1>1, <1>2, <1>3, <1>4, <1>5 DEF IInv, NothingOfTheStopped

LEMMA ElsewhereKeeps ==
    ASSUME IInv, NEW w \in Worlds, Elsewhere(w)
    PROVE  IInv'
<1>1. TypeOK'
    BY DEF IInv, TypeOK, Elsewhere, Worlds
<1>2. UNCHANGED <<tasks, answers, page>> /\ calm' = FALSE
    BY DEF Elsewhere
<1> QED
    BY <1>1, <1>2 DEF IInv, FlagInv, CalmInv, NothingOfTheStopped

LEMMA OthersKeep ==
    ASSUME IInv, TrayMenu \/ Others
    PROVE  IInv'
<1>1. world \in Worlds /\ Stopped \in 0..MaxSessions
    BY StatusPageAssumption DEF IInv, TypeOK, Stopped
<1>2. \A s \in 0..MaxSessions : [world EXCEPT !.server = s] \in Worlds
    BY <1>1 DEF Worlds
<1>3. \A c \in Clients, how \in {"out", "drifted", "current"} :
         [world EXCEPT !.client[c] = how] \in Worlds
    BY <1>1 DEF Worlds
<1>4. \A setting \in {"enabled", "off"} : [world EXCEPT !.pool = setting] \in Worlds
    BY <1>1 DEF Worlds
<1>5. PICK w \in Worlds : Elsewhere(w)
    BY <1>1, <1>2, <1>3, <1>4, FlagsDiffer DEF TrayMenu, Others
<1> QED
    BY <1>5, ElsewhereKeeps

--------------------------------------------------------------------------------
(***************************************************************************)
(* The theorems                                                            *)
(***************************************************************************)
LEMMA InitIInv == Init => IInv
<1> SUFFICES ASSUME Init PROVE IInv
    OBVIOUS
<1> DEFINE r == Task("refresh", "look")
           l == Task("server", "launch")
<1>1. /\ r \in TaskType /\ Sane(r) /\ r.flag = "refresh" /\ r.stage # "send"
      /\ l \in TaskType /\ Sane(l) /\ l.flag = "server" /\ l.stage # "send"
  <2>1. {"refresh", "server"} \subseteq Flags /\ {"look", "launch"} \subseteq Deeds
    BY FlagsDiffer DEF Deeds
  <2> QED
    BY <2>1, TaskFacts
<1>2. tasks = <<r, l>> /\ answers = <<>> /\ page.busy = {"refresh", "server"}
    BY DEF Init
<1> HIDE DEF r, l
<1>3. TypeOK
  <2>1. world \in Worlds /\ sessions \in 0..MaxSessions
    BY StatusPageAssumption DEF Init, Worlds, Stopped
  <2>2. page \in PageType
    BY FlagsDiffer DEF Init, PageType
  <2>3. tasks \in Seq(TaskType) /\ \A i \in DOMAIN tasks : Sane(tasks[i])
    BY <1>1, <1>2
  <2>4. answers \in Seq(TaskType) /\ DOMAIN answers = {}
    BY <1>2
  <2>5. shown \in BOOLEAN /\ calm \in BOOLEAN
    BY DEF Init
  <2> QED
    BY <2>1, <2>2, <2>3, <2>4, <2>5 DEF TypeOK
<1>4. FlagInv
  <2>1. \A F : /\ In(tasks, F) <=> "refresh" \in F \/ "server" \in F
               /\ ~ In(answers, F) /\ Once(answers, F)
    BY <1>1, <1>2 DEF In, Once
  <2>2. \A f : Once(tasks, {f})
    BY <1>1, <1>2 DEF Once
  <2>3. "health" \notin page.busy /\ "runtime" \notin page.busy
    BY <1>2
  <2> QED
    BY <1>2, <2>1, <2>2, <2>3 DEF FlagInv, FlagsFit, Sole
<1>5. calm = FALSE /\ page.view = None
    BY DEF Init
<1> QED
    BY <1>3, <1>4, <1>5 DEF IInv, CalmInv, NothingOfTheStopped

LEMMA NextIInv == IInv /\ [Next]_vars => IInv'
<1> SUFFICES ASSUME IInv, [Next]_vars PROVE IInv'
    OBVIOUS
<1>1. ASSUME NEW i \in DOMAIN tasks, Act(i) \/ Look(i) \/ Send(i) PROVE IInv'
    BY <1>1, ActKeeps, LookKeeps, SendKeeps
<1>2. CASE Frame
    BY <1>2, DrawnKeeps DEF Frame, IInv, TypeOK
<1>3. CASE Click
    BY <1>3, ClickKeeps
<1>4. CASE Tick
    BY <1>4, TickKeeps
<1>5. CASE Leave
    BY <1>5 DEF Leave, IInv, TypeOK, FlagInv, CalmInv, NothingOfTheStopped
<1>6. CASE Return
    BY <1>6, DrawnKeeps DEF Return
<1>7. CASE TrayMenu \/ Others
    BY <1>7, OthersKeep
<1>8. CASE UNCHANGED vars
    BY <1>8 DEF vars, IInv, TypeOK, FlagInv, CalmInv, NothingOfTheStopped
<1> QED
    BY <1>1, <1>2, <1>3, <1>4, <1>5, <1>6, <1>7, <1>8 DEF Next

LEMMA Invariance == Spec => []IInv
    BY InitIInv, NextIInv, PTL DEF Spec

LEMMA FlagsTell == IInv => OneOfEach
<1> SUFFICES ASSUME IInv PROVE OneOfEach
    OBVIOUS
<1> DEFINE threads(f) == {i \in DOMAIN tasks : tasks[i].flag = f}
           waiting(f) == {i \in DOMAIN answers : answers[i].flag = f}
<1>1. \A f : /\ In(tasks, {f}) <=> threads(f) # {}
             /\ In(answers, {f}) <=> waiting(f) # {}
    BY DEF In
<1>2. \A f : UnderWay(f) = {<<"thread", i>> : i \in threads(f)} \cup {<<"answer", i>> : i \in waiting(f)}
    BY DEF UnderWay
<1>3. ASSUME NEW f \in Singles, f \notin page.busy
      PROVE  UnderWay(f) = {}
  <2>1. threads(f) = {} /\ waiting(f) = {}
    BY <1>1, <1>3 DEF IInv, FlagInv, FlagsFit, Sole
  <2> QED
    BY <1>2, <2>1
<1>4. ASSUME NEW f \in Singles, f \in page.busy
      PROVE  \E one \in UnderWay(f) : UnderWay(f) = {one}
  <2>1. Sole(f, tasks, answers, page)
    BY DEF IInv, FlagInv, FlagsFit
  <2>2. CASE In(tasks, {f})
    <3>1. PICK i \in threads(f) : threads(f) = {i}
      BY <1>1, <2>1, <2>2 DEF Sole, Once
    <3>2. waiting(f) = {}
      BY <1>1, <2>1, <2>2 DEF Sole
    <3>3. UnderWay(f) = {<<"thread", i>>}
      BY <1>2, <3>1, <3>2
    <3> QED
      BY <3>3
  <2>3. CASE In(answers, {f})
    <3>1. PICK i \in waiting(f) : waiting(f) = {i}
      BY <1>1, <2>1, <2>3 DEF Sole, Once
    <3>2. threads(f) = {}
      BY <1>1, <2>1, <2>3 DEF Sole
    <3>3. UnderWay(f) = {<<"answer", i>>}
      BY <1>2, <3>1, <3>2
    <3> QED
      BY <3>3
  <2> QED
    BY <1>4, <2>1, <2>2, <2>3 DEF Sole
<1>5. ASSUME NEW f \in {"health", "runtime"} \cap page.busy
      PROVE  UnderWay(f) # {}
  <2>1. threads(f) # {} \/ waiting(f) # {}
    BY <1>1 DEF IInv, FlagInv, FlagsFit
  <2> QED
    BY <1>2, <2>1
<1> HIDE DEF threads, waiting
<1> QED
    BY <1>3, <1>4, <1>5 DEF OneOfEach, Singles, Looks

\* A button is disabled exactly for as long as its one task is under way: as a thread,
\* or as an answer that no frame has taken yet (the flags of status_tab.rs, and the
\* threads that its buttons and launch_server_if_configured begin).
THEOREM ButtonsAreAccounted == Spec => []OneOfEach
    BY Invariance, FlagsTell, PTL

\* What a page shows after a refresh or an operation that ran alone, and that nobody
\* has interfered with since, is the world as it is: the snapshot is taken after the
\* operation, by the same thread, and no answer that was under way replaces it.
THEOREM TheCalmPageIsTrue == Spec => []CalmIsTrue
<1>1. IInv => CalmIsTrue
  <2> SUFFICES ASSUME IInv, calm, Looking = {} PROVE page.view = world
    BY DEF CalmIsTrue
  <2>1. ~ In(tasks, Looks) /\ ~ In(answers, Looks)
    BY DEF Looking, ToSet, In, Looks
  <2> QED
    BY <2>1 DEF IInv, CalmInv, CalmFits
<1> QED
    BY <1>1, Invariance, PTL

\* No route, ban or figure of a server that has stopped stays on the page that shows it
\* as stopped: show_routing drops them in the frame that takes the answer.
THEOREM NothingIsKept == Spec => []NothingOfTheStopped
<1>1. IInv => NothingOfTheStopped
    BY DEF IInv
<1> QED
    BY <1>1, Invariance, PTL

--------------------------------------------------------------------------------
(***************************************************************************)
(* Sorting: in a strict order of 1..n, every number has a place.           *)
(***************************************************************************)
RankIn(n, R, i) == 1 + Cardinality({j \in 1..n : <<j, i>> \in R})

StrictOrder(n, R) ==
    /\ \A i \in 1..n : <<i, i>> \notin R
    /\ \A i, j, l \in 1..n : <<i, j>> \in R /\ <<j, l>> \in R => <<i, l>> \in R
    /\ \A i, j \in 1..n : i = j \/ <<i, j>> \in R \/ <<j, i>> \in R

LEMMA Ranking ==
    ASSUME NEW n \in Nat, NEW R, StrictOrder(n, R)
    PROVE  /\ \A i \in 1..n : RankIn(n, R, i) \in 1..n
           /\ \A i, j \in 1..n : RankIn(n, R, i) < RankIn(n, R, j) <=> <<i, j>> \in R
           /\ \A i, j \in 1..n : RankIn(n, R, i) = RankIn(n, R, j) => i = j
           /\ \A p \in 1..n : \E i \in 1..n : RankIn(n, R, i) = p
<1> DEFINE Pred(i) == {j \in 1..n : <<j, i>> \in R}
<1>1. IsFiniteSet(1..n) /\ Cardinality(1..n) = n
    BY FS_Interval
<1>2. \A i \in 1..n : IsFiniteSet(Pred(i))
  <2>1. \A i \in 1..n : Pred(i) \in SUBSET (1..n)
      OBVIOUS
  <2> HIDE DEF Pred
  <2> QED
      BY <1>1, <2>1, FS_Subset
<1>3. \A i \in 1..n : Cardinality(Pred(i)) \in 0..(n - 1)
  <2> SUFFICES ASSUME NEW i \in 1..n PROVE Cardinality(Pred(i)) \in 0..(n - 1)
      OBVIOUS
  <2>1. Pred(i) \in SUBSET ((1..n) \ {i})
      BY DEF StrictOrder
  <2>2. IsFiniteSet((1..n) \ {i}) /\ Cardinality((1..n) \ {i}) = n - 1
      BY <1>1, FS_RemoveElement
  <2>3. Cardinality(Pred(i)) \in Nat
      BY <1>2, FS_CardinalityType
  <2> HIDE DEF Pred
  <2>4. Cardinality(Pred(i)) <= n - 1
      BY <2>1, <2>2, FS_Subset
  <2> QED
      BY <2>3, <2>4
<1>4. \A i, j \in 1..n : <<i, j>> \in R => Cardinality(Pred(i)) < Cardinality(Pred(j))
  <2> SUFFICES ASSUME NEW i \in 1..n, NEW j \in 1..n, <<i, j>> \in R
               PROVE  Cardinality(Pred(i)) < Cardinality(Pred(j))
      OBVIOUS
  <2>1. Pred(i) \in SUBSET Pred(j) /\ i \in Pred(j) /\ i \notin Pred(i)
      BY DEF StrictOrder
  <2>2. /\ IsFiniteSet(Pred(j))
        /\ Cardinality(Pred(i)) \in 0..(n - 1) /\ Cardinality(Pred(j)) \in 0..(n - 1)
      BY <1>2, <1>3
  <2> HIDE DEF Pred
  <2>3. /\ Cardinality(Pred(i)) <= Cardinality(Pred(j))
        /\ Cardinality(Pred(j)) # Cardinality(Pred(i))
      BY <2>1, <2>2, FS_Subset
  <2> QED
      BY <2>2, <2>3
<1> DEFINE place(i) == RankIn(n, R, i)
<1>5. \A i \in 1..n : place(i) = 1 + Cardinality(Pred(i))
    BY DEF RankIn
<1> HIDE DEF Pred, place
<1>6. \A i \in 1..n : place(i) \in 1..n
  <2> SUFFICES ASSUME NEW i \in 1..n PROVE place(i) \in 1..n
      OBVIOUS
  <2>1. Cardinality(Pred(i)) \in 0..(n - 1) /\ place(i) = 1 + Cardinality(Pred(i))
      BY <1>3, <1>5
  <2> QED
      BY <2>1
<1>7. \A i, j \in 1..n : <<i, j>> \in R => place(i) < place(j)
  <2> SUFFICES ASSUME NEW i \in 1..n, NEW j \in 1..n, <<i, j>> \in R PROVE place(i) < place(j)
      OBVIOUS
  <2>1. /\ Cardinality(Pred(i)) \in 0..(n - 1) /\ place(i) = 1 + Cardinality(Pred(i))
        /\ Cardinality(Pred(j)) \in 0..(n - 1) /\ place(j) = 1 + Cardinality(Pred(j))
      BY <1>3, <1>5
  <2>2. Cardinality(Pred(i)) < Cardinality(Pred(j))
      BY <1>4
  <2> QED
      BY <2>1, <2>2
<1>8. \A i, j \in 1..n : place(i) < place(j) => <<i, j>> \in R
  <2> SUFFICES ASSUME NEW i \in 1..n, NEW j \in 1..n, place(i) < place(j) PROVE <<i, j>> \in R
      OBVIOUS
  <2>1. place(i) \in 1..n /\ place(j) \in 1..n
      BY <1>6
  <2>2. CASE <<j, i>> \in R
    <3>1. place(j) < place(i)
        BY <1>7, <2>2
    <3> QED
        BY <2>1, <3>1
  <2>3. CASE i = j
      BY <2>1, <2>3
  <2> QED
      BY <2>2, <2>3 DEF StrictOrder
<1>9. \A i, j \in 1..n : place(i) = place(j) => i = j
  <2> SUFFICES ASSUME NEW i \in 1..n, NEW j \in 1..n, place(i) = place(j), i # j PROVE FALSE
      OBVIOUS
  <2>1. place(i) \in 1..n /\ place(j) \in 1..n
      BY <1>6
  <2>2. place(i) < place(j) \/ place(j) < place(i)
      BY <1>7 DEF StrictOrder
  <2> QED
      BY <2>1, <2>2
<1>10. \A p \in 1..n : \E i \in 1..n : place(i) = p
  <2> DEFINE f == [i \in 1..n |-> place(i)]
  <2>1. f \in Injection(1..n, 1..n)
      BY <1>6, <1>9 DEF Injection, IsInjective
  <2>2. f \in Surjection(1..n, 1..n)
    <3> HIDE DEF f
    <3> QED
        BY <1>1, <2>1, FS_Injection
  <2>3. \A p \in 1..n : \E i \in 1..n : f[i] = p
    <3> HIDE DEF f
    <3> QED
        BY <2>2 DEF Surjection
  <2> QED
      BY <2>3
<1>11. \A i, j \in 1..n : place(i) < place(j) <=> <<i, j>> \in R
    BY <1>7, <1>8
<1> QED
    BY <1>6, <1>9, <1>10, <1>11 DEF place

--------------------------------------------------------------------------------
(***************************************************************************)
(* Candidates in order.  The order is total, so every candidate has its    *)
(* place; At is the candidate at a place.                                  *)
(***************************************************************************)
Follows(k, byName) == {s \in (1..Len(k)) \X (1..Len(k)) : Before(k, byName, s[1], s[2])}

LEMMA RouteOrder ==
    ASSUME NEW r \in Routes, NEW s \in Routes, NEW t \in Routes
    PROVE  /\ ~RouteBefore(r, r)
           /\ RouteBefore(r, s) /\ RouteBefore(s, t) => RouteBefore(r, t)
           /\ r = s \/ RouteBefore(r, s) \/ RouteBefore(s, r)
BY DesktopTabsAssumption DEF RouteBefore

LEMMA OfCandidates ==
    ASSUME NEW k \in Seq(CandidateType)
    PROVE  /\ DOMAIN k = 1..Len(k) /\ Len(k) \in Nat
           /\ \A i \in DOMAIN k : /\ i \in Nat /\ k[i] \in CandidateType
                                 /\ k[i].route \in Routes /\ k[i].priority \in Nat
<1>1. DOMAIN k = 1..Len(k) /\ Len(k) \in Nat /\ \A i \in DOMAIN k : i \in Nat /\ k[i] \in CandidateType
    OBVIOUS
<1> QED
    BY <1>1 DEF CandidateType

LEMMA CandidateOrder ==
    ASSUME NEW k \in Seq(CandidateType), NEW byName \in BOOLEAN
    PROVE  StrictOrder(Len(k), Follows(k, byName))
<1>1. \A i \in 1..Len(k) : k[i].route \in Routes /\ k[i].priority \in Nat
    BY OfCandidates
<1>2. \A i, j \in 1..Len(k) : <<i, j>> \in Follows(k, byName) <=> Before(k, byName, i, j)
    BY DEF Follows
<1>3. \A i \in 1..Len(k) : ~Before(k, byName, i, i)
    BY <1>1, RouteOrder DEF Before
<1>4. \A i, j \in 1..Len(k) : i = j \/ Before(k, byName, i, j) \/ Before(k, byName, j, i)
  <2> SUFFICES ASSUME NEW i \in 1..Len(k), NEW j \in 1..Len(k)
               PROVE  i = j \/ Before(k, byName, i, j) \/ Before(k, byName, j, i)
      OBVIOUS
  <2>1. \/ k[i].route = k[j].route \/ RouteBefore(k[i].route, k[j].route)
        \/ RouteBefore(k[j].route, k[i].route)
      BY <1>1, RouteOrder
  <2> QED
      BY <1>1, <2>1 DEF Before
<1>5. \A i, j, l \in 1..Len(k) :
         Before(k, byName, i, j) /\ Before(k, byName, j, l) => Before(k, byName, i, l)
  <2> SUFFICES ASSUME NEW i \in 1..Len(k), NEW j \in 1..Len(k), NEW l \in 1..Len(k),
                      Before(k, byName, i, j), Before(k, byName, j, l)
               PROVE  Before(k, byName, i, l)
      OBVIOUS
  <2>1. RouteBefore(k[i].route, k[j].route) /\ RouteBefore(k[j].route, k[l].route)
            => RouteBefore(k[i].route, k[l].route)
      BY <1>1, RouteOrder
  <2> QED
      BY <1>1, <2>1 DEF Before
<1> QED
    BY <1>2, <1>3, <1>4, <1>5 DEF StrictOrder

At(k, byName, p) == CHOOSE i \in DOMAIN k : Place(k, byName, i) = p

LEMMA Places ==
    ASSUME NEW k \in Seq(CandidateType), NEW byName \in BOOLEAN
    PROVE  /\ \A i \in DOMAIN k : Place(k, byName, i) \in DOMAIN k
           /\ \A i, j \in DOMAIN k : Place(k, byName, i) < Place(k, byName, j) <=> Before(k, byName, i, j)
           /\ \A i, j \in DOMAIN k : Place(k, byName, i) = Place(k, byName, j) => i = j
           /\ \A p \in DOMAIN k : /\ At(k, byName, p) \in DOMAIN k
                                 /\ Place(k, byName, At(k, byName, p)) = p
           /\ \A i \in DOMAIN k : At(k, byName, Place(k, byName, i)) = i
<1>1. DOMAIN k = 1..Len(k) /\ Len(k) \in Nat
    OBVIOUS
<1>2. \A i \in DOMAIN k : Place(k, byName, i) = RankIn(Len(k), Follows(k, byName), i)
  <2> SUFFICES ASSUME NEW i \in DOMAIN k
               PROVE  {j \in DOMAIN k : Before(k, byName, j, i)} =
                      {j \in 1..Len(k) : <<j, i>> \in Follows(k, byName)}
      BY DEF Place, RankIn
  <2> QED
      BY <1>1 DEF Follows
<1>3. \A i, j \in DOMAIN k : <<i, j>> \in Follows(k, byName) <=> Before(k, byName, i, j)
    BY <1>1 DEF Follows
<1>4. StrictOrder(Len(k), Follows(k, byName))
    BY CandidateOrder
<1>5. /\ \A i \in DOMAIN k : Place(k, byName, i) \in DOMAIN k
      /\ \A i, j \in DOMAIN k : Place(k, byName, i) < Place(k, byName, j) <=> Before(k, byName, i, j)
      /\ \A i, j \in DOMAIN k : Place(k, byName, i) = Place(k, byName, j) => i = j
      /\ \A p \in DOMAIN k : \E i \in DOMAIN k : Place(k, byName, i) = p
  <2> DEFINE n == Len(k)  R == Follows(k, byName)
  <2>1. /\ \A i \in 1..n : RankIn(n, R, i) \in 1..n
        /\ \A i, j \in 1..n : RankIn(n, R, i) < RankIn(n, R, j) <=> <<i, j>> \in R
        /\ \A i, j \in 1..n : RankIn(n, R, i) = RankIn(n, R, j) => i = j
        /\ \A p \in 1..n : \E i \in 1..n : RankIn(n, R, i) = p
    <3>1. n \in Nat /\ StrictOrder(n, R)
        BY <1>1, <1>4
    <3> HIDE DEF n, R
    <3> QED
        BY <3>1, Ranking
  <2> HIDE DEF n, R
  <2>2. n = Len(k) /\ R = Follows(k, byName)
      BY DEF n, R
  <2>3. DOMAIN k = 1..n /\ \A i \in 1..n : Place(k, byName, i) = RankIn(n, R, i)
      BY <1>1, <1>2, <2>2
  <2>4. \A i, j \in 1..n : <<i, j>> \in R <=> Before(k, byName, i, j)
      BY <1>1, <1>3, <2>2
  <2>5. /\ \A i \in 1..n : Place(k, byName, i) \in 1..n
        /\ \A i, j \in 1..n : Place(k, byName, i) < Place(k, byName, j) <=> Before(k, byName, i, j)
        /\ \A i, j \in 1..n : Place(k, byName, i) = Place(k, byName, j) => i = j
    <3> SUFFICES ASSUME NEW i \in 1..n, NEW j \in 1..n
                 PROVE  /\ Place(k, byName, i) \in 1..n
                        /\ Place(k, byName, i) < Place(k, byName, j) <=> Before(k, byName, i, j)
                        /\ Place(k, byName, i) = Place(k, byName, j) => i = j
        OBVIOUS
    <3>1. /\ Place(k, byName, i) = RankIn(n, R, i) /\ Place(k, byName, j) = RankIn(n, R, j)
          /\ <<i, j>> \in R <=> Before(k, byName, i, j)
        BY <2>3, <2>4
    <3>2. /\ RankIn(n, R, i) \in 1..n
          /\ RankIn(n, R, i) < RankIn(n, R, j) <=> <<i, j>> \in R
          /\ RankIn(n, R, i) = RankIn(n, R, j) => i = j
        BY <2>1
    <3> QED
        BY <3>1, <3>2
  <2>6. \A p \in 1..n : \E i \in 1..n : Place(k, byName, i) = p
      BY <2>1, <2>3
  <2> QED
      BY <2>3, <2>5, <2>6
<1>6. \A p \in DOMAIN k : At(k, byName, p) \in DOMAIN k /\ Place(k, byName, At(k, byName, p)) = p
    BY <1>5 DEF At
<1>7. \A i \in DOMAIN k : At(k, byName, Place(k, byName, i)) = i
    BY <1>5, <1>6
<1> QED
    BY <1>5, <1>6, <1>7

LEMMA Sorting ==
    ASSUME NEW k \in Seq(CandidateType), NEW byName \in BOOLEAN
    PROVE  /\ Arranged(k, byName) \in Seq(CandidateType)
           /\ Len(Arranged(k, byName)) = Len(k)
           /\ DOMAIN Arranged(k, byName) = DOMAIN k
           /\ \A p \in DOMAIN k : Arranged(k, byName)[p] = k[At(k, byName, p)]
           /\ \A p, q \in DOMAIN k : p < q => k[At(k, byName, p)].priority <= k[At(k, byName, q)].priority
           /\ ToSet(Arranged(k, byName)) = ToSet(k)
<1>1. DOMAIN k = 1..Len(k) /\ Len(k) \in Nat
    OBVIOUS
<1>2. Arranged(k, byName) = [p \in 1..Len(k) |-> k[At(k, byName, p)]]
    BY <1>1 DEF Arranged, At
<1>3. \A p \in DOMAIN k : At(k, byName, p) \in DOMAIN k /\ k[At(k, byName, p)] \in CandidateType
    BY Places
<1>4. Arranged(k, byName) \in Seq(CandidateType) /\ Len(Arranged(k, byName)) = Len(k)
    BY <1>1, <1>2, <1>3
<1>5. \A p, q \in DOMAIN k : p < q => k[At(k, byName, p)].priority <= k[At(k, byName, q)].priority
  <2> SUFFICES ASSUME NEW p \in DOMAIN k, NEW q \in DOMAIN k, p < q
               PROVE  k[At(k, byName, p)].priority <= k[At(k, byName, q)].priority
      OBVIOUS
  <2>1. Before(k, byName, At(k, byName, p), At(k, byName, q))
      BY Places
  <2> QED
      BY <1>3, <2>1 DEF Before, CandidateType
<1>6. ToSet(Arranged(k, byName)) = ToSet(k)
  <2>1. \A x \in ToSet(Arranged(k, byName)) : x \in ToSet(k)
      BY <1>1, <1>2, <1>3 DEF ToSet
  <2>2. \A i \in DOMAIN k : k[i] = Arranged(k, byName)[Place(k, byName, i)]
      BY <1>1, <1>2, Places
  <2>3. \A x \in ToSet(k) : x \in ToSet(Arranged(k, byName))
    <3> SUFFICES ASSUME NEW x \in ToSet(k) PROVE x \in ToSet(Arranged(k, byName))
        OBVIOUS
    <3>1. PICK i \in DOMAIN k : x = k[i]
        BY DEF ToSet
    <3>2. Place(k, byName, i) \in DOMAIN k /\ x = Arranged(k, byName)[Place(k, byName, i)]
        BY <2>2, <3>1, Places
    <3>3. DOMAIN Arranged(k, byName) = DOMAIN k
        BY <1>1, <1>2
    <3> QED
        BY <3>2, <3>3 DEF ToSet
  <2> QED
      BY <2>1, <2>3
<1> QED
    BY <1>1, <1>2, <1>4, <1>5, <1>6

--------------------------------------------------------------------------------
(***************************************************************************)
(* When sorting changes nothing.                                           *)
(***************************************************************************)
Sorted(k) == \A i, j \in DOMAIN k : i < j => k[i].priority <= k[j].priority

Distinct(k) == \A i, j \in DOMAIN k : k[i].priority = k[j].priority => i = j

LEMMA ArrangedIsSorted ==
    ASSUME NEW k \in Seq(CandidateType), NEW byName \in BOOLEAN
    PROVE  Sorted(Arranged(k, byName))
BY Sorting DEF Sorted

LEMMA SameOrder ==
    ASSUME NEW k \in Seq(CandidateType),
           \A i, j \in DOMAIN k : Before(k, TRUE, i, j) <=> Before(k, FALSE, i, j)
    PROVE  Arranged(k, TRUE) = Arranged(k, FALSE)
<1>1. \A i \in DOMAIN k : Place(k, TRUE, i) = Place(k, FALSE, i)
  <2> SUFFICES ASSUME NEW i \in DOMAIN k
               PROVE  {j \in DOMAIN k : Before(k, TRUE, j, i)} = {j \in DOMAIN k : Before(k, FALSE, j, i)}
      BY DEF Place
  <2> QED
      OBVIOUS
<1>2. \A p \in DOMAIN k : At(k, TRUE, p) = At(k, FALSE, p)
  <2> SUFFICES ASSUME NEW p \in DOMAIN k PROVE At(k, TRUE, p) = At(k, FALSE, p)
      OBVIOUS
  <2>1. /\ At(k, TRUE, p) \in DOMAIN k /\ Place(k, TRUE, At(k, TRUE, p)) = p
        /\ At(k, FALSE, p) \in DOMAIN k /\ Place(k, FALSE, At(k, FALSE, p)) = p
      BY Places
  <2> QED
      BY <1>1, <2>1, Places
<1>3. /\ Arranged(k, TRUE) = [p \in DOMAIN k |-> k[At(k, TRUE, p)]]
      /\ Arranged(k, FALSE) = [p \in DOMAIN k |-> k[At(k, FALSE, p)]]
    BY DEF Arranged, At
<1> QED
    BY <1>2, <1>3

LEMMA NamesDoNotMatter ==
    ASSUME NEW k \in Seq(CandidateType), Distinct(k)
    PROVE  Arranged(k, TRUE) = Arranged(k, FALSE)
<1>1. \A i \in DOMAIN k : k[i] \in CandidateType /\ k[i].route \in Routes /\ i \in Nat
    BY OfCandidates
<1>2. \A i, j \in DOMAIN k : Before(k, TRUE, i, j) <=> Before(k, FALSE, i, j)
  <2> SUFFICES ASSUME NEW i \in DOMAIN k, NEW j \in DOMAIN k
               PROVE  Before(k, TRUE, i, j) <=> Before(k, FALSE, i, j)
      OBVIOUS
  <2>1. CASE i = j
      BY <1>1, <2>1, RouteOrder DEF Before
  <2>2. CASE i # j
    <3>1. k[i].priority # k[j].priority
        BY <2>2 DEF Distinct
    <3> QED
        BY <3>1 DEF Before
  <2> QED
      BY <2>1, <2>2
<1> QED
    BY <1>2, SameOrder

LEMMA SortedStays ==
    ASSUME NEW k \in Seq(CandidateType), Sorted(k)
    PROVE  ByPriority(k) = k
<1>1. DOMAIN k = 1..Len(k) /\ Len(k) \in Nat /\ \A i \in DOMAIN k : k[i].priority \in Nat
    BY OfCandidates
<1>2. \A i, j \in DOMAIN k : Before(k, FALSE, i, j) <=> i < j
  <2> SUFFICES ASSUME NEW i \in DOMAIN k, NEW j \in DOMAIN k PROVE Before(k, FALSE, i, j) <=> i < j
      OBVIOUS
  <2>1. i < j => k[i].priority <= k[j].priority
      BY DEF Sorted
  <2>2. j < i => k[j].priority <= k[i].priority
      BY DEF Sorted
  <2> QED
      BY <1>1, <2>1, <2>2 DEF Before
<1>3. \A i \in DOMAIN k : Place(k, FALSE, i) = i
  <2> SUFFICES ASSUME NEW i \in DOMAIN k PROVE Place(k, FALSE, i) = i
      OBVIOUS
  <2>1. {j \in DOMAIN k : Before(k, FALSE, j, i)} = 1..(i - 1)
    <3>1. \A j \in DOMAIN k : Before(k, FALSE, j, i) <=> j < i
        BY <1>2
    <3>2. i \in 1..Len(k) /\ DOMAIN k = 1..Len(k) /\ Len(k) \in Nat
        BY <1>1
    <3>3. {j \in DOMAIN k : j < i} = 1..(i - 1)
        BY <3>2
    <3> QED
        BY <3>1, <3>3
  <2>2. i - 1 \in Nat
      BY <1>1
  <2>3. Cardinality(1..(i - 1)) = i - 1
      BY <2>2, FS_Interval
  <2>4. Place(k, FALSE, i) = 1 + (i - 1)
      BY <2>1, <2>3 DEF Place
  <2>5. i \in 1..Len(k) /\ Len(k) \in Nat
      BY <1>1
  <2>6. 1 + (i - 1) = i
      BY <2>5
  <2> QED
      BY <2>4, <2>6
<1>4. \A p \in DOMAIN k : At(k, FALSE, p) = p
    BY <1>3, Places
<1>5. Arranged(k, FALSE) = [p \in DOMAIN k |-> k[At(k, FALSE, p)]]
    BY DEF Arranged, At
<1>6. k = [p \in DOMAIN k |-> k[p]]
    BY <1>1
<1> QED
    BY <1>4, <1>5, <1>6 DEF ByPriority

LEMMA SortingFirst ==
    ASSUME NEW k \in Seq(CandidateType)
    PROVE  Arranged(ByPriority(k), TRUE) = Arranged(k, TRUE)
<1> DEFINE m == ByPriority(k)
           u(p) == At(k, FALSE, p)
<1>1. /\ m \in Seq(CandidateType) /\ DOMAIN m = DOMAIN k /\ DOMAIN k = 1..Len(k) /\ Len(k) \in Nat
      /\ \A p \in DOMAIN k : m[p] = k[u(p)] /\ u(p) \in DOMAIN k
  <2>1. m \in Seq(CandidateType) /\ DOMAIN m = DOMAIN k /\ \A p \in DOMAIN k : m[p] = k[u(p)]
      BY Sorting DEF ByPriority
  <2>2. \A p \in DOMAIN k : u(p) \in DOMAIN k
      BY Places
  <2> HIDE DEF m, u
  <2> QED
      BY <2>1, <2>2, OfCandidates
<1>2. \A p, q \in DOMAIN k : p < q <=> Before(k, FALSE, u(p), u(q))
  <2> SUFFICES ASSUME NEW p \in DOMAIN k, NEW q \in DOMAIN k
               PROVE  p < q <=> Before(k, FALSE, u(p), u(q))
      OBVIOUS
  <2>1. /\ u(p) \in DOMAIN k /\ Place(k, FALSE, u(p)) = p
        /\ u(q) \in DOMAIN k /\ Place(k, FALSE, u(q)) = q
      BY Places
  <2> HIDE DEF u
  <2>2. Place(k, FALSE, u(p)) < Place(k, FALSE, u(q)) <=> Before(k, FALSE, u(p), u(q))
      BY <2>1, Places
  <2> QED
      BY <2>1, <2>2
<1>3. \A p, q \in DOMAIN k : u(p) = u(q) => p = q
    BY Places
<1>4. \A i \in DOMAIN k : \E p \in DOMAIN k : u(p) = i
    BY Places
<1> HIDE DEF m, u
<1>5. \A p, q \in DOMAIN k : Before(m, TRUE, p, q) <=> Before(k, TRUE, u(p), u(q))
  <2> SUFFICES ASSUME NEW p \in DOMAIN k, NEW q \in DOMAIN k
               PROVE  Before(m, TRUE, p, q) <=> Before(k, TRUE, u(p), u(q))
      OBVIOUS
  <2>1. /\ m[p] = k[u(p)] /\ m[q] = k[u(q)] /\ u(p) \in DOMAIN k /\ u(q) \in DOMAIN k
        /\ k[u(p)] \in CandidateType /\ k[u(q)] \in CandidateType
      BY <1>1
  <2>2. k[u(p)].priority \in Nat /\ k[u(q)].priority \in Nat
      BY <2>1 DEF CandidateType
  <2>3. k[u(p)].priority = k[u(q)].priority => (p < q <=> u(p) < u(q))
      BY <1>2, <2>1, <2>2 DEF Before
  <2> QED
      BY <2>1, <2>3 DEF Before
<1>6. \A p \in DOMAIN k : Place(m, TRUE, p) = Place(k, TRUE, u(p))
  <2> SUFFICES ASSUME NEW p \in DOMAIN k PROVE Place(m, TRUE, p) = Place(k, TRUE, u(p))
      OBVIOUS
  <2> DEFINE S == {q \in DOMAIN k : Before(m, TRUE, q, p)}
             T == {j \in DOMAIN k : Before(k, TRUE, j, u(p))}
             f == [q \in S |-> u(q)]
  <2>1. IsFiniteSet(S)
    <3>1. S \in SUBSET (1..Len(k))
        BY <1>1
    <3>2. IsFiniteSet(1..Len(k))
        BY <1>1, FS_Interval
    <3> HIDE DEF S
    <3> QED
        BY <3>1, <3>2, FS_Subset
  <2>2. f \in Bijection(S, T)
    <3>1. \A q \in S : u(q) \in T
        BY <1>1, <1>5
    <3>2. \A j \in T : \E q \in S : u(q) = j
        BY <1>1, <1>4, <1>5
    <3>3. f \in [S -> T] /\ \A q \in S : f[q] = u(q) /\ q \in DOMAIN k
        BY <3>1
    <3> HIDE DEF f, S, T
    <3> QED
        BY <1>3, <3>2, <3>3 DEF Bijection, Injection, IsInjective, Surjection
  <2>3. Cardinality(S) = Cardinality(T)
    <3> HIDE DEF f, S, T
    <3>1. ExistsBijection(S, T)
        BY <2>2 DEF ExistsBijection
    <3> QED
        BY <2>1, <3>1, FS_Bijection
  <2> QED
      BY <1>1, <2>3 DEF Place
<1>7. \A p \in DOMAIN k : u(At(m, TRUE, p)) = At(k, TRUE, p)
  <2> SUFFICES ASSUME NEW p \in DOMAIN k PROVE u(At(m, TRUE, p)) = At(k, TRUE, p)
      OBVIOUS
  <2>1. At(m, TRUE, p) \in DOMAIN k /\ Place(m, TRUE, At(m, TRUE, p)) = p
      BY <1>1, Places
  <2>2. u(At(m, TRUE, p)) \in DOMAIN k /\ Place(k, TRUE, u(At(m, TRUE, p))) = p
      BY <1>1, <1>6, <2>1
  <2>3. At(k, TRUE, p) \in DOMAIN k /\ Place(k, TRUE, At(k, TRUE, p)) = p
      BY Places
  <2> QED
      BY <2>2, <2>3, Places
<1>8. \A p \in DOMAIN k : m[At(m, TRUE, p)] = k[At(k, TRUE, p)]
    BY <1>1, <1>7, Places
<1>9. /\ Arranged(m, TRUE) = [p \in DOMAIN m |-> m[At(m, TRUE, p)]]
      /\ Arranged(k, TRUE) = [p \in DOMAIN k |-> k[At(k, TRUE, p)]]
    BY DEF Arranged, At
<1>10. Arranged(m, TRUE) = Arranged(k, TRUE)
    BY <1>1, <1>8, <1>9
<1> QED
    BY <1>10 DEF m

--------------------------------------------------------------------------------
(***************************************************************************)
(* Configurations that are well-formed, and whose pool, once it has been   *)
(* arranged with the buttons, has a number of its own for every candidate, *)
(* none larger than the pool.                                              *)
(***************************************************************************)
Tidy(k) == Distinct(k) /\ \A i \in DOMAIN k : k[i].priority <= Len(k)

Good(c) ==
    /\ c \in ConfigType
    /\ c.pool # <<>> /\ c.pool[1].arranged => Tidy(c.pool[1].candidates)

PoolRecord == [enabled: BOOLEAN, limits: LimitsType, candidates: Seq(CandidateType), arranged: BOOLEAN]

LEMMA ConfigFacts ==
    ASSUME NEW c \in ConfigType
    PROVE  /\ c.providers \in Seq(ProviderType) /\ c.port \in Nat /\ c.admin \in BOOLEAN
           /\ c.pool \in PoolType
           /\ c.pool # <<>> => c.pool = <<c.pool[1]>> /\ c.pool[1] \in PoolRecord
           /\ Candidates(c) \in Seq(CandidateType)
<1>1. c.providers \in Seq(ProviderType) /\ c.port \in Nat /\ c.admin \in BOOLEAN /\ c.pool \in PoolType
    BY DEF ConfigType
<1>2. c.pool \in Seq(PoolRecord) /\ Len(c.pool) <= 1
    BY <1>1 DEF PoolType, PoolRecord
<1>3. c.pool # <<>> => c.pool = <<c.pool[1]>> /\ c.pool[1] \in PoolRecord
    BY <1>2
<1>4. Candidates(c) \in Seq(CandidateType)
  <2>1. CASE c.pool = <<>>
      BY <2>1 DEF Candidates
  <2>2. CASE c.pool # <<>>
      BY <1>3, <2>2 DEF Candidates, PoolRecord
  <2> QED
      BY <2>1, <2>2
<1> QED
    BY <1>1, <1>3, <1>4

LEMMA OnePool ==
    ASSUME NEW p \in PoolRecord
    PROVE  <<p>> \in PoolType /\ <<p>> # <<>> /\ <<p>>[1] = p
BY DEF PoolType, PoolRecord

LEMMA WithPool ==
    ASSUME NEW c \in ConfigType, NEW p \in PoolRecord, p.arranged => Tidy(p.candidates)
    PROVE  Good([c EXCEPT !.pool = <<p>>])
<1> DEFINE d == [c EXCEPT !.pool = <<p>>]
<1>1. d \in ConfigType /\ d.pool = <<p>>
    BY OnePool DEF ConfigType
<1>2. d.pool[1] = p
    BY <1>1
<1> HIDE DEF d
<1>3. Good(d)
    BY <1>1, <1>2 DEF Good
<1> QED
    BY <1>3 DEF d

LEMMA WithProviders ==
    ASSUME NEW c, Good(c), NEW ps \in Seq(ProviderType)
    PROVE  /\ Good([c EXCEPT !.providers = ps])
           /\ Meaning([c EXCEPT !.providers = ps])["router"] = Meaning(c)["router"]
           /\ Meaning([c EXCEPT !.providers = ps])["settings"] = Meaning(c)["settings"]
<1> DEFINE d == [c EXCEPT !.providers = ps]
<1>1. d \in ConfigType /\ d.pool = c.pool /\ d.port = c.port
    BY DEF Good, ConfigType
<1> HIDE DEF d
<1>2. Good(d)
    BY <1>1 DEF Good
<1>3. Candidates(d) = Candidates(c)
    BY <1>1 DEF Candidates
<1>4. Served(d) = Served(c)
    BY <1>1, <1>3 DEF Served
<1>5. Meaning(d)["router"] = Meaning(c)["router"] /\ Meaning(d)["settings"] = Meaning(c)["settings"]
    BY <1>1, <1>4 DEF Meaning
<1> QED
    BY <1>2, <1>5 DEF d

LEMMA WithPort ==
    ASSUME NEW c, Good(c), NEW port \in Nat
    PROVE  /\ Good(SetPort(c, port))
           /\ Meaning(SetPort(c, port))["router"] = Meaning(c)["router"]
           /\ Meaning(SetPort(c, port))["config"] = Meaning(c)["config"]
<1> DEFINE d == SetPort(c, port)
<1>1. d \in ConfigType /\ d.pool = c.pool /\ d.providers = c.providers
    BY DEF Good, ConfigType, SetPort
<1> HIDE DEF d
<1>2. Good(d)
    BY <1>1 DEF Good
<1>3. Candidates(d) = Candidates(c)
    BY <1>1 DEF Candidates
<1>4. Served(d) = Served(c) /\ Spoken(d) = Spoken(c)
    BY <1>1, <1>3 DEF Served, Spoken
<1>5. Meaning(d)["router"] = Meaning(c)["router"] /\ Meaning(d)["config"] = Meaning(c)["config"]
    BY <1>4 DEF Meaning
<1> QED
    BY <1>2, <1>5 DEF d

LEMMA Defaults == Good(DefaultConfig)
<1>1. DefaultConfig \in ConfigType /\ DefaultConfig.pool = <<>>
    BY DEF DefaultConfig, ConfigType, PoolType
<1> QED
    BY <1>1 DEF Good

LEMMA GivenFiles == \A c \in Files : Good(c)
<1> SUFFICES ASSUME NEW c \in Files PROVE Good(c)
    OBVIOUS
<1>1. c \in ConfigType /\ \A i \in DOMAIN c.pool : ~c.pool[i].arranged
    BY DesktopTabsAssumption
<1>2. c.pool # <<>> => 1 \in DOMAIN c.pool
    BY <1>1, ConfigFacts
<1> QED
    BY <1>1, <1>2 DEF Good

LEMMA TidyOrder ==
    ASSUME NEW k \in Seq(CandidateType), Tidy(k)
    PROVE  Tidy(ByPriority(k))
<1> DEFINE m == ByPriority(k)
           u(p) == At(k, FALSE, p)
<1>1. /\ m \in Seq(CandidateType) /\ DOMAIN m = DOMAIN k /\ Len(m) = Len(k)
      /\ \A p \in DOMAIN k : m[p] = k[u(p)]
    BY Sorting DEF ByPriority
<1>2. \A p \in DOMAIN k : u(p) \in DOMAIN k /\ Place(k, FALSE, u(p)) = p
    BY Places
<1> HIDE DEF m, u
<1>3. \A p, q \in DOMAIN k : m[p].priority = m[q].priority => p = q
  <2> SUFFICES ASSUME NEW p \in DOMAIN k, NEW q \in DOMAIN k, m[p].priority = m[q].priority
               PROVE  p = q
      OBVIOUS
  <2>1. u(p) = u(q)
      BY <1>1, <1>2 DEF Tidy, Distinct
  <2> QED
      BY <1>2, <2>1
<1>4. \A p \in DOMAIN k : m[p].priority <= Len(k)
    BY <1>1, <1>2 DEF Tidy
<1>5. Tidy(m)
    BY <1>1, <1>3, <1>4 DEF Tidy, Distinct
<1> QED
    BY <1>5 DEF m

LEMMA Renumbered ==
    ASSUME NEW k \in Seq(CandidateType)
    PROVE  /\ NormalizeRoutePoolPriorities(k) \in Seq(CandidateType)
           /\ Tidy(NormalizeRoutePoolPriorities(k)) /\ Sorted(NormalizeRoutePoolPriorities(k))
           /\ DOMAIN NormalizeRoutePoolPriorities(k) = DOMAIN k
           /\ \A i \in DOMAIN k : NormalizeRoutePoolPriorities(k)[i].route = k[i].route
<1> DEFINE m == NormalizeRoutePoolPriorities(k)
<1>1. DOMAIN k = 1..Len(k) /\ Len(k) \in Nat /\ \A i \in DOMAIN k : i \in Nat /\ k[i] \in CandidateType
    BY OfCandidates
<1>2. m = [i \in 1..Len(k) |-> [k[i] EXCEPT !.priority = i]]
    BY <1>1 DEF NormalizeRoutePoolPriorities
<1>3. \A i \in 1..Len(k) : [k[i] EXCEPT !.priority = i] \in CandidateType
    BY <1>1 DEF CandidateType
<1>4. m \in Seq(CandidateType) /\ Len(m) = Len(k) /\ DOMAIN m = DOMAIN k
    BY <1>1, <1>2, <1>3
<1>5. \A i \in DOMAIN k : m[i].priority = i /\ m[i].route = k[i].route
    BY <1>1, <1>2 DEF CandidateType
<1> HIDE DEF m
<1>6. Distinct(m) /\ Sorted(m) /\ \A i \in DOMAIN m : m[i].priority <= Len(m)
    BY <1>1, <1>4, <1>5 DEF Distinct, Sorted
<1> QED
    BY <1>4, <1>5, <1>6 DEF Tidy, m

--------------------------------------------------------------------------------
(***************************************************************************)
(* A preset puts its providers in one at a time.                           *)
(***************************************************************************)
LEMMA LastOfSome ==
    ASSUME NEW n \in Nat, NEW s \in SUBSET (1..(n + 1)), n + 1 \in s
    PROVE  Max(s) = n + 1
<1>1. \A x \in s : x \in Nat /\ n + 1 >= x
    OBVIOUS
<1>2. \A x \in s : (\A y \in s : x >= y) => x = n + 1
    BY <1>1
<1> QED
    BY <1>1, <1>2 DEF Max

LEMMA LeastOf ==
    ASSUME NEW S \in SUBSET Nat, S # {}
    PROVE  Min(S) \in S
<1>1. PICK n \in S : \A m \in S : ~(<<m, n>> \in Less)
    BY LessIsWellFounded, WFMin
<1>2. ASSUME NEW m \in S PROVE n <= m
  <2>1. m \in Nat /\ n \in Nat /\ ~(<<m, n>> \in Less)
      BY <1>1
  <2> QED
      BY <2>1 DEF Less
<1> QED
    BY <1>2 DEF Min

LEMMA ExceptType ==
    ASSUME NEW S, NEW s \in Seq(S), NEW x \in S, NEW i
    PROVE  /\ [s EXCEPT ![i] = x] \in Seq(S) /\ Len([s EXCEPT ![i] = x]) = Len(s)
           /\ DOMAIN [s EXCEPT ![i] = x] = DOMAIN s
<1> DEFINE t == [j \in 1..Len(s) |-> IF j = i THEN x ELSE s[j]]
<1>1. [s EXCEPT ![i] = x] = t
    OBVIOUS
<1>2. t \in Seq(S) /\ Len(t) = Len(s) /\ DOMAIN t = DOMAIN s
    OBVIOUS
<1> QED
    BY <1>1, <1>2

Install(ps, p, overwrite) ==
    LET i == SelectInSeq(ps, LAMBDA q : q.name = p.name)
    IN  IF i = 0 THEN Append(ps, p) ELSE IF overwrite THEN [ps EXCEPT ![i] = p] ELSE ps

InstalledUpTo(g, ps, added, overwrite, n) ==
    g = [s \in SUBSET (1..n) |->
            IF s = {} THEN ps ELSE Install(g[s \ {Max(s)}], added[Max(s)], overwrite)]

Installed(ps, added, overwrite) ==
    (CHOOSE g : InstalledUpTo(g, ps, added, overwrite, Len(added)))[1..Len(added)]

LEMMA InstalledDef ==
    ASSUME NEW profile, NEW c, NEW overwrite, profile.providers \in Seq(ProviderType)
    PROVE  InstallPreset(profile, c, overwrite) =
               [c EXCEPT !.providers = Installed(@, profile.providers, overwrite),
                         !.pool      = IF profile.pool = <<>> THEN @ ELSE profile.pool]
<1>1. DOMAIN profile.providers = 1..Len(profile.providers)
    OBVIOUS
<1> QED
    BY <1>1 DEF InstallPreset, FoldLeft, MapThenFoldSet, Installed, InstalledUpTo, Install

LEMMA InstalledExists ==
    ASSUME NEW ps, NEW added, NEW overwrite, NEW N \in Nat
    PROVE  \E g : InstalledUpTo(g, ps, added, overwrite, N)
<1> DEFINE T == {n \in 0..N : \E g : InstalledUpTo(g, ps, added, overwrite, n)}
<1>1. 0 \in T
  <2>1. InstalledUpTo([s \in SUBSET (1..0) |-> ps], ps, added, overwrite, 0)
    <3>1. \A s \in SUBSET (1..0) : s = {}
      OBVIOUS
    <3> QED
      BY <3>1 DEF InstalledUpTo
  <2> QED
    BY <2>1
<1>2. ASSUME NEW n \in 0..N, n \in T, n < N
      PROVE  n + 1 \in T
  <2>1. PICK g : InstalledUpTo(g, ps, added, overwrite, n)
    BY <1>2
  <2> DEFINE h == [s \in SUBSET (1..(n + 1)) |->
                      IF n + 1 \in s THEN Install(g[s \ {n + 1}], added[n + 1], overwrite) ELSE g[s]]
  <2>2. ASSUME NEW s \in SUBSET (1..(n + 1))
        PROVE  h[s] = IF s = {} THEN ps ELSE Install(h[s \ {Max(s)}], added[Max(s)], overwrite)
    <3>1. CASE n + 1 \in s
      <4>1. Max(s) = n + 1
        BY <3>1, LastOfSome
      <4>2. s \ {n + 1} \in SUBSET (1..(n + 1)) /\ n + 1 \notin s \ {n + 1} /\ s # {}
        BY <3>1
      <4>3. h[s \ {n + 1}] = g[s \ {n + 1}]
        BY <4>2
      <4> QED
        BY <3>1, <4>1, <4>2, <4>3
    <3>2. CASE n + 1 \notin s
      <4>1. s \in SUBSET (1..n)
        BY <3>2
      <4>2. h[s] = g[s]
        BY <3>2
      <4>3. g[s] = IF s = {} THEN ps ELSE Install(g[s \ {Max(s)}], added[Max(s)], overwrite)
        BY <4>1, <2>1 DEF InstalledUpTo
      <4>4. h[s \ {Max(s)}] = g[s \ {Max(s)}]
        <5>1. s \ {Max(s)} \in SUBSET (1..(n + 1)) /\ n + 1 \notin s \ {Max(s)}
          BY <3>2
        <5> QED
          BY <5>1
      <4> QED
        BY <4>2, <4>3, <4>4
    <3> QED
      BY <3>1, <3>2
  <2>3. InstalledUpTo(h, ps, added, overwrite, n + 1)
    <3>1. DOMAIN h = SUBSET (1..(n + 1))
      OBVIOUS
    <3> HIDE DEF h
    <3>2. \A s \in SUBSET (1..(n + 1)) :
             h[s] = IF s = {} THEN ps ELSE Install(h[s \ {Max(s)}], added[Max(s)], overwrite)
      BY <2>2
    <3>3. h = [s \in SUBSET (1..(n + 1)) |-> h[s]]
      BY <3>1 DEF h
    <3> QED
      BY <3>2, <3>3 DEF InstalledUpTo
  <2> HIDE DEF h
  <2>4. n + 1 \in 0..N
    BY <1>2
  <2> QED
    BY <2>3, <2>4
<1>3. \A n \in 0..N : n \in T /\ n < N => n + 1 \in T
    BY <1>2
<1> HIDE DEF T
<1>4. N \in T
    BY <1>1, <1>3, InductionUpTo
<1> QED
    BY <1>4 DEF T

LEMMA InstalledType ==
    ASSUME NEW ps \in Seq(ProviderType), NEW added \in Seq(ProviderType), NEW overwrite
    PROVE  Installed(ps, added, overwrite) \in Seq(ProviderType)
<1> DEFINE N == Len(added)
           g == CHOOSE f : InstalledUpTo(f, ps, added, overwrite, N)
           T == {k \in 0..N : g[1..k] \in Seq(ProviderType)}
<1>1. N \in Nat /\ DOMAIN added = 1..N
    OBVIOUS
<1>2. InstalledUpTo(g, ps, added, overwrite, N)
    BY <1>1, InstalledExists
<1>3. Installed(ps, added, overwrite) = g[1..N]
    BY DEF Installed
<1> HIDE DEF g, N
<1>4. 0 \in T
  <2>1. 1..0 = {} /\ g[{}] = ps
    BY <1>2 DEF InstalledUpTo
  <2> QED
    BY <1>1, <2>1
<1>5. ASSUME NEW m \in 0..N, m \in T, m < N
      PROVE  m + 1 \in T
  <2> DEFINE k == m + 1
  <2>1. /\ k \in Nat /\ k - 1 = m /\ 1..k \in SUBSET (1..N) /\ k \in 1..k /\ k \in 0..N
        /\ k \in DOMAIN added /\ m \in Nat
    BY <1>1, <1>5
  <2>2. Max(1..k) = k
    BY <2>1, LastOfSome
  <2>3. (1..k) \ {k} = 1..m
    BY <2>1
  <2>4. g[1..k] = Install(g[1..m], added[k], overwrite)
    BY <1>2, <2>1, <2>2, <2>3 DEF InstalledUpTo
  <2>5. g[1..m] \in Seq(ProviderType) /\ added[k] \in ProviderType
    BY <1>5, <2>1
  <2> HIDE DEF k
  <2>6. \A i : [g[1..m] EXCEPT ![i] = added[k]] \in Seq(ProviderType)
    BY <2>5, ExceptType
  <2>7. Append(g[1..m], added[k]) \in Seq(ProviderType)
    BY <2>5
  <2>8. g[1..k] \in Seq(ProviderType)
    BY <2>4, <2>5, <2>6, <2>7 DEF Install
  <2> QED
    BY <2>1, <2>8 DEF k
<1>6. \A m \in 0..N : m \in T /\ m < N => m + 1 \in T
    BY <1>5
<1> HIDE DEF T
<1>7. \A m \in 0..N : m \in T
    BY <1>1, <1>4, <1>6, InductionUpTo
<1>8. N \in T
    BY <1>1, <1>7
<1> QED
    BY <1>3, <1>8 DEF T

LEMMA PresetIsGood ==
    ASSUME NEW profile \in Profiles, NEW c, Good(c), NEW overwrite
    PROVE  Good(InstallPreset(profile, c, overwrite))
<1>1. /\ profile.providers \in Seq(ProviderType) /\ profile.pool \in PoolType
      /\ \A i \in DOMAIN profile.pool : ~profile.pool[i].arranged
    BY DesktopTabsAssumption
<1>2. c \in ConfigType /\ c.providers \in Seq(ProviderType)
    BY ConfigFacts DEF Good
<1> DEFINE ps == Installed(c.providers, profile.providers, overwrite)
           pool == IF profile.pool = <<>> THEN c.pool ELSE profile.pool
           d == [c EXCEPT !.providers = ps, !.pool = pool]
<1>3. ps \in Seq(ProviderType)
    BY <1>1, <1>2, InstalledType
<1>4. InstallPreset(profile, c, overwrite) = d
    BY <1>1, InstalledDef
<1>5. pool \in PoolType
    BY <1>1, <1>2 DEF ConfigType
<1> HIDE DEF ps, pool
<1>6. d \in ConfigType /\ d.pool = pool
    BY <1>2, <1>3, <1>5 DEF ConfigType
<1>7. pool # <<>> => 1 \in DOMAIN pool
    BY <1>5 DEF PoolType
<1>8. pool # <<>> /\ pool[1].arranged => Tidy(pool[1].candidates)
  <2>1. CASE profile.pool = <<>>
      BY <2>1 DEF pool, Good
  <2>2. CASE profile.pool # <<>>
      BY <1>1, <1>7, <2>2 DEF pool
  <2> QED
      BY <2>1, <2>2
<1> HIDE DEF d
<1>9. Good(d)
    BY <1>6, <1>8 DEF Good
<1> QED
    BY <1>4, <1>9

--------------------------------------------------------------------------------
(***************************************************************************)
(* The kind of a provider is a word, and writing it down where the file    *)
(* does not say it leaves it what it was taken for.                        *)
(***************************************************************************)
LEMMA FirstOf ==
    ASSUME NEW s, Len(s) \in Nat, NEW Test(_)
    PROVE  SelectInSeq(s, Test) = 0 \/ (SelectInSeq(s, Test) \in 1..Len(s) /\ Test(s[SelectInSeq(s, Test)]))
<1> DEFINE I == {i \in 1..Len(s) : Test(s[i])}
<1>1. I \in SUBSET Nat
    OBVIOUS
<1>2. SelectInSeq(s, Test) = IF I # {} THEN Min(I) ELSE 0
    BY DEF SelectInSeq
<1>3. I # {} => Min(I) \in I
  <2> HIDE DEF I
  <2> QED
      BY <1>1, LeastOf
<1> QED
    BY <1>2, <1>3

LEMMA BrandedType ==
    ASSUME NEW words
    PROVE  Branded(words) \in Seq(ApiKinds)
<1> DEFINE I == {i \in 1..Len(Brands) : Brands[i] \in words}
           i == IF I # {} THEN Min(I) ELSE 0
<1>1. I \in SUBSET Nat /\ I \in SUBSET (1..4)
    BY DEF Brands
<1>2. Branded(words) = IF i = 0 THEN <<>> ELSE <<BrandKind[Brands[i]]>>
    BY DEF Branded, SelectInSeq
<1>3. I # {} => Min(I) \in I
  <2> HIDE DEF I
  <2> QED
      BY <1>1, LeastOf
<1>4. i = 0 \/ i \in 1..4
    BY <1>1, <1>3
<1>5. \A j \in 1..4 : BrandKind[Brands[j]] \in ApiKinds
  <2>1. /\ Brands[1] = "openrouter" /\ Brands[2] = "deepseek"
        /\ Brands[3] = "groq" /\ Brands[4] = "vercel"
      BY DEF Brands
  <2>2. /\ BrandKind["openrouter"] \in ApiKinds /\ BrandKind["deepseek"] \in ApiKinds
        /\ BrandKind["groq"] \in ApiKinds /\ BrandKind["vercel"] \in ApiKinds
      BY DEF BrandKind, ApiKinds
  <2>3. \A j \in 1..4 : j = 1 \/ j = 2 \/ j = 3 \/ j = 4
      OBVIOUS
  <2> QED
      BY <2>1, <2>2, <2>3
<1> HIDE DEF i
<1>6. CASE i = 0
  <2>1. Branded(words) = <<>>
      BY <1>2, <1>6
  <2> QED
      BY <2>1
<1>7. CASE i \in 1..4
  <2> DEFINE kind == BrandKind[Brands[i]]
  <2>1. kind \in ApiKinds
      BY <1>5, <1>7
  <2> HIDE DEF kind
  <2>2. <<kind>> \in Seq(ApiKinds)
      BY <2>1
  <2>3. Branded(words) = <<kind>>
      BY <1>2, <1>7 DEF kind
  <2> QED
      BY <2>2, <2>3
<1> QED
    BY <1>4, <1>6, <1>7

LEMMA KindIsAWord ==
    ASSUME NEW p
    PROVE  InferProviderApiKind(p) \in ApiKinds
<1> DEFINE uses == {LowerCase(n) : n \in ToSet(p.use)}
           a == Branded(uses)
           b == (IF "anthropic" \in uses THEN <<"AnthropicMessages">> ELSE <<>>)
                \o (IF "openai" \in uses
                    THEN <<IF "/responses" \in p.words THEN "OpenAiResponses" ELSE "OpenAiChat">> ELSE <<>>)
           c == Branded(p.words)
           d == <<KindOfUrl(p.words)>>
<1>1. a \in Seq(ApiKinds) /\ c \in Seq(ApiKinds)
    BY BrandedType
<1>2. b \in Seq(ApiKinds)
  <2> DEFINE openai == IF "/responses" \in p.words THEN "OpenAiResponses" ELSE "OpenAiChat"
             x == IF "anthropic" \in uses THEN <<"AnthropicMessages">> ELSE <<>>
             y == IF "openai" \in uses THEN <<openai>> ELSE <<>>
  <2>1. openai \in ApiKinds /\ "AnthropicMessages" \in ApiKinds
      BY DEF ApiKinds
  <2> HIDE DEF uses, openai
  <2>2. x \in Seq(ApiKinds)
      BY <2>1
  <2>3. y \in Seq(ApiKinds)
      BY <2>1
  <2>4. b = x \o y
      BY DEF openai
  <2> HIDE DEF x, y, b
  <2> QED
      BY <2>2, <2>3, <2>4
<1>3. d \in Seq(ApiKinds) /\ d # <<>>
  <2>1. KindOfUrl(p.words) \in ApiKinds
      BY DEF KindOfUrl, ApiKinds
  <2> QED
      BY <2>1
<1>4. InferProviderApiKind(p) = Head(a \o b \o c \o d)
    BY DEF InferProviderApiKind
<1> HIDE DEF a, b, c, d
<1>5. a \o b \o c \o d \in Seq(ApiKinds) /\ Len(a \o b \o c \o d) > 0
    BY <1>1, <1>2, <1>3
<1> QED
    BY <1>4, <1>5

LEMMA Marked ==
    ASSUME NEW p \in ProviderType
    PROVE  /\ MarkInferred(p) \in ProviderType
           /\ \A kind \in ApiKinds : MarkExplicit(p, kind) \in ProviderType
           /\ p.api_kind = "none" => ResolveProviderApiKind(MarkInferred(p)) = ResolveProviderApiKind(p)
           /\ MarkInferred(p).name = p.name
<1>1. MarkInferred(p) \in ProviderType /\ \A kind \in ApiKinds : MarkExplicit(p, kind) \in ProviderType
  <2>1. \A kind \in ApiKinds, source \in {"explicit", "inferred"} :
           [p EXCEPT !.api_kind = kind, !.source = source] \in ProviderType
      BY DEF ProviderType
  <2>2. InferProviderApiKind(p) \in ApiKinds
      BY KindIsAWord
  <2> QED
      BY <2>1, <2>2 DEF MarkInferred, MarkExplicit
<1> DEFINE q == MarkInferred(p)
<1>2. q.api_kind = InferProviderApiKind(p) /\ q.use = p.use /\ q.words = p.words /\ q.name = p.name
    BY DEF MarkInferred, ProviderType
<1> HIDE DEF q
<1>3. InferProviderApiKind(q) = InferProviderApiKind(p)
    BY <1>2 DEF InferProviderApiKind
<1>4. p.api_kind = "none" => ResolveProviderApiKind(q) = ResolveProviderApiKind(p)
    BY <1>2, <1>3 DEF ResolveProviderApiKind
<1> QED
    BY <1>1, <1>2, <1>4 DEF q

LEMMA Ensured ==
    ASSUME NEW c, Good(c)
    PROVE  /\ Good(EnsureInferredProviderApiKinds(c))
           /\ \A section \in Tabs :
                 Meaning(EnsureInferredProviderApiKinds(c))[section] = Meaning(c)[section]
<1> DEFINE ps == c.providers
           qs == [i \in DOMAIN ps |-> IF ps[i].api_kind = "none" THEN MarkInferred(ps[i]) ELSE ps[i]]
           d == [c EXCEPT !.providers = qs]
<1>1. c \in ConfigType /\ ps \in Seq(ProviderType)
    BY ConfigFacts DEF Good
<1>2. EnsureInferredProviderApiKinds(c) = d
    BY DEF EnsureInferredProviderApiKinds
<1>3. DOMAIN ps = 1..Len(ps) /\ Len(ps) \in Nat /\ \A i \in DOMAIN ps : ps[i] \in ProviderType
    BY <1>1
<1>4. \A i \in DOMAIN ps : (IF ps[i].api_kind = "none" THEN MarkInferred(ps[i]) ELSE ps[i]) \in ProviderType
    BY <1>3, Marked
<1>5. qs \in Seq(ProviderType)
    BY <1>3, <1>4
<1>6. /\ Good(d) /\ Meaning(d)["router"] = Meaning(c)["router"]
      /\ Meaning(d)["settings"] = Meaning(c)["settings"]
  <2> HIDE DEF qs
  <2> QED
      BY <1>5, WithProviders
<1>7. DOMAIN qs = DOMAIN ps
    OBVIOUS
<1>8. \A i \in DOMAIN ps : /\ qs[i].name = ps[i].name
                          /\ ResolveProviderApiKind(qs[i]) = ResolveProviderApiKind(ps[i])
    BY <1>3, Marked
<1>9. d.providers = qs
    BY <1>1 DEF ConfigType
<1> HIDE DEF qs, d
<1>10. Spoken(d) = Spoken(c)
    BY <1>7, <1>8, <1>9 DEF Spoken
<1>11. Meaning(d)["config"] = Meaning(c)["config"]
    BY <1>10 DEF Meaning
<1> QED
    BY <1>2, <1>6, <1>11 DEF Tabs

--------------------------------------------------------------------------------
(***************************************************************************)
(* A frame of the Router tab and the clicks in it.                         *)
(***************************************************************************)
LEMMA Ranges ==
    ASSUME NEW l \in LimitsType
    PROVE  InRange(l) \in LimitsType /\ InRange(InRange(l)) = InRange(l)
<1>1. \A n \in Nat, most \in {100, 86400} :
         /\ Clamped(n, most) \in Nat
         /\ Clamped(Clamped(n, most), most) = Clamped(n, most)
    BY DEF Clamped
<1>2. l.failure_threshold \in Nat /\ l.ban_seconds \in Nat
    BY DEF LimitsType
<1> DEFINE x == Clamped(l.failure_threshold, 100)
           y == Clamped(l.ban_seconds, 86400)
<1>3. /\ x \in Nat /\ y \in Nat
      /\ Clamped(x, 100) = x /\ Clamped(y, 86400) = y
    BY <1>1, <1>2
<1>4. InRange(l) = [failure_threshold |-> x, ban_seconds |-> y]
    BY DEF InRange
<1> HIDE DEF x, y
<1> QED
    BY <1>3, <1>4 DEF InRange, LimitsType

LEMMA FramedFacts ==
    ASSUME NEW c, Good(c)
    PROVE  /\ Good(Framed(c)) /\ Framed(c) \in ConfigType
           /\ Framed(c).pool = <<Framed(c).pool[1]>> /\ Framed(c).pool # <<>>
           /\ Framed(c).pool[1] \in PoolRecord
           /\ Candidates(Framed(c)) = ByPriority(Candidates(c))
           /\ Candidates(Framed(c)) = Framed(c).pool[1].candidates
           /\ Candidates(Framed(c)) \in Seq(CandidateType)
           /\ Framed(c).pool[1].limits = InRange(EnsureRoutePool(c).pool[1].limits)
           /\ EnsureRoutePool(c).pool[1].limits = IF c.pool = <<>> THEN DefaultLimits ELSE c.pool[1].limits
           /\ EnsureRoutePool(c).pool[1].limits \in LimitsType
           /\ \A section \in Tabs : Meaning(Framed(c))[section] = Meaning(c)[section]
<1> DEFINE e == EnsureRoutePool(c)
           k == Candidates(c)
           pl == FramedPool(e.pool[1])
<1>1. /\ c \in ConfigType
      /\ c.pool # <<>> => c.pool = <<c.pool[1]>> /\ c.pool[1] \in PoolRecord
      /\ k \in Seq(CandidateType)
    BY ConfigFacts DEF Good
<1>2. ByPriority(k) \in Seq(CandidateType)
    BY <1>1, Sorting DEF ByPriority
<1>3. /\ e.pool = <<e.pool[1]>> /\ e.pool # <<>> /\ e.pool[1] \in PoolRecord
      /\ e.providers = c.providers /\ e.port = c.port /\ e.admin = c.admin /\ e \in ConfigType
      /\ Candidates(e) = k
      /\ e.pool[1].arranged => c.pool # <<>> /\ c.pool[1].arranged
      /\ e.pool[1].enabled <=> c.pool # <<>> /\ c.pool[1].enabled
      /\ e.pool[1].limits = IF c.pool = <<>> THEN DefaultLimits ELSE c.pool[1].limits
  <2>1. CASE c.pool = <<>>
    <3> DEFINE p == [enabled |-> FALSE, limits |-> DefaultLimits, candidates |-> <<>>, arranged |-> FALSE]
    <3>1. e = [c EXCEPT !.pool = <<p>>] /\ k = <<>>
        BY <2>1 DEF EnsureRoutePool, Pool, Candidates
    <3>2. p \in PoolRecord /\ p.candidates = <<>> /\ ~p.arranged /\ ~p.enabled /\ p.limits = DefaultLimits
        BY DEF PoolRecord, DefaultLimits, LimitsType
    <3> HIDE DEF p
    <3>3. <<p>> \in PoolType
        BY <3>2, OnePool
    <3>4. e.pool = <<p>> /\ e.providers = c.providers /\ e.port = c.port /\ e.admin = c.admin /\ e \in ConfigType
        BY <1>1, <3>1, <3>3 DEF ConfigType
    <3> HIDE DEF e
    <3>5. e.pool[1] = p /\ e.pool # <<>> /\ e.pool = <<e.pool[1]>>
        BY <3>4
    <3>6. Candidates(e) = p.candidates
        BY <3>5 DEF Candidates
    <3>7. Candidates(e) = k
        BY <3>1, <3>2, <3>6
    <3> QED
        BY <2>1, <3>2, <3>4, <3>5, <3>7
  <2>2. CASE c.pool # <<>>
    <3>1. e = c
        BY <2>2 DEF EnsureRoutePool
    <3> HIDE DEF e
    <3> QED
        BY <1>1, <2>2, <3>1
  <2> QED
      BY <2>1, <2>2
<1>4. Framed(c) = [e EXCEPT !.pool = <<pl>>]
    BY DEF Framed
<1>5. /\ pl \in PoolRecord /\ pl.candidates = ByPriority(k) /\ pl.limits = InRange(e.pool[1].limits)
      /\ pl.arranged = e.pool[1].arranged /\ pl.enabled = e.pool[1].enabled /\ e.pool[1].limits \in LimitsType
  <2>1. e.pool[1].candidates = k
      BY <1>3 DEF Candidates
  <2> DEFINE q == e.pool[1]
             l == InRange(q.limits)
             m == ByPriority(k)
  <2>2. q \in PoolRecord /\ q.candidates = k /\ m \in Seq(CandidateType)
      BY <1>2, <1>3, <2>1
  <2>3. pl = [[q EXCEPT !.limits = l] EXCEPT !.candidates = m]
      BY <2>1 DEF FramedPool
  <2>4. q.limits \in LimitsType
    <3> HIDE DEF q
    <3> QED
        BY <2>2 DEF PoolRecord
  <2>5. l \in LimitsType
    <3> HIDE DEF q
    <3> QED
        BY <2>4, Ranges
  <2> HIDE DEF q, m, l, pl
  <2>6. /\ pl \in PoolRecord /\ pl.candidates = m /\ pl.limits = l
        /\ pl.arranged = q.arranged /\ pl.enabled = q.enabled
      BY <2>2, <2>3, <2>5 DEF PoolRecord
  <2> QED
      BY <2>4, <2>6 DEF q, l, m
<1>6. pl.arranged => Tidy(pl.candidates)
  <2>1. c.pool # <<>> /\ c.pool[1].arranged => Tidy(k)
      BY DEF Good, Candidates
  <2> HIDE DEF e, k, pl
  <2> QED
      BY <1>1, <1>3, <1>5, <2>1, TidyOrder
<1> HIDE DEF e, k, pl
<1> DEFINE d == Framed(c)
<1>7. d.pool = <<pl>> /\ d.providers = c.providers /\ d.port = c.port /\ d \in ConfigType
    BY <1>3, <1>4, <1>5, OnePool DEF ConfigType
<1>8. Good(d)
    BY <1>3, <1>4, <1>5, <1>6, WithPool
<1> HIDE DEF d
<1>9. d.pool # <<>> /\ d.pool[1] = pl
    BY <1>7
<1>10. Candidates(d) = ByPriority(k) /\ Candidates(d) = d.pool[1].candidates
    BY <1>5, <1>9 DEF Candidates
<1>11. Served(d) = Served(c)
  <2>1. Arranged(ByPriority(k), TRUE) = Arranged(k, TRUE)
      BY <1>1, SortingFirst
  <2>2. d.pool[1].enabled <=> c.pool # <<>> /\ c.pool[1].enabled
      BY <1>3, <1>5, <1>9
  <2>3. CASE c.pool # <<>> /\ c.pool[1].enabled
      BY <1>9, <1>10, <2>1, <2>2, <2>3 DEF Served, k
  <2>4. CASE ~(c.pool # <<>> /\ c.pool[1].enabled)
      BY <1>9, <2>2, <2>4 DEF Served
  <2> QED
      BY <2>3, <2>4
<1>12. Spoken(d) = Spoken(c)
    BY <1>7 DEF Spoken
<1>13. \A section \in Tabs : Meaning(d)[section] = Meaning(c)[section]
    BY <1>7, <1>11, <1>12 DEF Tabs, Meaning
<1> QED
    BY <1>2, <1>3, <1>5, <1>7, <1>8, <1>9, <1>10, <1>13 DEF d, k, e

LEMMA FramedOrder ==
    ASSUME NEW c, Good(c)
    PROVE  /\ Sorted(Candidates(Framed(c)))
           /\ ByPriority(Candidates(Framed(c))) = ByPriority(Candidates(c))
           /\ ActiveRoutes(Framed(c)) = ActiveRoutes(c)
<1>1. Candidates(c) \in Seq(CandidateType)
    BY ConfigFacts DEF Good
<1>2. Candidates(Framed(c)) = ByPriority(Candidates(c)) /\ Candidates(Framed(c)) \in Seq(CandidateType)
    BY FramedFacts
<1>3. Sorted(Candidates(Framed(c)))
    BY <1>1, <1>2, ArrangedIsSorted DEF ByPriority
<1>4. ByPriority(Candidates(Framed(c))) = ByPriority(Candidates(c))
    BY <1>2, <1>3, SortedStays
<1>5. ToSet(Candidates(Framed(c))) = ToSet(Candidates(c))
    BY <1>1, <1>2, Sorting DEF ByPriority
<1> QED
    BY <1>3, <1>4, <1>5 DEF ActiveRoutes

--------------------------------------------------------------------------------
(***************************************************************************)
(* What the tabs have.  The inductive invariant is of two parts: the file  *)
(* and the copies, and what is selected in the Router tab.                 *)
(***************************************************************************)
Alike(c, d, sections) == \A section \in sections : Meaning(c)[section] = Meaning(d)[section]

DataInv ==
    /\ file \in [ok: BOOLEAN, config: ConfigType] /\ Good(file.config)
    /\ copy \in [Tabs -> ConfigType] /\ \A t \in Tabs : Good(copy[t])
    /\ menu \subseteq Routes
    /\ fresh \in [Tabs -> BOOLEAN] /\ edited \in [Tabs -> BOOLEAN]
    /\ \A t \in Tabs : fresh[t] => Alike(copy[t], file.config, IF edited[t] THEN Tabs \ {t} ELSE Tabs)

Marks(c, left, index, route) ==
    /\ index \in Nat
    /\ left = <<>> \/ \E r \in Routes : left = <<r>> /\ r \notin ActiveRoutes(c) /\ index = 0
    /\ route # <<>> => /\ index \in DOMAIN ByPriority(Candidates(c))
                      /\ ByPriority(Candidates(c))[index].route = route

SelectionInv == Marks(copy["router"], available, selected, picked)

TabsInv == DataInv /\ SelectionInv

LEMMA ChangedKeeps ==
    ASSUME DataInv, NEW t \in Tabs, NEW c, Good(c), Changed(t, c), Alike(c, copy[t], Tabs \ {t})
    PROVE  DataInv' /\ copy' = [copy EXCEPT ![t] = c]
<1>1. /\ copy' = [copy EXCEPT ![t] = c] /\ edited' = [edited EXCEPT ![t] = TRUE]
      /\ file' = file /\ menu' = menu /\ fresh' = fresh
    BY DEF Changed
<1>2. copy \in [Tabs -> ConfigType] /\ edited \in [Tabs -> BOOLEAN] /\ c \in ConfigType
    BY DEF DataInv, Good
<1>3. /\ copy' \in [Tabs -> ConfigType] /\ edited' \in [Tabs -> BOOLEAN]
      /\ copy'[t] = c /\ edited'[t] = TRUE
      /\ \A u \in Tabs \ {t} : copy'[u] = copy[u] /\ edited'[u] = edited[u]
    BY <1>1, <1>2
<1>4. \A u \in Tabs : Good(copy'[u])
    BY <1>3 DEF DataInv
<1>5. ASSUME NEW u \in Tabs, fresh[u]
      PROVE  Alike(copy'[u], file.config, IF edited'[u] THEN Tabs \ {u} ELSE Tabs)
  <2>1. Alike(copy[u], file.config, IF edited[u] THEN Tabs \ {u} ELSE Tabs)
      BY <1>5 DEF DataInv
  <2>2. CASE u = t
    <3>1. Alike(copy[t], file.config, Tabs \ {t})
        BY <2>1, <2>2 DEF Alike
    <3>2. Alike(c, file.config, Tabs \ {t})
        BY <3>1 DEF Alike
    <3> QED
        BY <1>3, <2>2, <3>2
  <2>3. CASE u # t
      BY <1>3, <2>1, <2>3
  <2> QED
      BY <2>2, <2>3
<1> QED
    BY <1>1, <1>3, <1>4, <1>5 DEF DataInv

LEMMA LoadedKeeps ==
    ASSUME DataInv, NEW t \in Tabs, NEW c, Good(c), Loaded(t, c), file.ok => Alike(c, file.config, Tabs)
    PROVE  DataInv' /\ copy' = [copy EXCEPT ![t] = c]
<1>1. /\ copy' = [copy EXCEPT ![t] = c] /\ edited' = [edited EXCEPT ![t] = FALSE]
      /\ fresh' = [fresh EXCEPT ![t] = file.ok] /\ file' = file /\ menu' = menu
    BY DEF Loaded
<1>2. /\ copy \in [Tabs -> ConfigType] /\ edited \in [Tabs -> BOOLEAN] /\ fresh \in [Tabs -> BOOLEAN]
      /\ c \in ConfigType /\ file.ok \in BOOLEAN
    BY DEF DataInv, Good
<1>3. /\ copy' \in [Tabs -> ConfigType] /\ edited' \in [Tabs -> BOOLEAN] /\ fresh' \in [Tabs -> BOOLEAN]
      /\ copy'[t] = c /\ edited'[t] = FALSE /\ fresh'[t] = file.ok
      /\ \A u \in Tabs \ {t} : copy'[u] = copy[u] /\ edited'[u] = edited[u] /\ fresh'[u] = fresh[u]
    BY <1>1, <1>2
<1>4. \A u \in Tabs : Good(copy'[u])
    BY <1>3 DEF DataInv
<1>5. ASSUME NEW u \in Tabs, fresh'[u]
      PROVE  Alike(copy'[u], file.config, IF edited'[u] THEN Tabs \ {u} ELSE Tabs)
  <2>1. CASE u = t
      BY <1>3, <1>5, <2>1
  <2>2. CASE u # t
      BY <1>3, <1>5, <2>2 DEF DataInv
  <2> QED
      BY <2>1, <2>2
<1> QED
    BY <1>1, <1>3, <1>4, <1>5 DEF DataInv

LEMMA WrittenKeeps ==
    ASSUME DataInv, NEW new \in [ok: BOOLEAN, config: ConfigType], Good(new.config), NEW writers,
           Written(new, writers),
           copy' \in [Tabs -> ConfigType], \A t \in Tabs : Good(copy'[t]),
           \A t \in Tabs : t \in writers => Alike(copy'[t], new.config, Tabs)
    PROVE  DataInv'
<1>1. /\ file' = new /\ menu' = menu
      /\ fresh' = [t \in Tabs |-> t \in writers]
      /\ edited' = [t \in Tabs |-> edited[t] /\ t \notin writers]
    BY DEF Written
<1>2. fresh' \in [Tabs -> BOOLEAN] /\ edited' \in [Tabs -> BOOLEAN]
    BY <1>1
<1>3. ASSUME NEW u \in Tabs, fresh'[u]
      PROVE  Alike(copy'[u], new.config, IF edited'[u] THEN Tabs \ {u} ELSE Tabs)
  <2>1. u \in writers /\ ~edited'[u]
      BY <1>1, <1>3
  <2> QED
      BY <2>1
<1> QED
    BY <1>1, <1>2, <1>3 DEF DataInv

LEMMA FrameKeeps ==
    ASSUME DataInv, copy' = [copy EXCEPT !["router"] = Framed(@)], UNCHANGED <<file, menu, fresh, edited>>
    PROVE  DataInv'
<1> DEFINE c == copy["router"]
<1>1. "router" \in Tabs
    BY DEF Tabs
<1>2. Good(c) /\ copy \in [Tabs -> ConfigType]
    BY <1>1 DEF DataInv
<1>3. Good(Framed(c)) /\ Framed(c) \in ConfigType /\ Alike(Framed(c), c, Tabs)
    BY <1>2, FramedFacts DEF Alike
<1>4. copy' \in [Tabs -> ConfigType] /\ copy'["router"] = Framed(c) /\ \A u \in Tabs \ {"router"} : copy'[u] = copy[u]
    BY <1>1, <1>2, <1>3
<1>5. \A u \in Tabs : Good(copy'[u])
    BY <1>3, <1>4 DEF DataInv
<1>6. ASSUME NEW u \in Tabs, fresh[u]
      PROVE  Alike(copy'[u], file.config, IF edited[u] THEN Tabs \ {u} ELSE Tabs)
  <2>1. Alike(copy[u], file.config, IF edited[u] THEN Tabs \ {u} ELSE Tabs)
      BY <1>6 DEF DataInv
  <2>2. Alike(copy'[u], copy[u], Tabs)
      BY <1>3, <1>4 DEF Alike
  <2> QED
      BY <2>1, <2>2 DEF Alike
<1> QED
    BY <1>4, <1>5, <1>6 DEF DataInv

LEMMA FrameKeepsMarks ==
    ASSUME NEW c, Good(c), NEW left, NEW index, NEW route
    PROVE  Marks(c, left, index, route) <=> Marks(Framed(c), left, index, route)
BY FramedOrder DEF Marks

LEMMA LoadedConfig == DataInv => Good(LoadOrDefault) /\ LoadOrDefault \in ConfigType
    BY Defaults DEF DataInv, LoadOrDefault, Good

--------------------------------------------------------------------------------
(***************************************************************************)
(* The Config tab.                                                         *)
(***************************************************************************)
LEMMA RemoveAtType ==
    ASSUME NEW S, NEW s \in Seq(S), NEW i \in 1..Len(s)
    PROVE  RemoveAt(s, i) \in Seq(S) /\ Len(RemoveAt(s, i)) = Len(s) - 1
<1> DEFINE a == SubSeq(s, 1, i - 1)
           b == SubSeq(s, i + 1, Len(s))
<1>1. a \in Seq(S) /\ Len(a) = i - 1
    OBVIOUS
<1>2. b \in Seq(S) /\ Len(b) = Len(s) - i
    OBVIOUS
<1>3. RemoveAt(s, i) = a \o b
    BY DEF RemoveAt
<1> HIDE DEF a, b
<1>4. a \o b \in Seq(S) /\ Len(a \o b) = Len(a) + Len(b)
    BY <1>1, <1>2
<1> QED
    BY <1>1, <1>2, <1>3, <1>4

LEMMA ConfigChanges ==
    ASSUME DataInv, NEW ps \in Seq(ProviderType),
           Changed("config", [copy["config"] EXCEPT !.providers = ps])
    PROVE  DataInv' /\ copy'["router"] = copy["router"]
<1> DEFINE c == copy["config"]
           d == [c EXCEPT !.providers = ps]
<1>1. "config" \in Tabs /\ "router" \in Tabs /\ "router" # "config" /\ Tabs \ {"config"} = {"router", "settings"}
    BY DEF Tabs
<1>2. Good(c) /\ copy \in [Tabs -> ConfigType]
    BY <1>1 DEF DataInv
<1>3. Good(d) /\ Alike(d, c, Tabs \ {"config"})
    BY <1>1, <1>2, WithProviders DEF Alike
<1>4. Changed("config", d)
    OBVIOUS
<1> HIDE DEF d
<1>5. DataInv' /\ copy' = [copy EXCEPT !["config"] = d]
    BY <1>1, <1>3, <1>4, ChangedKeeps
<1> QED
    BY <1>1, <1>2, <1>5

LEMMA ConfigClicks ==
    ASSUME DataInv, NEW i \in DOMAIN copy["config"].providers,
           TypeProvider(i) \/ ChooseKind(i) \/ ReInfer(i) \/ RemoveProvider(i)
    PROVE  DataInv' /\ copy'["router"] = copy["router"] /\ ConfigUnchanged
<1> DEFINE ps == copy["config"].providers
<1>1. ps \in Seq(ProviderType) /\ i \in 1..Len(ps) /\ ps[i] \in ProviderType
  <2>1. Good(copy["config"])
      BY DEF DataInv, Tabs
  <2>2. ps \in Seq(ProviderType)
      BY <2>1, ConfigFacts DEF Good
  <2> QED
      BY <2>2
<1>2. ASSUME NEW p \in ProviderType, ChangeProvider(i, p)
      PROVE  DataInv' /\ copy'["router"] = copy["router"] /\ ConfigUnchanged
  <2> DEFINE qs == [ps EXCEPT ![i] = p]
  <2>1. qs \in Seq(ProviderType)
      BY <1>1, ExceptType
  <2>2. Changed("config", [copy["config"] EXCEPT !.providers = qs]) /\ ConfigUnchanged
      BY <1>2 DEF ChangeProvider
  <2> HIDE DEF qs
  <2> QED
      BY <2>1, <2>2, ConfigChanges
<1>3. CASE TypeProvider(i)
  <2>1. PICK t \in Texts : ChangeProvider(i, [ps[i] EXCEPT !.name = t[1], !.words = t[2]])
      BY <1>3 DEF TypeProvider
  <2>2. t[1] \in Names /\ t[2] \in SUBSET STRING
      BY DesktopTabsAssumption
  <2>3. [ps[i] EXCEPT !.name = t[1], !.words = t[2]] \in ProviderType
      BY <1>1, <2>2 DEF ProviderType
  <2> QED
      BY <1>2, <2>1, <2>3
<1>4. CASE ChooseKind(i)
  <2>1. PICK kind \in Kinds : ChangeProvider(i, MarkExplicit(ps[i], kind))
      BY <1>4 DEF ChooseKind
  <2>2. kind \in ApiKinds
      BY DesktopTabsAssumption
  <2>3. MarkExplicit(ps[i], kind) \in ProviderType
      BY <1>1, <2>2, Marked
  <2> QED
      BY <1>2, <2>1, <2>3
<1>5. CASE ReInfer(i)
  <2>1. ChangeProvider(i, MarkInferred(ps[i])) /\ MarkInferred(ps[i]) \in ProviderType
      BY <1>1, <1>5, Marked DEF ReInfer
  <2> QED
      BY <1>2, <2>1
<1>6. CASE RemoveProvider(i)
  <2> DEFINE qs == RemoveAt(ps, i)
  <2>1. qs \in Seq(ProviderType)
      BY <1>1, RemoveAtType
  <2>2. Changed("config", [copy["config"] EXCEPT !.providers = qs]) /\ ConfigUnchanged
      BY <1>6 DEF RemoveProvider
  <2> HIDE DEF qs
  <2> QED
      BY <2>1, <2>2, ConfigChanges
<1> QED
    BY <1>3, <1>4, <1>5, <1>6

LEMMA AddsProvider ==
    ASSUME DataInv, AddProvider
    PROVE  DataInv' /\ copy'["router"] = copy["router"] /\ ConfigUnchanged
<1> DEFINE ps == copy["config"].providers
           p == Provider(NoName, {}, <<>>, "OpenAiResponses", "explicit", <<>>)
           qs == Append(ps, p)
<1>1. Good(copy["config"])
    BY DEF DataInv, Tabs
<1>2. ps \in Seq(ProviderType)
    BY <1>1, ConfigFacts DEF Good
<1>3. p \in ProviderType
  <2>1. NoName \in Names
      BY DesktopTabsAssumption
  <2>2. /\ {} \in SUBSET STRING /\ <<>> \in Seq(STRING) /\ <<>> \in Seq(Names)
        /\ "OpenAiResponses" \in ApiKinds \cup {"none"} /\ "explicit" \in {"explicit", "inferred"}
      BY DEF ApiKinds
  <2> HIDE DEF p
  <2>3. p = [name |-> NoName, words |-> {}, use |-> <<>>, api_kind |-> "OpenAiResponses", source |-> "explicit",
             models |-> <<>>]
      BY DEF p, Provider
  <2> QED
      BY <2>1, <2>2, <2>3 DEF ProviderType
<1>4. qs \in Seq(ProviderType)
  <2> HIDE DEF p
  <2> QED
      BY <1>2, <1>3
<1>5. Changed("config", [copy["config"] EXCEPT !.providers = qs]) /\ ConfigUnchanged
    BY DEF AddProvider
<1> HIDE DEF qs
<1> QED
    BY <1>4, <1>5, ConfigChanges

LEMMA ConfigSaves ==
    ASSUME DataInv, ConfigSave
    PROVE  DataInv' /\ copy'["router"] = copy["router"] /\ ConfigUnchanged
<1> DEFINE c == EnsureInferredProviderApiKinds(copy["config"])
           new == [ok |-> TRUE, config |-> c]
<1>1. "config" \in Tabs /\ "router" \in Tabs /\ "router" # "config"
    BY DEF Tabs
<1>2. Good(copy["config"]) /\ copy \in [Tabs -> ConfigType]
    BY <1>1 DEF DataInv
<1>3. Good(c) /\ c \in ConfigType
    BY <1>2, Ensured DEF Good
<1>4. Written(new, {"config"}) /\ copy' = [copy EXCEPT !["config"] = c] /\ ConfigUnchanged
    BY DEF ConfigSave, Saved
<1> HIDE DEF c
<1>5. new \in [ok: BOOLEAN, config: ConfigType] /\ new.config = c
    BY <1>3
<1>6. /\ copy' \in [Tabs -> ConfigType] /\ copy'["config"] = c
      /\ \A t \in Tabs \ {"config"} : copy'[t] = copy[t]
    BY <1>1, <1>2, <1>3, <1>4
<1>7. \A t \in Tabs : Good(copy'[t])
    BY <1>3, <1>6 DEF DataInv
<1>8. \A t \in Tabs : t \in {"config"} => Alike(copy'[t], new.config, Tabs)
    BY <1>5, <1>6 DEF Alike
<1> HIDE DEF new
<1>9. DataInv'
    BY <1>3, <1>4, <1>5, <1>6, <1>7, <1>8, WrittenKeeps
<1> QED
    BY <1>1, <1>4, <1>6, <1>9

LEMMA ConfigRefreshes ==
    ASSUME DataInv, RefreshFromDisk
    PROVE  DataInv' /\ copy'["router"] = copy["router"] /\ ConfigUnchanged
<1>1. "config" \in Tabs /\ "router" \in Tabs /\ "router" # "config" /\ copy \in [Tabs -> ConfigType]
    BY DEF DataInv, Tabs
<1>2. Good(file.config) /\ Loaded("config", file.config) /\ Alike(file.config, file.config, Tabs) /\ ConfigUnchanged
    BY DEF DataInv, RefreshFromDisk, Alike
<1>3. DataInv' /\ copy' = [copy EXCEPT !["config"] = file.config]
    BY <1>1, <1>2, LoadedKeeps
<1> QED
    BY <1>1, <1>2, <1>3

LEMMA ConfigTabKeeps ==
    ASSUME DataInv, ConfigTab
    PROVE  DataInv' /\ copy'["router"] = copy["router"] /\ ConfigUnchanged
<1>1. CASE ConfigSave
    BY <1>1, ConfigSaves
<1>2. CASE RefreshFromDisk \/ ReloadRunningServer
    BY <1>2, ConfigRefreshes DEF ReloadRunningServer
<1>3. CASE AddProvider
    BY <1>3, AddsProvider
<1>4. CASE \E i \in DOMAIN copy["config"].providers :
              TypeProvider(i) \/ ChooseKind(i) \/ ReInfer(i) \/ RemoveProvider(i)
    BY <1>4, ConfigClicks
<1> QED
    BY <1>1, <1>2, <1>3, <1>4 DEF ConfigTab

--------------------------------------------------------------------------------
(***************************************************************************)
(* Settings, presets, the tray menu, and somebody else.                    *)
(***************************************************************************)
LEMMA SettingsTabKeeps ==
    ASSUME DataInv, SettingsTab
    PROVE  DataInv' /\ copy'["router"] = copy["router"] /\ UNCHANGED <<available, selected, picked>>
<1> DEFINE c == copy["settings"]
<1>1. "settings" \in Tabs /\ "router" \in Tabs /\ "router" # "settings" /\ Tabs \ {"settings"} = {"router", "config"}
    BY DEF Tabs
<1>2. Good(c) /\ c \in ConfigType /\ copy \in [Tabs -> ConfigType]
    BY <1>1 DEF DataInv
<1>3. CASE SettingsReload
  <2>1. /\ Loaded("settings", LoadOrDefault) /\ UNCHANGED <<available, selected, picked>>
        /\ file.ok => Alike(LoadOrDefault, file.config, Tabs)
      BY <1>3 DEF SettingsReload, LoadOrDefault, Alike
  <2>2. Good(LoadOrDefault)
      BY LoadedConfig
  <2>3. DataInv' /\ copy' = [copy EXCEPT !["settings"] = LoadOrDefault]
      BY <1>1, <2>1, <2>2, LoadedKeeps
  <2> QED
      BY <1>1, <1>2, <2>1, <2>3
<1>4. CASE SettingsSave
  <2> DEFINE new == [ok |-> TRUE, config |-> c]
  <2>1. Written(new, {"settings"}) /\ UNCHANGED <<copy, available, selected, picked>>
      BY <1>4 DEF SettingsSave, Saved
  <2>2. new \in [ok: BOOLEAN, config: ConfigType] /\ new.config = c
      BY <1>2
  <2>3. /\ copy' \in [Tabs -> ConfigType] /\ \A t \in Tabs : Good(copy'[t])
        /\ \A t \in Tabs : t \in {"settings"} => Alike(copy'[t], new.config, Tabs)
      BY <2>1, <2>2 DEF DataInv, Alike
  <2> HIDE DEF new
  <2>4. DataInv'
      BY <1>2, <2>1, <2>2, <2>3, WrittenKeeps
  <2> QED
      BY <2>1, <2>4
<1>5. CASE EditSettings
  <2>1. PICK port \in Ports : Changed("settings", SetPort(c, port))
      BY <1>5 DEF EditSettings
  <2>2. port \in Nat
      BY DesktopTabsAssumption
  <2>3. Good(SetPort(c, port)) /\ Alike(SetPort(c, port), c, Tabs \ {"settings"})
      BY <1>1, <1>2, <2>2, WithPort DEF Alike
  <2>4. DataInv' /\ copy' = [copy EXCEPT !["settings"] = SetPort(c, port)]
      BY <1>1, <2>1, <2>3, ChangedKeeps
  <2> QED
      BY <1>1, <1>2, <1>5, <2>4 DEF EditSettings
<1> QED
    BY <1>3, <1>4, <1>5 DEF SettingsTab

\* Whoever writes the file and has no copy of his own.
LEMMA OthersWrite ==
    ASSUME DataInv, NEW new \in [ok: BOOLEAN, config: ConfigType], Good(new.config), Written(new, {}),
           UNCHANGED copy
    PROVE  DataInv'
<1>1. copy' \in [Tabs -> ConfigType] /\ \A t \in Tabs : Good(copy'[t])
    BY DEF DataInv
<1>2. \A t \in Tabs : t \in {} => Alike(copy'[t], new.config, Tabs)
    OBVIOUS
<1> QED
    BY <1>1, <1>2, WrittenKeeps

LEMMA FrontedType ==
    ASSUME NEW list \in Seq(CandidateType), NEW route \in Routes
    PROVE  Fronted(list, route) \in Seq(CandidateType)
<1> DEFINE I == {j \in 1..Len(list) : list[j].route = route}
           i == IF I # {} THEN Min(I) ELSE 0
<1>1. I \in SUBSET Nat /\ I \in SUBSET (1..Len(list))
    OBVIOUS
<1>2. I # {} => Min(I) \in I
  <2> HIDE DEF I
  <2> QED
      BY <1>1, LeastOf
<1>3. i = 0 \/ i \in 1..Len(list)
    BY <1>1, <1>2
<1>4. Fronted(list, route) = IF i = 0 THEN <<Candidate(route, TRUE, 1)>> \o list
                             ELSE [list EXCEPT ![1] = list[i], ![i] = list[1]]
    BY DEF Fronted, SelectInSeq
<1> HIDE DEF i
<1>5. CASE i = 0
  <2>1. Candidate(route, TRUE, 1) \in CandidateType
      BY DEF Candidate, CandidateType
  <2> DEFINE first == Candidate(route, TRUE, 1)
  <2>2. first \in CandidateType /\ Fronted(list, route) = <<first>> \o list
      BY <1>4, <1>5, <2>1
  <2> HIDE DEF first
  <2>3. <<first>> \in Seq(CandidateType)
      BY <2>2
  <2> QED
      BY <2>2, <2>3
<1>6. CASE i \in 1..Len(list)
  <2>1. list[i] \in CandidateType /\ list[1] \in CandidateType
      BY <1>6
  <2>2. [list EXCEPT ![1] = list[i]] \in Seq(CandidateType)
      BY <2>1, ExceptType
  <2>3. [[list EXCEPT ![1] = list[i]] EXCEPT ![i] = list[1]] \in Seq(CandidateType)
      BY <2>1, <2>2, ExceptType
  <2>4. i # 0
      BY <1>6
  <2> QED
      BY <1>4, <2>3, <2>4
<1> QED
    BY <1>3, <1>5, <1>6

LEMMA SwitchedIsGood ==
    ASSUME NEW c, Good(c), NEW route \in Routes
    PROVE  Good(Switched(c, route))
<1> DEFINE k == Fronted(Candidates(c), route)
           l == EnsureRoutePool(c).pool[1].limits
           p == [enabled |-> TRUE, limits |-> l, candidates |-> NormalizeRoutePoolPriorities(k), arranged |-> TRUE]
<1>1. c \in ConfigType /\ k \in Seq(CandidateType)
    BY ConfigFacts, FrontedType DEF Good
<1>2. l \in LimitsType
    BY FramedFacts
<1>3. Switched(c, route) = [c EXCEPT !.pool = <<p>>]
    BY DEF Switched, Reordered
<1> HIDE DEF k, l
<1>4. p \in PoolRecord /\ Tidy(p.candidates)
    BY <1>1, <1>2, Renumbered DEF PoolRecord
<1> HIDE DEF p
<1> QED
    BY <1>1, <1>3, <1>4, WithPool

LEMMA OutsideKeeps ==
    ASSUME DataInv, SomebodyWrites \/ ApplyBuiltinProfile \/ SwitchRoutePoolProvider
    PROVE  DataInv' /\ UNCHANGED <<copy, available, selected, picked>>
<1>1. ASSUME NEW new, new.ok \in BOOLEAN, new = [ok |-> new.ok, config |-> new.config], Good(new.config),
             Written(new, {}), UNCHANGED copy
      PROVE  DataInv'
  <2>1. new.config \in ConfigType
      BY <1>1 DEF Good
  <2>2. new \in [ok: BOOLEAN, config: ConfigType]
      BY <1>1, <2>1
  <2> QED
      BY <1>1, <2>2, OthersWrite
<1>2. CASE SomebodyWrites
  <2>1. PICK c \in Files, ok \in BOOLEAN : Written([ok |-> ok, config |-> IF ok THEN c ELSE DefaultConfig], {})
      BY <1>2 DEF SomebodyWrites
  <2> DEFINE d == IF ok THEN c ELSE DefaultConfig
             new == [ok |-> ok, config |-> d]
  <2>2. Good(d)
      BY GivenFiles, Defaults
  <2>3. Written(new, {})
      BY <2>1
  <2> HIDE DEF d
  <2>4. new.ok \in BOOLEAN /\ new = [ok |-> new.ok, config |-> new.config] /\ new.config = d
      OBVIOUS
  <2> HIDE DEF new
  <2>5. UNCHANGED <<copy, available, selected, picked>>
      BY <1>2 DEF SomebodyWrites
  <2> QED
      BY <1>1, <2>2, <2>3, <2>4, <2>5
<1>3. CASE ApplyBuiltinProfile
  <2>1. PICK profile \in Profiles, overwrite \in BOOLEAN :
            Written([ok |-> TRUE, config |-> InstallPreset(profile, LoadOrDefault, overwrite)], {})
      BY <1>3 DEF ApplyBuiltinProfile
  <2> DEFINE d == InstallPreset(profile, LoadOrDefault, overwrite)
             new == [ok |-> TRUE, config |-> d]
  <2>2. Good(d)
      BY LoadedConfig, PresetIsGood
  <2>3. Written(new, {})
      BY <2>1
  <2> HIDE DEF d
  <2>4. new.ok \in BOOLEAN /\ new = [ok |-> new.ok, config |-> new.config] /\ new.config = d
      OBVIOUS
  <2> HIDE DEF new
  <2>5. UNCHANGED <<copy, available, selected, picked>>
      BY <1>3 DEF ApplyBuiltinProfile
  <2> QED
      BY <1>1, <2>2, <2>3, <2>4, <2>5
<1>4. CASE SwitchRoutePoolProvider
  <2>1. PICK route \in menu : Written([ok |-> TRUE, config |-> Switched(LoadOrDefault, route)], {})
      BY <1>4 DEF SwitchRoutePoolProvider
  <2> DEFINE d == Switched(LoadOrDefault, route)
             new == [ok |-> TRUE, config |-> d]
  <2>2. route \in Routes
      BY DEF DataInv
  <2>3. Good(d)
      BY <2>2, LoadedConfig, SwitchedIsGood
  <2>4. Written(new, {})
      BY <2>1
  <2> HIDE DEF d
  <2>5. new.ok \in BOOLEAN /\ new = [ok |-> new.ok, config |-> new.config] /\ new.config = d
      OBVIOUS
  <2> HIDE DEF new
  <2>6. UNCHANGED <<copy, available, selected, picked>>
      BY <1>4 DEF SwitchRoutePoolProvider
  <2> QED
      BY <1>1, <2>3, <2>4, <2>5, <2>6
<1> QED
    BY <1>2, <1>3, <1>4

--------------------------------------------------------------------------------
(***************************************************************************)
(* The Router tab.                                                         *)
(***************************************************************************)
LEMMA RouterCopy ==
    ASSUME DataInv
    PROVE  /\ "router" \in Tabs /\ Good(copy["router"]) /\ copy["router"] \in ConfigType
           /\ copy \in [Tabs -> ConfigType]
BY DEF DataInv, Tabs, Good

LEMMA PoolClick ==
    ASSUME DataInv, NEW p \in PoolRecord, p.arranged => Tidy(p.candidates),
           Changed("router", [Framed(copy["router"]) EXCEPT !.pool = <<p>>])
    PROVE  /\ DataInv' /\ copy'["router"].pool[1] = p /\ Candidates(copy'["router"]) = p.candidates
<1> DEFINE c == copy["router"]
           d == [Framed(c) EXCEPT !.pool = <<p>>]
<1>1. /\ Good(Framed(c)) /\ Framed(c) \in ConfigType
      /\ \A section \in Tabs : Meaning(Framed(c))[section] = Meaning(c)[section]
    BY RouterCopy, FramedFacts
<1>2. Good(d)
    BY <1>1, WithPool
<1>3. d.pool = <<p>> /\ d.providers = Framed(c).providers /\ d.port = Framed(c).port
    BY <1>1 DEF ConfigType
<1>4. Changed("router", d)
    OBVIOUS
<1> HIDE DEF d
<1>5. d.pool # <<>> /\ d.pool[1] = p
    BY <1>3
<1>6. Candidates(d) = p.candidates
    BY <1>5 DEF Candidates
<1>7. Spoken(d) = Spoken(Framed(c))
    BY <1>3 DEF Spoken
<1>8. Meaning(d)["config"] = Meaning(Framed(c))["config"] /\ Meaning(d)["settings"] = Meaning(Framed(c))["settings"]
    BY <1>3, <1>7 DEF Meaning
<1>9. Tabs \ {"router"} = {"config", "settings"} /\ "config" \in Tabs /\ "settings" \in Tabs
    BY DEF Tabs
<1>10. Alike(d, c, Tabs \ {"router"})
    BY <1>1, <1>8, <1>9 DEF Alike
<1>11. DataInv' /\ copy' = [copy EXCEPT !["router"] = d]
    BY <1>2, <1>4, <1>10, RouterCopy, ChangedKeeps
<1>12. copy'["router"] = d
    BY <1>11, RouterCopy
<1> QED
    BY <1>5, <1>6, <1>11, <1>12

LEMMA ListFacts ==
    ASSUME DataInv, NEW list, list = Candidates(Framed(copy["router"]))
    PROVE  /\ list \in Seq(CandidateType) /\ Sorted(list)
           /\ list = ByPriority(Candidates(copy["router"]))
           /\ Framed(copy["router"]).pool[1].arranged => Tidy(list)
           /\ ActiveRoutes(copy["router"]) = {k.route : k \in ToSet(list)}
<1> DEFINE c == copy["router"]
<1>1. /\ list \in Seq(CandidateType) /\ list = ByPriority(Candidates(c))
      /\ Good(Framed(c)) /\ list = Framed(c).pool[1].candidates /\ Framed(c).pool # <<>>
    BY RouterCopy, FramedFacts
<1>2. Sorted(list) /\ ActiveRoutes(Framed(c)) = ActiveRoutes(c)
    BY RouterCopy, FramedOrder
<1>3. Framed(c).pool[1].arranged => Tidy(list)
    BY <1>1 DEF Good
<1>4. ActiveRoutes(c) = {k.route : k \in ToSet(list)}
    BY <1>2 DEF ActiveRoutes
<1> QED
    BY <1>1, <1>2, <1>3, <1>4

LEMMA ListClick ==
    ASSUME DataInv, NEW k \in Seq(CandidateType), NEW arranged \in BOOLEAN, Clicked(k, arranged),
           arranged \/ Framed(copy["router"]).pool[1].arranged => Tidy(k)
    PROVE  /\ DataInv' /\ copy'["router"].pool[1].candidates = k /\ Candidates(copy'["router"]) = k
<1> DEFINE f == Framed(copy["router"])
           b == arranged \/ f.pool[1].arranged
           p == [enabled |-> f.pool[1].enabled, limits |-> f.pool[1].limits, candidates |-> k, arranged |-> b]
           c == WithCandidates(f, k)
           d == IF arranged THEN [c EXCEPT !.pool[1].arranged = TRUE] ELSE c
<1>1. f \in ConfigType /\ f.pool = <<f.pool[1]>> /\ f.pool[1] \in PoolRecord
    BY RouterCopy, FramedFacts
<1> DEFINE q == f.pool[1]
<1>2. PICK x \in BOOLEAN, l \in LimitsType, y \in Seq(CandidateType), z \in BOOLEAN :
          q = [enabled |-> x, limits |-> l, candidates |-> y, arranged |-> z]
  <2> HIDE DEF f
  <2> QED
      BY <1>1 DEF PoolRecord
<1>3. p \in PoolRecord /\ p.candidates = k /\ (p.arranged => Tidy(k))
  <2>1. b => Tidy(k)
      OBVIOUS
  <2>2. b \in BOOLEAN
      OBVIOUS
  <2> HIDE DEF f, b
  <2> QED
      BY <1>2, <2>1, <2>2 DEF PoolRecord
<1>4. c = [f EXCEPT !.pool = <<[q EXCEPT !.candidates = k]>>]
  <2>1. c = [f EXCEPT !.pool = [f.pool EXCEPT ![1] = [q EXCEPT !.candidates = k]]]
      BY DEF WithCandidates
  <2> HIDE DEF f, c
  <2>2. [f.pool EXCEPT ![1] = [q EXCEPT !.candidates = k]] = <<[q EXCEPT !.candidates = k]>>
      BY <1>1
  <2> QED
      BY <2>1, <2>2
<1>5. d = [f EXCEPT !.pool = <<p>>]
  <2>1. CASE arranged
    <3> DEFINE r == [q EXCEPT !.candidates = k]
    <3>1. [r EXCEPT !.arranged = TRUE] = p
      <4>1. b = TRUE
          BY <2>1
      <4> HIDE DEF f, b
      <4>2. p = [enabled |-> q.enabled, limits |-> q.limits, candidates |-> k, arranged |-> TRUE]
          BY <4>1
      <4>3. r = [enabled |-> x, limits |-> l, candidates |-> k, arranged |-> z]
          BY <1>2
      <4> DEFINE yes == TRUE
      <4>4. p = [enabled |-> x, limits |-> l, candidates |-> k, arranged |-> yes]
          BY <1>2, <4>2
      <4> HIDE DEF p, r, yes
      <4>5. [r EXCEPT !.arranged = yes] = p
          BY <4>3, <4>4
      <4> QED
          BY <4>5 DEF yes
    <3> HIDE DEF f, c, p, r
    <3>2. c.pool = <<r>>
        BY <1>1, <1>4 DEF r, ConfigType
    <3>3. d = [c EXCEPT !.pool = [c.pool EXCEPT ![1] = [c.pool[1] EXCEPT !.arranged = TRUE]]]
        BY <2>1
    <3>4. c.pool[1] = r
        BY <3>2
    <3>5. [c.pool EXCEPT ![1] = p] = <<p>>
        BY <3>2
    <3>6. d = [c EXCEPT !.pool = <<p>>]
        BY <3>1, <3>3, <3>4, <3>5
    <3> HIDE DEF d
    <3> QED
        BY <1>1, <1>4, <3>6 DEF ConfigType
  <2>2. CASE ~arranged
    <3>1. [q EXCEPT !.candidates = k] = p
      <4> HIDE DEF f
      <4> QED
          BY <1>2, <2>2
    <3> HIDE DEF f, c, p
    <3> QED
        BY <1>4, <2>2, <3>1
  <2> QED
      BY <2>1, <2>2
<1>6. Changed("router", d)
    BY DEF Clicked
<1> HIDE DEF f, p, d
<1>7. Changed("router", [Framed(copy["router"]) EXCEPT !.pool = <<p>>])
    BY <1>5, <1>6 DEF f
<1> QED
    BY <1>3, <1>7, PoolClick

LEMMA OrderStays ==
    ASSUME NEW c, NEW k \in Seq(CandidateType), Candidates(c) = k, Sorted(k)
    PROVE  ByPriority(Candidates(c)) = k /\ ActiveRoutes(c) = {x.route : x \in ToSet(k)}
BY SortedStays DEF ActiveRoutes

\* Of a list in which candidates have changed, but no routes and no numbers.
LEMMA SameRoutes ==
    ASSUME NEW k \in Seq(CandidateType), NEW m \in Seq(CandidateType), DOMAIN m = DOMAIN k, Len(m) = Len(k),
           \A i \in DOMAIN k : m[i].route = k[i].route /\ m[i].priority = k[i].priority
    PROVE  /\ Sorted(k) => Sorted(m)
           /\ Tidy(k) => Tidy(m)
           /\ {x.route : x \in ToSet(m)} = {x.route : x \in ToSet(k)}
<1>1. (Sorted(k) => Sorted(m)) /\ (Tidy(k) => Tidy(m))
    BY DEF Sorted, Tidy, Distinct
<1>2. {x.route : x \in ToSet(m)} = {m[i].route : i \in DOMAIN m}
    BY DEF ToSet
<1>3. {x.route : x \in ToSet(k)} = {k[i].route : i \in DOMAIN k}
    BY DEF ToSet
<1>4. {m[i].route : i \in DOMAIN m} = {k[i].route : i \in DOMAIN k}
    OBVIOUS
<1> QED
    BY <1>1, <1>2, <1>3, <1>4

\* A change of the pool that leaves its candidates alone.
LEMMA PoolChanges ==
    ASSUME TabsInv, NEW p \in PoolRecord, p.candidates = Framed(copy["router"]).pool[1].candidates,
           p.arranged = Framed(copy["router"]).pool[1].arranged,
           Changed("router", [Framed(copy["router"]) EXCEPT !.pool = <<p>>]),
           UNCHANGED <<available, selected, picked>>
    PROVE  TabsInv'
<1> DEFINE f == Framed(copy["router"])
<1>1. DataInv /\ SelectionInv
    BY DEF TabsInv
<1>2. Candidates(f) = p.candidates
    BY <1>1, RouterCopy, FramedFacts
<1>3. p.arranged => Tidy(p.candidates)
    BY <1>1, <1>2, ListFacts
<1>4. DataInv' /\ Candidates(copy'["router"]) = p.candidates
    BY <1>1, <1>3, PoolClick
<1>5. /\ ByPriority(Candidates(copy'["router"])) = ByPriority(Candidates(copy["router"]))
      /\ ActiveRoutes(copy'["router"]) = ActiveRoutes(copy["router"])
  <2>1. /\ ByPriority(Candidates(f)) = ByPriority(Candidates(copy["router"]))
        /\ ActiveRoutes(f) = ActiveRoutes(copy["router"])
      BY <1>1, RouterCopy, FramedOrder
  <2> QED
      BY <1>2, <1>4, <2>1 DEF ActiveRoutes
<1>6. SelectionInv'
    BY <1>1, <1>5 DEF SelectionInv, Marks
<1> QED
    BY <1>4, <1>6 DEF TabsInv

LEMMA TogglesPool ==
    ASSUME TabsInv, TogglePool
    PROVE  TabsInv'
<1> DEFINE f == Framed(copy["router"])
           q == f.pool[1]
           p == [q EXCEPT !.enabled = ~@]
<1>1. f.pool = <<q>> /\ q \in PoolRecord
    BY RouterCopy, FramedFacts DEF TabsInv
<1>2. p \in PoolRecord /\ p.candidates = q.candidates /\ p.arranged = q.arranged
  <2> HIDE DEF f
  <2> QED
      BY <1>1 DEF PoolRecord
<1>3. Changed("router", [f EXCEPT !.pool = [f.pool EXCEPT ![1] = p]]) /\ UNCHANGED <<available, selected, picked>>
    BY DEF TogglePool
<1>4. [f.pool EXCEPT ![1] = p] = <<p>>
  <2> HIDE DEF p, f
  <2> QED
      BY <1>1
<1> HIDE DEF p
<1> QED
    BY <1>2, <1>3, <1>4, PoolChanges

LEMMA EditsLimits ==
    ASSUME TabsInv, EditLimits
    PROVE  TabsInv'
<1> DEFINE f == Framed(copy["router"])
           q == f.pool[1]
<1>1. f.pool = <<q>> /\ q \in PoolRecord
    BY RouterCopy, FramedFacts DEF TabsInv
<1>2. q.limits \in LimitsType
  <2> HIDE DEF f
  <2> QED
      BY <1>1 DEF PoolRecord
<1>3. PICK n \in Numbers :
          \E new \in {[q.limits EXCEPT !.failure_threshold = n], [q.limits EXCEPT !.ban_seconds = n]} :
              Changed("router", [f EXCEPT !.pool[1].limits = InRange(new)])
    BY DEF EditLimits
<1>4. PICK new \in {[q.limits EXCEPT !.failure_threshold = n], [q.limits EXCEPT !.ban_seconds = n]} :
          Changed("router", [f EXCEPT !.pool[1].limits = InRange(new)])
    BY <1>3
<1>5. new \in LimitsType
  <2>1. n \in Nat
      BY DesktopTabsAssumption
  <2> HIDE DEF f
  <2> QED
      BY <1>2, <2>1 DEF LimitsType
<1>6. InRange(new) \in LimitsType
    BY <1>5, Ranges
<1> DEFINE l == InRange(new)
           p == [q EXCEPT !.limits = l]
<1>7. p \in PoolRecord /\ p.candidates = q.candidates /\ p.arranged = q.arranged
  <2>1. l \in LimitsType
      BY <1>6
  <2> HIDE DEF f, l
  <2> QED
      BY <1>1, <2>1 DEF PoolRecord
<1>8. Changed("router", [f EXCEPT !.pool = [f.pool EXCEPT ![1] = p]])
    BY <1>4
<1>9. [f.pool EXCEPT ![1] = p] = <<p>>
  <2> HIDE DEF p, f
  <2> QED
      BY <1>1
<1>10. UNCHANGED <<available, selected, picked>>
    BY DEF EditLimits
<1> HIDE DEF p
<1> QED
    BY <1>7, <1>8, <1>9, <1>10, PoolChanges

LEMMA TogglesCandidate ==
    ASSUME TabsInv, ToggleCandidate
    PROVE  TabsInv'
<1> DEFINE list == Candidates(Framed(copy["router"]))
<1>1. DataInv /\ SelectionInv
    BY DEF TabsInv
<1>2. PICK i \in DOMAIN list :
          /\ Clicked([list EXCEPT ![i].enabled = ~@], FALSE)
          /\ UNCHANGED <<available, selected, picked>>
    BY DEF ToggleCandidate
<1>3. /\ list \in Seq(CandidateType) /\ Sorted(list) /\ list = ByPriority(Candidates(copy["router"]))
      /\ Framed(copy["router"]).pool[1].arranged => Tidy(list)
      /\ ActiveRoutes(copy["router"]) = {k.route : k \in ToSet(list)}
    BY <1>1, ListFacts
<1> HIDE DEF list
<1> DEFINE m == [list EXCEPT ![i].enabled = ~@]
           x == [list[i] EXCEPT !.enabled = ~@]
<1>4. list[i] \in CandidateType
    BY <1>3
<1>5. x \in CandidateType /\ x.route = list[i].route /\ x.priority = list[i].priority
    BY <1>4 DEF CandidateType
<1>6. m = [list EXCEPT ![i] = x]
    OBVIOUS
<1> HIDE DEF x
<1>7. m \in Seq(CandidateType) /\ DOMAIN m = DOMAIN list /\ Len(m) = Len(list)
    BY <1>3, <1>5, <1>6, ExceptType
<1>8. \A j \in DOMAIN list : m[j].route = list[j].route /\ m[j].priority = list[j].priority
    BY <1>3, <1>5, <1>6
<1>9. Clicked(m, FALSE)
    BY <1>2
<1> HIDE DEF m
<1>10. /\ Sorted(m) /\ Tidy(list) => Tidy(m)
       /\ {k.route : k \in ToSet(m)} = {k.route : k \in ToSet(list)}
    BY <1>3, <1>7, <1>8, SameRoutes
<1>11. FALSE \/ Framed(copy["router"]).pool[1].arranged => Tidy(m)
    BY <1>3, <1>7, <1>8, SameRoutes
<1>12. DataInv' /\ Candidates(copy'["router"]) = m
    BY <1>1, <1>7, <1>9, <1>11, ListClick
<1>13. Sorted(m)
    BY <1>3, <1>7, <1>8, SameRoutes
<1>14. ByPriority(Candidates(copy'["router"])) = m /\ ActiveRoutes(copy'["router"]) = ActiveRoutes(copy["router"])
    BY <1>3, <1>7, <1>10, <1>12, <1>13, OrderStays
<1>15. SelectionInv'
    BY <1>1, <1>2, <1>3, <1>7, <1>8, <1>14 DEF SelectionInv, Marks
<1> QED
    BY <1>12, <1>15 DEF TabsInv

LEMMA LooksAround ==
    ASSUME TabsInv, LookAtRouter \/ RouterSave \/ SelectAvailable \/ SelectInPool
    PROVE  TabsInv'
<1> DEFINE c == copy["router"]
           list == Candidates(Framed(c))
<1>1. DataInv /\ SelectionInv
    BY DEF TabsInv
<1>2. /\ list \in Seq(CandidateType) /\ list = ByPriority(Candidates(c)) /\ Good(c)
      /\ "router" \in Tabs /\ copy \in [Tabs -> ConfigType] /\ c \in ConfigType
    BY <1>1, RouterCopy, ListFacts
<1>3. copy' = [copy EXCEPT !["router"] = Framed(@)]
    BY DEF LookAtRouter, RouterSave, SelectAvailable, SelectInPool
<1>4. copy'["router"] = Framed(c)
    BY <1>2, <1>3
<1>5. DataInv'
  <2>1. CASE LookAtRouter \/ SelectAvailable \/ SelectInPool
    <3>1. UNCHANGED <<file, menu, fresh, edited>>
        BY <2>1 DEF LookAtRouter, SelectAvailable, SelectInPool
    <3> QED
        BY <1>1, <1>3, <3>1, FrameKeeps
  <2>2. CASE RouterSave
    <3> DEFINE new == [ok |-> TRUE, config |-> c]
    <3>1. Written(new, {"router"})
        BY <2>2 DEF RouterSave, Saved
    <3>2. new \in [ok: BOOLEAN, config: ConfigType] /\ new.config = c
        BY <1>2
    <3>3. Good(Framed(c)) /\ Framed(c) \in ConfigType /\ Alike(Framed(c), c, Tabs)
        BY <1>2, FramedFacts DEF Alike
    <3>4. copy' \in [Tabs -> ConfigType] /\ \A u \in Tabs \ {"router"} : copy'[u] = copy[u]
        BY <1>2, <1>3, <3>3
    <3>5. \A t \in Tabs : Good(copy'[t])
        BY <1>1, <1>4, <3>3, <3>4 DEF DataInv
    <3>6. \A t \in Tabs : t \in {"router"} => Alike(copy'[t], new.config, Tabs)
        BY <1>4, <3>2, <3>3
    <3> HIDE DEF new
    <3> QED
        BY <1>1, <1>2, <3>1, <3>2, <3>4, <3>5, <3>6, WrittenKeeps
  <2> QED
      BY <2>1, <2>2
<1>6. Marks(Framed(c), available', selected', picked')
  <2>1. CASE LookAtRouter \/ RouterSave
    <3>1. UNCHANGED <<available, selected, picked>>
        BY <2>1 DEF LookAtRouter, RouterSave
    <3>2. Marks(c, available', selected', picked')
        BY <1>1, <3>1 DEF SelectionInv
    <3> QED
        BY <1>2, <3>2, FrameKeepsMarks
  <2>2. CASE SelectAvailable
    <3>1. PICK r \in AvailableRoutes(c) : available' = <<r>> /\ selected' = 0 /\ picked' = <<>>
        BY <2>2 DEF SelectAvailable, Selects
    <3>2. r \in Routes /\ r \notin ActiveRoutes(c)
      <4>1. r \in RoutePoolRoutes(c) /\ r \notin ActiveRoutes(c)
          BY DEF AvailableRoutes
      <4>2. c.providers \in Seq(ProviderType)
          BY <1>2, ConfigFacts
      <4>3. \A p \in ToSet(c.providers) : p \in ProviderType
          BY <4>2 DEF ToSet
      <4>4. \A p \in ToSet(c.providers) : p.name \in Names /\ \A m \in ToSet(p.models) : m \in Names
        <5>1. \A p \in ToSet(c.providers) : p.name \in Names /\ p.models \in Seq(Names)
            BY <4>3 DEF ProviderType
        <5> QED
            BY <5>1 DEF ToSet
      <4> QED
          BY <4>1, <4>4 DEF RoutePoolRoutes, Routes
    <3>3. Marks(c, available', selected', picked')
        BY <3>1, <3>2 DEF Marks
    <3> QED
        BY <1>2, <3>3, FrameKeepsMarks
  <2>3. CASE SelectInPool
    <3>1. PICK i \in DOMAIN list : available' = <<>> /\ selected' = i /\ picked' = list[i].route
        BY <2>3 DEF SelectInPool, Selects
    <3>2. i \in Nat
        BY <1>2, OfCandidates
    <3>3. Marks(c, available', selected', picked')
        BY <1>2, <3>1, <3>2 DEF Marks
    <3> QED
        BY <1>2, <3>3, FrameKeepsMarks
  <2> QED
      BY <2>1, <2>2, <2>3
<1> QED
    BY <1>4, <1>5, <1>6 DEF TabsInv, SelectionInv

LEMMA ReloadsRouter ==
    ASSUME TabsInv, RouterReload
    PROVE  TabsInv'
<1>1. DataInv
    BY DEF TabsInv
<1>2. Good(LoadOrDefault)
    BY <1>1, LoadedConfig
<1>3. Good(Framed(LoadOrDefault)) /\ (file.ok => Alike(Framed(LoadOrDefault), file.config, Tabs))
    BY <1>2, FramedFacts DEF LoadOrDefault, Alike
<1>4. /\ Loaded("router", Framed(LoadOrDefault))
      /\ available' = <<>> /\ selected' = 0 /\ picked' = <<>>
    BY DEF RouterReload, Selects
<1>5. DataInv'
    BY <1>1, <1>3, <1>4, RouterCopy, LoadedKeeps
<1>6. SelectionInv'
    BY <1>4 DEF SelectionInv, Marks
<1> QED
    BY <1>5, <1>6 DEF TabsInv

LEMMA AddsToPool ==
    ASSUME TabsInv, AddToPool
    PROVE  TabsInv'
<1> DEFINE c == copy["router"]
           list == Candidates(Framed(c))
           route == available[1]
           last == Candidate(route, TRUE, Len(list) + 1)
           m == Append(list, last)
           dense == \A k \in ToSet(list) : k.priority <= Len(list)
<1>1. DataInv /\ SelectionInv
    BY DEF TabsInv
<1>2. /\ list \in Seq(CandidateType) /\ Sorted(list)
      /\ Framed(c).pool[1].arranged => Tidy(list)
      /\ ActiveRoutes(c) = {k.route : k \in ToSet(list)}
    BY <1>1, ListFacts
<1>3. /\ Clicked(IF route \in ActiveRoutes(c) THEN list ELSE m, FALSE)
      /\ available # <<>> /\ available' = <<>>
      /\ selected' = Len(copy'["router"].pool[1].candidates)
      /\ picked' = IF dense THEN route ELSE <<>>
    BY DEF AddToPool, Selects
<1>4. route \in Routes /\ route \notin ActiveRoutes(c)
    BY <1>1, <1>3 DEF SelectionInv, Marks
<1>5. last \in CandidateType /\ last.priority = Len(list) + 1 /\ last.route = route
  <2>1. Len(list) + 1 \in Nat
      BY <1>2
  <2> HIDE DEF list
  <2> QED
      BY <1>4, <2>1 DEF Candidate, CandidateType
<1>6. Clicked(m, FALSE)
    BY <1>3, <1>4
<1> HIDE DEF list, last
<1>7. /\ m \in Seq(CandidateType) /\ Len(m) = Len(list) + 1 /\ m[Len(list) + 1] = last
      /\ \A i \in DOMAIN list : m[i] = list[i]
      /\ DOMAIN m = 1..(Len(list) + 1) /\ DOMAIN list = 1..Len(list) /\ Len(list) \in Nat
      /\ \A i \in DOMAIN list : list[i].priority \in Nat
  <2>1. \A i \in DOMAIN list : list[i].priority \in Nat
      BY <1>2, OfCandidates
  <2>2. /\ m \in Seq(CandidateType) /\ Len(m) = Len(list) + 1 /\ m[Len(list) + 1] = last
        /\ \A i \in DOMAIN list : m[i] = list[i]
        /\ DOMAIN m = 1..(Len(list) + 1) /\ DOMAIN list = 1..Len(list) /\ Len(list) \in Nat
      BY <1>2, <1>5
  <2> QED
      BY <2>1, <2>2
<1> HIDE DEF m
<1>8. dense => \A i \in DOMAIN list : list[i].priority <= Len(list)
    BY DEF ToSet
<1>9. \A i \in DOMAIN m : i \in DOMAIN list \/ i = Len(list) + 1
    BY <1>7
<1>10. dense => Sorted(m)
  <2> SUFFICES ASSUME dense, NEW i \in DOMAIN m, NEW j \in DOMAIN m, i < j
               PROVE  m[i].priority <= m[j].priority
      BY DEF Sorted
  <2>1. i \in DOMAIN list
      BY <1>7
  <2>2. CASE j \in DOMAIN list
      BY <1>2, <1>7, <2>1, <2>2 DEF Sorted
  <2>3. CASE j = Len(list) + 1
    <3>1. list[i].priority <= Len(list) /\ list[i].priority \in Nat
        BY <1>7, <1>8, <2>1
    <3>2. m[i] = list[i] /\ m[j].priority = Len(list) + 1
        BY <1>5, <1>7, <2>1, <2>3
    <3> QED
        BY <1>7, <3>1, <3>2
  <2> QED
      BY <1>9, <2>2, <2>3
<1>11. Tidy(list) => Tidy(m)
  <2> SUFFICES ASSUME Tidy(list) PROVE Tidy(m)
      OBVIOUS
  <2>1. \A i \in DOMAIN list : m[i] = list[i] /\ list[i].priority \in Nat /\ list[i].priority <= Len(list)
      BY <1>7 DEF Tidy
  <2>2. m[Len(list) + 1].priority = Len(list) + 1
      BY <1>5, <1>7
  <2>3. \A i, j \in DOMAIN list : m[i].priority = m[j].priority => i = j
      BY <2>1 DEF Tidy, Distinct
  <2>4. Distinct(m)
    <3> SUFFICES ASSUME NEW i \in DOMAIN m, NEW j \in DOMAIN m, m[i].priority = m[j].priority PROVE i = j
        BY DEF Distinct
    <3>1. CASE i \in DOMAIN list /\ j \in DOMAIN list
        BY <2>3, <3>1
    <3>2. CASE i \in DOMAIN list /\ j = Len(list) + 1
        BY <1>7, <2>1, <2>2, <3>2
    <3>3. CASE i = Len(list) + 1 /\ j \in DOMAIN list
        BY <1>7, <2>1, <2>2, <3>3
    <3> QED
        BY <1>9, <3>1, <3>2, <3>3
  <2>5. \A i \in DOMAIN m : m[i].priority <= Len(m)
      BY <1>7, <1>9, <2>1, <2>2
  <2> QED
      BY <2>4, <2>5 DEF Tidy
<1>12. FALSE \/ Framed(copy["router"]).pool[1].arranged => Tidy(m)
    BY <1>2, <1>11
<1>13. DataInv' /\ copy'["router"].pool[1].candidates = m /\ Candidates(copy'["router"]) = m
    BY <1>1, <1>6, <1>7, <1>12, ListClick
<1>14. selected' = Len(list) + 1 /\ selected' \in Nat /\ selected' \in DOMAIN m
    BY <1>3, <1>7, <1>13
<1>15. ASSUME dense
       PROVE  /\ selected' \in DOMAIN ByPriority(Candidates(copy'["router"]))
              /\ ByPriority(Candidates(copy'["router"]))[selected'].route = picked'
  <2>1. ByPriority(Candidates(copy'["router"])) = m
      BY <1>7, <1>10, <1>13, <1>15, OrderStays
  <2>2. picked' = route
      BY <1>3, <1>15
  <2> HIDE DEF dense
  <2> QED
      BY <1>5, <1>7, <1>14, <2>1, <2>2
<1>16. ~dense => picked' = <<>>
    BY <1>3
<1> HIDE DEF dense
<1>17. SelectionInv'
    BY <1>3, <1>14, <1>15, <1>16 DEF SelectionInv, Marks
<1> QED
    BY <1>13, <1>17 DEF TabsInv

LEMMA RemovesFromPool ==
    ASSUME TabsInv, RemoveFromPool
    PROVE  TabsInv'
<1> DEFINE list == Candidates(Framed(copy["router"]))
           m == RemoveAt(list, selected)
<1>1. DataInv
    BY DEF TabsInv
<1>2. list \in Seq(CandidateType)
    BY <1>1, ListFacts
<1>3. /\ selected \in DOMAIN list /\ Clicked(NormalizeRoutePoolPriorities(m), TRUE)
      /\ available' = <<>> /\ selected' = 0 /\ picked' = <<>>
    BY DEF RemoveFromPool, Selects
<1> HIDE DEF list
<1>4. m \in Seq(CandidateType)
  <2>1. selected \in 1..Len(list)
      BY <1>2, <1>3
  <2> QED
      BY <1>2, <2>1, RemoveAtType
<1> HIDE DEF m
<1>5. NormalizeRoutePoolPriorities(m) \in Seq(CandidateType) /\ Tidy(NormalizeRoutePoolPriorities(m))
    BY <1>4, Renumbered
<1>6. DataInv'
    BY <1>1, <1>3, <1>5, ListClick
<1>7. SelectionInv'
    BY <1>3 DEF SelectionInv, Marks
<1> QED
    BY <1>6, <1>7 DEF TabsInv

LEMMA MovesSelected ==
    ASSUME TabsInv, NEW by \in {-1, 1}, MoveSelected(by)
    PROVE  TabsInv'
<1> DEFINE list == Candidates(Framed(copy["router"]))
           j == selected + by
           m == [[list EXCEPT ![selected] = list[j]] EXCEPT ![j] = list[selected]]
           k == NormalizeRoutePoolPriorities(m)
<1>1. DataInv /\ SelectionInv /\ selected \in Nat
    BY DEF TabsInv, SelectionInv, Marks
<1>2. list \in Seq(CandidateType) /\ list = ByPriority(Candidates(copy["router"]))
    BY <1>1, ListFacts
<1>3. /\ selected # 0 /\ selected \in DOMAIN list /\ j \in DOMAIN list
      /\ Clicked(k, TRUE) /\ selected' = j /\ UNCHANGED <<available, picked>>
    BY DEF MoveSelected, Swapped
<1> HIDE DEF list, j
<1>4. list[selected] \in CandidateType /\ list[j] \in CandidateType /\ j \in Nat
    BY <1>2, <1>3, OfCandidates
<1> DEFINE s == [list EXCEPT ![selected] = list[j]]
<1>5. s \in Seq(CandidateType) /\ DOMAIN s = DOMAIN list
    BY <1>2, <1>4, ExceptType
<1> HIDE DEF s
<1>6. [s EXCEPT ![j] = list[selected]] \in Seq(CandidateType) /\ DOMAIN [s EXCEPT ![j] = list[selected]] = DOMAIN list
    BY <1>4, <1>5, ExceptType
<1>7. [s EXCEPT ![j] = list[selected]][j] = list[selected]
    BY <1>3, <1>5
<1>8. m \in Seq(CandidateType) /\ DOMAIN m = DOMAIN list /\ m[j] = list[selected]
    BY <1>6, <1>7 DEF s
<1> HIDE DEF m
<1>9. /\ k \in Seq(CandidateType) /\ Tidy(k) /\ Sorted(k) /\ DOMAIN k = DOMAIN list
      /\ k[j].route = list[selected].route
    BY <1>3, <1>8, Renumbered
<1> HIDE DEF k
<1>10. DataInv' /\ Candidates(copy'["router"]) = k
    BY <1>1, <1>3, <1>9, ListClick
<1>11. ByPriority(Candidates(copy'["router"])) = k
    BY <1>9, <1>10, OrderStays
<1>12. available = <<>>
    BY <1>1, <1>3 DEF SelectionInv, Marks
<1>13. picked # <<>> => list[selected].route = picked
    BY <1>1, <1>2 DEF SelectionInv, Marks
<1>14. SelectionInv'
    BY <1>3, <1>4, <1>9, <1>11, <1>12, <1>13 DEF SelectionInv, Marks
<1> QED
    BY <1>10, <1>14 DEF TabsInv

LEMMA RouterTabKeeps ==
    ASSUME TabsInv, RouterTab
    PROVE  TabsInv'
<1>1. CASE MoveUp
    BY <1>1, MovesSelected DEF MoveUp
<1>2. CASE MoveDown
    BY <1>2, MovesSelected DEF MoveDown
<1> QED
    BY <1>1, <1>2, TogglesPool, EditsLimits, TogglesCandidate, LooksAround, ReloadsRouter, AddsToPool, RemovesFromPool
    DEF RouterTab

--------------------------------------------------------------------------------
(***************************************************************************)
(* The invariant of the tabs and what follows from it.                     *)
(***************************************************************************)
LEMMA InitTabs == TabsInit => TabsInv
<1> SUFFICES ASSUME TabsInit PROVE TabsInv
    OBVIOUS
<1>1. PICK c \in Files, ok \in BOOLEAN : file = [ok |-> ok, config |-> IF ok THEN c ELSE DefaultConfig]
    BY DEF TabsInit
<1> DEFINE d == IF ok THEN c ELSE DefaultConfig
<1>2. Good(d) /\ d \in ConfigType
    BY GivenFiles, Defaults DEF Good
<1>3. LoadOrDefault = d /\ file.config = d /\ file.ok = ok
    BY <1>1 DEF LoadOrDefault
<1>4. file = [ok |-> ok, config |-> d]
    BY <1>1
<1> HIDE DEF d
<1>5. /\ copy = [t \in Tabs |-> d] /\ menu = ProviderRoutes(d)
      /\ fresh = [t \in Tabs |-> file.ok] /\ edited = [t \in Tabs |-> FALSE]
      /\ available = <<>> /\ selected = 0 /\ picked = <<>>
    BY <1>3 DEF TabsInit
<1>6. menu \subseteq Routes
  <2>1. d.providers \in Seq(ProviderType)
      BY <1>2, ConfigFacts
  <2>2. \A p \in ToSet(d.providers) : p.name \in Names /\ p.models \in Seq(Names)
    <3>1. \A p \in ToSet(d.providers) : p \in ProviderType
        BY <2>1 DEF ToSet
    <3> QED
        BY <3>1 DEF ProviderType
  <2>3. \A p \in ToSet(d.providers) : p.models # <<>> => p.models[1] \in Names
      BY <2>2
  <2> QED
      BY <1>5, <2>2, <2>3 DEF ProviderRoutes, Routes
<1>7. file \in [ok: BOOLEAN, config: ConfigType]
    BY <1>2, <1>4
<1>8. \A t \in Tabs : copy[t] = d /\ Alike(copy[t], file.config, Tabs) /\ ~edited[t]
    BY <1>3, <1>5 DEF Alike
<1>9. DataInv
    BY <1>2, <1>3, <1>5, <1>6, <1>7, <1>8 DEF DataInv
<1>10. SelectionInv
    BY <1>5 DEF SelectionInv, Marks
<1> QED
    BY <1>9, <1>10 DEF TabsInv

LEMMA NextTabs == TabsInv /\ [TabsNext]_tabVars => TabsInv'
<1> SUFFICES ASSUME TabsInv, [TabsNext]_tabVars PROVE TabsInv'
    OBVIOUS
<1>1. DataInv /\ SelectionInv
    BY DEF TabsInv
<1>2. ASSUME DataInv', copy'["router"] = copy["router"], UNCHANGED <<available, selected, picked>>
      PROVE  TabsInv'
    BY <1>1, <1>2 DEF TabsInv, SelectionInv, Marks
<1>3. CASE SomebodyWrites \/ ApplyBuiltinProfile \/ SwitchRoutePoolProvider
    BY <1>1, <1>2, <1>3, OutsideKeeps
<1>4. CASE ConfigTab
    BY <1>1, <1>2, <1>4, ConfigTabKeeps DEF ConfigUnchanged
<1>5. CASE RouterTab
    BY <1>5, RouterTabKeeps
<1>6. CASE SettingsTab
    BY <1>1, <1>2, <1>6, SettingsTabKeeps
<1>7. CASE UNCHANGED tabVars
    BY <1>1, <1>7 DEF tabVars, TabsInv, DataInv, SelectionInv, Marks
<1> QED
    BY <1>3, <1>4, <1>5, <1>6, <1>7 DEF TabsNext

LEMMA TabsInvariance == TabsSpec => []TabsInv
    BY InitTabs, NextTabs, PTL DEF TabsSpec

\* The route that the user has selected in the pool stays the selected one.  This is a
\* part of the invariant, with what makes it inductive: that a route which is selected
\* among those not in the pool is not in the pool.  After an addition to a pool whose
\* numbers have gaps no route counts as selected (see AddToPool).
THEOREM TheSelectionStays == TabsSpec => []SelectionStays
<1>1. TabsInv => SelectionStays
    BY DEF TabsInv, SelectionInv, Marks, SelectionStays
<1> QED
    BY <1>1, TabsInvariance, PTL

\* The server tries the routes of a pool that has been arranged in the order in which
\* the Router tab shows them: the candidates of such a pool have numbers of their own,
\* in the file and in every copy, so that the server's names decide nothing.
THEOREM TheArrangedOrderIsServed == TabsSpec => []ArrangedOrderIsServed
<1>1. ASSUME NEW c, Good(c), c.pool # <<>>, c.pool[1].arranged, c.pool[1].enabled
      PROVE  Served(c) = Shown(c)
  <2>1. Candidates(c) = c.pool[1].candidates /\ Tidy(c.pool[1].candidates)
      BY <1>1 DEF Candidates, Good
  <2>2. Candidates(c) \in Seq(CandidateType)
      BY <1>1, ConfigFacts DEF Good
  <2>3. Arranged(Candidates(c), TRUE) = ByPriority(Candidates(c))
      BY <2>1, <2>2, NamesDoNotMatter DEF Tidy, ByPriority
  <2> QED
      BY <1>1, <2>3 DEF Served, Shown
<1>2. TabsInv => \A c \in {file.config} \cup {copy[t] : t \in Tabs} : Good(c)
    BY DEF TabsInv, DataInv
<1>3. TabsInv => ArrangedOrderIsServed
    BY <1>1, <1>2 DEF ArrangedOrderIsServed
<1> QED
    BY <1>3, TabsInvariance, PTL

--------------------------------------------------------------------------------
(***************************************************************************)
(* The limits of the pool.  They are not among what the copies must agree  *)
(* on with the file, since the Router tab brings them into range unasked.  *)
(***************************************************************************)
LimitsInv ==
    \A t \in Tabs : fresh[t] /\ (t # "router" \/ ~edited[t]) =>
        ServedLimits(copy[t]) \in Saveable(ServedLimits(file.config), t)

LEMMA SameLimits ==
    ASSUME NEW c, NEW d, d.pool = c.pool
    PROVE  ServedLimits(d) = ServedLimits(c)
BY DEF ServedLimits

LEMMA FramedLimits ==
    ASSUME NEW c, Good(c)
    PROVE  ServedLimits(Framed(c)) = InRange(ServedLimits(c)) /\ ServedLimits(c) \in LimitsType
<1> DEFINE d == Framed(c)
           l == IF c.pool = <<>> THEN DefaultLimits ELSE c.pool[1].limits
<1>1. d.pool # <<>> /\ d.pool[1].limits = InRange(l) /\ l \in LimitsType
    BY FramedFacts
<1>2. /\ ServedLimits(d) =
             [failure_threshold |-> IF d.pool[1].limits.failure_threshold = 0 THEN 1
                                    ELSE d.pool[1].limits.failure_threshold,
              ban_seconds       |-> IF d.pool[1].limits.ban_seconds = 0 THEN 1 ELSE d.pool[1].limits.ban_seconds]
      /\ ServedLimits(c) =
             [failure_threshold |-> IF l.failure_threshold = 0 THEN 1 ELSE l.failure_threshold,
              ban_seconds       |-> IF l.ban_seconds = 0 THEN 1 ELSE l.ban_seconds]
    BY <1>1 DEF ServedLimits
<1> HIDE DEF d, l
<1>3. l.failure_threshold \in Nat /\ l.ban_seconds \in Nat
    BY <1>1 DEF LimitsType
<1>4. ServedLimits(c) \in LimitsType
    BY <1>2, <1>3 DEF LimitsType
<1>5. \A n \in Nat, most \in {100, 86400} :
         Clamped(n, most) # 0 /\ Clamped(n, most) = Clamped(IF n = 0 THEN 1 ELSE n, most)
    BY DEF Clamped
<1>6. ServedLimits(d) = InRange(ServedLimits(c))
    BY <1>1, <1>2, <1>3, <1>5 DEF InRange
<1> QED
    BY <1>4, <1>6 DEF d

LEMMA InitLimits == TabsInit => LimitsInv
<1> SUFFICES ASSUME TabsInit, NEW t \in Tabs, fresh[t]
             PROVE  ServedLimits(copy[t]) \in Saveable(ServedLimits(file.config), t)
    BY DEF LimitsInv
<1>1. file.ok /\ copy[t] = LoadOrDefault
    BY DEF TabsInit
<1>2. copy[t] = file.config
    BY <1>1 DEF LoadOrDefault
<1> QED
    BY <1>2 DEF Saveable

\* The limits in a copy that comes from the file, as it may be seen by a frame of the tab.
LEMMA FramedLimitsStay ==
    ASSUME NEW c, Good(c), NEW l \in LimitsType, ServedLimits(c) \in Saveable(l, "router")
    PROVE  ServedLimits(Framed(c)) \in Saveable(l, "router")
BY FramedLimits, Ranges DEF Saveable

\* A copy that is changed keeps its limits, if it is not the Router tab's.
LEMMA ChangedLimits ==
    ASSUME DataInv, LimitsInv, NEW t \in Tabs, NEW c, Changed(t, c), t # "router" => c.pool = copy[t].pool
    PROVE  LimitsInv'
<1>1. /\ copy' = [copy EXCEPT ![t] = c] /\ edited' = [edited EXCEPT ![t] = TRUE]
      /\ file' = file /\ fresh' = fresh
      /\ copy \in [Tabs -> ConfigType] /\ edited \in [Tabs -> BOOLEAN]
    BY DEF Changed, DataInv
<1>2. ASSUME NEW u \in Tabs, fresh'[u], u # "router" \/ ~edited'[u]
      PROVE  ServedLimits(copy'[u]) \in Saveable(ServedLimits(file'.config), u)
  <2>1. CASE u = t
    <3>1. u # "router" /\ copy'[u] = c /\ c.pool = copy[u].pool /\ fresh[u]
        BY <1>1, <1>2, <2>1
    <3>2. ServedLimits(c) = ServedLimits(copy[u])
        BY <3>1, SameLimits
    <3> QED
        BY <1>1, <3>1, <3>2 DEF LimitsInv
  <2>2. CASE u # t
    <3>1. copy'[u] = copy[u] /\ edited'[u] = edited[u] /\ fresh[u]
        BY <1>1, <1>2, <2>2
    <3> QED
        BY <1>1, <1>2, <3>1 DEF LimitsInv
  <2> QED
      BY <2>1, <2>2
<1> QED
    BY <1>2 DEF LimitsInv

LEMMA LoadedLimits ==
    ASSUME DataInv, LimitsInv, NEW t \in Tabs, NEW c, Loaded(t, c),
           file.ok => ServedLimits(c) \in Saveable(ServedLimits(file.config), t)
    PROVE  LimitsInv'
<1>1. /\ copy' = [copy EXCEPT ![t] = c] /\ edited' = [edited EXCEPT ![t] = FALSE]
      /\ file' = file /\ fresh' = [fresh EXCEPT ![t] = file.ok]
      /\ copy \in [Tabs -> ConfigType] /\ edited \in [Tabs -> BOOLEAN] /\ fresh \in [Tabs -> BOOLEAN]
    BY DEF Loaded, DataInv
<1>2. ASSUME NEW u \in Tabs, fresh'[u], u # "router" \/ ~edited'[u]
      PROVE  ServedLimits(copy'[u]) \in Saveable(ServedLimits(file'.config), u)
  <2>1. CASE u = t
    <3>1. copy'[u] = c /\ file.ok
        BY <1>1, <1>2, <2>1
    <3> QED
        BY <1>1, <2>1, <3>1
  <2>2. CASE u # t
    <3>1. copy'[u] = copy[u] /\ edited'[u] = edited[u] /\ fresh[u]
        BY <1>1, <1>2, <2>2
    <3> QED
        BY <1>1, <1>2, <3>1 DEF LimitsInv
  <2> QED
      BY <2>1, <2>2
<1> QED
    BY <1>2 DEF LimitsInv

LEMMA SavedLimits ==
    ASSUME NEW t \in Tabs, NEW c, Saved(t, c), ServedLimits(copy'[t]) \in Saveable(ServedLimits(c), t)
    PROVE  LimitsInv'
<1>1. file' = [ok |-> TRUE, config |-> c] /\ fresh' = [u \in Tabs |-> u \in {t}]
    BY DEF Saved, Written
<1>2. file'.config = c /\ \A u \in Tabs : fresh'[u] => u = t
    BY <1>1
<1> QED
    BY <1>2 DEF LimitsInv

LEMMA ConfigLimits ==
    ASSUME DataInv, LimitsInv, ConfigTab
    PROVE  LimitsInv'
<1> DEFINE c == copy["config"]
<1>1. "config" \in Tabs /\ "config" # "router" /\ Good(c) /\ c \in ConfigType /\ copy \in [Tabs -> ConfigType]
    BY DEF Tabs, DataInv, Good
<1>2. \A ps : [c EXCEPT !.providers = ps].pool = c.pool
    BY <1>1 DEF ConfigType
<1>3. ASSUME NEW ps, Changed("config", [c EXCEPT !.providers = ps])
      PROVE  LimitsInv'
  <2> DEFINE d == [c EXCEPT !.providers = ps]
  <2>1. Changed("config", d) /\ d.pool = c.pool
      BY <1>2, <1>3
  <2> HIDE DEF d
  <2> QED
      BY <1>1, <2>1, ChangedLimits
<1>4. CASE ConfigSave
  <2> DEFINE d == EnsureInferredProviderApiKinds(c)
  <2>1. d.pool = c.pool
      BY <1>2 DEF EnsureInferredProviderApiKinds
  <2>2. Saved("config", d) /\ copy' = [copy EXCEPT !["config"] = d]
      BY <1>4 DEF ConfigSave
  <2> HIDE DEF d
  <2>3. copy'["config"] = d
      BY <1>1, <2>2
  <2>4. ServedLimits(copy'["config"]) \in Saveable(ServedLimits(d), "config")
      BY <2>3 DEF Saveable
  <2> QED
      BY <1>1, <2>2, <2>4, SavedLimits
<1>5. CASE RefreshFromDisk \/ ReloadRunningServer
  <2>1. Loaded("config", file.config)
      BY <1>5 DEF RefreshFromDisk, ReloadRunningServer
  <2>2. ServedLimits(file.config) \in Saveable(ServedLimits(file.config), "config")
      BY DEF Saveable
  <2> QED
      BY <1>1, <2>1, <2>2, LoadedLimits
<1>6. CASE AddProvider
    BY <1>3, <1>6 DEF AddProvider
<1>7. ASSUME NEW i, NEW p, ChangeProvider(i, p)
      PROVE  LimitsInv'
  <2> DEFINE ps == [c.providers EXCEPT ![i] = p]
  <2>1. Changed("config", [c EXCEPT !.providers = ps])
      BY <1>7 DEF ChangeProvider
  <2> HIDE DEF ps
  <2> QED
      BY <1>3, <2>1
<1>8. CASE \E i \in DOMAIN c.providers : TypeProvider(i) \/ ChooseKind(i) \/ ReInfer(i) \/ RemoveProvider(i)
  <2>1. PICK i \in DOMAIN c.providers : TypeProvider(i) \/ ChooseKind(i) \/ ReInfer(i) \/ RemoveProvider(i)
      BY <1>8
  <2>2. CASE TypeProvider(i) \/ ChooseKind(i) \/ ReInfer(i)
    <3>1. TypeProvider(i) => \E p : ChangeProvider(i, p)
        BY Zenon DEF TypeProvider
    <3>2. ChooseKind(i) => \E p : ChangeProvider(i, p)
        BY Zenon DEF ChooseKind
    <3>3. ReInfer(i) => \E p : ChangeProvider(i, p)
        BY Zenon DEF ReInfer
    <3> QED
        BY <1>7, <2>2, <3>1, <3>2, <3>3
  <2>3. CASE RemoveProvider(i)
    <3> DEFINE ps == RemoveAt(c.providers, i)
    <3>1. Changed("config", [c EXCEPT !.providers = ps])
        BY <2>3 DEF RemoveProvider
    <3> HIDE DEF ps
    <3> QED
        BY <1>3, <3>1
  <2> QED
      BY <2>1, <2>2, <2>3
<1> QED
    BY <1>4, <1>5, <1>6, <1>8 DEF ConfigTab

LEMMA SettingsLimits ==
    ASSUME DataInv, LimitsInv, SettingsTab
    PROVE  LimitsInv'
<1> DEFINE c == copy["settings"]
<1>1. "settings" \in Tabs /\ "settings" # "router" /\ c \in ConfigType
    BY DEF Tabs, DataInv
<1>2. CASE SettingsReload
  <2>1. Loaded("settings", LoadOrDefault) /\ (file.ok => LoadOrDefault = file.config)
      BY <1>2 DEF SettingsReload, LoadOrDefault
  <2>2. file.ok => ServedLimits(LoadOrDefault) \in Saveable(ServedLimits(file.config), "settings")
      BY <2>1 DEF Saveable
  <2> QED
      BY <1>1, <2>1, <2>2, LoadedLimits
<1>3. CASE SettingsSave
  <2>1. Saved("settings", c) /\ copy' = copy
      BY <1>3 DEF SettingsSave
  <2>2. ServedLimits(copy'["settings"]) \in Saveable(ServedLimits(c), "settings")
      BY <2>1 DEF Saveable
  <2> QED
      BY <1>1, <2>1, <2>2, SavedLimits
<1>4. CASE EditSettings
  <2>1. PICK port \in Ports : Changed("settings", SetPort(c, port))
      BY <1>4 DEF EditSettings
  <2>2. SetPort(c, port).pool = c.pool
      BY <1>1 DEF SetPort, ConfigType
  <2> QED
      BY <1>1, <2>1, <2>2, ChangedLimits
<1> QED
    BY <1>2, <1>3, <1>4 DEF SettingsTab

LEMMA RouterLimits ==
    ASSUME DataInv, LimitsInv, RouterTab
    PROVE  LimitsInv'
<1> DEFINE c == copy["router"]
<1>1. "router" \in Tabs /\ Good(c) /\ copy \in [Tabs -> ConfigType]
    BY RouterCopy
<1>2. ASSUME NEW d, Changed("router", d)
      PROVE  LimitsInv'
    BY <1>1, <1>2, ChangedLimits
<1>3. CASE LookAtRouter \/ SelectAvailable \/ SelectInPool
  <2>1. copy' = [copy EXCEPT !["router"] = Framed(@)] /\ UNCHANGED <<file, fresh, edited>>
      BY <1>3 DEF LookAtRouter, SelectAvailable, SelectInPool
  <2>2. copy'["router"] = Framed(c) /\ \A u \in Tabs \ {"router"} : copy'[u] = copy[u]
      BY <1>1, <2>1
  <2>3. ASSUME NEW u \in Tabs, fresh[u], u # "router" \/ ~edited[u]
        PROVE  ServedLimits(copy'[u]) \in Saveable(ServedLimits(file.config), u)
    <3>1. ServedLimits(copy[u]) \in Saveable(ServedLimits(file.config), u)
        BY <2>3 DEF LimitsInv
    <3>2. ServedLimits(file.config) \in LimitsType
        BY FramedLimits DEF DataInv
    <3>3. CASE u = "router"
        BY <1>1, <2>2, <3>1, <3>2, <3>3, FramedLimitsStay
    <3>4. CASE u # "router"
        BY <2>2, <3>1, <3>4
    <3> QED
        BY <3>3, <3>4
  <2> QED
      BY <2>1, <2>3 DEF LimitsInv
<1>4. CASE RouterSave
  <2>1. Saved("router", c) /\ copy'["router"] = Framed(c)
      BY <1>1, <1>4 DEF RouterSave
  <2>2. ServedLimits(copy'["router"]) \in Saveable(ServedLimits(c), "router")
      BY <1>1, <2>1, FramedLimits DEF Saveable
  <2> QED
      BY <1>1, <2>1, <2>2, SavedLimits
<1>5. CASE RouterReload
  <2>1. Loaded("router", Framed(LoadOrDefault)) /\ Good(file.config)
      BY <1>5 DEF RouterReload, DataInv
  <2>2. file.ok => LoadOrDefault = file.config
      BY DEF LoadOrDefault
  <2>3. file.ok => ServedLimits(Framed(LoadOrDefault)) \in Saveable(ServedLimits(file.config), "router")
      BY <2>1, <2>2, FramedLimits DEF Saveable
  <2> QED
      BY <1>1, <2>1, <2>3, LoadedLimits
<1>6. ASSUME NEW k, NEW b, Clicked(k, b)
      PROVE  LimitsInv'
    BY <1>2, <1>6 DEF Clicked
<1>7. CASE TogglePool \/ EditLimits
  <2>1. \E d : Changed("router", d)
      BY <1>7 DEF TogglePool, EditLimits
  <2> QED
      BY <1>2, <2>1
<1>8. CASE ToggleCandidate \/ AddToPool \/ RemoveFromPool \/ MoveUp \/ MoveDown
  <2>1. \E k, b : Clicked(k, b)
      BY <1>8 DEF ToggleCandidate, AddToPool, RemoveFromPool, MoveUp, MoveDown, MoveSelected
  <2> QED
      BY <1>6, <2>1
<1> QED
    BY <1>3, <1>4, <1>5, <1>7, <1>8 DEF RouterTab

LEMMA NextLimits == TabsInv /\ LimitsInv /\ [TabsNext]_tabVars => LimitsInv'
<1> SUFFICES ASSUME TabsInv, LimitsInv, [TabsNext]_tabVars PROVE LimitsInv'
    OBVIOUS
<1>1. DataInv
    BY DEF TabsInv
<1>2. CASE SomebodyWrites \/ ApplyBuiltinProfile \/ SwitchRoutePoolProvider
  <2>1. \E new : Written(new, {})
      BY <1>2 DEF SomebodyWrites, ApplyBuiltinProfile, SwitchRoutePoolProvider
  <2>2. \A t \in Tabs : ~fresh'[t]
      BY <2>1 DEF Written
  <2> QED
      BY <2>2 DEF LimitsInv
<1>3. CASE UNCHANGED tabVars
    BY <1>3 DEF tabVars, LimitsInv
<1> QED
    BY <1>1, <1>2, <1>3, ConfigLimits, RouterLimits, SettingsLimits DEF TabsNext

LEMMA LimitsInvariance == TabsSpec => []LimitsInv
    BY InitLimits, NextLimits, TabsInvariance, PTL DEF TabsSpec

\* A tab that is up to date changes, when it saves, only what the user has edited in
\* it: what the tab means is what the file means, except for what was edited, and except
\* for limits of the pool that the Router tab has brought into range.
THEOREM TheSavesAreFaithful == TabsSpec => SavesAreFaithful
<1>1. ASSUME TabsInv, TabsNext, NEW t \in Tabs, writes' # writes, fresh[t], fresh'[t]
      PROVE  /\ \A section \in Tabs : Meaning(file'.config)[section] = Meaning(copy[t])[section]
             /\ ServedLimits(file'.config) = ServedLimits(copy[t])
  <2>1. DataInv
      BY <1>1 DEF TabsInv
  <2>3. \A u \in Tabs : \A c : Saved(u, c) => t = u /\ file'.config = c
    <3> SUFFICES ASSUME NEW u \in Tabs, NEW c, Saved(u, c) PROVE t = u /\ file'.config = c
        OBVIOUS
    <3>1. file' = [ok |-> TRUE, config |-> c] /\ fresh' = [v \in Tabs |-> v \in {u}]
        BY DEF Saved, Written
    <3>2. t \in {u}
        BY <1>1, <3>1
    <3> QED
        BY <3>1, <3>2
  <2>4. \A new : ~Written(new, {})
      BY <1>1 DEF Written
  <2>5. \A u \in Tabs : \A c : ~Changed(u, c) /\ ~Loaded(u, c)
      BY <1>1 DEF Changed, Loaded
  <2>6. "config" \in Tabs /\ "router" \in Tabs /\ "settings" \in Tabs
      BY DEF Tabs
  <2>7. CASE SomebodyWrites \/ ApplyBuiltinProfile \/ SwitchRoutePoolProvider
      BY <2>4, <2>7 DEF SomebodyWrites, ApplyBuiltinProfile, SwitchRoutePoolProvider
  <2>8. CASE ConfigTab
    <3>1. ConfigSave
      <4>1. ~RefreshFromDisk /\ ~ReloadRunningServer /\ ~AddProvider
          BY <2>5, <2>6 DEF RefreshFromDisk, ReloadRunningServer, AddProvider
      <4>2. \A i, p : ~ChangeProvider(i, p)
          BY <2>5, <2>6 DEF ChangeProvider
      <4>3. \A i : ~TypeProvider(i)
          BY <4>2, Zenon DEF TypeProvider
      <4>4. \A i : ~ChooseKind(i)
          BY <4>2, Zenon DEF ChooseKind
      <4>5. \A i : ~ReInfer(i)
          BY <4>2, Zenon DEF ReInfer
      <4>6. \A i : ~RemoveProvider(i)
          BY <2>5, <2>6, Zenon DEF RemoveProvider
      <4> QED
          BY <2>8, <4>1, <4>3, <4>4, <4>5, <4>6 DEF ConfigTab
    <3>2. t = "config" /\ file'.config = EnsureInferredProviderApiKinds(copy["config"])
        BY <2>3, <2>6, <3>1 DEF ConfigSave
    <3>3. Good(copy["config"]) /\ copy["config"] \in ConfigType
        BY <2>1, <2>6 DEF DataInv
    <3>4. EnsureInferredProviderApiKinds(copy["config"]).pool = copy["config"].pool
        BY <3>3 DEF EnsureInferredProviderApiKinds, ConfigType
    <3> QED
        BY <3>2, <3>3, <3>4, Ensured, SameLimits
  <2>9. CASE RouterTab
    <3>1. RouterSave
      <4>1. ~RouterReload /\ \A k, b : ~Clicked(k, b)
          BY <2>5, <2>6 DEF RouterReload, Clicked
      <4>2. ~LookAtRouter /\ ~SelectAvailable /\ ~SelectInPool
          BY <1>1 DEF LookAtRouter, SelectAvailable, SelectInPool
      <4>3. ~TogglePool /\ ~EditLimits
          BY <2>5, <2>6 DEF TogglePool, EditLimits
      <4> QED
          BY <2>9, <4>1, <4>2, <4>3
          DEF RouterTab, ToggleCandidate, AddToPool, RemoveFromPool, MoveUp, MoveDown, MoveSelected
    <3>2. t = "router" /\ file'.config = copy["router"]
        BY <2>3, <2>6, <3>1 DEF RouterSave
    <3> QED
        BY <3>2
  <2>10. CASE SettingsTab
    <3>1. SettingsSave
        BY <2>5, <2>6, <2>10 DEF SettingsTab, SettingsReload, EditSettings
    <3>2. t = "settings" /\ file'.config = copy["settings"]
        BY <2>3, <2>6, <3>1 DEF SettingsSave
    <3> QED
        BY <3>2
  <2> QED
      BY <1>1, <2>7, <2>8, <2>9, <2>10 DEF TabsNext
<1>2. ASSUME TabsInv, LimitsInv, TabsNext, NEW t \in Tabs, writes' # writes, fresh[t], fresh'[t]
      PROVE  /\ \A section \in Tabs : section # t \/ ~edited[t] =>
                   Meaning(file'.config)[section] = Meaning(file.config)[section]
             /\ t # "router" \/ ~edited[t] =>
                   ServedLimits(file'.config) \in Saveable(ServedLimits(file.config), t)
  <2>1. Alike(copy[t], file.config, IF edited[t] THEN Tabs \ {t} ELSE Tabs)
      BY <1>2 DEF TabsInv, DataInv
  <2>2. \A section \in Tabs : section # t \/ ~edited[t] => Meaning(copy[t])[section] = Meaning(file.config)[section]
      BY <2>1 DEF Alike
  <2>3. t # "router" \/ ~edited[t] => ServedLimits(copy[t]) \in Saveable(ServedLimits(file.config), t)
      BY <1>2 DEF LimitsInv
  <2> QED
      BY <1>1, <1>2, <2>2, <2>3
<1> DEFINE Faithful ==
        \A t \in Tabs : writes' # writes /\ fresh[t] /\ fresh'[t] =>
            /\ \A section \in Tabs : section # t \/ ~edited[t] =>
                  Meaning(file'.config)[section] = Meaning(file.config)[section]
            /\ t # "router" \/ ~edited[t] =>
                  ServedLimits(file'.config) \in Saveable(ServedLimits(file.config), t)
<1>3. TabsInv /\ LimitsInv /\ [TabsNext]_tabVars => [Faithful]_tabVars
    BY <1>2
<1>4. TabsSpec => [][Faithful]_tabVars
    BY <1>3, TabsInvariance, LimitsInvariance, PTL DEF TabsSpec
<1> QED
    BY <1>4 DEF SavesAreFaithful

================================================================================
