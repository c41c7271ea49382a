--------------------------- MODULE ConversationProofs ---------------------------
(***************************************************************************)
(* Proofs about what a request has of the conversation: for any providers  *)
(* with any transformers, any clients and conversations of any length, all *)
(* that was said reaches the provider, once and in order.                  *)
(***************************************************************************)
EXTENDS ExchangeProofs

--------------------------------------------------------------------------------
(***************************************************************************)
(* What the messages of a list have, counted from 1 in their order.        *)
(***************************************************************************)
Upward(S) == \A p, q \in S : Earlier(p, q) => p.of < q.of

OfAll(S) == {p.of : p \in S}

CountedTo(parts, n) == Numbers(All(parts)) = 1..n /\ Ascending(All(parts))

LEMMA Among ==
    ASSUME NEW f, NEW t
    PROVE  t \in All(f) <=> \E i \in DOMAIN f : \E p \in f[i] : t = [message |-> i, part |-> p]
    BY DEF All

LEMMA AmongNumbers ==
    ASSUME NEW f, NEW x
    PROVE  x \in Numbers(All(f)) <=> \E i \in DOMAIN f : x \in OfAll(f[i])
<1>1. ASSUME x \in Numbers(All(f))
      PROVE  \E i \in DOMAIN f : x \in OfAll(f[i])
  <2>1. PICK t \in All(f) : x = t.part.of
    BY <1>1 DEF Numbers
  <2>2. PICK i \in DOMAIN f : \E p \in f[i] : t = [message |-> i, part |-> p]
    BY <2>1, Among
  <2>3. PICK p \in f[i] : t = [message |-> i, part |-> p]
    BY <2>2
  <2>4. x = p.of
    BY <2>1, <2>3
  <2> QED
    BY <2>4 DEF OfAll
<1>2. ASSUME NEW i \in DOMAIN f, x \in OfAll(f[i])
      PROVE  x \in Numbers(All(f))
  <2>1. PICK p \in f[i] : x = p.of
    BY <1>2 DEF OfAll
  <2> DEFINE t == [message |-> i, part |-> p]
  <2>2. t \in All(f) /\ t.part.of = x
    BY <2>1, Among
  <2> QED
    BY <2>2 DEF Numbers
<1> QED
    BY <1>1, <1>2

\* In ascending order: within each message, and from one message to the next ones.
LEMMA AscendingParts ==
    ASSUME NEW N \in Nat, NEW f, DOMAIN f = 1..N
    PROVE  Ascending(All(f)) <=>
              /\ \A i \in 1..N : Upward(f[i])
              /\ \A i, j \in 1..N : i < j => \A x \in OfAll(f[i]), y \in OfAll(f[j]) : x < y
<1>1. ASSUME Ascending(All(f)), NEW i \in 1..N
      PROVE  Upward(f[i])
  <2> SUFFICES ASSUME NEW p \in f[i], NEW q \in f[i], Earlier(p, q)
               PROVE  p.of < q.of
    BY DEF Upward
  <2> DEFINE t == [message |-> i, part |-> p]
             u == [message |-> i, part |-> q]
  <2>1. t \in All(f) /\ u \in All(f)
    BY Among
  <2>2. Before(t, u)
    BY DEF Before
  <2>3. t.part.of < u.part.of
    BY <1>1, <2>1, <2>2 DEF Ascending
  <2> QED
    BY <2>3
<1>2. ASSUME Ascending(All(f)), NEW i \in 1..N, NEW j \in 1..N, i < j, NEW x \in OfAll(f[i]), NEW y \in OfAll(f[j])
      PROVE  x < y
  <2>1. PICK p \in f[i], q \in f[j] : x = p.of /\ y = q.of
    BY DEF OfAll
  <2> DEFINE t == [message |-> i, part |-> p]
             u == [message |-> j, part |-> q]
  <2>2. t \in All(f) /\ u \in All(f)
    BY Among
  <2>3. Before(t, u)
    BY <1>2 DEF Before
  <2>4. t.part.of < u.part.of
    BY <1>2, <2>2, <2>3 DEF Ascending
  <2> QED
    BY <2>1, <2>4
<1>3. ASSUME \A i \in 1..N : Upward(f[i]),
             \A i, j \in 1..N : i < j => \A x \in OfAll(f[i]), y \in OfAll(f[j]) : x < y
      PROVE  Ascending(All(f))
  <2> SUFFICES ASSUME NEW t \in All(f), NEW u \in All(f), Before(t, u)
               PROVE  t.part.of < u.part.of
    BY DEF Ascending
  <2>1. PICK i \in 1..N : \E p \in f[i] : t = [message |-> i, part |-> p]
    BY Among
  <2>2. PICK j \in 1..N : \E q \in f[j] : u = [message |-> j, part |-> q]
    BY Among
  <2>6. PICK p \in f[i] : t = [message |-> i, part |-> p]
    BY <2>1
  <2>7. PICK q \in f[j] : u = [message |-> j, part |-> q]
    BY <2>2
  <2>3. i < j \/ (i = j /\ Earlier(p, q))
    BY <2>6, <2>7 DEF Before
  <2>4. p.of \in OfAll(f[i]) /\ q.of \in OfAll(f[j])
    BY DEF OfAll
  <2>5. p.of < q.of
    BY <1>3, <2>3, <2>4 DEF Upward
  <2> QED
    BY <2>6, <2>7, <2>5
<1> QED
    BY <1>1, <1>2, <1>3

\* More of them.
LEMMA CountedOn ==
    ASSUME NEW L \in Nat, NEW M \in Nat, NEW f, NEW g, NEW n \in Nat, NEW m \in Nat,
           DOMAIN f = 1..L, DOMAIN g = 1..(L + M), \A i \in 1..L : g[i] = f[i], CountedTo(f, n),
           \A i \in 1..M : Upward(g[L + i]),
           \A i, j \in 1..M : i < j => \A x \in OfAll(g[L + i]), y \in OfAll(g[L + j]) : x < y,
           \A i \in 1..M : OfAll(g[L + i]) \subseteq (n + 1)..(n + m),
           \A x \in (n + 1)..(n + m) : \E i \in 1..M : x \in OfAll(g[L + i])
    PROVE  CountedTo(g, n + m)
<1>1. \A i \in 1..(L + M) : i \in 1..L \/ (i - L \in 1..M /\ L + (i - L) = i)
    OBVIOUS
<1>2. 1..L \subseteq 1..(L + M) /\ \A i \in 1..M : L + i \in 1..(L + M)
    OBVIOUS
<1>3. \A i \in 1..L : OfAll(f[i]) \subseteq 1..n
    BY AmongNumbers DEF CountedTo
<1>4. /\ \A i \in 1..L : Upward(f[i])
      /\ \A i, j \in 1..L : i < j => \A x \in OfAll(f[i]), y \in OfAll(f[j]) : x < y
    BY AscendingParts DEF CountedTo
<1>5. \A i \in 1..(L + M) : Upward(g[i])
    BY <1>1, <1>4
<1>6. ASSUME NEW i \in 1..(L + M), NEW j \in 1..(L + M), i < j, NEW x \in OfAll(g[i]), NEW y \in OfAll(g[j])
      PROVE  x < y
  <2>1. CASE j \in 1..L
    <3>1. i \in 1..L
      BY <1>6, <2>1
    <3> QED
      BY <1>4, <1>6, <2>1, <3>1
  <2>2. CASE j - L \in 1..M /\ i \in 1..L
    <3>1. x \in 1..n
      BY <1>3, <1>6, <2>2
    <3>2. y \in (n + 1)..(n + m)
      <4>1. j - L \in 1..M /\ L + (j - L) = j
        BY <2>2
      <4>2. OfAll(g[L + (j - L)]) \subseteq (n + 1)..(n + m)
        BY <4>1
      <4> QED
        BY <1>6, <4>1, <4>2
    <3> QED
      BY <3>1, <3>2
  <2>3. CASE j - L \in 1..M /\ i - L \in 1..M
    <3> DEFINE a == i - L
               b == j - L
    <3>1. a < b /\ L + a = i /\ L + b = j
      BY <1>6
    <3> HIDE DEF a, b
    <3>2. a \in 1..M /\ b \in 1..M
      BY <2>3 DEF a, b
    <3> QED
      BY <1>6, <3>1, <3>2
  <2> QED
    BY <1>1, <2>1, <2>2, <2>3
<1>7. Ascending(All(g))
  <2>1. L + M \in Nat
    OBVIOUS
  <2> QED
    BY <1>5, <1>6, <2>1, AscendingParts
<1>8. ASSUME NEW x
      PROVE  x \in Numbers(All(g)) <=> x \in 1..(n + m)
  <2>1. x \in Numbers(All(g)) <=> \E i \in 1..(L + M) : x \in OfAll(g[i])
    BY AmongNumbers
  <2>2. x \in Numbers(All(f)) <=> \E i \in 1..L : x \in OfAll(f[i])
    BY AmongNumbers
  <2>3. x \in Numbers(All(f)) <=> x \in 1..n
    BY DEF CountedTo
  <2>4. x \in 1..(n + m) <=> x \in 1..n \/ x \in (n + 1)..(n + m)
    OBVIOUS
  <2>5. (\E i \in 1..(L + M) : x \in OfAll(g[i])) <=>
            (\E i \in 1..L : x \in OfAll(f[i])) \/ (\E i \in 1..M : x \in OfAll(g[L + i]))
    BY <1>1, <1>2
  <2>6. x \in (n + 1)..(n + m) <=> \E i \in 1..M : x \in OfAll(g[L + i])
    OBVIOUS
  <2> QED
    BY <2>1, <2>2, <2>3, <2>4, <2>5, <2>6
<1> QED
    BY <1>7, <1>8 DEF CountedTo

--------------------------------------------------------------------------------
(***************************************************************************)
(* A list of messages says the same as another one, after some messages    *)
(* that say nothing of it.                                                 *)
(***************************************************************************)
AsMany(S2, S) == OfAll(S2) = OfAll(S) /\ (Upward(S) => Upward(S2))

SomeOfThem(S2, S) == OfAll(S2) \subseteq OfAll(S) /\ (Upward(S) => Upward(S2))

LEMMA CountedAgain ==
    ASSUME NEW s \in Nat, NEW N \in Nat, NEW f, NEW g, NEW n,
           DOMAIN f = 1..N, DOMAIN g = 1..(s + N), \A i \in 1..s : g[i] = {},
           \A i \in 1..N : AsMany(g[s + i], f[i]), CountedTo(f, n)
    PROVE  CountedTo(g, n)
<1>1. \A i \in 1..(s + N) : i \in 1..s \/ (i - s \in 1..N /\ s + (i - s) = i)
    OBVIOUS
<1>2. \A i \in 1..N : s + i \in 1..(s + N)
    OBVIOUS
<1>3. /\ \A i \in 1..N : Upward(f[i])
      /\ \A i, j \in 1..N : i < j => \A x \in OfAll(f[i]), y \in OfAll(f[j]) : x < y
    BY AscendingParts DEF CountedTo
<1>4. \A i \in 1..s : Upward(g[i]) /\ OfAll(g[i]) = {}
    BY DEF Upward, OfAll
<1>5. \A i \in 1..N : Upward(g[s + i]) /\ OfAll(g[s + i]) = OfAll(f[i])
    BY <1>3 DEF AsMany
<1>6. \A i \in 1..(s + N) : Upward(g[i])
    BY <1>1, <1>4, <1>5
<1>7. ASSUME NEW i \in 1..(s + N), NEW j \in 1..(s + N), i < j, NEW x \in OfAll(g[i]), NEW y \in OfAll(g[j])
      PROVE  x < y
  <2> DEFINE a == i - s
             b == j - s
  <2>1. i \notin 1..s /\ j \notin 1..s
    BY <1>4
  <2>2. a \in 1..N /\ b \in 1..N /\ s + a = i /\ s + b = j /\ a < b
    BY <1>1, <1>7, <2>1
  <2> HIDE DEF a, b
  <2>3. x \in OfAll(f[a]) /\ y \in OfAll(f[b])
    BY <1>5, <1>7, <2>2
  <2> QED
    BY <1>3, <2>2, <2>3
<1>8. Ascending(All(g))
  <2>1. s + N \in Nat
    OBVIOUS
  <2> QED
    BY <1>6, <1>7, <2>1, AscendingParts
<1>9. ASSUME NEW x
      PROVE  x \in Numbers(All(g)) <=> x \in Numbers(All(f))
  <2>1. x \in Numbers(All(g)) <=> \E i \in 1..(s + N) : x \in OfAll(g[i])
    BY AmongNumbers
  <2>2. x \in Numbers(All(f)) <=> \E i \in 1..N : x \in OfAll(f[i])
    BY AmongNumbers
  <2>3. (\E i \in 1..(s + N) : x \in OfAll(g[i])) <=> \E i \in 1..N : x \in OfAll(f[i])
    <3>1. ASSUME NEW i \in 1..(s + N), x \in OfAll(g[i])
          PROVE  \E k \in 1..N : x \in OfAll(f[k])
      <4>1. i - s \in 1..N /\ s + (i - s) = i
        BY <1>1, <1>4, <3>1
      <4> QED
        BY <1>5, <3>1, <4>1
    <3>2. ASSUME NEW k \in 1..N, x \in OfAll(f[k])
          PROVE  \E i \in 1..(s + N) : x \in OfAll(g[i])
      BY <1>2, <1>5, <3>2
    <3> QED
      BY <3>1, <3>2
  <2> QED
    BY <2>1, <2>2, <2>3
<1> QED
    BY <1>8, <1>9 DEF CountedTo

LEMMA JoinedParts ==
    ASSUME NEW s, NEW t, Listed(s), Listed(t)
    PROVE  /\ Len(s \o t) = Len(s) + Len(t)
           /\ \A i \in 1..Len(s) : (s \o t)[i] = s[i]
           /\ \A i \in 1..Len(t) : (s \o t)[Len(s) + i] = t[i]
<1> DEFINE S == {s[i] : i \in DOMAIN s} \cup {t[i] : i \in DOMAIN t}
<1>1. s \in Seq(S) /\ t \in Seq(S)
  <2>1. s \in [1..Len(s) -> S] /\ t \in [1..Len(t) -> S] /\ Len(s) \in Nat /\ Len(t) \in Nat
    BY DEF Listed
  <2> QED
    BY <2>1
<1> HIDE DEF S
<1> QED
    BY <1>1

Silent(m) ==
    /\ CallsIn(m) = {} /\ AnswersIn(m) = {} /\ PicturesIn(m) = {}
    /\ WordsIn(m, "said") = {} /\ WordsIn(m, "picture") = {}

SaysTheSame(m2, m) ==
    /\ CallsIn(m2) = CallsIn(m) /\ AnswersIn(m2) = AnswersIn(m) /\ PicturesIn(m2) = PicturesIn(m)
    /\ WordsIn(m2, "said") = WordsIn(m, "said") /\ WordsIn(m2, "picture") = WordsIn(m, "picture")

FirstParts(S) == {p \in S : \A q \in S : q = p \/ Earlier(p, q)}

\* The answers that are left: for a chat provider, the first of those in the message.
AnswersLeft(S2, S, form) ==
    IF form = "chat" THEN OfAll(S2) = OfAll(FirstParts(S)) /\ Upward(S2) /\ (S # {} => S2 # {})
    ELSE AsMany(S2, S)

InForm(m, form) == \A p \in CallsIn(m) \cup AnswersIn(m) : FormOf(p) = form

\* The calls and the answers of the one are all in some form.
SaysAsMuch(m2, m, form) ==
    /\ AsMany(CallsIn(m2), CallsIn(m)) /\ AnswersLeft(AnswersIn(m2), AnswersIn(m), form) /\ InForm(m2, form)
    /\ AsMany(PicturesIn(m2), PicturesIn(m))
    /\ AsMany(WordsIn(m2, "said"), WordsIn(m, "said"))
    /\ AsMany(WordsIn(m2, "picture"), WordsIn(m, "picture"))

FollowsAfter(U, L, s, form) ==
    /\ Listed(U) /\ Listed(L) /\ Len(U) = s + Len(L)
    /\ \A i \in 1..s : Silent(U[i])
    /\ \A i \in 1..Len(L) : SaysAsMuch(U[s + i], L[i], form)

Follows(U, L, form) == \E s \in Nat : FollowsAfter(U, L, s, form)

LEMMA LeftAreSome ==
    ASSUME NEW form, NEW S2, NEW S, AnswersLeft(S2, S, form)
    PROVE  SomeOfThem(S2, S)
    BY DEF AnswersLeft, SomeOfThem, AsMany, FirstParts, OfAll

LEMMA StillFollows ==
    ASSUME NEW form, NEW U, NEW L, Follows(U, L, form), NEW system, Listed(system), NEW V, Listed(V), Len(V) = Len(U),
           \A i \in 1..Len(system) : Silent(system[i]),
           \A i \in 1..Len(U) : SaysTheSame(V[i], U[i])
    PROVE  Follows(system \o V, L, form)
<1> DEFINE W == system \o V
           r == Len(system)
<1>1. PICK s \in Nat : FollowsAfter(U, L, s, form)
    BY DEF Follows
<1>2. /\ Listed(U) /\ Listed(L) /\ Len(U) = s + Len(L) /\ Len(L) \in Nat
      /\ \A i \in 1..s : Silent(U[i])
      /\ \A i \in 1..Len(L) : SaysAsMuch(U[s + i], L[i], form)
    BY <1>1 DEF FollowsAfter, Listed
<1>3. r \in Nat /\ Len(V) = s + Len(L)
    BY <1>2 DEF Listed
<1>4. /\ Listed(W) /\ Len(W) = r + (s + Len(L))
      /\ \A i \in 1..r : W[i] = system[i]
      /\ \A i \in 1..(s + Len(L)) : W[r + i] = V[i]
  <2>1. Listed(system) /\ Listed(V)
    OBVIOUS
  <2>2. Listed(system \o V)
    BY ONLY <2>1, JoinedLists
  <2>3. /\ Len(system \o V) = Len(system) + Len(V)
        /\ \A i \in 1..Len(system) : (system \o V)[i] = system[i]
        /\ \A i \in 1..Len(V) : (system \o V)[Len(system) + i] = V[i]
    BY ONLY <2>1, JoinedParts
  <2> QED
    BY <1>3, <2>2, <2>3
<1> HIDE DEF W, r
<1>5. r + s \in Nat /\ Len(W) = (r + s) + Len(L)
    BY <1>2, <1>3, <1>4
<1>6. ASSUME NEW i \in 1..(r + s)
      PROVE  Silent(W[i])
  <2>1. CASE i \in 1..r
    BY <1>4, <2>1 DEF r
  <2>2. CASE i \notin 1..r
    <3> DEFINE k == i - r
    <3>1. k \in 1..s /\ r + k = i /\ k \in 1..(s + Len(L))
      BY <1>2, <1>3, <2>2
    <3> HIDE DEF k
    <3>2. W[i] = V[k] /\ SaysTheSame(V[k], U[k]) /\ Silent(U[k])
      BY <1>2, <1>4, <3>1
    <3> QED
      BY <3>2 DEF SaysTheSame, Silent
  <2> QED
    BY <2>1, <2>2
<1>7. ASSUME NEW i \in 1..Len(L)
      PROVE  SaysAsMuch(W[(r + s) + i], L[i], form)
  <2>1. s + i \in 1..(s + Len(L)) /\ (r + s) + i = r + (s + i)
    BY <1>2, <1>3
  <2>2. W[(r + s) + i] = V[s + i] /\ SaysTheSame(V[s + i], U[s + i]) /\ SaysAsMuch(U[s + i], L[i], form)
    BY <1>2, <1>4, <2>1
  <2> QED
    BY <2>2 DEF SaysTheSame, SaysAsMuch, InForm
<1>8. FollowsAfter(W, L, r + s, form)
    BY <1>2, <1>4, <1>5, <1>6, <1>7 DEF FollowsAfter
<1> QED
    BY <1>5, <1>8 DEF Follows, W

--------------------------------------------------------------------------------
(***************************************************************************)
(* Transformers leave what the messages say as it is.                      *)
(***************************************************************************)
ToolTypes == {"tool_use", "tool_result"}
PictureTypes == {"image", "image_url", "input_image"}

Plain(m) ==
    "content" \in DOMAIN m =>
        /\ ~(IsText(m.content) /\ IsBlocks(m.content))
        /\ IsBlocks(m.content) =>
              /\ Listed(m.content.blocks)
              /\ \A i \in DOMAIN m.content.blocks :
                    "text" \in DOMAIN m.content.blocks[i] =>
                        m.content.blocks[i].type \notin ToolTypes \cup PictureTypes

LEMMA SameContent ==
    ASSUME NEW m2, NEW m, ContentOf(m2) = ContentOf(m),
           \A f \in {"tool_calls", "tool_call_id", "id", "call_id"} :
              /\ f \in DOMAIN m2 <=> f \in DOMAIN m
              /\ f \in DOMAIN m => m2[f] = m[f]
    PROVE  SaysTheSame(m2, m)
<1>1. BlocksIn(m2) = BlocksIn(m) /\ Texts(m2) = Texts(m)
    BY DEF BlocksIn, Texts
<1>2. \A types : Those(m2, types) = Those(m, types)
    BY <1>1 DEF Those
<1>3. \A kind : WordsIn(m2, kind) = WordsIn(m, kind)
    BY <1>1 DEF WordsIn
<1>4. PicturesIn(m2) = PicturesIn(m)
    BY <1>1, <1>2 DEF PicturesIn
<1>5. CallsIn(m2) = CallsIn(m)
    BY <1>1, <1>2 DEF CallsIn
<1>6. AnswersIn(m2) = AnswersIn(m)
    BY <1>1, <1>2 DEF AnswersIn
<1> QED
    BY <1>3, <1>4, <1>5, <1>6 DEF SaysTheSame

\* The same texts, and the same blocks of tools and of pictures.
LEMMA SameBlocks ==
    ASSUME NEW m2, NEW m, Texts(m2) = Texts(m),
           \A types \in SUBSET (ToolTypes \cup PictureTypes) : Those(m2, types) = {} /\ Those(m, types) = {},
           \A f \in {"tool_calls", "tool_call_id", "id", "call_id"} :
              /\ f \in DOMAIN m2 <=> f \in DOMAIN m
              /\ f \in DOMAIN m => m2[f] = m[f]
    PROVE  SaysTheSame(m2, m)
<1>1. \A kind : WordsIn(m2, kind) = WordsIn(m, kind)
    BY DEF WordsIn
<1>2. /\ Those(m2, {"tool_use"}) = {} /\ Those(m, {"tool_use"}) = {}
      /\ Those(m2, {"tool_result"}) = {} /\ Those(m, {"tool_result"}) = {}
      /\ Those(m2, {"image", "image_url", "input_image"}) = {} /\ Those(m, {"image", "image_url", "input_image"}) = {}
    BY DEF ToolTypes, PictureTypes
<1>3. PicturesIn(m2) = PicturesIn(m)
    BY <1>2 DEF PicturesIn
<1>4. CallsIn(m2) = CallsIn(m)
    BY <1>2 DEF CallsIn
<1>5. AnswersIn(m2) = AnswersIn(m)
    BY <1>2 DEF AnswersIn
<1> QED
    BY <1>1, <1>3, <1>4, <1>5 DEF SaysTheSame

LEMMA FlatContentSays ==
    ASSUME NEW m, Plain(m)
    PROVE  SaysTheSame(FlatContent(m), m) /\ Plain(FlatContent(m))
<1>1. CASE /\ "content" \in DOMAIN m /\ IsBlocks(m.content)
           /\ Len(m.content.blocks) = 1 /\ "text" \in DOMAIN m.content.blocks[1]
  <2> DEFINE bs == m.content.blocks
             n  == Put(m, "content", Text(bs[1].text))
  <2>1. FlatContent(m) = n
    BY <1>1 DEF FlatContent
  <2>2. /\ ContentOf(n) = Text(bs[1].text) /\ ContentOf(m) = m.content
        /\ IsText(ContentOf(n)) /\ ~IsBlocks(ContentOf(n)) /\ ContentOf(n).text = bs[1].text
    BY <1>1 DEF ContentOf, Put, Joined, Text, IsText, IsBlocks
  <2>3. /\ DOMAIN bs = {1} /\ ~IsText(m.content) /\ "text" \in DOMAIN bs[1]
        /\ bs[1].type \notin ToolTypes \cup PictureTypes
    BY <1>1 DEF Plain, Listed
  <2>4. BlocksIn(n) = <<>> /\ BlocksIn(m) = bs
    BY <1>1, <2>2 DEF BlocksIn
  <2>5. Texts(n) = <<bs[1].text>>
    BY <2>2 DEF Texts
  <2>6. Texts(m) = [i \in {1} |-> bs[1].text]
    BY <2>2, <2>3, <2>4 DEF Texts
  <2>7. [i \in {1} |-> bs[1].text] = <<bs[1].text>>
    OBVIOUS
  <2>8. \A types \in SUBSET (ToolTypes \cup PictureTypes) : Those(n, types) = {} /\ Those(m, types) = {}
    BY <2>3, <2>4 DEF Those
  <2>9. \A f \in {"tool_calls", "tool_call_id", "id", "call_id"} :
           (f \in DOMAIN n <=> f \in DOMAIN m) /\ (f \in DOMAIN m => n[f] = m[f])
    BY DEF Put, Joined
  <2>10. Plain(n)
    BY <2>2 DEF Plain, Put, Joined, ContentOf
  <2> HIDE DEF n, bs
  <2> QED
    BY <2>1, <2>5, <2>6, <2>7, <2>8, <2>9, <2>10, SameBlocks
<1>2. CASE FlatContent(m) = m
    BY <1>2 DEF SaysTheSame
<1> QED
    BY <1>1, <1>2 DEF FlatContent

LEMMA GeminiMessageSays ==
    ASSUME NEW m, Plain(m)
    PROVE  SaysTheSame(GeminiMessage(m), m)
<1> DEFINE modelled == IF "role" \in DOMAIN m /\ m.role = "assistant" THEN Put(m, "role", "model") ELSE m
<1>1. /\ DOMAIN modelled = DOMAIN m
      /\ \A f \in DOMAIN m : f # "role" => modelled[f] = m[f]
    BY DEF Put, Joined
<1>2. CASE "content" \notin DOMAIN m
  <2>1. GeminiMessage(m) = modelled
    BY <1>2 DEF GeminiMessage
  <2>2. ContentOf(modelled) = ContentOf(m)
    BY <1>1, <1>2 DEF ContentOf
  <2> HIDE DEF modelled
  <2> QED
    BY <1>1, <2>1, <2>2, SameContent
<1>3. CASE "content" \in DOMAIN m
  <2> DEFINE parts == IF IsText(m.content) THEN Blocks(<<[type |-> "part", text |-> m.content.text]>>) ELSE m.content
             n     == Put(Drop(modelled, {"content"}), "parts", parts)
  <2>1. GeminiMessage(m) = n
    BY <1>3 DEF GeminiMessage
  <2> HIDE DEF modelled
  <2>2. ContentOf(n) = parts /\ ContentOf(m) = m.content
    BY <1>3 DEF ContentOf, Put, Joined, Drop, Restrict
  <2>3. \A f \in {"tool_calls", "tool_call_id", "id", "call_id"} :
           (f \in DOMAIN n <=> f \in DOMAIN m) /\ (f \in DOMAIN m => n[f] = m[f])
    BY <1>1 DEF Put, Joined, Drop, Restrict
  <2> HIDE DEF n
  <2>4. CASE ~IsText(m.content)
    BY <2>1, <2>2, <2>3, <2>4, SameContent
  <2>5. CASE IsText(m.content)
    <3> DEFINE text == m.content.text
               one  == <<[type |-> "part", text |-> text]>>
    <3>1. ContentOf(n) = Blocks(one) /\ ~IsText(ContentOf(n)) /\ IsBlocks(ContentOf(n)) /\ ContentOf(n).blocks = one
      BY <2>2, <2>5 DEF Blocks, IsText, IsBlocks
    <3>2. BlocksIn(n) = one /\ BlocksIn(m) = <<>>
      BY <1>3, <2>2, <2>5, <3>1 DEF BlocksIn, Plain
    <3>3. DOMAIN one = {1} /\ "text" \in DOMAIN one[1] /\ one[1].text = text /\ one[1].type = "part"
      OBVIOUS
    <3>4. Texts(m) = <<text>>
      BY <2>2, <2>5 DEF Texts
    <3> HIDE DEF one
    <3>5. Texts(n) = [i \in {1} |-> text]
      BY <3>1, <3>2, <3>3 DEF Texts
    <3>6. [i \in {1} |-> text] = <<text>>
      OBVIOUS
    <3>7. \A types \in SUBSET (ToolTypes \cup PictureTypes) : Those(n, types) = {} /\ Those(m, types) = {}
      BY <3>2, <3>3 DEF Those, ToolTypes, PictureTypes
    <3> QED
      BY <2>1, <2>3, <3>4, <3>5, <3>6, <3>7, SameBlocks
  <2> QED
    BY <2>4, <2>5
<1> QED
    BY <1>2, <1>3

Four == {"messages", "contents", "prompt", "input"}

\* No field with messages changes, and no system prompt comes.
LeavesMessages(b2, b) ==
    /\ \A f \in Four : (f \in DOMAIN b2 <=> f \in DOMAIN b) /\ (f \in DOMAIN b => b2[f] = b[f])
    /\ "system" \in DOMAIN b2 => "system" \in DOMAIN b /\ b2.system = b.system

Quiet(words) == \A k \in DOMAIN words : words[k].kind \notin {"said", "picture"}

QuietSystem(system) == \A i \in DOMAIN TextFromSystem(system) : Quiet(TextFromSystem(system)[i])

Carries(b, L, form) ==
    /\ "messages" \in DOMAIN b =>
          /\ "contents" \notin DOMAIN b
          /\ "system" \in DOMAIN b => QuietSystem(b.system)
          /\ Follows(b.messages, L, form)
          /\ \A i \in DOMAIN b.messages : Plain(b.messages[i])
    /\ "messages" \notin DOMAIN b /\ MessagesOf(b) # <<>> => Follows(MessagesOf(b), L, form)

LEMMA LeftMessages ==
    ASSUME NEW b, NEW b2, LeavesMessages(b2, b)
    PROVE  MessagesOf(b2) = MessagesOf(b)
    BY DEF LeavesMessages, MessagesOf, Four

LEMMA LeftCarries ==
    ASSUME NEW form, NEW b, NEW b2, LeavesMessages(b2, b), NEW L, Carries(b, L, form)
    PROVE  Carries(b2, L, form)
<1>1. MessagesOf(b2) = MessagesOf(b)
    BY LeftMessages
<1>2. \A f \in {"messages", "contents"} : (f \in DOMAIN b2 <=> f \in DOMAIN b) /\ (f \in DOMAIN b => b2[f] = b[f])
    BY DEF LeavesMessages, Four
<1>3. "system" \in DOMAIN b2 => "system" \in DOMAIN b /\ b2.system = b.system
    BY DEF LeavesMessages
<1> QED
    BY <1>1, <1>2, <1>3 DEF Carries

LEMMA LeftTwice ==
    ASSUME NEW a, NEW b, NEW c, LeavesMessages(b, a), LeavesMessages(c, b)
    PROVE  LeavesMessages(c, a)
    BY DEF LeavesMessages

LEMMA PutLeaves ==
    ASSUME NEW b, NEW f, NEW v, f \notin Four, f # "system"
    PROVE  LeavesMessages(Put(b, f, v), b)
    BY DEF LeavesMessages, Put, Joined

LEMMA DropLeaves ==
    ASSUME NEW b, NEW fields, fields \cap Four = {}
    PROVE  LeavesMessages(Drop(b, fields), b)
    BY DEF LeavesMessages, Drop, Restrict, Four

LEMMA SameLeaves == \A b : LeavesMessages(b, b)
    BY DEF LeavesMessages

LEMMA CappedLeaves ==
    ASSUME NEW b, NEW f, NEW limit, f \notin Four, f # "system"
    PROVE  LeavesMessages(Capped(b, f, limit), b)
    BY PutLeaves, SameLeaves DEF Capped

LEMMA QuietIsSilent ==
    ASSUME NEW text, Quiet(text), NEW role
    PROVE  /\ Silent([role |-> role, content |-> Text(text)])
           /\ Plain([role |-> role, content |-> Text(text)])
<1> DEFINE m == [role |-> role, content |-> Text(text)]
<1>1. /\ ContentOf(m) = Text(text) /\ IsText(ContentOf(m)) /\ ~IsBlocks(ContentOf(m)) /\ ContentOf(m).text = text
      /\ {"tool_calls", "tool_call_id", "id", "call_id"} \cap DOMAIN m = {} /\ m.content = Text(text)
    BY DEF ContentOf, Text, IsText, IsBlocks
<1> HIDE DEF m
<1>2. BlocksIn(m) = <<>> /\ Texts(m) = <<text>>
    BY <1>1 DEF BlocksIn, Texts
<1>3. \A types : Those(m, types) = {}
    BY <1>2 DEF Those
<1>4. DOMAIN Texts(m) = {1} /\ Texts(m)[1] = text
    BY <1>2
<1>5. \A kind \in {"said", "picture"} : WordsIn(m, kind) = {}
    BY <1>4 DEF WordsIn, Quiet
<1>6. CallsIn(m) = {} /\ AnswersIn(m) = {} /\ PicturesIn(m) = {}
    BY <1>1, <1>3 DEF CallsIn, AnswersIn, PicturesIn
<1>7. Plain(m)
    BY <1>1 DEF Plain, Text, IsText, IsBlocks
<1> QED
    BY <1>5, <1>6, <1>7 DEF Silent, m

LEMMA OpenAiCarries ==
    ASSUME NEW form, NEW b, NEW L, Carries(b, L, form)
    PROVE  Carries(OpenAi(b), L, form)
<1> DEFINE rest   == Drop(b, {"system", "thinking"})
           system == [i \in DOMAIN SystemText(b) |-> [role |-> "system", content |-> Text(SystemText(b)[i])]]
           flat   == [i \in DOMAIN b.messages |-> FlatContent(b.messages[i])]
           all    == system \o flat
<1>1. LeavesMessages(rest, b)
  <2>1. {"system", "thinking"} \cap Four = {}
    BY DEF Four
  <2> QED
    BY <2>1, DropLeaves
<1>2. CASE "messages" \notin DOMAIN b
  <2>1. OpenAi(b) = rest
    BY <1>2 DEF OpenAi
  <2> HIDE DEF rest
  <2> QED
    BY <1>1, <2>1, LeftCarries
<1>3. CASE "messages" \in DOMAIN b
  <2> DEFINE U == b.messages
             n == Put(rest, "messages", all)
  <2>1. OpenAi(b) = n
    BY <1>3 DEF OpenAi
  <2>2. Follows(U, L, form) /\ "contents" \notin DOMAIN b /\ \A i \in DOMAIN U : Plain(U[i])
    BY <1>3 DEF Carries
  <2>3. Listed(U)
    BY <2>2 DEF Follows, FollowsAfter
  <2>4. Listed(system) /\ DOMAIN system = DOMAIN SystemText(b) /\ DOMAIN system = 1..Len(system)
    <3>1. Listed(system)
      BY SystemIsShort, ShortList
    <3> QED
      BY <3>1 DEF Listed
  <2>5. \A i \in DOMAIN system : Silent(system[i]) /\ Plain(system[i])
    <3>1. ASSUME NEW i \in DOMAIN SystemText(b)
          PROVE  Quiet(SystemText(b)[i])
      <4>1. "system" \in DOMAIN b /\ SystemText(b) = TextFromSystem(b.system)
        BY <3>1 DEF SystemText
      <4> QED
        BY <1>3, <3>1, <4>1 DEF Carries, QuietSystem
    <3> QED
      BY <3>1, QuietIsSilent
  <2>6. Listed(flat) /\ Len(flat) = Len(U) /\ DOMAIN flat = DOMAIN U
    BY <2>3, MappedList
  <2>7. \A i \in DOMAIN U : SaysTheSame(flat[i], U[i]) /\ Plain(flat[i])
    BY <2>2, FlatContentSays
  <2>8. "messages" \in DOMAIN n /\ n.messages = all /\ "contents" \notin DOMAIN n /\ "system" \notin DOMAIN n
    BY <2>2 DEF Put, Joined, Drop, Restrict
  <2> HIDE DEF system, flat, rest, n, U
  <2>9. Follows(all, L, form)
    <3>1. \A i \in 1..Len(system) : Silent(system[i])
      BY <2>4, <2>5
    <3>2. \A i \in 1..Len(U) : SaysTheSame(flat[i], U[i])
      BY <2>3, <2>7 DEF Listed
    <3>3. Listed(system) /\ Listed(flat) /\ Len(flat) = Len(U) /\ Follows(U, L, form)
      BY <2>2, <2>4, <2>6
    <3> QED
      BY ONLY <3>1, <3>2, <3>3, StillFollows
  <2>10. \A i \in DOMAIN all : Plain(all[i])
    <3>1. Listed(system) /\ Listed(flat)
      BY <2>4, <2>6
    <3>2. \A i \in DOMAIN (system \o flat) :
            \/ \E j \in DOMAIN system : (system \o flat)[i] = system[j]
            \/ \E j \in DOMAIN flat : (system \o flat)[i] = flat[j]
      BY ONLY <3>1, JoinedLists
    <3> HIDE DEF all
    <3>3. ASSUME NEW i \in DOMAIN all
          PROVE  Plain(all[i])
      <4>1. (\E j \in DOMAIN system : all[i] = system[j]) \/ (\E j \in DOMAIN flat : all[i] = flat[j])
        BY <3>2 DEF all
      <4> QED
        BY <4>1, <2>5, <2>6, <2>7
    <3> QED
      BY <3>3
  <2> HIDE DEF all
  <2> QED
    BY <2>1, <2>8, <2>9, <2>10 DEF Carries
<1> QED
    BY <1>2, <1>3

LEMMA GeminiCarries ==
    ASSUME NEW form, NEW b, NEW L, Carries(b, L, form)
    PROVE  Carries(Gemini(b), L, form)
<1> DEFINE system   == SystemText(b)
           rest     == Drop(b, {"system", "messages", "thinking", "max_tokens"})
           prompted == IF system = <<>> THEN rest ELSE Put(rest, "systemInstruction", Text(system[1]))
           turned   == [i \in DOMAIN b.messages |-> GeminiMessage(b.messages[i])]
<1>1. /\ "messages" \notin DOMAIN prompted /\ "system" \notin DOMAIN prompted
      /\ \A f \in {"contents", "prompt", "input"} :
            (f \in DOMAIN prompted <=> f \in DOMAIN b) /\ (f \in DOMAIN b => prompted[f] = b[f])
    BY DEF Put, Joined, Drop, Restrict
<1>2. CASE "messages" \notin DOMAIN b
  <2>1. Gemini(b) = prompted
    BY <1>2 DEF Gemini
  <2> HIDE DEF prompted
  <2>2. LeavesMessages(prompted, b)
    BY <1>1, <1>2 DEF LeavesMessages, Four
  <2> QED
    BY <2>1, <2>2, LeftCarries
<1>3. CASE "messages" \in DOMAIN b
  <2> DEFINE U == b.messages
             n == Put(prompted, "contents", turned)
  <2>1. Gemini(b) = n
    BY <1>3 DEF Gemini
  <2>2. Follows(U, L, form) /\ \A i \in DOMAIN U : Plain(U[i])
    BY <1>3 DEF Carries
  <2>3. Listed(U)
    BY <2>2 DEF Follows, FollowsAfter
  <2>4. Listed(turned) /\ Len(turned) = Len(U) /\ DOMAIN turned = DOMAIN U
    BY <2>3, MappedList
  <2>5. \A i \in DOMAIN U : SaysTheSame(turned[i], U[i])
    BY <2>2, GeminiMessageSays
  <2> HIDE DEF prompted, turned, U
  <2>6. "messages" \notin DOMAIN n /\ "contents" \in DOMAIN n /\ n.contents = turned /\ "system" \notin DOMAIN n
    BY <1>1 DEF Put, Joined
  <2> HIDE DEF n
  <2>7. MessagesOf(n) = turned
    BY <2>6 DEF MessagesOf
  <2>8. Follows(turned, L, form)
    <3>1. Listed(<<>>) /\ Len(<<>>) = 0
      BY SequenceIsList, <<>> \in Seq({})
    <3>2. \A i \in 1..Len(<<>>) : Silent(<<>>[i])
      BY <3>1
    <3>3. \A i \in 1..Len(U) : SaysTheSame(turned[i], U[i])
      BY <2>3, <2>5 DEF Listed
    <3>4. Follows(<<>> \o turned, L, form)
      BY <2>2, <2>4, <3>1, <3>2, <3>3, StillFollows
    <3>5. <<>> \o turned = turned
      BY <2>4 DEF Listed
    <3> QED
      BY <3>4, <3>5
  <2> QED
    BY <2>1, <2>6, <2>7, <2>8 DEF Carries
<1> QED
    BY <1>2, <1>3

LEMMA VercelCarries ==
    ASSUME NEW form, NEW b, NEW L, Carries(b, L, form)
    PROVE  Carries(Vercel(b), L, form)
<1> DEFINE rest == Drop(b, {"thinking"})
           r    == Renamed(rest, "messages", "prompt")
<1>1. Vercel(b) = Renamed(r, "max_tokens", "maxTokens")
    BY DEF Vercel
<1>2. Carries(rest, L, form)
  <2>1. {"thinking"} \cap Four = {}
    BY DEF Four
  <2> QED
    BY <2>1, DropLeaves, LeftCarries
<1> HIDE DEF rest
<1>3. Carries(r, L, form)
  <2>1. CASE "messages" \notin DOMAIN rest
    BY <1>2, <2>1 DEF Renamed
  <2>2. CASE "messages" \in DOMAIN rest
    <3>1. r = Put(Drop(rest, {"messages"}), "prompt", rest.messages)
      BY <2>2 DEF Renamed
    <3>2. Follows(rest.messages, L, form) /\ "contents" \notin DOMAIN rest
      BY <1>2, <2>2 DEF Carries
    <3>3. /\ {"messages", "contents"} \cap DOMAIN r = {} /\ "prompt" \in DOMAIN r /\ r.prompt = rest.messages
          /\ "system" \in DOMAIN r => "system" \in DOMAIN rest /\ r.system = rest.system
      BY <3>1, <3>2 DEF Put, Joined, Drop, Restrict
    <3> HIDE DEF r
    <3>4. MessagesOf(r) = rest.messages
      BY <3>3 DEF MessagesOf
    <3> QED
      BY <1>2, <3>2, <3>3, <3>4 DEF Carries
  <2> QED
    BY <2>1, <2>2
<1> HIDE DEF r
<1>4. LeavesMessages(Renamed(r, "max_tokens", "maxTokens"), r)
  <2>1. {"max_tokens"} \cap Four = {} /\ "maxTokens" \notin Four /\ "maxTokens" # "system"
    BY DEF Four
  <2>2. LeavesMessages(Drop(r, {"max_tokens"}), r)
    BY <2>1, DropLeaves
  <2>3. \A v : LeavesMessages(Put(Drop(r, {"max_tokens"}), "maxTokens", v), r)
    BY <2>1, <2>2, PutLeaves, LeftTwice
  <2> QED
    BY <2>3, SameLeaves DEF Renamed
<1> QED
    BY <1>1, <1>3, <1>4, LeftCarries

LEMMA TransformerCarries ==
    ASSUME NEW form, NEW name, NEW b, NEW L, Carries(b, L, form)
    PROVE  Carries(TransformRequest(name, b), L, form)
<1>1. /\ \A fields \in SUBSET {"thinking", "tools", "stream_options", "stream"} : fields \cap Four = {}
      /\ \A f \in {"max_tokens", "max_completion_tokens", "tools", "thinking", "stream_options"} :
            f \notin Four /\ f # "system"
    BY DEF Four
<1>2. Carries(OpenAi(b), L, form) /\ Carries(Gemini(b), L, form) /\ Carries(Vercel(b), L, form)
    BY OpenAiCarries, GeminiCarries, VercelCarries
<1>3. Carries(Groq(b), L, form) /\ Carries(Cerebras(b), L, form) /\ Carries(VertexGemini(b), L, form)
    BY <1>1, <1>2, DropLeaves, LeftCarries DEF Groq, Cerebras, VertexGemini
<1>4. Carries(DeepSeek(b), L, form) /\ Carries(MaxToken(b), L, form)
    BY <1>1, CappedLeaves, LeftCarries DEF DeepSeek, MaxToken
<1>5. Carries(MaxCompletionTokens(b), L, form)
    BY <1>1, CappedLeaves, LeftCarries DEF MaxCompletionTokens
<1>6. Carries(ToolUse(b), L, form)
    BY <1>1, PutLeaves, LeftCarries DEF ToolUse
<1>7. Carries(Reasoning(b), L, form) /\ Carries(VertexClaude(b), L, form)
    BY <1>1, DropLeaves, LeftCarries DEF Reasoning, VertexClaude
<1>8. Carries(ForceReasoning(b), L, form)
    BY <1>1, PutLeaves, LeftCarries DEF ForceReasoning
<1>9. Carries(StreamOptions(b), L, form)
    BY <1>1, PutLeaves, LeftCarries DEF StreamOptions
<1> QED
    BY <1>2, <1>3, <1>4, <1>5, <1>6, <1>7, <1>8, <1>9 DEF TransformRequest

LEMMA ChainCarries ==
    ASSUME NEW form, NEW names \in Seq(STRING), NEW body, NEW L, Carries(body, L, form)
    PROVE  Carries(ApplyChain(names, body), L, form)
<1>1. PICK after :
         /\ after[0] = body
         /\ \A k \in 1..Len(names) : after[k] = TransformRequest(names[k], after[k - 1])
         /\ ApplyChain(names, body) = after[Len(names)]
    BY ChainSteps
<1> DEFINE N == Len(names)
           T == {k \in 0..N : Carries(after[k], L, form)}
<1>2. N \in Nat
    OBVIOUS
<1>3. 0 \in T
    BY <1>1, <1>2
<1>4. ASSUME NEW k \in 0..N, k \in T, k < N
      PROVE  k + 1 \in T
  <2>1. k + 1 \in 1..N /\ k + 1 - 1 = k /\ k + 1 \in 0..N
    BY <1>2, <1>4
  <2>2. after[k + 1] = TransformRequest(names[k + 1], after[k])
    BY <1>1, <2>1
  <2>3. Carries(after[k], L, form)
    BY <1>4
  <2> QED
    BY <2>1, <2>2, <2>3, TransformerCarries
<1>5. \A k \in 0..N : k \in T /\ k < N => k + 1 \in T
    BY <1>4
<1> HIDE DEF T, N
<1>6. N \in T
  <2>1. \A k \in 0..N : k \in T
    BY <1>2, <1>3, <1>5, InductionUpTo
  <2> QED
    BY <1>2, <2>1
<1> QED
    BY <1>1, <1>6 DEF T, N

--------------------------------------------------------------------------------
(***************************************************************************)
(* What the messages of a client are like, before they are converted.      *)
(***************************************************************************)
BlockFit(b) ==
    /\ b.type \in TextTypes <=> "text" \in DOMAIN b
    /\ "text" \in DOMAIN b => \E w : b.text = <<w>>
    /\ b.type = "tool_result" =>
          "content" \in DOMAIN b /\ \E w : b.content = Text(<<w>>) /\ w.kind \notin {"said", "picture"}
    /\ b.type \in PictureTypes =>
          \/ b.type = "image" /\ b.source.kind \in {"base64", "url"}
          \/ b.type = "input_image" /\ "url" \in DOMAIN b

BlocksFit(bs) ==
    /\ Listed(bs)
    /\ \A i \in DOMAIN bs : BlockFit(bs[i])
    /\ (\E i \in DOMAIN bs : bs[i].type = "tool_result") =>
          \A i \in DOMAIN bs : bs[i].type \in TextTypes \cup {"tool_result"}

Fit(m) ==
    /\ {"parts", "tool_calls", "tool_call_id"} \cap DOMAIN m = {}
    /\ "content" \in DOMAIN m =>
          /\ {"id", "call_id"} \cap DOMAIN m = {}
          /\ IsText(m.content) <=> ~IsBlocks(m.content)
          /\ IsBlocks(m.content) => BlocksFit(m.content.blocks)

\* What becomes of a block.
BlockSays(b2, b) ==
    /\ "text" \in DOMAIN b2 <=> "text" \in DOMAIN b
    /\ "text" \in DOMAIN b => b2.text = b.text /\ b2.type \in TextTypes
    /\ b2.type \in PictureTypes <=> b.type \in PictureTypes
    /\ b.type \in PictureTypes =>
          (IF IsPicture(b2) THEN b2.source.of ELSE b2.url.of) = (IF IsPicture(b) THEN b.source.of ELSE b.url.of)
    /\ \A type \in ToolTypes : (b2.type = type <=> b.type = type) /\ (b.type = type => b2 = b)

LEMMA ConvertedBlockSays ==
    ASSUME NEW b, BlockFit(b), NEW target \in {"anthropic", "chat", "responses"}
    PROVE  BlockSays(ContentBlockForTarget(b, target), b)
<1> DEFINE c == ContentBlockForTarget(b, target)
<1> SUFFICES BlockSays(c, b)
    OBVIOUS
<1>1. CASE b.type \in TextTypes
  <2>1. c = [type |-> TextType[target], text |-> b.text]
    BY <1>1 DEF ContentBlockForTarget, TextTypes
  <2>2. TextType[target] \in {"text", "input_text"}
    BY DEF TextType
  <2>3. "text" \in DOMAIN c /\ c.text = b.text /\ c.type \in {"text", "input_text"} /\ "text" \in DOMAIN b
    BY <1>1, <2>1, <2>2 DEF BlockFit
  <2> HIDE DEF c
  <2> QED
    BY <1>1, <2>3 DEF BlockSays, TextTypes, PictureTypes, ToolTypes
<1>2. CASE b.type = "image" /\ b.source.kind \in {"base64", "url"}
  <2>1. c = CASE target = "anthropic" -> b
              [] target = "chat" -> [type |-> "image_url", url |-> UrlOf(b.source)]
              [] OTHER -> [type |-> "input_image", url |-> UrlOf(b.source)]
    BY <1>2 DEF ContentBlockForTarget, ClaudePicture, ChatPicture, ResponsesPicture
  <2>2. "text" \notin DOMAIN b
    BY <1>2 DEF BlockFit, TextTypes
  <2>3. UrlOf(b.source).of = b.source.of
    BY DEF UrlOf
  <2>4. \/ c = b
        \/ /\ c.type \in {"image_url", "input_image"} /\ c.url.of = b.source.of /\ "text" \notin DOMAIN c
    BY <2>1, <2>3
  <2> HIDE DEF c
  <2> QED
    BY <1>2, <2>2, <2>4 DEF BlockSays, PictureTypes, ToolTypes, IsPicture
<1>3. CASE b.type = "input_image" /\ "url" \in DOMAIN b
  <2>1. c = CASE target = "anthropic" -> [type |-> "image", source |-> SourceOf(b.url)]
              [] target = "chat" -> b
              [] OTHER -> [type |-> "input_image", url |-> b.url]
    BY <1>3 DEF ContentBlockForTarget, ClaudePicture, ChatPicture, ResponsesPicture
  <2>2. "text" \notin DOMAIN b
    BY <1>3 DEF BlockFit, TextTypes
  <2>3. SourceOf(b.url).of = b.url.of
    BY DEF SourceOf
  <2>4. \/ c = b
        \/ c.type = "image" /\ c.source.of = b.url.of /\ "text" \notin DOMAIN c
        \/ c.type = "input_image" /\ c.url = b.url /\ "text" \notin DOMAIN c
    BY <2>1, <2>3
  <2> HIDE DEF c
  <2> QED
    BY <1>3, <2>2, <2>4 DEF BlockSays, PictureTypes, ToolTypes, IsPicture
<1>4. CASE b.type \in {"input_audio", "audio", "file", "input_file"}
  <2>1. c = Refused
    BY <1>4 DEF ContentBlockForTarget
  <2>2. "text" \notin DOMAIN b
    BY <1>4 DEF BlockFit, TextTypes
  <2>3. c.type = "refused" /\ "text" \notin DOMAIN c
    BY <2>1 DEF Refused
  <2> HIDE DEF c
  <2> QED
    BY <1>4, <2>2, <2>3 DEF BlockSays, PictureTypes, ToolTypes
<1>5. CASE b.type \notin TextTypes \cup PictureTypes \cup {"input_audio", "audio", "file", "input_file"}
  <2>1. c = b
    BY <1>5 DEF ContentBlockForTarget, TextTypes, PictureTypes
  <2>2. "text" \notin DOMAIN b
    BY <1>5 DEF BlockFit
  <2> QED
    BY <2>1, <2>2 DEF BlockSays
<1> QED
  <2>1. b.type \in PictureTypes => (b.type = "image" /\ b.source.kind \in {"base64", "url"})
                                    \/ (b.type = "input_image" /\ "url" \in DOMAIN b)
    BY DEF BlockFit
  <2> QED
    BY <1>1, <1>2, <1>3, <1>4, <1>5, <2>1

LEMMA ConvertedBlocksSay ==
    ASSUME NEW bs, BlocksFit(bs), NEW target \in {"anthropic", "chat", "responses"}
    PROVE  /\ Listed(BlocksFor(bs, target)) /\ DOMAIN BlocksFor(bs, target) = DOMAIN bs
           /\ \A i \in DOMAIN bs : BlockSays(BlocksFor(bs, target)[i], bs[i])
<1> DEFINE c == BlocksFor(bs, target)
<1>1. DOMAIN c = DOMAIN bs /\ c = [i \in DOMAIN bs |-> c[i]]
    BY DEF BlocksFor
<1>2. Listed(c)
    BY <1>1, MappedList DEF BlocksFit
<1>3. \A i \in DOMAIN bs : BlockSays(c[i], bs[i])
    BY ConvertedBlockSays DEF BlocksFit, BlocksFor
<1> QED
    BY <1>1, <1>2, <1>3

\* Blocks for blocks.
LEMMA BlocksSay ==
    ASSUME NEW m2, NEW m, NEW cs, NEW bs, Listed(bs), Listed(cs), DOMAIN cs = DOMAIN bs,
           ContentOf(m2) = Blocks(cs), IsBlocks(ContentOf(m)), ~IsText(ContentOf(m)), ContentOf(m).blocks = bs,
           \A i \in DOMAIN bs : BlockSays(cs[i], bs[i]),
           \A f \in {"tool_calls", "tool_call_id", "id", "call_id"} :
              /\ f \in DOMAIN m2 <=> f \in DOMAIN m
              /\ f \in DOMAIN m => m2[f] = m[f]
    PROVE  SaysTheSame(m2, m)
<1>1. ~IsText(ContentOf(m2)) /\ IsBlocks(ContentOf(m2)) /\ BlocksIn(m2) = cs /\ BlocksIn(m) = bs
    BY DEF Blocks, IsText, IsBlocks, BlocksIn
<1>2. Texts(m2) = Texts(m)
    BY <1>1 DEF Texts, BlockSays
<1>3. \A kind : WordsIn(m2, kind) = WordsIn(m, kind)
    BY <1>2 DEF WordsIn
<1>4. /\ Those(m2, {"image", "image_url", "input_image"}) = Those(m, {"image", "image_url", "input_image"})
      /\ Those(m2, {"tool_use"}) = Those(m, {"tool_use"})
      /\ Those(m2, {"tool_result"}) = Those(m, {"tool_result"})
    BY <1>1 DEF Those, BlockSays, PictureTypes, ToolTypes
<1>5. \A i \in DOMAIN bs : bs[i].type \in PictureTypes =>
         (IF IsPicture(cs[i]) THEN cs[i].source.of ELSE cs[i].url.of) =
            (IF IsPicture(bs[i]) THEN bs[i].source.of ELSE bs[i].url.of)
    BY DEF BlockSays
<1>6. \A i \in Those(m, {"image", "image_url", "input_image"}) : i \in DOMAIN bs /\ bs[i].type \in PictureTypes
    BY <1>1 DEF Those, PictureTypes
<1>7. PicturesIn(m2) = PicturesIn(m)
    BY <1>1, <1>4, <1>5, <1>6 DEF PicturesIn
<1>8. /\ \A i \in Those(m, {"tool_use"}) : cs[i] = bs[i]
      /\ \A i \in Those(m, {"tool_result"}) : cs[i] = bs[i]
    BY <1>1 DEF Those, BlockSays, ToolTypes
<1>9. CallsIn(m2) = CallsIn(m)
    BY <1>1, <1>4, <1>8 DEF CallsIn
<1>10. AnswersIn(m2) = AnswersIn(m)
    BY <1>1, <1>4, <1>8 DEF AnswersIn
<1> QED
    BY <1>3, <1>7, <1>9, <1>10 DEF SaysTheSame

LEMMA PlainBlocks ==
    ASSUME NEW bs, BlocksFit(bs), NEW cs, Listed(cs), DOMAIN cs = DOMAIN bs,
           \A i \in DOMAIN bs : BlockSays(cs[i], bs[i]), NEW m, "content" \in DOMAIN m, m.content = Blocks(cs)
    PROVE  Plain(m)
<1>1. m.content.blocks = cs /\ ~IsText(m.content)
    BY DEF Blocks, IsText
<1>2. \A i \in DOMAIN cs : "text" \in DOMAIN cs[i] => cs[i].type \in TextTypes
    BY DEF BlockSays
<1>3. \A type \in TextTypes : type \notin ToolTypes \cup PictureTypes
    BY DEF TextTypes, ToolTypes, PictureTypes
<1> QED
    BY <1>1, <1>2, <1>3 DEF Plain

LEMMA NormalizedSays ==
    ASSUME NEW m, Fit(m), NEW target \in {"anthropic", "chat", "responses"}
    PROVE  SaysTheSame(NormalizeMessage(m, target), m) /\ Plain(NormalizeMessage(m, target))
<1>1. CASE "content" \notin DOMAIN m \/ IsText(m.content)
  <2>1. NormalizeMessage(m, target) = m
    BY <1>1 DEF NormalizeMessage
  <2>2. Plain(m)
    BY <1>1 DEF Plain, Fit
  <2> QED
    BY <2>1, <2>2 DEF SaysTheSame
<1>2. CASE "content" \in DOMAIN m /\ ~IsText(m.content)
  <2> DEFINE bs == m.content.blocks
             cs == BlocksFor(bs, target)
             n  == Put(m, "content", Blocks(cs))
  <2>1. IsBlocks(m.content) /\ BlocksFit(bs) /\ Listed(bs)
    BY <1>2 DEF Fit, BlocksFit
  <2>2. NormalizeMessage(m, target) = n
    BY <1>2, <2>1 DEF NormalizeMessage
  <2>3. Listed(cs) /\ DOMAIN cs = DOMAIN bs /\ \A i \in DOMAIN bs : BlockSays(cs[i], bs[i])
    BY <2>1, ConvertedBlocksSay
  <2> HIDE DEF cs
  <2>4. ContentOf(n) = Blocks(cs) /\ ContentOf(m) = m.content /\ "content" \in DOMAIN n /\ n.content = Blocks(cs)
    BY <1>2 DEF ContentOf, Put, Joined
  <2>5. \A f \in {"tool_calls", "tool_call_id", "id", "call_id"} :
           (f \in DOMAIN n <=> f \in DOMAIN m) /\ (f \in DOMAIN m => n[f] = m[f])
    BY DEF Put, Joined
  <2> HIDE DEF n
  <2>6. SaysTheSame(n, m)
    BY <1>2, <2>1, <2>3, <2>4, <2>5, BlocksSay
  <2>7. Plain(n)
    BY <2>1, <2>3, <2>4, PlainBlocks
  <2> QED
    BY <2>2, <2>6, <2>7
<1> QED
    BY <1>1, <1>2

LEMMA ResponsesMessageSays ==
    ASSUME NEW m, Fit(m), "content" \in DOMAIN m
    PROVE  SaysTheSame(MessageToResponsesInput(m), m)
<1>1. CASE IsText(m.content)
  <2> DEFINE text == m.content.text
             one  == <<[type |-> "input_text", text |-> text]>>
             n    == [role |-> m.role, content |-> Blocks(one)]
  <2>1. MessageToResponsesInput(m) = n
    BY <1>1 DEF MessageToResponsesInput
  <2>2. /\ ContentOf(n) = Blocks(one) /\ ~IsText(ContentOf(n)) /\ IsBlocks(ContentOf(n)) /\ ContentOf(n).blocks = one
        /\ ContentOf(m) = m.content /\ ~IsBlocks(m.content)
    BY <1>1 DEF ContentOf, Blocks, IsText, IsBlocks, Fit
  <2>3. BlocksIn(n) = one /\ BlocksIn(m) = <<>> /\ Texts(m) = <<text>>
    BY <1>1, <2>2 DEF BlocksIn, Texts
  <2>4. DOMAIN one = {1} /\ "text" \in DOMAIN one[1] /\ one[1].text = text /\ one[1].type = "input_text"
    OBVIOUS
  <2>5. \A f \in {"tool_calls", "tool_call_id", "id", "call_id"} : f \notin DOMAIN n /\ f \notin DOMAIN m
    BY DEF Fit
  <2> HIDE DEF one, n
  <2>6. Texts(n) = [i \in {1} |-> text]
    BY <2>2, <2>3, <2>4 DEF Texts
  <2>7. [i \in {1} |-> text] = <<text>>
    OBVIOUS
  <2>8. \A types \in SUBSET {"tool_use", "tool_result", "image", "image_url", "input_image"} :
           Those(n, types) = {} /\ Those(m, types) = {}
    BY <2>3, <2>4 DEF Those
  <2>9. Texts(n) = Texts(m)
    BY <2>3, <2>6, <2>7
  <2>10. \A types \in SUBSET (ToolTypes \cup PictureTypes) : Those(n, types) = {} /\ Those(m, types) = {}
    BY <2>8 DEF ToolTypes, PictureTypes
  <2> QED
    BY <2>1, <2>5, <2>9, <2>10, SameBlocks
<1>2. CASE ~IsText(m.content)
  <2> DEFINE bs == m.content.blocks
             cs == BlocksFor(bs, "responses")
             n  == [role |-> m.role, content |-> Blocks(cs)]
  <2>1. IsBlocks(m.content) /\ BlocksFit(bs) /\ Listed(bs)
    BY <1>2 DEF Fit, BlocksFit
  <2>2. MessageToResponsesInput(m) = n
    BY <1>2, <2>1 DEF MessageToResponsesInput
  <2>3. Listed(cs) /\ DOMAIN cs = DOMAIN bs /\ \A i \in DOMAIN bs : BlockSays(cs[i], bs[i])
    BY <2>1, ConvertedBlocksSay
  <2> HIDE DEF cs
  <2>4. ContentOf(n) = Blocks(cs) /\ ContentOf(m) = m.content
    BY DEF ContentOf
  <2>5. \A f \in {"tool_calls", "tool_call_id", "id", "call_id"} : f \notin DOMAIN n /\ f \notin DOMAIN m
    BY DEF Fit
  <2> HIDE DEF n
  <2>6. SaysTheSame(n, m)
    BY <1>2, <2>1, <2>3, <2>4, <2>5, BlocksSay
  <2> QED
    BY <2>2, <2>6
<1> QED
    BY <1>1, <1>2

--------------------------------------------------------------------------------
(***************************************************************************)
(* The text that a message becomes as an answer: that of its blocks.       *)
(***************************************************************************)
Adding(text, b) == text \o BlockAsText(b)

AddedUpTo(g, bs, n) ==
    g = [s \in SUBSET (1..n) |-> IF s = {} THEN <<>> ELSE Adding(g[s \ {Max(s)}], bs[Max(s)])]

LEMMA AddedDef ==
    ASSUME NEW m, Listed(BlocksOf(m))
    PROVE  MessageContentAsText(m) =
              (CHOOSE g : AddedUpTo(g, BlocksOf(m), Len(BlocksOf(m))))[1..Len(BlocksOf(m))]
<1>1. DOMAIN BlocksOf(m) = 1..Len(BlocksOf(m))
    BY DEF Listed
<1> QED
    BY <1>1 DEF MessageContentAsText, FoldLeft, MapThenFoldSet, AddedUpTo, Adding

LEMMA AddedExists ==
    ASSUME NEW bs, NEW N \in Nat
    PROVE  \E g : AddedUpTo(g, bs, N)
<1> DEFINE T == {n \in 0..N : \E g : AddedUpTo(g, bs, n)}
<1>1. 0 \in T
  <2>1. AddedUpTo([s \in SUBSET (1..0) |-> <<>>], bs, 0)
    <3>1. \A s \in SUBSET (1..0) : s = {}
      OBVIOUS
    <3> QED
      BY <3>1 DEF AddedUpTo
  <2> QED
    BY <2>1
<1>2. ASSUME NEW n \in 0..N, n \in T, n < N
      PROVE  n + 1 \in T
  <2>1. PICK g : AddedUpTo(g, bs, n)
    BY <1>2
  <2> DEFINE h == [s \in SUBSET (1..(n + 1)) |->
                      IF n + 1 \in s THEN Adding(g[s \ {n + 1}], bs[n + 1]) ELSE g[s]]
  <2>2. ASSUME NEW s \in SUBSET (1..(n + 1))
        PROVE  h[s] = IF s = {} THEN <<>> ELSE Adding(h[s \ {Max(s)}], bs[Max(s)])
    <3>1. CASE n + 1 \in s
      <4>1. Max(s) = n + 1
        BY <3>1, LastOfSome
      <4>2. s \ {n + 1} \in SUBSET (1..(n + 1)) /\ n + 1 \notin s \ {n + 1} /\ s # {}
        BY <3>1
      <4>3. h[s \ {n + 1}] = g[s \ {n + 1}]
        BY <4>2
      <4> QED
        BY <3>1, <4>1, <4>2, <4>3
    <3>2. CASE n + 1 \notin s
      <4>1. s \in SUBSET (1..n)
        BY <3>2
      <4>2. h[s] = g[s]
        BY <3>2
      <4>3. g[s] = IF s = {} THEN <<>> ELSE Adding(g[s \ {Max(s)}], bs[Max(s)])
        BY <4>1, <2>1 DEF AddedUpTo
      <4>4. h[s \ {Max(s)}] = g[s \ {Max(s)}]
        <5>1. s \ {Max(s)} \in SUBSET (1..(n + 1)) /\ n + 1 \notin s \ {Max(s)}
          BY <3>2
        <5> QED
          BY <5>1
      <4> QED
        BY <4>2, <4>3, <4>4
    <3> QED
      BY <3>1, <3>2
  <2>3. AddedUpTo(h, bs, n + 1)
    <3>1. DOMAIN h = SUBSET (1..(n + 1))
      OBVIOUS
    <3> HIDE DEF h
    <3>2. \A s \in SUBSET (1..(n + 1)) :
             h[s] = IF s = {} THEN <<>> ELSE Adding(h[s \ {Max(s)}], bs[Max(s)])
      BY <2>2
    <3>3. h = [s \in SUBSET (1..(n + 1)) |-> h[s]]
      BY <3>1 DEF h
    <3> QED
      BY <3>2, <3>3 DEF AddedUpTo
  <2> HIDE DEF h
  <2>4. n + 1 \in 0..N
    BY <1>2
  <2> QED
    BY <2>3, <2>4
<1>3. \A n \in 0..N : n \in T /\ n < N => n + 1 \in T
    BY <1>2
<1> HIDE DEF T
<1>4. N \in T
    BY <1>1, <1>3, InductionUpTo
<1> QED
    BY <1>4 DEF T

\* If every block has one word.
LEMMA WordsOfBlocks ==
    ASSUME NEW m, NEW bs, bs = BlocksOf(m), Listed(bs),
           NEW w, \A k \in DOMAIN bs : BlockAsText(bs[k]) = <<w[k]>>
    PROVE  MessageContentAsText(m) = [k \in DOMAIN bs |-> w[k]]
<1> DEFINE N == Len(bs)
           g == CHOOSE f : AddedUpTo(f, bs, N)
           T == {k \in 0..N : g[1..k] = [i \in 1..k |-> w[i]]}
<1>1. N \in Nat /\ DOMAIN bs = 1..N
    BY DEF Listed
<1>2. AddedUpTo(g, bs, N)
    BY <1>1, AddedExists
<1>3. MessageContentAsText(m) = g[1..N]
    BY AddedDef
<1> HIDE DEF g, N
<1>4. 0 \in T
  <2>1. 1..0 = {} /\ g[{}] = <<>>
    BY <1>2 DEF AddedUpTo
  <2>2. [i \in 1..0 |-> w[i]] = <<>>
    OBVIOUS
  <2> QED
    BY <1>1, <2>1, <2>2
<1>5. ASSUME NEW n \in 0..N, n \in T, n < N
      PROVE  n + 1 \in T
  <2> DEFINE k == n + 1
             s == [i \in 1..n |-> w[i]]
             S == {w[i] : i \in 1..k}
  <2>1. k \in Nat /\ k - 1 = n /\ 1..k \in SUBSET (1..N) /\ k \in 1..k /\ k \in 0..N /\ n \in Nat /\ k \in 1..N
    BY <1>1, <1>5
  <2>2. Max(1..k) = k
    BY <2>1, LastOfSome
  <2>3. (1..k) \ {k} = 1..n
    BY <2>1
  <2>4. g[1..k] = Adding(g[1..n], bs[k])
    BY <1>2, <2>1, <2>2, <2>3 DEF AddedUpTo
  <2>5. g[1..n] = s
    BY <1>5
  <2>6. g[1..k] = s \o <<w[k]>>
    BY <1>1, <2>1, <2>4, <2>5 DEF Adding
  <2>7. s \in Seq(S) /\ Len(s) = n /\ <<w[k]>> \in Seq(S)
    BY <2>1
  <2>8. s \o <<w[k]>> = [i \in 1..k |-> w[i]]
    <3> DEFINE j == s \o <<w[k]>>
    <3>1. j \in Seq(S) /\ Len(j) = k
      BY <2>1, <2>7
    <3>2. \A i \in 1..k : j[i] = w[i]
      BY <2>1, <2>7
    <3>3. DOMAIN j = 1..k /\ j = [i \in 1..k |-> j[i]]
      BY <3>1
    <3> HIDE DEF j
    <3> QED
      BY <3>2, <3>3 DEF j
  <2> QED
    BY <2>1, <2>6, <2>8
<1>6. \A n \in 0..N : n \in T /\ n < N => n + 1 \in T
    BY <1>5
<1> HIDE DEF T
<1>7. \A n \in 0..N : n \in T
    BY <1>1, <1>4, <1>6, InductionUpTo
<1>8. N \in T
    BY <1>1, <1>7
<1> QED
    BY <1>1, <1>3, <1>8 DEF T

--------------------------------------------------------------------------------
(***************************************************************************)
(* A message for the chat protocol says as much as that of Claude Code.    *)
(***************************************************************************)
LEMMA NothingLeft == \A form : AnswersLeft({}, {}, form)
    BY DEF AnswersLeft, AsMany, FirstParts, OfAll, Upward

LEMMA SameIsAsMuch ==
    ASSUME NEW form, NEW m2, NEW m, SaysTheSame(m2, m), InForm(m, form), form = "chat" => AnswersIn(m) = {}
    PROVE  SaysAsMuch(m2, m, form)
<1>1. AsMany(AnswersIn(m2), AnswersIn(m)) /\ InForm(m2, form)
    BY DEF SaysTheSame, AsMany, InForm
<1>2. AnswersIn(m) = {} => AnswersLeft(AnswersIn(m2), AnswersIn(m), form)
    BY NothingLeft DEF SaysTheSame
<1>3. AnswersLeft(AnswersIn(m2), AnswersIn(m), form)
    BY <1>1, <1>2 DEF AnswersLeft
<1> QED
    BY <1>1, <1>3 DEF SaysTheSame, SaysAsMuch, AsMany

\* The parts have other places, in the same order.
LEMMA MovedParts ==
    ASSUME NEW S2, NEW S, NEW back,
           \A p \in S2 : back[p] \in S /\ back[p].of = p.of,
           \A q \in S : \E p \in S2 : back[p] = q,
           \A p, q \in S2 : Earlier(p, q) => Earlier(back[p], back[q])
    PROVE  AsMany(S2, S)
<1>1. OfAll(S2) \subseteq OfAll(S)
    BY DEF OfAll
<1>2. OfAll(S) \subseteq OfAll(S2)
    BY DEF OfAll
<1>3. Upward(S) => Upward(S2)
    BY DEF Upward
<1> QED
    BY <1>1, <1>2, <1>3 DEF AsMany

LEMMA PartIs ==
    ASSUME NEW i, NEW j, NEW x
    PROVE  Part(i, j, x).block = i /\ Part(i, j, x).place = j /\ Part(i, j, x).of = x
    BY DEF Part

LEMMA WordIn ==
    ASSUME NEW m, NEW kind, NEW p
    PROVE  p \in WordsIn(m, kind) <=>
              \E i \in DOMAIN Texts(m) : \E j \in DOMAIN Texts(m)[i] :
                  Texts(m)[i][j].kind = kind /\ p = Part(i, j, Texts(m)[i][j].of)
    BY DEF WordsIn

\* The words that a block has by itself.
BlockText(b) == IF "text" \in DOMAIN b THEN b.text ELSE <<>>

LEMMA TextsOfBlocks ==
    ASSUME NEW m, NEW bs, ContentOf(m) = Blocks(bs)
    PROVE  BlocksIn(m) = bs /\ Texts(m) = [i \in DOMAIN bs |-> BlockText(bs[i])]
<1>1. ~IsText(ContentOf(m)) /\ IsBlocks(ContentOf(m)) /\ ContentOf(m).blocks = bs
    BY DEF Blocks, IsText, IsBlocks
<1> QED
    BY <1>1 DEF BlocksIn, Texts, BlockText

LEMMA AnswerSays ==
    ASSUME NEW m, Fit(m), "content" \in DOMAIN m, ~IsText(m.content), NEW bs, bs = m.content.blocks,
           NEW r \in DOMAIN bs, bs[r].type = "tool_result", NEW id, id = bs[r].tool_use_id,
           \A k \in DOMAIN bs : bs[k].type = "tool_result" => r <= k
    PROVE  SaysAsMuch([role |-> "tool", tool_call_id |-> id, content |-> Text(MessageContentAsText(m))], m, "chat")
<1> DEFINE text == MessageContentAsText(m)
           c    == [role |-> "tool", tool_call_id |-> id, content |-> Text(text)]
           w    == [k \in DOMAIN bs |-> CHOOSE x : BlockAsText(bs[k]) = <<x>>]
<1>1. IsBlocks(m.content) /\ BlocksFit(bs) /\ Listed(bs) /\ DOMAIN bs = 1..Len(bs) /\ Len(bs) \in Nat
    BY DEF Fit, BlocksFit, Listed
<1>2. BlocksOf(m) = bs
    BY <1>1 DEF BlocksOf
<1>3. /\ \A k \in DOMAIN bs : BlockFit(bs[k])
      /\ \A k \in DOMAIN bs : bs[k].type \in TextTypes \cup {"tool_result"}
    BY <1>1 DEF BlocksFit
<1>4. ASSUME NEW k \in DOMAIN bs
      PROVE  /\ BlockAsText(bs[k]) = <<w[k]>>
             /\ "text" \in DOMAIN bs[k] <=> bs[k].type # "tool_result"
             /\ "text" \in DOMAIN bs[k] => bs[k].text = <<w[k]>>
             /\ "text" \notin DOMAIN bs[k] => w[k].kind \notin {"said", "picture"}
  <2>1. BlockFit(bs[k]) /\ (bs[k].type \in TextTypes \/ bs[k].type = "tool_result") /\ "tool_result" \notin TextTypes
    BY <1>3 DEF TextTypes
  <2>2. "text" \in DOMAIN bs[k] <=> bs[k].type # "tool_result"
    BY <2>1 DEF BlockFit
  <2>3. CASE "text" \in DOMAIN bs[k]
    <3>1. PICK x : bs[k].text = <<x>>
      BY <2>1, <2>3 DEF BlockFit
    <3>2. BlockAsText(bs[k]) = <<x>>
      BY <2>3, <3>1 DEF BlockAsText
    <3>3. BlockAsText(bs[k]) = <<w[k]>>
      BY <3>2
    <3> HIDE DEF w
    <3> QED
      BY <2>2, <2>3, <3>1, <3>2, <3>3
  <2>4. CASE "text" \notin DOMAIN bs[k]
    <3>1. PICK x : bs[k].content = Text(<<x>>) /\ x.kind \notin {"said", "picture"}
      BY <2>1, <2>2, <2>4 DEF BlockFit
    <3>2. "content" \in DOMAIN bs[k]
      BY <2>1, <2>2, <2>4 DEF BlockFit
    <3>3. BlockAsText(bs[k]) = <<x>>
      BY <2>4, <3>1, <3>2 DEF BlockAsText, Text, IsText
    <3>4. BlockAsText(bs[k]) = <<w[k]>>
      BY <3>3
    <3> HIDE DEF w
    <3>5. w[k] = x
      BY <3>3, <3>4
    <3> QED
      BY <2>2, <2>4, <3>1, <3>4, <3>5
  <2> QED
    BY <2>3, <2>4
<1> HIDE DEF w
<1> HIDE DEF text
<1>5. text = [k \in DOMAIN bs |-> w[k]]
  <2>1. bs = BlocksOf(m) /\ Listed(bs) /\ \A k \in DOMAIN bs : BlockAsText(bs[k]) = <<w[k]>>
    BY <1>1, <1>2, <1>4
  <2>2. MessageContentAsText(m) = [k \in DOMAIN bs |-> w[k]]
    BY ONLY <2>1, WordsOfBlocks
  <2> QED
    BY <2>2 DEF text
<1>6. ContentOf(c) = Text(text) /\ IsText(ContentOf(c)) /\ ~IsBlocks(ContentOf(c)) /\ ContentOf(c).text = text
    BY DEF ContentOf, Text, IsText, IsBlocks
<1>7. Texts(c) = <<text>> /\ BlocksIn(c) = <<>>
    BY <1>6 DEF Texts, BlocksIn
<1>8. ContentOf(m) = m.content
    BY DEF ContentOf
<1>9. BlocksIn(m) = bs /\ Texts(m) = [i \in DOMAIN bs |-> BlockText(bs[i])]
    BY <1>1, <1>8 DEF BlocksIn, Texts, BlockText
<1>10. ASSUME NEW kind \in {"said", "picture"}
       PROVE  AsMany(WordsIn(c, kind), WordsIn(m, kind))
  <2> DEFINE S2   == WordsIn(c, kind)
             back == [p \in S2 |-> Part(p.place, 1, p.of)]
  <2>1. \A p : p \in S2 <=> \E k \in DOMAIN bs : w[k].kind = kind /\ p = Part(1, k, w[k].of)
    <3>1. DOMAIN Texts(c) = {1} /\ Texts(c)[1] = text /\ DOMAIN text = DOMAIN bs /\ \A k \in DOMAIN bs : text[k] = w[k]
      BY <1>5, <1>7
    <3>2. \A p : p \in WordsIn(c, kind) <=>
             \E i \in {1} : \E j \in DOMAIN bs : text[j].kind = kind /\ p = Part(i, j, text[j].of)
      BY <3>1, WordIn
    <3> QED
      BY <3>1, <3>2
  <2>2. \A k \in DOMAIN bs : w[k].kind = kind => "text" \in DOMAIN bs[k] /\ BlockText(bs[k]) = <<w[k]>>
    BY <1>4 DEF BlockText
  <2>3. \A k \in DOMAIN bs : DOMAIN BlockText(bs[k]) \subseteq {1} /\ (1 \in DOMAIN BlockText(bs[k]) => BlockText(bs[k])[1] = w[k])
    BY <1>4 DEF BlockText
  <2>4. \A p : p \in WordsIn(m, kind) <=> \E k \in DOMAIN bs : w[k].kind = kind /\ p = Part(k, 1, w[k].of)
    <3>1. ASSUME NEW p \in WordsIn(m, kind)
          PROVE  \E k \in DOMAIN bs : w[k].kind = kind /\ p = Part(k, 1, w[k].of)
      <4>1. PICK k \in DOMAIN bs : \E j \in DOMAIN BlockText(bs[k]) :
                 BlockText(bs[k])[j].kind = kind /\ p = Part(k, j, BlockText(bs[k])[j].of)
        BY <1>9, <3>1, WordIn
      <4> QED
        BY <2>3, <4>1
    <3>2. ASSUME NEW k \in DOMAIN bs, w[k].kind = kind
          PROVE  Part(k, 1, w[k].of) \in WordsIn(m, kind)
      <4>1. k \in DOMAIN Texts(m) /\ Texts(m)[k] = <<w[k]>>
        BY <1>9, <2>2, <3>2
      <4>2. 1 \in DOMAIN Texts(m)[k] /\ Texts(m)[k][1] = w[k]
        BY <4>1
      <4> QED
        BY <3>2, <4>1, <4>2, WordIn
    <3> QED
      BY <3>1, <3>2
  <2> HIDE DEF S2
  <2>5. \A k \in DOMAIN bs : w[k].kind = kind =>
           Part(1, k, w[k].of) \in S2 /\ back[Part(1, k, w[k].of)] = Part(k, 1, w[k].of)
    BY <2>1, PartIs
  <2>6. ASSUME NEW p \in S2
        PROVE  back[p] \in WordsIn(m, kind) /\ back[p].of = p.of
    <3>1. PICK k \in DOMAIN bs : w[k].kind = kind /\ p = Part(1, k, w[k].of)
      BY <2>1
    <3>2. back[p] = Part(k, 1, w[k].of)
      BY <2>5, <3>1
    <3> HIDE DEF back
    <3> QED
      BY <2>4, <3>1, <3>2, PartIs
  <2>7. ASSUME NEW q \in WordsIn(m, kind)
        PROVE  \E p \in S2 : back[p] = q
    <3>1. PICK k \in DOMAIN bs : w[k].kind = kind /\ q = Part(k, 1, w[k].of)
      BY <2>4
    <3>2. Part(1, k, w[k].of) \in S2 /\ back[Part(1, k, w[k].of)] = q
      BY <2>5, <3>1
    <3> HIDE DEF back
    <3> QED
      BY <3>2
  <2>8. \A p, q \in S2 : Earlier(p, q) => Earlier(back[p], back[q])
    <3>1. ASSUME NEW p \in S2, NEW q \in S2, Earlier(p, q)
          PROVE  Earlier(back[p], back[q])
      <4>1. p.block = 1 /\ q.block = 1
        <5>1. \A x \in S2 : \E k \in DOMAIN bs : x = Part(1, k, w[k].of)
          BY <2>1
        <5> QED
          BY <5>1, PartIs
      <4>2. p.place < q.place
        BY <3>1, <4>1 DEF Earlier
      <4>3. back[p].block = p.place /\ back[q].block = q.place
        BY PartIs
      <4> HIDE DEF back
      <4> QED
        BY <4>2, <4>3 DEF Earlier
    <3> QED
      BY <3>1
  <2> HIDE DEF back
  <2>9. AsMany(S2, WordsIn(m, kind))
    BY <2>6, <2>7, <2>8, MovedParts
  <2> QED
    BY <2>9 DEF S2
<1>11. \A type \in PictureTypes \cup {"tool_use"} : type \notin TextTypes \cup {"tool_result"}
    BY DEF PictureTypes, TextTypes
<1>12. /\ Those(m, {"image", "image_url", "input_image"}) = {} /\ Those(m, {"tool_use"}) = {}
       /\ \A types : Those(c, types) = {}
    BY <1>3, <1>7, <1>9, <1>11 DEF Those, PictureTypes
<1>13. PicturesIn(m) = {} /\ PicturesIn(c) = {}
    BY <1>12 DEF PicturesIn
<1>14. {"tool_calls", "tool_call_id", "id", "call_id"} \cap DOMAIN m = {}
    BY DEF Fit
<1>15. /\ {"tool_calls", "id", "call_id"} \cap DOMAIN c = {}
       /\ "tool_call_id" \in DOMAIN c /\ c.tool_call_id = id
    OBVIOUS
<1> HIDE DEF c
<1>16. CallsIn(m) = {} /\ CallsIn(c) = {}
    BY <1>12, <1>14, <1>15 DEF CallsIn
<1>17. AnswersIn(c) = {Part(0, 1, id)}
    BY <1>12, <1>15 DEF AnswersIn
<1>18. AnswersIn(m) = {Part(i, 1, bs[i].tool_use_id) : i \in Those(m, {"tool_result"})}
    BY <1>9, <1>14 DEF AnswersIn
<1>19. AnswersLeft(AnswersIn(c), AnswersIn(m), "chat")
  <2>1. OfAll(AnswersIn(c)) = {id}
    BY <1>17, PartIs DEF OfAll
  <2>2. \A p : p \in AnswersIn(m) <=>
           \E k \in DOMAIN bs : bs[k].type = "tool_result" /\ p = Part(k, 1, bs[k].tool_use_id)
    BY <1>9, <1>18 DEF Those
  <2> DEFINE first == Part(r, 1, id)
  <2>3. first \in AnswersIn(m)
    BY <2>2
  <2>4. ASSUME NEW q \in AnswersIn(m)
        PROVE  /\ q = first \/ Earlier(first, q)
               /\ q = first \/ Earlier(q, first) => q = first
    <3>1. PICK k \in DOMAIN bs : bs[k].type = "tool_result" /\ q = Part(k, 1, bs[k].tool_use_id)
      BY <2>2
    <3>2. r <= k /\ k \in Nat /\ r \in Nat
      BY <1>1, <3>1
    <3>3. q.block = k /\ q.place = 1 /\ first.block = r /\ first.place = 1
      BY <3>1, PartIs
    <3>4. k = r => q = first
      BY <3>1
    <3> HIDE DEF first
    <3> QED
      BY <3>2, <3>3, <3>4 DEF Earlier
  <2> HIDE DEF first
  <2>5. FirstParts(AnswersIn(m)) = {first}
    BY <2>3, <2>4 DEF FirstParts
  <2>6. OfAll(FirstParts(AnswersIn(m))) = {id}
    <3>1. first.of = id
      BY PartIs DEF first
    <3> QED
      BY <2>5, <3>1 DEF OfAll
  <2>7. Upward(AnswersIn(c)) /\ AnswersIn(c) # {}
    BY <1>17, PartIs DEF Upward, Earlier
  <2> QED
    BY <2>1, <2>6, <2>7 DEF AnswersLeft
<1>20. AsMany({}, {})
    BY DEF AsMany
<1>21. InForm(c, "chat")
  <2>1. FormOf(Part(0, 1, id)) = "chat"
    BY PartIs DEF FormOf
  <2> QED
    BY <1>16, <1>17, <2>1 DEF InForm
<1>22. SaysAsMuch(c, m, "chat")
    BY <1>10, <1>13, <1>16, <1>19, <1>20, <1>21 DEF SaysAsMuch
<1> QED
    BY <1>22 DEF c, text

\* The i-th block of the one is the at[i]-th of the other.
LEMMA PickedParts ==
    ASSUME NEW S2, NEW S, NEW at, NEW n \in Nat,
           \A i, j \in 1..n : i < j => at[i] < at[j],
           \A p \in S2 : \E i \in 1..n : \E j, x : p = Part(i, j, x) /\ Part(at[i], j, x) \in S,
           \A q \in S : \E i \in 1..n : \E j, x : q = Part(at[i], j, x) /\ Part(i, j, x) \in S2
    PROVE  AsMany(S2, S)
<1> DEFINE back == [p \in S2 |-> Part(at[p.block], p.place, p.of)]
<1>1. ASSUME NEW i, NEW j, NEW x, Part(i, j, x) \in S2
      PROVE  back[Part(i, j, x)] = Part(at[i], j, x)
    BY <1>1, PartIs
<1> HIDE DEF back
<1>2. ASSUME NEW p \in S2
      PROVE  back[p] \in S /\ back[p].of = p.of
  <2>1. PICK i \in 1..n : \E j, x : p = Part(i, j, x) /\ Part(at[i], j, x) \in S
    OBVIOUS
  <2>2. PICK j, x : p = Part(i, j, x) /\ Part(at[i], j, x) \in S
    BY <2>1
  <2> QED
    BY <1>1, <2>2, PartIs
<1>3. ASSUME NEW q \in S
      PROVE  \E p \in S2 : back[p] = q
  <2>1. PICK i \in 1..n : \E j, x : q = Part(at[i], j, x) /\ Part(i, j, x) \in S2
    OBVIOUS
  <2>2. PICK j, x : q = Part(at[i], j, x) /\ Part(i, j, x) \in S2
    BY <2>1
  <2> QED
    BY <1>1, <2>2
<1>4. ASSUME NEW p \in S2, NEW q \in S2, Earlier(p, q)
      PROVE  Earlier(back[p], back[q])
  <2>1. PICK i \in 1..n : \E j, x : p = Part(i, j, x) /\ Part(at[i], j, x) \in S
    OBVIOUS
  <2>2. PICK j, x : p = Part(i, j, x)
    BY <2>1
  <2>3. PICK k \in 1..n : \E l, y : q = Part(k, l, y) /\ Part(at[k], l, y) \in S
    OBVIOUS
  <2>4. PICK l, y : q = Part(k, l, y)
    BY <2>3
  <2>5. back[p] = Part(at[i], j, x) /\ back[q] = Part(at[k], l, y)
    BY <1>1, <2>2, <2>4
  <2>6. i < k \/ (i = k /\ j < l)
    BY <1>4, <2>2, <2>4, PartIs DEF Earlier
  <2> QED
    BY <2>5, <2>6, PartIs DEF Earlier
<1> QED
    BY ONLY <1>2, <1>3, <1>4, MovedParts

LEMMA SpokenSays ==
    ASSUME NEW m, Fit(m), "content" \in DOMAIN m, ~IsText(m.content), NEW bs, bs = m.content.blocks,
           \A k \in DOMAIN bs : bs[k].type # "tool_result",
           NEW kept, NEW at, NEW types, Picked(kept, bs, types, Len(bs), at),
           \A k \in DOMAIN bs : bs[k].type \in types <=> bs[k].type \notin ToolTypes,
           NEW uses, NEW at2, Picked(uses, bs, {"tool_use"}, Len(bs), at2),
           NEW c, ContentOf(c) = (IF kept = <<>> THEN Text(<<>>) ELSE Blocks(BlocksFor(kept, "chat"))),
           {"tool_call_id", "id", "call_id"} \cap DOMAIN c = {},
           "tool_calls" \in DOMAIN c <=> uses # <<>>,
           "tool_calls" \in DOMAIN c => c.tool_calls = [i \in DOMAIN uses |-> uses[i].id]
    PROVE  SaysAsMuch(c, m, "chat")
<1> DEFINE cs == BlocksFor(kept, "chat")
           n  == Len(kept)
<1>2. IsBlocks(m.content) /\ BlocksFit(bs) /\ Listed(bs) /\ DOMAIN bs = 1..Len(bs) /\ Len(bs) \in Nat
    BY DEF Fit, BlocksFit, Listed
<1>3. /\ n \in Nat /\ DOMAIN kept = 1..n /\ Listed(kept)
      /\ \A i \in 1..n : at[i] \in DOMAIN bs /\ kept[i] = bs[at[i]] /\ bs[at[i]].type \in types
      /\ \A i, j \in 1..n : i < j => at[i] < at[j]
      /\ \A k \in DOMAIN bs : bs[k].type \in types => \E i \in 1..n : at[i] = k
    BY <1>2 DEF Picked, Listed
<1>4. BlocksIn(m) = bs /\ Texts(m) = [i \in DOMAIN bs |-> BlockText(bs[i])]
  <2>1. ContentOf(m) = m.content
    BY DEF ContentOf
  <2> QED
    BY <1>2, <2>1 DEF BlocksIn, Texts, BlockText
<1>5. \A k \in DOMAIN bs : BlockFit(bs[k])
    BY <1>2 DEF BlocksFit
<1>6. /\ DOMAIN cs = 1..n
      /\ \A i \in 1..n : BlockSays(cs[i], bs[at[i]])
  <2>1. DOMAIN cs = 1..n /\ \A i \in 1..n : cs[i] = ContentBlockForTarget(bs[at[i]], "chat")
    BY <1>3 DEF BlocksFor
  <2>2. \A i \in 1..n : BlockSays(ContentBlockForTarget(bs[at[i]], "chat"), bs[at[i]])
    BY <1>3, <1>5, ConvertedBlockSays
  <2> HIDE DEF cs
  <2> QED
    BY <2>1, <2>2
<1> HIDE DEF cs, n
<1>7. /\ BlocksIn(c) = (IF kept = <<>> THEN <<>> ELSE cs)
      /\ Texts(c) = IF kept = <<>> THEN <<<<>>>> ELSE [i \in 1..n |-> BlockText(cs[i])]
  <2>1. CASE kept = <<>>
    <3>1. IsText(ContentOf(c)) /\ ~IsBlocks(ContentOf(c)) /\ ContentOf(c).text = <<>>
      BY <2>1 DEF Text, IsText, IsBlocks
    <3> QED
      BY <2>1, <3>1 DEF BlocksIn, Texts
  <2>2. CASE kept # <<>>
    <3>1. ContentOf(c) = Blocks(cs)
      BY <2>2 DEF cs
    <3>2. BlocksIn(c) = cs /\ Texts(c) = [i \in DOMAIN cs |-> BlockText(cs[i])]
      BY ONLY <3>1, TextsOfBlocks
    <3>3. Texts(c) = [i \in 1..n |-> BlockText(cs[i])]
      BY ONLY <1>6, <3>2
    <3> QED
      BY <2>2, <3>2, <3>3
  <2> QED
    BY <2>1, <2>2
<1>8. kept = <<>> => n = 0
    BY DEF n
<1>9. \A i \in 1..n : BlockText(cs[i]) = BlockText(bs[at[i]])
    BY <1>6 DEF BlockSays, BlockText
<1>10. ASSUME NEW kind
       PROVE  AsMany(WordsIn(c, kind), WordsIn(m, kind))
  <2>1. ASSUME NEW p \in WordsIn(c, kind)
        PROVE  \E i \in 1..n : \E j, x : p = Part(i, j, x) /\ Part(at[i], j, x) \in WordsIn(m, kind)
    <3>1. PICK i \in DOMAIN Texts(c) : \E j \in DOMAIN Texts(c)[i] :
             Texts(c)[i][j].kind = kind /\ p = Part(i, j, Texts(c)[i][j].of)
      BY <2>1, WordIn
    <3>2. PICK j \in DOMAIN Texts(c)[i] : Texts(c)[i][j].kind = kind /\ p = Part(i, j, Texts(c)[i][j].of)
      BY <3>1
    <3>3. kept # <<>>
      <4>1. CASE kept = <<>>
        <5>1. Texts(c) = <<<<>>>> /\ DOMAIN Texts(c) = {1}
          BY <1>7, <4>1
        <5>2. Texts(c)[i] = <<>>
          BY <5>1
        <5> QED
          BY <5>2
      <4> QED
        BY <4>1
    <3>4. i \in 1..n /\ Texts(c)[i] = BlockText(bs[at[i]])
      BY <1>7, <1>9, <3>3
    <3>5. at[i] \in DOMAIN Texts(m) /\ Texts(m)[at[i]] = Texts(c)[i]
      BY <1>3, <1>4, <3>4
    <3>6. Part(at[i], j, Texts(c)[i][j].of) \in WordsIn(m, kind)
      BY <3>2, <3>5, WordIn
    <3> QED
      BY <3>2, <3>4, <3>6
  <2>2. ASSUME NEW q \in WordsIn(m, kind)
        PROVE  \E i \in 1..n : \E j, x : q = Part(at[i], j, x) /\ Part(i, j, x) \in WordsIn(c, kind)
    <3>1. PICK k \in DOMAIN Texts(m) : \E j \in DOMAIN Texts(m)[k] :
             Texts(m)[k][j].kind = kind /\ q = Part(k, j, Texts(m)[k][j].of)
      BY <2>2, WordIn
    <3>2. PICK j \in DOMAIN Texts(m)[k] : Texts(m)[k][j].kind = kind /\ q = Part(k, j, Texts(m)[k][j].of)
      BY <3>1
    <3>3. k \in DOMAIN bs /\ Texts(m)[k] = BlockText(bs[k])
      BY <1>4
    <3>4. "text" \in DOMAIN bs[k]
      <4>1. BlockText(bs[k]) # <<>>
        BY <3>2, <3>3
      <4> QED
        BY <4>1 DEF BlockText
    <3>5. bs[k].type \in types
      BY <1>5, <3>3, <3>4 DEF BlockFit, TextTypes, ToolTypes
    <3>6. PICK i \in 1..n : at[i] = k
      BY <1>3, <3>3, <3>5
    <3>7. kept # <<>>
      BY <1>8
    <3>8. i \in DOMAIN Texts(c) /\ Texts(c)[i] = Texts(m)[k]
      BY <1>7, <1>9, <3>3, <3>6, <3>7
    <3>9. Part(i, j, Texts(m)[k][j].of) \in WordsIn(c, kind)
      BY <3>2, <3>8, WordIn
    <3> QED
      BY <3>2, <3>6, <3>9
  <2>3. n \in Nat /\ \A i, j \in 1..n : i < j => at[i] < at[j]
    BY <1>3
  <2> DEFINE S2 == WordsIn(c, kind)
             S  == WordsIn(m, kind)
  <2>4. \A p \in S2 : \E i \in 1..n : \E j, x : p = Part(i, j, x) /\ Part(at[i], j, x) \in S
    BY <2>1
  <2>5. \A q \in S : \E i \in 1..n : \E j, x : q = Part(at[i], j, x) /\ Part(i, j, x) \in S2
    BY <2>2
  <2> HIDE DEF S2, S
  <2>6. AsMany(S2, S)
    BY ONLY <2>3, <2>4, <2>5, PickedParts
  <2> QED
    BY <2>6 DEF S2, S
<1> DEFINE of(b) == IF IsPicture(b) THEN b.source.of ELSE b.url.of
<1>11. /\ PicturesIn(m) = {Part(i, 1, of(bs[i])) : i \in {k \in DOMAIN bs : bs[k].type \in PictureTypes}}
       /\ PicturesIn(c) = {Part(i, 1, of(cs[i])) : i \in {k \in 1..n : cs[k].type \in PictureTypes}}
  <2>1. Those(m, {"image", "image_url", "input_image"}) = {k \in DOMAIN bs : bs[k].type \in PictureTypes}
    BY <1>4 DEF Those, PictureTypes
  <2>2. Those(c, {"image", "image_url", "input_image"}) = {k \in 1..n : cs[k].type \in PictureTypes}
    BY <1>6, <1>7, <1>8 DEF Those, PictureTypes
  <2>3. \A i \in 1..n : BlocksIn(c) = cs
    BY <1>7, <1>8
  <2> QED
    BY <1>4, <2>1, <2>2, <2>3 DEF PicturesIn
<1>12. AsMany(PicturesIn(c), PicturesIn(m))
  <2>1. \A i \in 1..n : cs[i].type \in PictureTypes =>
           at[i] \in DOMAIN bs /\ bs[at[i]].type \in PictureTypes /\ of(bs[at[i]]) = of(cs[i])
    BY <1>3, <1>6 DEF BlockSays
  <2>2. ASSUME NEW k \in DOMAIN bs, bs[k].type \in PictureTypes
        PROVE  \E i \in 1..n : at[i] = k /\ cs[i].type \in PictureTypes /\ of(cs[i]) = of(bs[k])
    <3>1. bs[k].type \in types
      BY <2>2 DEF PictureTypes, ToolTypes
    <3>2. PICK i \in 1..n : at[i] = k
      BY <1>3, <3>1
    <3> QED
      BY <1>6, <2>2, <3>2 DEF BlockSays
  <2> HIDE DEF of
  <2>3. ASSUME NEW p \in PicturesIn(c)
        PROVE  \E i \in 1..n : \E j, x : p = Part(i, j, x) /\ Part(at[i], j, x) \in PicturesIn(m)
    <3>1. PICK i \in 1..n : cs[i].type \in PictureTypes /\ p = Part(i, 1, of(cs[i]))
      BY <1>11, <2>3
    <3>2. Part(at[i], 1, of(cs[i])) \in PicturesIn(m)
      BY <1>11, <2>1, <3>1
    <3> QED
      BY <3>1, <3>2
  <2>4. ASSUME NEW q \in PicturesIn(m)
        PROVE  \E i \in 1..n : \E j, x : q = Part(at[i], j, x) /\ Part(i, j, x) \in PicturesIn(c)
    <3>1. PICK k \in DOMAIN bs : bs[k].type \in PictureTypes /\ q = Part(k, 1, of(bs[k]))
      BY <1>11, <2>4
    <3>2. PICK i \in 1..n : at[i] = k /\ cs[i].type \in PictureTypes /\ of(cs[i]) = of(bs[k])
      BY <2>2, <3>1
    <3>3. Part(i, 1, of(bs[k])) \in PicturesIn(c)
      BY <1>11, <3>2
    <3> QED
      BY <3>1, <3>2, <3>3
  <2>5. n \in Nat /\ \A i, j \in 1..n : i < j => at[i] < at[j]
    BY <1>3
  <2> QED
    BY ONLY <2>3, <2>4, <2>5, PickedParts
<1>13. {"tool_calls", "tool_call_id", "id", "call_id"} \cap DOMAIN m = {}
    BY DEF Fit
<1>14. \A type \in ToolTypes : Those(c, {type}) = {}
    BY <1>3, <1>6, <1>7, <1>8 DEF Those, BlockSays
<1>15. Those(m, {"tool_result"}) = {}
    BY <1>4 DEF Those
<1>16. AnswersIn(c) = {} /\ AnswersIn(m) = {}
    BY <1>13, <1>14, <1>15 DEF AnswersIn, ToolTypes
<1>17. AsMany(CallsIn(c), CallsIn(m))
  <2> DEFINE M    == Len(uses)
             S2   == CallsIn(c)
             back == [p \in S2 |-> Part(at2[p.place], 1, p.of)]
  <2>1. /\ M \in Nat /\ DOMAIN uses = 1..M
        /\ \A i \in 1..M : at2[i] \in DOMAIN bs /\ uses[i] = bs[at2[i]] /\ bs[at2[i]].type = "tool_use"
        /\ \A i, j \in 1..M : i < j => at2[i] < at2[j]
        /\ \A k \in DOMAIN bs : bs[k].type = "tool_use" => \E i \in 1..M : at2[i] = k
    BY <1>2 DEF Picked, Listed
  <2> HIDE DEF M
  <2>2. \A p : p \in S2 <=> \E i \in 1..M : p = Part(0, i, bs[at2[i]].id)
    <3>1. CASE uses = <<>>
      <4>1. S2 = {}
        BY <1>14, <3>1 DEF CallsIn, ToolTypes
      <4>2. M = 0
        BY <3>1 DEF M
      <4> QED
        BY <4>1, <4>2
    <3>2. CASE uses # <<>>
      <4>1. S2 = {Part(0, i, c.tool_calls[i]) : i \in DOMAIN c.tool_calls}
        BY <1>14, <3>2 DEF CallsIn, ToolTypes
      <4>2. c.tool_calls = [i \in 1..M |-> bs[at2[i]].id]
        BY <2>1, <3>2
      <4> QED
        BY <4>1, <4>2
    <3> QED
      BY <3>1, <3>2
  <2>3. CallsIn(m) = {Part(i, 1, bs[i].id) : i \in {k \in DOMAIN bs : bs[k].type = "tool_use"}}
    BY <1>4, <1>13 DEF CallsIn, Those
  <2> HIDE DEF S2
  <2>4. ASSUME NEW i \in 1..M
        PROVE  Part(0, i, bs[at2[i]].id) \in S2 /\ back[Part(0, i, bs[at2[i]].id)] = Part(at2[i], 1, bs[at2[i]].id)
    BY <2>2, PartIs
  <2> HIDE DEF back
  <2>5. ASSUME NEW p \in S2
        PROVE  back[p] \in CallsIn(m) /\ back[p].of = p.of
    <3>1. PICK i \in 1..M : p = Part(0, i, bs[at2[i]].id)
      BY <2>2
    <3> QED
      BY <2>1, <2>3, <2>4, <3>1, PartIs
  <2>6. ASSUME NEW q \in CallsIn(m)
        PROVE  \E p \in S2 : back[p] = q
    <3>1. PICK k \in DOMAIN bs : bs[k].type = "tool_use" /\ q = Part(k, 1, bs[k].id)
      BY <2>3
    <3>2. PICK i \in 1..M : at2[i] = k
      BY <2>1, <3>1
    <3> QED
      BY <2>4, <3>1, <3>2
  <2>7. ASSUME NEW p \in S2, NEW q \in S2, Earlier(p, q)
        PROVE  Earlier(back[p], back[q])
    <3>1. PICK i \in 1..M : p = Part(0, i, bs[at2[i]].id)
      BY <2>2
    <3>2. PICK j \in 1..M : q = Part(0, j, bs[at2[j]].id)
      BY <2>2
    <3>3. i < j
      BY <2>7, <3>1, <3>2, PartIs DEF Earlier
    <3>4. back[p].block = at2[i] /\ back[q].block = at2[j]
      BY <2>4, <3>1, <3>2, PartIs
    <3> QED
      BY <2>1, <3>3, <3>4 DEF Earlier
  <2>8. AsMany(S2, CallsIn(m))
    BY <2>5, <2>6, <2>7, MovedParts
  <2> QED
    BY <2>8 DEF S2
<1>18. AnswersLeft({}, {}, "chat")
    BY NothingLeft
<1>19. InForm(c, "chat")
  <2>1. CallsIn(c) \subseteq {Part(0, i, uses[i].id) : i \in DOMAIN uses}
    <3>1. CASE uses = <<>>
      <4>1. CallsIn(c) = {}
        BY <1>14, <3>1 DEF CallsIn, ToolTypes
      <4> QED
        BY <4>1
    <3>2. CASE uses # <<>>
      <4>1. CallsIn(c) = {Part(0, i, c.tool_calls[i]) : i \in DOMAIN c.tool_calls}
        BY <1>14, <3>2 DEF CallsIn, ToolTypes
      <4> QED
        BY <3>2, <4>1
    <3> QED
      BY <3>1, <3>2
  <2>2. \A i \in DOMAIN uses : i # 0
    <3>1. Listed(uses)
      BY <1>2 DEF Picked
    <3>2. DOMAIN uses = 1..Len(uses) /\ Len(uses) \in Nat
      BY <3>1 DEF Listed
    <3> QED
      BY <3>2
  <2>3. \A i \in DOMAIN uses : FormOf(Part(0, i, uses[i].id)) = "chat"
    BY <2>2, PartIs DEF FormOf
  <2> QED
    BY <1>16, <2>1, <2>3 DEF InForm
<1> QED
    BY <1>10, <1>12, <1>16, <1>17, <1>18, <1>19 DEF SaysAsMuch

LEMMA NothingSelected ==
    ASSUME NEW bs, Listed(bs), NEW types, \A k \in DOMAIN bs : bs[k].type \notin types
    PROVE  Selected(bs, types) = <<>>
<1> DEFINE list == Selected(bs, types)
<1>1. PICK at : Picked(list, bs, types, Len(bs), at)
    BY SelectedAre
<1> HIDE DEF list
<1>2. Listed(list) /\ \A i \in 1..Len(list) : at[i] \in 1..Len(bs) /\ bs[at[i]].type \in types
    BY <1>1 DEF Picked
<1>3. Len(list) = 0 /\ list \in Seq({list[i] : i \in DOMAIN list})
    BY <1>2 DEF Listed
<1>4. list = <<>>
    BY <1>3
<1> QED
    BY <1>4 DEF list

LEMMA EmptyIsListed == Listed(<<>>) /\ DOMAIN <<>> = {} /\ Len(<<>>) = 0
<1>1. Listed(<<>>)
    BY SequenceIsList, <<>> \in Seq({})
<1> QED
    BY <1>1

LEMMA EmptyList ==
    ASSUME NEW s, Listed(s), DOMAIN s = {}
    PROVE  s = <<>>
<1>1. Len(s) = 0 /\ s \in Seq({s[i] : i \in DOMAIN s})
    BY DEF Listed
<1> QED
    BY <1>1

LEMMA ChatMessageSays ==
    ASSUME NEW m, Fit(m), "content" \in DOMAIN m
    PROVE  SaysAsMuch(MessageToOpenAiChat(m), m, "chat") /\ Plain(MessageToOpenAiChat(m))
<1> DEFINE bs      == BlocksOf(m)
           uses    == OfType(bs, "tool_use")
           results == OfType(bs, "tool_result")
           called  == ToolCalls(m)
           spoken  == [role |-> m.role, content |-> ChatContent(m)]
           calling == Put(spoken, "tool_calls", called)
           c       == MessageToOpenAiChat(m)
<1>1. c = IF results # <<>> THEN ToolMessage(m) ELSE IF called = <<>> THEN spoken ELSE calling
    BY DEF MessageToOpenAiChat
<1>2. called = [i \in DOMAIN uses |-> uses[i].id]
    BY DEF ToolCalls
<1>3. /\ ContentOf(spoken) = ChatContent(m) /\ ContentOf(calling) = ChatContent(m)
      /\ spoken.content = ChatContent(m) /\ calling.content = ChatContent(m)
      /\ {"tool_calls", "tool_call_id", "id", "call_id"} \cap DOMAIN spoken = {}
      /\ {"tool_call_id", "id", "call_id"} \cap DOMAIN calling = {}
      /\ "tool_calls" \in DOMAIN calling /\ calling.tool_calls = called
    BY DEF ContentOf, Put, Joined
<1>4. Listed(bs)
  <2>1. IsBlocks(m.content) => Listed(m.content.blocks)
    BY DEF Fit, BlocksFit
  <2> QED
    BY <2>1, EmptyIsListed DEF BlocksOf
<1>5. PICK at2 : Picked(uses, bs, {"tool_use"}, Len(bs), at2)
    BY <1>4, SelectedAre DEF OfType
<1>6. PICK at3 : Picked(results, bs, {"tool_result"}, Len(bs), at3)
    BY <1>4, SelectedAre DEF OfType
<1>7. Listed(uses) /\ Listed(results) /\ DOMAIN bs = 1..Len(bs)
    BY <1>4, <1>5, <1>6 DEF Picked, Listed
<1> HIDE DEF c, calling, spoken
<1>8. CASE IsText(m.content)
  <2>1. ~IsBlocks(m.content)
    BY <1>8 DEF Fit
  <2>2. bs = <<>> /\ ChatContent(m) = m.content
    BY <1>8, <2>1 DEF BlocksOf, ChatContent
  <2>3. uses = <<>> /\ results = <<>>
    BY <2>2, EmptyIsListed, NothingSelected DEF OfType
  <2>4. called = <<>>
    BY <1>2, <2>3
  <2>5. c = spoken
    BY <1>1, <2>3, <2>4
  <2>6. ContentOf(m) = m.content
    BY DEF ContentOf
  <2>7. {"tool_calls", "tool_call_id", "id", "call_id"} \cap DOMAIN m = {}
    BY DEF Fit
  <2>8. SaysTheSame(spoken, m)
    BY <1>3, <2>2, <2>6, <2>7, SameContent
  <2>9. Plain(spoken)
    BY <1>3, <1>8, <2>1, <2>2 DEF Plain
  <2>10. CallsIn(m) = {} /\ AnswersIn(m) = {}
    <3>1. BlocksIn(m) = <<>>
      BY <1>8, <2>1, <2>6 DEF BlocksIn
    <3>2. \A types : Those(m, types) = {}
      BY <3>1 DEF Those
    <3> QED
      BY <2>7, <3>2 DEF CallsIn, AnswersIn
  <2>11. SaysAsMuch(spoken, m, "chat")
    BY <2>8, <2>10, SameIsAsMuch DEF InForm
  <2> QED
    BY <2>5, <2>9, <2>11 DEF c
<1>9. CASE ~IsText(m.content)
  <2>1. IsBlocks(m.content) /\ BlocksFit(m.content.blocks)
    BY <1>9 DEF Fit
  <2>2. bs = m.content.blocks
    BY <2>1 DEF BlocksOf
  <2>3. CASE results # <<>>
    <3>1. c = ToolMessage(m)
      BY <1>1, <2>3
    <3> DEFINE id == Head(results).tool_use_id
    <3>2. ToolMessage(m) = [role |-> "tool", tool_call_id |-> id, content |-> Text(MessageContentAsText(m))]
      BY DEF ToolMessage
    <3>3. 1 \in 1..Len(results) /\ Head(results) = results[1]
      <4>1. Len(results) \in Nat /\ results \in Seq({results[i] : i \in DOMAIN results})
        BY <1>7 DEF Listed
      <4> HIDE DEF results
      <4> QED
        BY <2>3, <4>1
    <3>4. at3[1] \in DOMAIN bs /\ bs[at3[1]].type = "tool_result" /\ id = bs[at3[1]].tool_use_id
      BY <1>6, <1>7, <3>3 DEF Picked
    <3>7. \A k \in DOMAIN bs : bs[k].type = "tool_result" => at3[1] <= k
      <4>1. ASSUME NEW k \in DOMAIN bs, bs[k].type = "tool_result"
            PROVE  at3[1] <= k
        <5>1. PICK i \in 1..Len(results) : at3[i] = k
          BY <1>6, <1>7, <4>1 DEF Picked
        <5>2. i = 1 \/ at3[1] < at3[i]
          BY <1>6, <3>3 DEF Picked
        <5>3. at3[1] \in Int /\ k \in Int
          BY <1>7, <3>4
        <5> HIDE DEF results, bs
        <5> QED
          BY <5>1, <5>2, <5>3
      <4> QED
        BY <4>1
    <3> HIDE DEF id, results, bs
    <3>5. SaysAsMuch([role |-> "tool", tool_call_id |-> id, content |-> Text(MessageContentAsText(m))], m, "chat")
      BY <1>9, <2>2, <3>4, <3>7, AnswerSays
    <3>6. Plain([role |-> "tool", tool_call_id |-> id, content |-> Text(MessageContentAsText(m))])
      BY DEF Plain, Text, IsText, IsBlocks
    <3> QED
      BY <3>1, <3>2, <3>5, <3>6 DEF c
  <2>4. CASE results = <<>>
    <3> DEFINE types == {bs[i].type : i \in DOMAIN bs} \ {"tool_use", "tool_result"}
               kept  == WithoutTools(bs)
    <3>1. PICK at : Picked(kept, bs, types, Len(bs), at)
      BY <1>4, SelectedAre DEF WithoutTools
    <3>2. \A k \in DOMAIN bs : bs[k].type \in types <=> bs[k].type \notin ToolTypes
      BY DEF ToolTypes
    <3>3. \A k \in DOMAIN bs : bs[k].type # "tool_result"
      <4>1. \A k \in 1..Len(bs) : bs[k].type \in {"tool_result"} => \E i \in 1..Len(results) : at3[i] = k
        BY <1>6 DEF Picked
      <4>2. 1..Len(results) = {}
        BY <2>4
      <4> QED
        BY <1>7, <4>1, <4>2
    <3>4. ChatContent(m) = IF kept = <<>> THEN Text(<<>>) ELSE Blocks(BlocksFor(kept, "chat"))
      BY <1>9, <2>1 DEF ChatContent
    <3>5. c = IF called = <<>> THEN spoken ELSE calling
      BY <1>1, <2>4
    <3>6. called = <<>> <=> uses = <<>>
      <4> HIDE DEF uses
      <4>1. DOMAIN called = DOMAIN uses
        BY <1>2
      <4>2. uses = <<>> => called = <<>>
        BY <1>2
      <4>3. DOMAIN <<>> = {}
        BY EmptyIsListed
      <4>4. called = <<>> => uses = <<>>
        BY <1>7, <4>1, <4>3, EmptyList
      <4> QED
        BY <4>2, <4>4
    <3> HIDE DEF bs, uses, results, kept, types, called
    <3>7. /\ ContentOf(c) = IF kept = <<>> THEN Text(<<>>) ELSE Blocks(BlocksFor(kept, "chat"))
          /\ {"tool_call_id", "id", "call_id"} \cap DOMAIN c = {}
          /\ "tool_calls" \in DOMAIN c <=> uses # <<>>
          /\ "tool_calls" \in DOMAIN c => c.tool_calls = [i \in DOMAIN uses |-> uses[i].id]
          /\ c.content = IF kept = <<>> THEN Text(<<>>) ELSE Blocks(BlocksFor(kept, "chat"))
      BY <1>2, <1>3, <3>4, <3>5, <3>6
    <3>8. SaysAsMuch(c, m, "chat")
      BY <1>5, <1>9, <2>2, <3>1, <3>2, <3>3, <3>7, SpokenSays
    <3>9. Plain(c)
      <4>1. CASE kept = <<>>
        BY <3>7, <4>1 DEF Plain, Text, IsText, IsBlocks
      <4>2. CASE kept # <<>>
        <5>1. /\ Listed(kept) /\ DOMAIN kept = 1..Len(kept)
              /\ \A i \in DOMAIN kept : kept[i] \in {bs[k] : k \in DOMAIN bs} /\ kept[i].type # "tool_result"
          <6>1. Listed(kept) /\ \A i \in 1..Len(kept) : at[i] \in 1..Len(bs) /\ kept[i] = bs[at[i]]
            BY <3>1 DEF Picked
          <6>2. DOMAIN kept = 1..Len(kept)
            BY <6>1 DEF Listed
          <6> QED
            BY <1>7, <3>3, <6>1, <6>2
        <5>2. BlocksFit(kept)
          BY <2>1, <2>2, <5>1 DEF BlocksFit
        <5> DEFINE cs == BlocksFor(kept, "chat")
        <5>3. Listed(cs) /\ DOMAIN cs = DOMAIN kept /\ \A i \in DOMAIN kept : BlockSays(cs[i], kept[i])
          BY <5>2, ConvertedBlocksSay
        <5>4. c.content = Blocks(cs)
          BY <3>7, <4>2
        <5> HIDE DEF cs
        <5> QED
          <6>1. CASE "content" \in DOMAIN c
            BY <5>2, <5>3, <5>4, <6>1, PlainBlocks
          <6>2. CASE "content" \notin DOMAIN c
            BY <6>2 DEF Plain
          <6> QED
            BY <6>1, <6>2
      <4> QED
        BY <4>1, <4>2
    <3> QED
      BY <3>8, <3>9 DEF c
  <2> QED
    BY <2>3, <2>4
<1> QED
    BY <1>8, <1>9

--------------------------------------------------------------------------------
(***************************************************************************)
(* A body that is prepared carries the messages of the client.             *)
(***************************************************************************)
AllPlain(list) == \A i \in DOMAIN list : Plain(list[i])

LEMMA FollowsAtOnce ==
    ASSUME NEW form, NEW V, NEW L, Listed(V), Listed(L), DOMAIN V = DOMAIN L, \A i \in DOMAIN L : SaysAsMuch(V[i], L[i], form)
    PROVE  Follows(V, L, form)
<1>1. Len(V) = Len(L) /\ Len(L) \in Nat /\ DOMAIN L = 1..Len(L)
  <2> DEFINE v == Len(V)
             l == Len(L)
  <2>1. 1..v = 1..l /\ v \in Nat /\ l \in Nat
    BY DEF Listed
  <2> HIDE DEF v, l
  <2>2. v \in 1..l \/ v = 0
    BY <2>1
  <2>3. l \in 1..v \/ l = 0
    BY <2>1
  <2>4. v = l
    BY <2>1, <2>2, <2>3
  <2> QED
    BY <2>1, <2>4 DEF Listed, v, l
<1>2. FollowsAfter(V, L, 0, form)
    BY <1>1 DEF FollowsAfter
<1> QED
    BY <1>2 DEF Follows

LEMMA FollowsASystem ==
    ASSUME NEW form, NEW V, NEW L, Follows(V, L, form), NEW system, Listed(system), \A i \in DOMAIN system : Silent(system[i])
    PROVE  Follows(system \o V, L, form)
<1>1. Listed(V)
    BY DEF Follows, FollowsAfter
<1>2. \A i \in 1..Len(system) : Silent(system[i])
    BY DEF Listed
<1>3. \A i \in 1..Len(V) : SaysTheSame(V[i], V[i])
    BY DEF SaysTheSame
<1> QED
    BY <1>1, <1>2, <1>3, StillFollows

LEMMA JoinedPlain ==
    ASSUME NEW s, NEW t, Listed(s), Listed(t), AllPlain(s), AllPlain(t)
    PROVE  AllPlain(s \o t)
<1>1. \A i \in DOMAIN (s \o t) :
         \/ \E j \in DOMAIN s : (s \o t)[i] = s[j]
         \/ \E j \in DOMAIN t : (s \o t)[i] = t[j]
  <2>1. Listed(s) /\ Listed(t)
    OBVIOUS
  <2> QED
    BY ONLY <2>1, JoinedLists
<1> DEFINE both == s \o t
<1>2. \A i \in DOMAIN both : (\E j \in DOMAIN s : both[i] = s[j]) \/ (\E j \in DOMAIN t : both[i] = t[j])
    BY <1>1
<1> HIDE DEF both
<1>3. AllPlain(both)
    BY <1>2 DEF AllPlain
<1> QED
    BY <1>3 DEF both

LEMMA QuietBlockIsSilent ==
    ASSUME NEW text, Quiet(text), NEW role
    PROVE  Silent([role |-> role, content |-> Blocks(<<[type |-> "input_text", text |-> text]>>)])
<1> DEFINE one == <<[type |-> "input_text", text |-> text]>>
           m   == [role |-> role, content |-> Blocks(one)]
<1>1. DOMAIN one = {1} /\ one[1].type = "input_text" /\ BlockText(one[1]) = text
    BY DEF BlockText
<1> HIDE DEF one
<1>2. ContentOf(m) = Blocks(one)
    BY DEF ContentOf
<1>3. {"tool_calls", "tool_call_id", "id", "call_id"} \cap DOMAIN m = {}
    OBVIOUS
<1> HIDE DEF m
<1>4. BlocksIn(m) = one /\ Texts(m) = [i \in DOMAIN one |-> BlockText(one[i])]
    BY <1>2, TextsOfBlocks
<1>5. /\ Those(m, {"tool_use"}) = {} /\ Those(m, {"tool_result"}) = {}
      /\ Those(m, {"image", "image_url", "input_image"}) = {}
    BY <1>1, <1>4 DEF Those
<1>6. DOMAIN Texts(m) = {1} /\ Texts(m)[1] = text
    BY <1>1, <1>4
<1>7. \A kind \in {"said", "picture"} : WordsIn(m, kind) = {}
    BY <1>6 DEF WordsIn, Quiet
<1>8. CallsIn(m) = {} /\ AnswersIn(m) = {} /\ PicturesIn(m) = {}
    BY <1>3, <1>5 DEF CallsIn, AnswersIn, PicturesIn
<1> QED
    BY <1>7, <1>8 DEF Silent, m, one

LEMMA QuietTexts ==
    ASSUME NEW body, "system" \in DOMAIN body => QuietSystem(body.system), NEW i \in DOMAIN SystemText(body)
    PROVE  Quiet(SystemText(body)[i])
<1>1. "system" \in DOMAIN body /\ SystemText(body) = TextFromSystem(body.system)
    BY DEF SystemText
<1> QED
    BY <1>1 DEF QuietSystem

\* The messages of Claude have the calls and the answers in their blocks.
LEMMA FitIsInForm ==
    ASSUME NEW m, Fit(m), "content" \in DOMAIN m
    PROVE  InForm(m, "anthropic")
<1> DEFINE bs == BlocksIn(m)
<1>1. {"tool_calls", "tool_call_id", "id", "call_id"} \cap DOMAIN m = {}
    BY DEF Fit
<1>2. \A i \in DOMAIN bs : i # 0
  <2>1. ContentOf(m) = m.content
    BY DEF ContentOf
  <2>2. Listed(bs)
    <3>1. CASE IsBlocks(m.content)
      BY <2>1, <3>1 DEF Fit, BlocksFit, BlocksIn
    <3>2. CASE ~IsBlocks(m.content)
      BY <2>1, <3>2, EmptyIsListed DEF BlocksIn
    <3> QED
      BY <3>1, <3>2
  <2>3. DOMAIN bs = 1..Len(bs) /\ Len(bs) \in Nat
    BY <2>2 DEF Listed
  <2> HIDE DEF bs
  <2> QED
    BY <2>3
<1>3. \A p \in CallsIn(m) \cup AnswersIn(m) : \E i \in DOMAIN bs : \E x : p = Part(i, 1, x)
    BY <1>1 DEF CallsIn, AnswersIn, Those
<1> HIDE DEF bs
<1>4. \A p \in CallsIn(m) \cup AnswersIn(m) : p.block # 0
    BY <1>2, <1>3, PartIs
<1> QED
    BY <1>4 DEF InForm, FormOf

LEMMA ChatPreparedCarries ==
    ASSUME NEW body, NEW L, body.messages = L, Listed(L), \A i \in DOMAIN L : Fit(L[i]) /\ "content" \in DOMAIN L[i],
           "system" \in DOMAIN body => QuietSystem(body.system), NEW model
    PROVE  Carries(AnthropicBodyToOpenAiChat(body, model), L, "chat")
<1> DEFINE system == [i \in DOMAIN SystemText(body) |-> [role |-> "system", content |-> Text(SystemText(body)[i])]]
           said   == [i \in DOMAIN L |-> MessageToOpenAiChat(L[i])]
           fields == CopyCommonRequestFields(body, "OpenAiChat")
           all    == system \o said
           b      == AnthropicBodyToOpenAiChat(body, model)
<1>1. Listed(system) /\ AllPlain(system) /\ \A i \in DOMAIN system : Silent(system[i])
  <2>1. Listed(system)
    BY SystemIsShort, ShortList
  <2>2. \A i \in DOMAIN SystemText(body) : Quiet(SystemText(body)[i])
    BY QuietTexts
  <2> QED
    BY <2>1, <2>2, QuietIsSilent DEF AllPlain
<1>2. Listed(said) /\ DOMAIN said = DOMAIN L
    BY MappedList
<1>3. AllPlain(said) /\ \A i \in DOMAIN L : SaysAsMuch(said[i], L[i], "chat")
    BY ChatMessageSays DEF AllPlain
<1>4. {"messages", "contents", "system"} \cap DOMAIN fields = {}
    BY DEF CopyCommonRequestFields, Copied
<1>5. b = Joined([model |-> model, messages |-> all], fields)
    BY DEF AnthropicBodyToOpenAiChat
<1> HIDE DEF system, said, fields, b
<1>6. Follows(said, L, "chat")
    BY <1>2, <1>3, FollowsAtOnce
<1>7. Follows(all, L, "chat")
    BY <1>1, <1>6, FollowsASystem
<1>8. AllPlain(all)
    BY <1>1, <1>2, <1>3, JoinedPlain
<1> HIDE DEF all
<1>9. "messages" \in DOMAIN b /\ b.messages = all /\ {"contents", "system"} \cap DOMAIN b = {}
    BY <1>4, <1>5 DEF Joined
<1>10. Carries(b, L, "chat")
    BY <1>7, <1>8, <1>9 DEF Carries, AllPlain
<1> QED
    BY <1>10 DEF b

LEMMA ResponsesPreparedCarries ==
    ASSUME NEW body, NEW L, body.messages = L, Listed(L), \A i \in DOMAIN L : Fit(L[i]) /\ "content" \in DOMAIN L[i],
           "system" \in DOMAIN body => QuietSystem(body.system), NEW model
    PROVE  Carries(AnthropicBodyToOpenAiResponses(body, model), L, "anthropic")
<1> DEFINE system == [i \in DOMAIN SystemText(body) |->
                         [role |-> "system",
                          content |-> Blocks(<<[type |-> "input_text", text |-> SystemText(body)[i]]>>)]]
           said   == [i \in DOMAIN L |-> MessageToResponsesInput(L[i])]
           fields == CopyCommonRequestFields(body, "OpenAiResponses")
           all    == system \o said
           b      == AnthropicBodyToOpenAiResponses(body, model)
<1>1. Listed(system) /\ \A i \in DOMAIN system : Silent(system[i])
  <2>1. Listed(system)
    BY SystemIsShort, ShortList
  <2>2. \A i \in DOMAIN SystemText(body) : Quiet(SystemText(body)[i])
    BY QuietTexts
  <2> QED
    BY <2>1, <2>2, QuietBlockIsSilent
<1>2. Listed(said) /\ DOMAIN said = DOMAIN L
    BY MappedList
<1>3. \A i \in DOMAIN L : SaysAsMuch(said[i], L[i], "anthropic")
    BY ResponsesMessageSays, FitIsInForm, SameIsAsMuch
<1>4. {"messages", "contents", "prompt", "system"} \cap DOMAIN fields = {}
    BY DEF CopyCommonRequestFields, Copied
<1>5. b = Joined([model |-> model, input |-> [items |-> all]], fields)
    BY DEF AnthropicBodyToOpenAiResponses
<1> HIDE DEF system, said, fields, b
<1>6. Follows(said, L, "anthropic")
    BY <1>2, <1>3, FollowsAtOnce
<1>7. Follows(all, L, "anthropic")
    BY <1>1, <1>6, FollowsASystem
<1> HIDE DEF all
<1>8. /\ {"messages", "contents", "prompt", "system"} \cap DOMAIN b = {}
      /\ "input" \in DOMAIN b /\ b.input = [items |-> all]
    BY <1>4, <1>5 DEF Joined
<1>9. MessagesOf(b) = all
  <2>1. "items" \in DOMAIN b.input /\ b.input.items = all
    BY <1>8
  <2> QED
    BY <1>8, <2>1 DEF MessagesOf
<1>10. Carries(b, L, "anthropic")
    BY <1>7, <1>8, <1>9 DEF Carries
<1> QED
    BY <1>10 DEF b

LEMMA NormalizedCarry ==
    ASSUME NEW form, NEW L, Listed(L), \A i \in DOMAIN L : Fit(L[i]) /\ InForm(L[i], form),
           form # "chat", NEW target \in {"anthropic", "chat", "responses"}
    PROVE  Follows(NormalizeMessages(L, target), L, form) /\ AllPlain(NormalizeMessages(L, target))
<1> DEFINE said == NormalizeMessages(L, target)
<1>1. DOMAIN said = DOMAIN L /\ said = [i \in DOMAIN L |-> said[i]]
    BY DEF NormalizeMessages
<1>2. Listed(said)
    BY <1>1, MappedList
<1>3. AllPlain(said) /\ \A i \in DOMAIN L : SaysAsMuch(said[i], L[i], form)
    BY <1>1, NormalizedSays, SameIsAsMuch DEF AllPlain, NormalizeMessages
<1> HIDE DEF said
<1>4. Follows(said, L, form)
    BY <1>1, <1>2, <1>3, FollowsAtOnce
<1> QED
    BY <1>3, <1>4 DEF said

LEMMA ClaudePreparedCarries ==
    ASSUME NEW body, NEW L, body.messages = L, Listed(L), \A i \in DOMAIN L : Fit(L[i]) /\ "content" \in DOMAIN L[i],
           "contents" \notin DOMAIN body,
           "system" \in DOMAIN body => QuietSystem(body.system), NEW model, NEW mode,
           NEW form, form = IF mode = "OpenAiChat" THEN "chat" ELSE "anthropic"
    PROVE  Carries(PrepareAnthropicBodyForMode(body, model, mode), L, form)
<1>1. CASE mode = "OpenAiChat"
    BY <1>1, ChatPreparedCarries DEF PrepareAnthropicBodyForMode
<1>2. CASE mode = "OpenAiResponses"
    BY <1>2, ResponsesPreparedCarries DEF PrepareAnthropicBodyForMode
<1>3. CASE mode \notin {"OpenAiChat", "OpenAiResponses"}
  <2> DEFINE said == NormalizeMessages(L, "anthropic")
             b    == Put(Put(body, "model", model), "messages", said)
  <2>1. PrepareAnthropicBodyForMode(body, model, mode) = b
    BY <1>3 DEF PrepareAnthropicBodyForMode
  <2>2. Follows(said, L, form) /\ AllPlain(said)
    <3>1. form = "anthropic" /\ \A i \in DOMAIN L : Fit(L[i]) /\ InForm(L[i], form)
      BY <1>3, FitIsInForm
    <3> QED
      BY <3>1, NormalizedCarry
  <2>3. /\ "messages" \in DOMAIN b /\ b.messages = said /\ "contents" \notin DOMAIN b
        /\ "system" \in DOMAIN b => "system" \in DOMAIN body /\ b.system = body.system
    BY DEF Put, Joined
  <2> HIDE DEF said, b
  <2> QED
    BY <2>1, <2>2, <2>3 DEF Carries, AllPlain
<1> QED
    BY <1>1, <1>2, <1>3

LEMMA CodexPreparedCarries ==
    ASSUME NEW body, NEW L, Listed(L), \A i \in DOMAIN L : Fit(L[i]) /\ InForm(L[i], "responses"),
           {"contents", "prompt"} \cap DOMAIN body = {},
           \/ "messages" \in DOMAIN body /\ body.messages = L /\ "input" \notin DOMAIN body
           \/ "input" \in DOMAIN body /\ body.input = [items |-> L] /\ "messages" \notin DOMAIN body,
           NEW model, NEW mode
    PROVE  Carries(PrepareResponsesBodyForMode(body, model, mode), L, "responses")
<1>1. CASE mode = "OpenAiResponses"
  <2> DEFINE named == Put(body, "model", model)
             b     == EnsureResponsesInput(named)
  <2>1. /\ \A f \in {"messages", "input"} : (f \in DOMAIN named <=> f \in DOMAIN body) /\ (f \in DOMAIN body => named[f] = body[f])
        /\ {"contents", "prompt"} \cap DOMAIN named = {}
    BY DEF Put, Joined
  <2> HIDE DEF named
  <2>2. {"messages", "contents", "prompt"} \cap DOMAIN b = {} /\ "input" \in DOMAIN b /\ b.input = [items |-> L]
    <3>1. CASE "input" \in DOMAIN body
      BY <2>1, <3>1 DEF EnsureResponsesInput
    <3>2. CASE "input" \notin DOMAIN body
      <4>1. b = Put(Drop(named, {"messages"}), "input", [items |-> L])
        BY <2>1, <3>2 DEF EnsureResponsesInput
      <4> HIDE DEF b
      <4>2. DOMAIN Drop(named, {"messages"}) = DOMAIN named \ {"messages"}
        BY DEF Drop, Restrict
      <4> QED
        BY <2>1, <4>1, <4>2 DEF Put, Joined
    <3> QED
      BY <3>1, <3>2
  <2>3. "items" \in DOMAIN b.input /\ b.input.items = L
    BY <2>2
  <2>4. PrepareResponsesBodyForMode(body, model, mode) = b
    BY <1>1 DEF PrepareResponsesBodyForMode, named
  <2> HIDE DEF b
  <2>5. MessagesOf(b) = L
    BY <2>2, <2>3 DEF MessagesOf
  <2>6. \A i \in DOMAIN L : SaysAsMuch(L[i], L[i], "responses")
    BY SameIsAsMuch DEF SaysTheSame
  <2>7. Follows(L, L, "responses")
    BY <2>6, FollowsAtOnce
  <2> QED
    BY <2>2, <2>4, <2>5, <2>7 DEF Carries
<1>2. CASE mode # "OpenAiResponses"
  <2> DEFINE said   == NormalizeMessages(L, Target(mode))
             fields == Copied(body, [stream |-> <<"stream">>,
                                     max_tokens |-> <<"max_output_tokens", "max_tokens">>])
             b      == PrepareResponsesBodyForMode(body, model, mode)
  <2>1. ResponsesInputToMessages(body, Target(mode)) = said
    <3>1. CASE "messages" \in DOMAIN body
      BY <3>1 DEF ResponsesInputToMessages
    <3>2. CASE "messages" \notin DOMAIN body
      <4>1. body.input = [items |-> L]
        BY <3>2
      <4>2. "text" \notin DOMAIN body.input /\ "items" \in DOMAIN body.input /\ body.input.items = L
        BY <4>1
      <4> QED
        BY <3>2, <4>2 DEF ResponsesInputToMessages
    <3> QED
      BY <3>1, <3>2
  <2>2. Target(mode) \in {"anthropic", "chat", "responses"}
    BY DEF Target
  <2>3. Follows(said, L, "responses") /\ AllPlain(said)
    BY <2>2, NormalizedCarry
  <2>4. b = Joined([model |-> model, messages |-> said], fields)
    <3>1. b = Joined([model |-> model, messages |-> ResponsesInputToMessages(body, Target(mode))], fields)
      BY <1>2 DEF PrepareResponsesBodyForMode
    <3> HIDE DEF said, fields, b
    <3> QED
      BY <2>1, <3>1
  <2>5. {"contents", "system"} \cap DOMAIN fields = {}
    BY DEF Copied
  <2> HIDE DEF said, fields, b
  <2>6. "messages" \in DOMAIN b /\ b.messages = said /\ {"contents", "system"} \cap DOMAIN b = {}
    BY <2>4, <2>5 DEF Joined
  <2>7. Carries(b, L, "responses")
    BY <2>3, <2>6 DEF Carries, AllPlain
  <2> QED
    BY <2>7 DEF b
<1> QED
    BY <1>1, <1>2

\* A text for input.
LEMMA TextPreparedCarries ==
    ASSUME NEW body, NEW words, NEW L, L = <<[role |-> "user", content |-> Text(words)]>>,
           {"messages", "contents", "prompt"} \cap DOMAIN body = {},
           "input" \in DOMAIN body, body.input = Text(words), NEW model, NEW mode
    PROVE  Carries(PrepareResponsesBodyForMode(body, model, mode), L, "responses")
<1>1. "text" \in DOMAIN body.input /\ "items" \notin DOMAIN body.input
    BY DEF Text
<1>2. Listed(L) /\ DOMAIN L = {1}
  <2> DEFINE x == [role |-> "user", content |-> Text(words)]
  <2>1. L = <<x>>
    OBVIOUS
  <2> HIDE DEF x
  <2>2. L \in Seq({x}) /\ DOMAIN L = {1}
    BY <2>1
  <2> QED
    BY <2>2, SequenceIsList
<1>3. AllPlain(L)
  <2>1. L[1].content = Text(words) /\ IsText(L[1].content) /\ ~IsBlocks(L[1].content)
    BY DEF Text, IsText, IsBlocks
  <2>2. Plain(L[1])
    BY <2>1 DEF Plain
  <2> QED
    BY <1>2, <2>2 DEF AllPlain
<1>4. Follows(L, L, "responses")
  <2>1. \A i \in DOMAIN L : SaysAsMuch(L[i], L[i], "responses")
    <3>1. InForm(L[1], "responses")
      <4>1. IsText(L[1].content) /\ ~IsBlocks(L[1].content) /\ ContentOf(L[1]) = L[1].content
        BY DEF Text, IsText, IsBlocks, ContentOf
      <4>2. {"tool_calls", "tool_call_id", "id", "call_id"} \cap DOMAIN L[1] = {}
        OBVIOUS
      <4>3. BlocksIn(L[1]) = <<>>
        BY <4>1 DEF BlocksIn
      <4>4. \A types : Those(L[1], types) = {}
        BY <4>3 DEF Those
      <4>5. CallsIn(L[1]) = {} /\ AnswersIn(L[1]) = {}
        BY <4>2, <4>4 DEF CallsIn, AnswersIn
      <4> QED
        BY <4>5 DEF InForm
    <3> QED
      BY <1>2, <3>1, SameIsAsMuch DEF SaysTheSame
  <2> QED
    BY <1>2, <2>1, FollowsAtOnce
<1>5. CASE mode = "OpenAiResponses"
  <2> DEFINE b == Put(body, "model", model)
  <2>1. {"messages", "contents", "prompt"} \cap DOMAIN b = {} /\ "input" \in DOMAIN b /\ b.input = body.input
    BY DEF Put, Joined
  <2>2. PrepareResponsesBodyForMode(body, model, mode) = EnsureResponsesInput(b)
    BY <1>5 DEF PrepareResponsesBodyForMode
  <2> HIDE DEF b
  <2>3. EnsureResponsesInput(b) = b
    BY <2>1 DEF EnsureResponsesInput
  <2>4. MessagesOf(b) = L
    BY <1>1, <2>1 DEF MessagesOf
  <2> QED
    BY <1>4, <2>1, <2>2, <2>3, <2>4 DEF Carries
<1>6. CASE mode # "OpenAiResponses"
  <2> DEFINE fields == Copied(body, [stream |-> <<"stream">>,
                                     max_tokens |-> <<"max_output_tokens", "max_tokens">>])
             b      == Joined([model |-> model, messages |-> L], fields)
  <2>1. ResponsesInputToMessages(body, Target(mode)) = L
    BY <1>1 DEF ResponsesInputToMessages
  <2>2. PrepareResponsesBodyForMode(body, model, mode) = b
    <3>1. PrepareResponsesBodyForMode(body, model, mode)
            = Joined([model |-> model, messages |-> ResponsesInputToMessages(body, Target(mode))], fields)
      BY <1>6 DEF PrepareResponsesBodyForMode
    <3> HIDE DEF fields
    <3> QED
      BY <2>1, <3>1
  <2>3. {"contents", "system"} \cap DOMAIN fields = {}
    BY DEF Copied
  <2> HIDE DEF fields
  <2>4. "messages" \in DOMAIN b /\ b.messages = L /\ {"contents", "system"} \cap DOMAIN b = {}
    BY <2>3 DEF Joined
  <2> HIDE DEF b
  <2> QED
    BY <1>3, <1>4, <2>2, <2>4 DEF Carries, AllPlain
<1> QED
    BY <1>5, <1>6

\* Only a state.
LEMMA StatePreparedCarries ==
    ASSUME NEW body, {"messages", "contents", "prompt", "input"} \cap DOMAIN body = {}, NEW model, NEW L
    PROVE  Carries(PrepareResponsesBodyForMode(body, model, "OpenAiResponses"), L, "responses")
<1> DEFINE b == Put(body, "model", model)
<1>1. {"messages", "contents", "prompt", "input"} \cap DOMAIN b = {}
    BY DEF Put, Joined
<1>2. PrepareResponsesBodyForMode(body, model, "OpenAiResponses") = EnsureResponsesInput(b)
    BY DEF PrepareResponsesBodyForMode
<1> HIDE DEF b
<1>3. EnsureResponsesInput(b) = b
    BY <1>1 DEF EnsureResponsesInput
<1>4. MessagesOf(b) = <<>>
    BY <1>1 DEF MessagesOf
<1> QED
    BY <1>1, <1>2, <1>3, <1>4 DEF Carries

--------------------------------------------------------------------------------
(***************************************************************************)
(* What a conversation has, by its messages.                               *)
(***************************************************************************)
WordsOf(list, kind) == [i \in DOMAIN list |-> WordsIn(list[i], kind)]
PicturesOf(list)    == [i \in DOMAIN list |-> PicturesIn(list[i])]
CallsOf(list)       == [i \in DOMAIN list |-> CallsIn(list[i])]
AnswersOf(list)     == [i \in DOMAIN list |-> AnswersIn(list[i])]
ShownOf(list)       == [i \in DOMAIN list |-> IF Claude THEN WordsIn(list[i], "picture") ELSE PicturesIn(list[i])]

AnswersFollow(list) ==
    \A i \in DOMAIN list : \A x \in OfAll(AnswersIn(list[i])) :
        \E j \in DOMAIN list : j < i /\ x \in OfAll(CallsIn(list[j]))

\* The least of some numbers.
Least(S) == {x \in S : \A y \in S : y = x \/ x < y}

FirstAnswers(list) == UNION {Least(OfAll(AnswersIn(list[i]))) : i \in DOMAIN list}

\* What is sent has all of it.
Sound(list) ==
    /\ Listed(list)
    /\ CountedTo(WordsOf(list, "said"), told.words) /\ CountedTo(ShownOf(list), told.pictures)
    /\ CountedTo(CallsOf(list), told.calls) /\ CountedTo(AnswersOf(list), told.calls)
    /\ AnswersFollow(list) /\ FirstAnswers(list) = told.firsts

LEMMA AscendingStill ==
    ASSUME NEW s \in Nat, NEW N \in Nat, NEW f, NEW g,
           DOMAIN f = 1..N, DOMAIN g = 1..(s + N), \A i \in 1..s : g[i] = {},
           \A i \in 1..N : SomeOfThem(g[s + i], f[i]), Ascending(All(f))
    PROVE  Ascending(All(g))
<1>1. \A i \in 1..(s + N) : i \in 1..s \/ (i - s \in 1..N /\ s + (i - s) = i)
    OBVIOUS
<1>2. /\ \A i \in 1..N : Upward(f[i])
      /\ \A i, j \in 1..N : i < j => \A x \in OfAll(f[i]), y \in OfAll(f[j]) : x < y
    BY AscendingParts
<1>3. \A i \in 1..s : Upward(g[i]) /\ OfAll(g[i]) = {}
    BY DEF Upward, OfAll
<1>4. \A i \in 1..N : Upward(g[s + i]) /\ OfAll(g[s + i]) \subseteq OfAll(f[i])
    BY <1>2 DEF SomeOfThem
<1>5. \A i \in 1..(s + N) : Upward(g[i])
    BY <1>1, <1>3, <1>4
<1>6. ASSUME NEW i \in 1..(s + N), NEW j \in 1..(s + N), i < j, NEW x \in OfAll(g[i]), NEW y \in OfAll(g[j])
      PROVE  x < y
  <2> DEFINE a == i - s
             b == j - s
  <2>1. i \notin 1..s /\ j \notin 1..s
    BY <1>3
  <2>2. a \in 1..N /\ b \in 1..N /\ s + a = i /\ s + b = j /\ a < b
    BY <1>1, <1>6, <2>1
  <2> HIDE DEF a, b
  <2>3. x \in OfAll(f[a]) /\ y \in OfAll(f[b])
    BY <1>4, <1>6, <2>2
  <2> QED
    BY <1>2, <2>2, <2>3
<1>7. s + N \in Nat
    OBVIOUS
<1> QED
    BY <1>5, <1>6, <1>7, AscendingParts

LEMMA FirstIsLeast ==
    ASSUME NEW S, Upward(S), NEW n, OfAll(S) \subseteq 1..n, NEW S2, AnswersLeft(S2, S, "chat")
    PROVE  OfAll(S2) = Least(OfAll(S))
<1>1. OfAll(S2) = OfAll(FirstParts(S)) /\ (S # {} => S2 # {})
    BY DEF AnswersLeft
<1>2. ASSUME NEW p \in FirstParts(S)
      PROVE  p.of \in Least(OfAll(S))
  <2>1. p \in S /\ \A q \in S : q = p \/ Earlier(p, q)
    BY DEF FirstParts
  <2>2. \A q \in S : q.of = p.of \/ p.of < q.of
    BY <2>1 DEF Upward
  <2> QED
    BY <2>1, <2>2 DEF Least, OfAll
<1>3. ASSUME NEW x \in Least(OfAll(S))
      PROVE  x \in OfAll(FirstParts(S))
  <2>1. S # {} /\ x \in OfAll(S)
    BY DEF Least, OfAll
  <2>2. PICK p \in FirstParts(S) : TRUE
    BY <1>1, <2>1 DEF OfAll
  <2>3. p.of \in Least(OfAll(S)) /\ p.of \in OfAll(S)
    BY <1>2 DEF Least
  <2>4. (p.of = x \/ x < p.of) /\ (x = p.of \/ p.of < x)
    BY <2>1, <2>3 DEF Least
  <2>5. x = p.of
    BY <2>1, <2>3, <2>4
  <2> QED
    BY <2>5 DEF OfAll
<1> QED
    BY <1>1, <1>2, <1>3 DEF OfAll

LEMMA SoundIsHeard ==
    ASSUME NEW form, NEW L, Sound(L), NEW U, Follows(U, L, form)
    PROVE  /\ CountedTo(WordsOf(U, "said"), told.words) /\ CountedTo(ShownOf(U), told.pictures)
           /\ CountedTo(CallsOf(U), told.calls)
           /\ Ascending(All(AnswersOf(U)))
           /\ AnswersFollow(U)
           /\ Numbers(All(AnswersOf(U))) = IF form = "chat" THEN told.firsts ELSE 1..told.calls
           /\ \A i \in DOMAIN U : InForm(U[i], form)
<1>1. PICK s \in Nat : FollowsAfter(U, L, s, form)
    BY DEF Follows
<1> DEFINE N == Len(L)
<1>2. /\ N \in Nat /\ DOMAIN L = 1..N /\ DOMAIN U = 1..(s + N)
      /\ \A i \in 1..s : Silent(U[i])
      /\ \A i \in 1..N : SaysAsMuch(U[s + i], L[i], form)
    BY <1>1 DEF FollowsAfter, Listed
<1> HIDE DEF N
<1>3. \A i \in 1..s : i \in DOMAIN U
    BY <1>2
<1>4. \A i \in 1..N : s + i \in DOMAIN U /\ i \in DOMAIN L
    BY <1>2
<1>5. CountedTo(WordsOf(U, "said"), told.words)
  <2> DEFINE f == WordsOf(L, "said")
             g == WordsOf(U, "said")
  <2>1. DOMAIN f = 1..N /\ DOMAIN g = 1..(s + N) /\ CountedTo(f, told.words)
    BY <1>2 DEF WordsOf, Sound
  <2>2. \A i \in 1..s : g[i] = {}
    BY <1>2, <1>3 DEF WordsOf, Silent
  <2>3. \A i \in 1..N : AsMany(g[s + i], f[i])
    BY <1>2, <1>4 DEF WordsOf, SaysAsMuch
  <2> HIDE DEF f, g
  <2>4. CountedTo(g, told.words)
    BY <1>2, <2>1, <2>2, <2>3, CountedAgain
  <2> QED
    BY <2>4 DEF g
<1>6. CountedTo(ShownOf(U), told.pictures)
  <2> DEFINE f == ShownOf(L)
             g == ShownOf(U)
  <2>1. DOMAIN f = 1..N /\ DOMAIN g = 1..(s + N) /\ CountedTo(f, told.pictures)
    BY <1>2 DEF ShownOf, Sound
  <2>2. \A i \in 1..s : g[i] = {}
    BY <1>2, <1>3 DEF ShownOf, Silent
  <2>3. \A i \in 1..N : AsMany(g[s + i], f[i])
    BY <1>2, <1>4 DEF ShownOf, SaysAsMuch
  <2> HIDE DEF f, g
  <2>4. CountedTo(g, told.pictures)
    BY <1>2, <2>1, <2>2, <2>3, CountedAgain
  <2> QED
    BY <2>4 DEF g
<1>7. CountedTo(CallsOf(U), told.calls)
  <2> DEFINE f == CallsOf(L)
             g == CallsOf(U)
  <2>1. DOMAIN f = 1..N /\ DOMAIN g = 1..(s + N) /\ CountedTo(f, told.calls)
    BY <1>2 DEF CallsOf, Sound
  <2>2. \A i \in 1..s : g[i] = {}
    BY <1>2, <1>3 DEF CallsOf, Silent
  <2>3. \A i \in 1..N : AsMany(g[s + i], f[i])
    BY <1>2, <1>4 DEF CallsOf, SaysAsMuch
  <2> HIDE DEF f, g
  <2>4. CountedTo(g, told.calls)
    BY <1>2, <2>1, <2>2, <2>3, CountedAgain
  <2> QED
    BY <2>4 DEF g
<1> DEFINE f == AnswersOf(L)
           g == AnswersOf(U)
<1>8. DOMAIN f = 1..N /\ DOMAIN g = 1..(s + N) /\ CountedTo(f, told.calls)
    BY <1>2 DEF AnswersOf, Sound
<1>9. \A i \in 1..s : g[i] = {}
    BY <1>2, <1>3 DEF AnswersOf, Silent
<1>16. \A i \in 1..N : AnswersLeft(g[s + i], f[i], form)
    BY <1>2, <1>4 DEF AnswersOf, SaysAsMuch
<1>10. \A i \in 1..N : SomeOfThem(g[s + i], f[i])
    BY <1>16, LeftAreSome
<1>11. /\ \A i \in 1..N : f[i] = AnswersIn(L[i])
       /\ \A i \in 1..(s + N) : g[i] = AnswersIn(U[i])
    BY <1>2 DEF AnswersOf
<1> HIDE DEF f, g
<1>12. Ascending(All(g))
    BY <1>2, <1>8, <1>9, <1>10, AscendingStill DEF CountedTo
<1>13. \A i \in 1..(s + N) : (\E x : x \in OfAll(g[i])) => i - s \in 1..N /\ s + (i - s) = i
  <2>1. \A i \in 1..s : OfAll(g[i]) = {}
    BY <1>9 DEF OfAll
  <2>2. \A i \in 1..(s + N) : i \in 1..s \/ (i - s \in 1..N /\ s + (i - s) = i)
    BY <1>2
  <2> QED
    BY <2>1, <2>2
<1>14. AnswersFollow(U)
  <2> SUFFICES ASSUME NEW i \in DOMAIN U, NEW x \in OfAll(AnswersIn(U[i]))
               PROVE  \E j \in DOMAIN U : j < i /\ x \in OfAll(CallsIn(U[j]))
    BY DEF AnswersFollow
  <2> DEFINE k == i - s
  <2>1. k \in 1..N /\ s + k = i /\ x \in OfAll(g[i])
    BY <1>2, <1>11, <1>13
  <2> HIDE DEF k
  <2>2. x \in OfAll(AnswersIn(L[k]))
    BY <1>10, <1>11, <2>1 DEF SomeOfThem
  <2>3. PICK j \in 1..N : j < k /\ x \in OfAll(CallsIn(L[j]))
    BY <1>2, <2>1, <2>2 DEF Sound, AnswersFollow
  <2>4. x \in OfAll(CallsIn(U[s + j]))
    BY <1>2, <2>3 DEF SaysAsMuch, AsMany
  <2>5. s + j \in DOMAIN U /\ s + j < i
    BY <1>2, <2>1, <2>3
  <2> QED
    BY <2>4, <2>5
<1>17. ASSUME NEW x
       PROVE  /\ x \in Numbers(All(g)) <=> \E i \in 1..N : x \in OfAll(g[s + i])
              /\ x \in Numbers(All(f)) <=> \E i \in 1..N : x \in OfAll(f[i])
  <2>1. x \in Numbers(All(g)) <=> \E i \in 1..(s + N) : x \in OfAll(g[i])
    BY <1>8, AmongNumbers
  <2>2. x \in Numbers(All(f)) <=> \E i \in 1..N : x \in OfAll(f[i])
    BY <1>8, AmongNumbers
  <2>3. \A i \in 1..N : s + i \in 1..(s + N)
    BY <1>2
  <2>4. ASSUME NEW i \in 1..(s + N), x \in OfAll(g[i])
        PROVE  \E k \in 1..N : x \in OfAll(g[s + k])
    BY <1>13, <2>4
  <2> QED
    BY <2>1, <2>2, <2>3, <2>4
<1>15. Numbers(All(g)) = IF form = "chat" THEN told.firsts ELSE 1..told.calls
  <2>1. CASE form # "chat"
    <3>1. \A i \in 1..N : OfAll(g[s + i]) = OfAll(f[i])
      BY <1>16, <2>1 DEF AnswersLeft, AsMany
    <3>2. \A x : x \in Numbers(All(g)) <=> x \in Numbers(All(f))
      BY <1>17, <3>1
    <3>3. Numbers(All(f)) = 1..told.calls
      BY <1>8 DEF CountedTo
    <3> QED
      BY <2>1, <3>2, <3>3
  <2>2. CASE form = "chat"
    <3>1. \A i \in 1..N : Upward(f[i])
      BY <1>2, <1>8, AscendingParts DEF CountedTo
    <3>2. \A i \in 1..N : OfAll(f[i]) \subseteq 1..told.calls
      BY <1>8, <1>17 DEF CountedTo
    <3>3. \A i \in 1..N : OfAll(g[s + i]) = Least(OfAll(f[i]))
      BY <1>16, <2>2, <3>1, <3>2, FirstIsLeast
    <3>4. \A x : x \in FirstAnswers(L) <=> \E i \in 1..N : x \in Least(OfAll(f[i]))
      BY <1>2, <1>11 DEF FirstAnswers
    <3>5. \A x : x \in Numbers(All(g)) <=> x \in FirstAnswers(L)
      BY <1>17, <3>3, <3>4
    <3>6. FirstAnswers(L) = told.firsts
      BY DEF Sound
    <3>7. \A x : x \in Numbers(All(g)) <=> x \in told.firsts
      BY <3>5, <3>6
    <3>8. Numbers(All(g)) = told.firsts
      <4> DEFINE A == Numbers(All(g))
                 B == told.firsts
      <4>1. \A x : x \in A <=> x \in B
        BY <3>7
      <4> HIDE DEF A, B
      <4>2. A = B
        BY <4>1
      <4> QED
        BY <4>2 DEF A, B
    <3> QED
      BY <2>2, <3>8
  <2> QED
    BY <2>1, <2>2
<1>18. ASSUME NEW i \in DOMAIN U
       PROVE  InForm(U[i], form)
  <2>1. CASE i \in 1..s
    BY <1>2, <2>1 DEF Silent, InForm
  <2>2. CASE i \notin 1..s
    <3> DEFINE k == i - s
    <3>1. k \in 1..N /\ s + k = i
      BY <1>2, <2>2
    <3> HIDE DEF k
    <3> QED
      BY <1>2, <3>1 DEF SaysAsMuch
  <2> QED
    BY <2>1, <2>2
<1> QED
    BY <1>5, <1>6, <1>7, <1>12, <1>14, <1>15, <1>18 DEF g

\* The form in which the calls and the answers are sent.
FormSent(mode) == IF ~Claude THEN "responses" ELSE IF mode = "OpenAiChat" THEN "chat" ELSE "anthropic"

LEMMA HeardIsRight ==
    ASSUME NEW L, Sound(L), sent.ok /\ Upstream # <<>> => Follows(Upstream, L, FormSent(sent.mode))
    PROVE  ContentArrives /\ CallsArePaired
<1> SUFFICES ASSUME sent.ok, Upstream # <<>>
             PROVE  ContentArrives /\ CallsArePaired
    BY DEF ContentArrives, CallsArePaired
<1>1. /\ CountedTo(WordsOf(Upstream, "said"), told.words) /\ CountedTo(ShownOf(Upstream), told.pictures)
      /\ CountedTo(CallsOf(Upstream), told.calls)
      /\ Ascending(All(AnswersOf(Upstream)))
      /\ AnswersFollow(Upstream)
      /\ Numbers(All(AnswersOf(Upstream))) = IF FormSent(sent.mode) = "chat" THEN told.firsts ELSE 1..told.calls
      /\ \A i \in DOMAIN Upstream : InForm(Upstream[i], FormSent(sent.mode))
    BY SoundIsHeard
<1>2. ContentArrives
    BY <1>1 DEF ContentArrives, CountedTo, WordsOf, ShownOf
<1>3. ASSUME NEW a \in All(AnswersOf(Upstream))
      PROVE  \E c \in All(CallsOf(Upstream)) : c.part.of = a.part.of /\ c.message < a.message
  <2>1. PICK i \in DOMAIN AnswersOf(Upstream) : \E p \in AnswersOf(Upstream)[i] : a = [message |-> i, part |-> p]
    BY Among
  <2>2. PICK p \in AnswersOf(Upstream)[i] : a = [message |-> i, part |-> p]
    BY <2>1
  <2>3. i \in DOMAIN Upstream /\ p.of \in OfAll(AnswersIn(Upstream[i]))
    BY <2>2 DEF AnswersOf, OfAll
  <2>4. PICK j \in DOMAIN Upstream : j < i /\ p.of \in OfAll(CallsIn(Upstream[j]))
    BY <1>1, <2>3 DEF AnswersFollow
  <2>5. PICK q \in CallsIn(Upstream[j]) : p.of = q.of
    BY <2>4 DEF OfAll
  <2> DEFINE c == [message |-> j, part |-> q]
  <2>6. c \in All(CallsOf(Upstream))
    BY <2>5, Among DEF CallsOf
  <2> QED
    BY <2>2, <2>4, <2>5, <2>6
<1> DEFINE target     == Target(sent.mode)
           own(parts) == {p \in parts : FormOf(p) = target}
           made       == All([i \in DOMAIN Upstream |-> own(CallsIn(Upstream[i]))])
           answers    == All([i \in DOMAIN Upstream |-> own(AnswersIn(Upstream[i]))])
<1>5. target \in {"anthropic", "chat", "responses"} /\ (target = "chat" <=> sent.mode = "OpenAiChat")
    BY DEF Target
<1>6. (Claude <=> target = "responses") <=> FormSent(sent.mode) # target
    BY DEF Target, FormSent
<1>7. CASE FormSent(sent.mode) # target
  <2>1. \A i \in DOMAIN Upstream : own(CallsIn(Upstream[i])) = {} /\ own(AnswersIn(Upstream[i])) = {}
    BY <1>1, <1>7 DEF InForm
  <2>2. made = {} /\ answers = {}
    BY <2>1 DEF All
  <2> QED
    BY <1>2, <1>6, <1>7, <2>2 DEF CallsArePaired
<1>8. CASE FormSent(sent.mode) = target
  <2>1. \A i \in DOMAIN Upstream :
           own(CallsIn(Upstream[i])) = CallsIn(Upstream[i]) /\ own(AnswersIn(Upstream[i])) = AnswersIn(Upstream[i])
    BY <1>1, <1>8 DEF InForm
  <2>2. made = All(CallsOf(Upstream)) /\ answers = All(AnswersOf(Upstream))
    <3>1. [i \in DOMAIN Upstream |-> own(CallsIn(Upstream[i]))] = CallsOf(Upstream)
      BY <2>1 DEF CallsOf
    <3>2. [i \in DOMAIN Upstream |-> own(AnswersIn(Upstream[i]))] = AnswersOf(Upstream)
      BY <2>1 DEF AnswersOf
    <3> QED
      BY <3>1, <3>2
  <2> HIDE DEF own
  <2>3. /\ Numbers(made) = 1..told.calls /\ Ascending(made)
        /\ Numbers(answers) = IF target = "chat" THEN told.firsts ELSE 1..told.calls
        /\ Ascending(answers)
        /\ \A a \in answers : \E c \in made : c.part.of = a.part.of /\ c.message < a.message
    <3> HIDE DEF target, made, answers
    <3> QED
      BY <1>1, <1>3, <1>8, <2>2 DEF CountedTo
  <2>4. ~(Claude <=> target = "responses")
    BY <1>6, <1>8
  <2> QED
    BY <1>2, <2>3, <2>4 DEF CallsArePaired, own
<1> QED
    BY <1>7, <1>8


--------------------------------------------------------------------------------
(***************************************************************************)
(* The agent's request has a text with the number of each picture.         *)
(***************************************************************************)
LEMMA NumberedAre ==
    ASSUME NEW S, NEW x \in Nat, NEW h, \A s \in S : h[s] \in 1..x,
           \A s, t \in S : h[s] = h[t] => s = t, \A y \in 1..x : \E s \in S : h[s] = y
    PROVE  Cardinality(S) = x
<1> DEFINE g == [y \in 1..x |-> CHOOSE s \in S : h[s] = y]
<1>1. \A y \in 1..x : g[y] \in S /\ h[g[y]] = y
    OBVIOUS
<1>2. g \in [1..x -> S] /\ DOMAIN g = 1..x
    BY <1>1
<1> HIDE DEF g
<1>3. \A s \in S : g[h[s]] = s
    BY <1>1
<1>4. g \in Bijection(1..x, S)
    BY <1>1, <1>2, <1>3 DEF Bijection, Injection, Surjection, IsInjective
<1>5. ExistsBijection(1..x, S)
    BY <1>4 DEF ExistsBijection
<1> QED
    BY <1>5, FS_CountingElements

\* The pictures of Claude Code are those of its user.
OfClaude(m) ==
    /\ "content" \in DOMAIN m
    /\ \A j \in DOMAIN BlocksOf(m) :
          BlocksOf(m)[j].type \in PictureTypes => IsPicture(BlocksOf(m)[j]) /\ m.role = "user"

PictureParts(m) == {Part(j, 1, BlocksOf(m)[j].source.of) : j \in {k \in DOMAIN BlocksOf(m) : IsPicture(BlocksOf(m)[k])}}

LEMMA ClaudeBlocks ==
    ASSUME NEW m, Fit(m), "content" \in DOMAIN m
    PROVE  Listed(BlocksOf(m)) /\ BlocksIn(m) = BlocksOf(m) /\ (\A j \in DOMAIN BlocksOf(m) : BlockFit(BlocksOf(m)[j]))
<1>1. ContentOf(m) = m.content
    BY DEF ContentOf
<1>2. BlocksIn(m) = BlocksOf(m)
    BY <1>1 DEF BlocksIn, BlocksOf
<1>3. CASE IsBlocks(m.content)
    BY <1>2, <1>3 DEF Fit, BlocksFit, BlocksOf
<1>4. CASE ~IsBlocks(m.content)
  <2>1. BlocksOf(m) = <<>>
    BY <1>4 DEF BlocksOf
  <2> QED
    BY <1>2, <2>1, EmptyIsListed
<1> QED
    BY <1>3, <1>4

LEMMA ClaudePictures ==
    ASSUME NEW m, Fit(m), OfClaude(m)
    PROVE  PicturesIn(m) = PictureParts(m)
<1> DEFINE bs == BlocksOf(m)
<1>1. BlocksIn(m) = bs
    BY ClaudeBlocks DEF OfClaude
<1>2. \A j \in DOMAIN bs : bs[j].type \in {"image", "image_url", "input_image"} <=> IsPicture(bs[j])
    BY DEF OfClaude, PictureTypes, IsPicture
<1> HIDE DEF bs
<1>3. Those(m, {"image", "image_url", "input_image"}) = {k \in DOMAIN bs : IsPicture(bs[k])}
    BY <1>1, <1>2 DEF Those
<1>4. PicturesIn(m) = {Part(i, 1, bs[i].source.of) : i \in {k \in DOMAIN bs : IsPicture(bs[k])}}
    BY <1>1, <1>3 DEF PicturesIn
<1> QED
    BY <1>4 DEF PictureParts, bs

\* Its number is how many there are up to it.
LEMMA PictureHasItsNumber ==
    ASSUME NEW list, Listed(list), \A i \in DOMAIN list : Fit(list[i]) /\ OfClaude(list[i]),
           NEW n \in Nat, CountedTo(PicturesOf(list), n),
           NEW i \in DOMAIN list, NEW j \in DOMAIN BlocksOf(list[i]), IsPicture(BlocksOf(list[i])[j])
    PROVE  PictureNumber(list, i, j) = BlocksOf(list[i])[j].source.of
<1> DEFINE nr(k, l)    == BlocksOf(list[k])[l].source.of
           x           == nr(i, j)
           before(k)   == IF k = i THEN 1..j ELSE DOMAIN BlocksOf(list[k])
           pictures(k) == {l \in before(k) : list[k].role = "user" /\ IsPicture(BlocksOf(list[k])[l])}
           S           == UNION {{k} \X pictures(k) : k \in 1..i}
           h           == [s \in S |-> nr(s[1], s[2])]
           P           == All(PicturesOf(list))
           t(k, l)     == [message |-> k, part |-> Part(l, 1, nr(k, l))]
           N           == Len(list)
<1>1. PictureNumber(list, i, j) = Cardinality(S)
    BY DEF PictureNumber
<1>2. /\ N \in Nat /\ DOMAIN list = 1..N /\ i \in 1..N
      /\ \A k \in 1..N : DOMAIN BlocksOf(list[k]) \subseteq Nat /\ PicturesIn(list[k]) = PictureParts(list[k])
      /\ \A k \in 1..N : \A l \in DOMAIN BlocksOf(list[k]) :
            IsPicture(BlocksOf(list[k])[l]) => list[k].role = "user"
  <2>1. N \in Nat /\ DOMAIN list = 1..N /\ i \in 1..N
    BY DEF Listed
  <2>2. ASSUME NEW k \in 1..N
        PROVE  DOMAIN BlocksOf(list[k]) \subseteq Nat /\ PicturesIn(list[k]) = PictureParts(list[k])
    <3>1. Fit(list[k]) /\ OfClaude(list[k])
      BY <2>1, <2>2
    <3>2. Listed(BlocksOf(list[k]))
      BY <3>1, ClaudeBlocks DEF OfClaude
    <3> QED
      BY <3>1, <3>2, ClaudePictures DEF Listed
  <2>3. ASSUME NEW k \in 1..N, NEW l \in DOMAIN BlocksOf(list[k]), IsPicture(BlocksOf(list[k])[l])
        PROVE  list[k].role = "user"
    <3>1. OfClaude(list[k])
      BY <2>1, <2>3
    <3> QED
      BY <2>3, <3>1 DEF OfClaude, IsPicture, PictureTypes
  <2> QED
    BY <2>1, <2>2, <2>3
<1>3. j \in Nat /\ DOMAIN BlocksOf(list[i]) = 1..Len(BlocksOf(list[i])) /\ Len(BlocksOf(list[i])) \in Nat
  <2>1. Listed(BlocksOf(list[i]))
    BY ClaudeBlocks DEF OfClaude
  <2> QED
    BY <2>1 DEF Listed
<1>4. Numbers(P) = 1..n /\ Ascending(P)
    BY DEF CountedTo
<1>5. ASSUME NEW k \in 1..N, NEW l \in DOMAIN BlocksOf(list[k]), IsPicture(BlocksOf(list[k])[l])
      PROVE  t(k, l) \in P /\ t(k, l).message = k /\ t(k, l).part.block = l /\ t(k, l).part.place = 1
             /\ t(k, l).part.of = nr(k, l) /\ nr(k, l) \in 1..n
  <2>1. Part(l, 1, nr(k, l)) \in PicturesOf(list)[k] /\ k \in DOMAIN PicturesOf(list)
    BY <1>2, <1>5 DEF PictureParts, PicturesOf
  <2>2. t(k, l) \in P
    BY <2>1, Among
  <2>3. t(k, l).message = k /\ t(k, l).part.block = l /\ t(k, l).part.place = 1 /\ t(k, l).part.of = nr(k, l)
    BY PartIs
  <2>4. nr(k, l) \in Numbers(P)
    BY <2>2, <2>3 DEF Numbers
  <2> QED
    BY <1>4, <2>2, <2>3, <2>4
<1>6. ASSUME NEW y \in 1..n
      PROVE  \E k \in 1..N : \E l \in DOMAIN BlocksOf(list[k]) : IsPicture(BlocksOf(list[k])[l]) /\ nr(k, l) = y
  <2>1. y \in Numbers(P)
    BY <1>4
  <2>2. PICK k \in DOMAIN PicturesOf(list) : y \in OfAll(PicturesOf(list)[k])
    BY <2>1, AmongNumbers
  <2>3. k \in 1..N /\ PicturesOf(list)[k] = PictureParts(list[k])
    BY <1>2, <2>2 DEF PicturesOf
  <2>4. PICK p \in PictureParts(list[k]) : y = p.of
    BY <2>2, <2>3 DEF OfAll
  <2>5. PICK l \in DOMAIN BlocksOf(list[k]) : IsPicture(BlocksOf(list[k])[l]) /\ p = Part(l, 1, nr(k, l))
    BY <2>4 DEF PictureParts
  <2>6. y = nr(k, l)
    <3> HIDE DEF nr
    <3> QED
      BY <2>4, <2>5, PartIs
  <2> QED
    BY <2>3, <2>5, <2>6
<1> HIDE DEF P, nr, t
\* Of two of them, the one that comes first has the lower number.
<1>7. ASSUME NEW k \in 1..N, NEW l \in DOMAIN BlocksOf(list[k]), IsPicture(BlocksOf(list[k])[l]),
             NEW k2 \in 1..N, NEW l2 \in DOMAIN BlocksOf(list[k2]), IsPicture(BlocksOf(list[k2])[l2]),
             k < k2 \/ (k = k2 /\ l < l2)
      PROVE  nr(k, l) < nr(k2, l2)
  <2>1. t(k, l) \in P /\ t(k, l).part.of = nr(k, l)
    BY <1>5, <1>7
  <2>2. t(k2, l2) \in P /\ t(k2, l2).part.of = nr(k2, l2)
    BY <1>5, <1>7
  <2>3. Before(t(k, l), t(k2, l2))
    BY <1>5, <1>7 DEF Before, Earlier
  <2>4. \A q, r \in P : Before(q, r) => q.part.of < r.part.of
    BY ONLY <1>4 DEF Ascending
  <2>5. t(k, l).part.of < t(k2, l2).part.of
    BY ONLY <2>1, <2>2, <2>3, <2>4
  <2> QED
    BY ONLY <2>1, <2>2, <2>5
<1>8. \A s : s \in S <=> \E k \in 1..i : \E l \in pictures(k) : s = <<k, l>>
  <2> HIDE DEF pictures
  <2>1. ASSUME NEW s \in S
        PROVE  \E k \in 1..i : \E l \in pictures(k) : s = <<k, l>>
    <3>1. PICK k \in 1..i : s \in {k} \X pictures(k)
      BY <2>1
    <3> QED
      BY <3>1
  <2>2. ASSUME NEW k \in 1..i, NEW l \in pictures(k)
        PROVE  <<k, l>> \in S
    <3>1. <<k, l>> \in {k} \X pictures(k)
      BY <2>2
    <3> QED
      BY <3>1
  <2> HIDE DEF S
  <2> QED
    BY <2>1, <2>2
<1>9. ASSUME NEW k \in 1..i, NEW l
      PROVE  l \in pictures(k) <=> l \in DOMAIN BlocksOf(list[k]) /\ IsPicture(BlocksOf(list[k])[l]) /\ (k = i => l <= j)
  <2>1. k \in 1..N
    BY <1>2
  <2>2. k = i => (l \in 1..j <=> l \in DOMAIN BlocksOf(list[k]) /\ l <= j)
    BY <1>3
  <2> QED
    BY <1>2, <2>1, <2>2
<1> HIDE DEF S, pictures
<1>10. ASSUME NEW s \in S
       PROVE  \E k \in 1..N, l \in Nat :
                 /\ s = <<k, l>> /\ h[s] = nr(k, l) /\ k <= i /\ (k = i => l <= j)
                 /\ l \in DOMAIN BlocksOf(list[k]) /\ IsPicture(BlocksOf(list[k])[l])
  <2>1. PICK k \in 1..i : \E l \in pictures(k) : s = <<k, l>>
    BY <1>8
  <2>2. PICK l \in pictures(k) : s = <<k, l>>
    BY <2>1
  <2>3. k \in 1..N /\ k <= i /\ h[s] = nr(k, l)
    BY <1>2, <2>2
  <2> QED
    BY <1>2, <1>9, <2>2, <2>3
<1>11. ASSUME NEW k \in 1..i, NEW l, l \in DOMAIN BlocksOf(list[k]), IsPicture(BlocksOf(list[k])[l]), k = i => l <= j
       PROVE  <<k, l>> \in S /\ h[<<k, l>>] = nr(k, l)
  <2>1. l \in pictures(k)
    BY <1>9, <1>11
  <2>2. <<k, l>> \in S
    BY <1>8, <2>1
  <2> QED
    BY <2>2
<1> HIDE DEF h
<1>12. x \in 1..n /\ x \in Nat
    BY <1>2, <1>5
<1>13. ASSUME NEW s \in S
       PROVE  h[s] \in 1..x
  <2>1. PICK k \in 1..N, l \in Nat :
                 /\ s = <<k, l>> /\ h[s] = nr(k, l) /\ k <= i /\ (k = i => l <= j)
                 /\ l \in DOMAIN BlocksOf(list[k]) /\ IsPicture(BlocksOf(list[k])[l])
    BY <1>10
  <2>2. nr(k, l) \in 1..n
    BY <1>5, <2>1
  <2>3. nr(k, l) = x \/ nr(k, l) < x
    <3>1. CASE k = i /\ l = j
      BY <3>1
    <3>2. CASE ~(k = i /\ l = j)
      <4>1. k < i \/ (k = i /\ l < j)
        BY <1>2, <1>3, <2>1, <3>2
      <4> QED
        BY <1>2, <1>7, <2>1, <4>1
    <3> QED
      BY <3>1, <3>2
  <2> QED
    BY <1>12, <2>1, <2>2, <2>3
<1>14. ASSUME NEW s \in S, NEW r \in S, h[s] = h[r]
       PROVE  s = r
  <2>1. PICK k \in 1..N, l \in Nat :
                 /\ s = <<k, l>> /\ h[s] = nr(k, l)
                 /\ l \in DOMAIN BlocksOf(list[k]) /\ IsPicture(BlocksOf(list[k])[l])
    BY <1>10
  <2>2. PICK k2 \in 1..N, l2 \in Nat :
                 /\ r = <<k2, l2>> /\ h[r] = nr(k2, l2)
                 /\ l2 \in DOMAIN BlocksOf(list[k2]) /\ IsPicture(BlocksOf(list[k2])[l2])
    BY <1>10
  <2>3. nr(k, l) = nr(k2, l2) /\ nr(k, l) \in 1..n
    BY <1>5, <1>14, <2>1, <2>2
  <2>4. ~(k < k2 \/ (k = k2 /\ l < l2))
    <3>1. (k < k2 \/ (k = k2 /\ l < l2)) => nr(k, l) < nr(k2, l2)
      BY <1>7, <2>1, <2>2
    <3> QED
      BY <2>3, <3>1
  <2>5. ~(k2 < k \/ (k = k2 /\ l2 < l))
    <3>1. (k2 < k \/ (k2 = k /\ l2 < l)) => nr(k2, l2) < nr(k, l)
      BY <1>7, <2>1, <2>2
    <3> QED
      BY <2>3, <3>1
  <2>6. k = k2 /\ l = l2
    BY <1>2, <2>4, <2>5
  <2> QED
    BY <2>1, <2>2, <2>6
<1>15. ASSUME NEW y \in 1..x
       PROVE  \E s \in S : h[s] = y
  <2>1. y \in 1..n
    BY <1>12
  <2>2. PICK k \in 1..N : \E l \in DOMAIN BlocksOf(list[k]) : IsPicture(BlocksOf(list[k])[l]) /\ nr(k, l) = y
    BY <1>6, <2>1
  <2>3. PICK l \in DOMAIN BlocksOf(list[k]) : IsPicture(BlocksOf(list[k])[l]) /\ nr(k, l) = y
    BY <2>2
  <2>4. ~(i < k \/ (i = k /\ j < l))
    <3>1. (i < k \/ (i = k /\ j < l)) => nr(i, j) < nr(k, l)
      BY <1>2, <1>7, <2>3
    <3> QED
      BY <1>12, <2>3, <3>1
  <2>5. k \in 1..i /\ (k = i => l <= j)
    BY <1>2, <1>3, <2>4
  <2> QED
    BY <1>11, <2>3, <2>5
<1> HIDE DEF x
<1>16. Cardinality(S) = x
    BY ONLY <1>12, <1>13, <1>14, <1>15, NumberedAre
<1> QED
    BY <1>1, <1>16 DEF x, nr

--------------------------------------------------------------------------------
(***************************************************************************)
(* The system prompts, and the agent's own, say nothing.                   *)
(***************************************************************************)
LEMMA QuietPrompts ==
    ASSUME NEW system \in SystemPrompts
    PROVE  QuietSystem(system)
<1> DEFINE W == Seq([kind : {"prompt"}, of : Nat])
<1>1. \A words \in W : Quiet(words)
  <2> DEFINE K == [kind : {"prompt"}, of : Nat]
  <2>1. \A w \in K : w.kind = "prompt"
    OBVIOUS
  <2> HIDE DEF K
  <2> SUFFICES ASSUME NEW words \in Seq(K), NEW k \in DOMAIN words
               PROVE  words[k].kind \notin {"said", "picture"}
    BY DEF Quiet, K
  <2>2. words[k] \in K
    OBVIOUS
  <2> QED
    BY <2>1, <2>2
<1>2. CASE system = Odd
  <2>1. TextFromSystem(system) = <<>>
    BY <1>2 DEF TextFromSystem, Odd, IsText, IsBlocks
  <2> QED
    BY <2>1 DEF QuietSystem
<1>3. CASE system \in [text : W]
  <2>1. TextFromSystem(system) = <<system.text>> /\ system.text \in W
    BY <1>3 DEF TextFromSystem, IsText
  <2>2. Quiet(system.text)
    BY <1>1, <2>1
  <2> QED
    BY <2>1, <2>2 DEF QuietSystem
<1>4. CASE system \in [blocks : Seq([type : {"text"}, text : W])]
  <2> DEFINE bs    == system.blocks
             texts == OfType(bs, "text")
  <2>1. bs \in Seq([type : {"text"}, text : W]) /\ ~IsText(system) /\ IsBlocks(system)
    BY <1>4 DEF IsText, IsBlocks
  <2>2. Listed(bs) /\ \A k \in 1..Len(bs) : bs[k].text \in W
    <3>1. Listed(bs)
      BY <2>1, SequenceIsList
    <3> DEFINE B == [type : {"text"}, text : W]
    <3> HIDE DEF W
    <3>2. \A b \in B : b.text \in W
      OBVIOUS
    <3> HIDE DEF B
    <3>3. bs \in Seq(B)
      BY <2>1 DEF B
    <3>4. \A k \in 1..Len(bs) : bs[k] \in B
      BY <3>3
    <3> QED
      BY <3>1, <3>2, <3>4
  <2>3. TextFromSystem(system) = IF texts = <<>> THEN <<>> ELSE <<Head(texts).text>>
    BY <2>1 DEF TextFromSystem
  <2>4. PICK at : Picked(texts, bs, {"text"}, Len(bs), at)
    BY <2>2, SelectedAre DEF OfType
  <2> HIDE DEF texts, bs, W
  <2>5. texts = <<>> \/ Head(texts).text \in W
    <3>1. Listed(texts) /\ \A i \in 1..Len(texts) : at[i] \in 1..Len(bs) /\ texts[i] = bs[at[i]]
      BY <2>4 DEF Picked
    <3>2. texts = <<>> \/ 1 \in 1..Len(texts)
      <4>1. Len(texts) \in Nat /\ DOMAIN texts = 1..Len(texts)
        BY <3>1 DEF Listed
      <4>2. Len(texts) = 0 => texts = <<>>
        BY <3>1, <4>1, EmptyList
      <4> QED
        BY <4>1, <4>2
    <3>3. texts # <<>> => Head(texts) = texts[1]
      BY <3>1 DEF Listed
    <3> QED
      BY <2>2, <3>1, <3>2, <3>3
  <2>6. CASE texts = <<>>
    BY <2>3, <2>6 DEF QuietSystem
  <2>7. CASE texts # <<>>
    <3>1. TextFromSystem(system) = <<Head(texts).text>> /\ Quiet(Head(texts).text)
      BY <1>1, <2>3, <2>5, <2>7
    <3> QED
      BY <3>1 DEF QuietSystem
  <2> QED
    BY <2>6, <2>7
<1> QED
    BY <1>2, <1>3, <1>4 DEF SystemPrompts

\* What ModifyRequest makes of the system prompt is one, too.
Prompted(system) ==
    LET prompt == [type |-> "text", text |-> <<Word("prompt", 0)>>]
    IN  CASE IsText(system)   -> system
          [] IsBlocks(system) -> Blocks(Append(system.blocks, prompt))
          [] OTHER            -> Blocks(<<prompt>>)

LEMMA PromptedIsPrompt ==
    ASSUME NEW system \in SystemPrompts
    PROVE  Prompted(system) \in SystemPrompts
<1> DEFINE W      == Seq([kind : {"prompt"}, of : Nat])
           prompt == [type |-> "text", text |-> <<Word("prompt", 0)>>]
           B      == [type : {"text"}, text : W]
<1>1. prompt \in B
  <2>1. Word("prompt", 0) \in [kind : {"prompt"}, of : Nat]
    BY DEF Word
  <2>2. <<Word("prompt", 0)>> \in W
    BY <2>1
  <2> QED
    BY <2>2
<1>2. CASE system = Odd
  <2>1. Prompted(system) = Blocks(<<prompt>>)
    BY <1>2 DEF Prompted, Odd, IsText, IsBlocks
  <2> HIDE DEF prompt, B
  <2>2. <<prompt>> \in Seq(B)
    BY <1>1
  <2>3. Prompted(system) \in [blocks : Seq(B)]
    BY <2>1, <2>2 DEF Blocks
  <2> QED
    BY <2>3 DEF SystemPrompts, B
<1>3. CASE system \in [text : W]
  <2> HIDE DEF W
  <2>2. IsText(system) /\ ~IsBlocks(system)
    BY <1>3 DEF IsText, IsBlocks
  <2>1. Prompted(system) = system
    BY <2>2 DEF Prompted
  <2> QED
    BY <1>3, <2>1
<1>4. CASE system \in [blocks : Seq(B)]
  <2>1. system.blocks \in Seq(B) /\ Prompted(system) = Blocks(Append(system.blocks, prompt))
    BY <1>4 DEF Prompted, IsText, IsBlocks
  <2> HIDE DEF prompt, B
  <2>2. Append(system.blocks, prompt) \in Seq(B)
    BY <1>1, <2>1
  <2>3. Prompted(system) \in [blocks : Seq(B)]
    BY <2>1, <2>2 DEF Blocks
  <2> QED
    BY <2>3 DEF SystemPrompts, B
<1> QED
    BY <1>2, <1>3, <1>4 DEF SystemPrompts

--------------------------------------------------------------------------------
(***************************************************************************)
(* A message whose pictures are texts says the rest as before.             *)
(***************************************************************************)
\* A text with its number for each picture.
LEMMA ModifiedSays ==
    ASSUME NEW m, Fit(m), OfClaude(m), IsBlocks(m.content), NEW bs, bs = m.content.blocks,
           NEW cs, Listed(cs), DOMAIN cs = DOMAIN bs,
           \A j \in DOMAIN bs : cs[j] = IF IsPicture(bs[j]) THEN Placeholder(bs[j].source.of) ELSE bs[j],
           NEW m2, m2 = Put(m, "content", Blocks(cs))
    PROVE  /\ Fit(m2) /\ "content" \in DOMAIN m2
           /\ CallsIn(m2) = CallsIn(m) /\ AnswersIn(m2) = AnswersIn(m) /\ WordsIn(m2, "said") = WordsIn(m, "said")
           /\ WordsIn(m, "picture") = {} => WordsIn(m2, "picture") = PicturesIn(m)
<1>1. /\ "content" \in DOMAIN m /\ DOMAIN m2 = DOMAIN m /\ m2.content = Blocks(cs)
      /\ \A f \in DOMAIN m : f # "content" => m2[f] = m[f]
    BY DEF OfClaude, Put, Joined
<1>2. BlocksOf(m) = bs /\ BlocksIn(m) = bs /\ (\A j \in DOMAIN bs : BlockFit(bs[j])) /\ BlocksFit(bs) /\ Listed(bs)
  <2>1. BlocksOf(m) = bs /\ BlocksFit(bs)
    BY <1>1 DEF BlocksOf, Fit
  <2> QED
    BY <1>1, <2>1, ClaudeBlocks DEF BlocksFit
<1>3. /\ ~IsText(Blocks(cs)) /\ IsBlocks(Blocks(cs)) /\ Blocks(cs).blocks = cs /\ ContentOf(m2) = Blocks(cs)
      /\ ContentOf(m) = m.content /\ ~IsText(m.content)
  <2>1. ContentOf(m2) = Blocks(cs) /\ ContentOf(m) = m.content
    BY <1>1 DEF ContentOf
  <2>2. ~IsText(m.content)
    BY <1>1 DEF Fit
  <2> QED
    BY <2>1, <2>2 DEF Blocks, IsText, IsBlocks
<1>4. /\ BlocksIn(m2) = cs /\ Texts(m2) = [i \in DOMAIN bs |-> BlockText(cs[i])]
      /\ Texts(m) = [i \in DOMAIN bs |-> BlockText(bs[i])]
  <2>1. BlocksIn(m2) = cs /\ Texts(m2) = [i \in DOMAIN cs |-> BlockText(cs[i])]
    BY <1>3, TextsOfBlocks
  <2>2. Texts(m) = [i \in DOMAIN bs |-> BlockText(bs[i])]
    <3>1. ContentOf(m) = m.content /\ ~IsText(m.content)
      BY <1>1 DEF ContentOf, Fit
    <3> QED
      BY <1>2, <3>1 DEF Texts, BlockText
  <2> QED
    BY <2>1, <2>2
<1>5. \A x : Placeholder(x).type = "text" /\ "text" \in DOMAIN Placeholder(x) /\ BlockText(Placeholder(x)) = <<Word("picture", x)>>
             /\ Placeholder(x).text = <<Word("picture", x)>>
    BY DEF Placeholder, BlockText
<1>6. ASSUME NEW j \in DOMAIN bs, IsPicture(bs[j])
      PROVE  /\ cs[j] = Placeholder(bs[j].source.of) /\ BlockText(cs[j]) = <<Word("picture", bs[j].source.of)>>
             /\ BlockText(bs[j]) = <<>> /\ cs[j].type = "text" /\ BlockFit(cs[j])
  <2>1. cs[j] = Placeholder(bs[j].source.of)
    BY <1>6
  <2>2. "text" \notin DOMAIN bs[j]
    BY <1>2, <1>6 DEF BlockFit, IsPicture, TextTypes
  <2>3. BlockFit(cs[j])
    BY <1>5, <2>1 DEF BlockFit, TextTypes, PictureTypes
  <2> QED
    BY <1>5, <2>1, <2>2, <2>3 DEF BlockText
<1>7. ASSUME NEW j \in DOMAIN bs, ~IsPicture(bs[j])
      PROVE  cs[j] = bs[j]
    BY <1>7
<1>8. \A j \in DOMAIN bs : /\ BlockFit(cs[j])
                           /\ \A type \in ToolTypes : (cs[j].type = type <=> bs[j].type = type) /\ (bs[j].type = type => cs[j] = bs[j])
    BY <1>2, <1>6, <1>7 DEF ToolTypes, IsPicture
<1>9. Fit(m2) /\ "content" \in DOMAIN m2
  <2>1. (\E j \in DOMAIN cs : cs[j].type = "tool_result") => \A j \in DOMAIN cs : cs[j].type \in TextTypes \cup {"tool_result"}
    <3> SUFFICES ASSUME NEW k \in DOMAIN bs, cs[k].type = "tool_result", NEW j \in DOMAIN bs
                 PROVE  cs[j].type \in TextTypes \cup {"tool_result"}
      OBVIOUS
    <3>1. bs[k].type = "tool_result"
      BY <1>8 DEF ToolTypes
    <3>2. bs[j].type \in TextTypes \cup {"tool_result"}
      BY <1>2, <3>1 DEF BlocksFit
    <3> QED
      BY <1>6, <1>7, <3>2 DEF TextTypes
  <2>2. BlocksFit(cs)
    BY <1>8, <2>1 DEF BlocksFit
  <2> QED
    BY <1>1, <1>3, <2>2 DEF Fit
<1>10. CallsIn(m2) = CallsIn(m) /\ AnswersIn(m2) = AnswersIn(m)
  <2>1. Those(m2, {"tool_use"}) = Those(m, {"tool_use"}) /\ Those(m2, {"tool_result"}) = Those(m, {"tool_result"})
    BY <1>2, <1>4, <1>8 DEF Those, ToolTypes
  <2>2. /\ \A i \in Those(m, {"tool_use"}) : cs[i] = bs[i]
        /\ \A i \in Those(m, {"tool_result"}) : cs[i] = bs[i]
    BY <1>2, <1>8 DEF Those, ToolTypes
  <2>3. CallsIn(m2) = CallsIn(m)
    BY <1>1, <1>2, <1>4, <2>1, <2>2 DEF CallsIn
  <2>4. AnswersIn(m2) = AnswersIn(m)
    BY <1>1, <1>2, <1>4, <2>1, <2>2 DEF AnswersIn
  <2> QED
    BY <2>3, <2>4
<1>11. \A p : /\ p \in WordsIn(m2, "said") <=> p \in WordsIn(m, "said")
              /\ WordsIn(m, "picture") = {} => (p \in WordsIn(m2, "picture") <=> p \in PictureParts(m))
  <2> TAKE p
  <2>1. \A kind : p \in WordsIn(m2, kind) <=>
              \E i \in DOMAIN bs : \E j \in DOMAIN BlockText(cs[i]) :
                  BlockText(cs[i])[j].kind = kind /\ p = Part(i, j, BlockText(cs[i])[j].of)
    BY <1>4, WordIn
  <2>2. \A kind : p \in WordsIn(m, kind) <=>
              \E i \in DOMAIN bs : \E j \in DOMAIN BlockText(bs[i]) :
                  BlockText(bs[i])[j].kind = kind /\ p = Part(i, j, BlockText(bs[i])[j].of)
    BY <1>4, WordIn
  <2>3. \A x : DOMAIN <<Word("picture", x)>> = {1} /\ <<Word("picture", x)>>[1].kind = "picture" /\ <<Word("picture", x)>>[1].of = x
    BY DEF Word
  <2>4. ASSUME NEW i \in DOMAIN bs, IsPicture(bs[i])
        PROVE  DOMAIN BlockText(cs[i]) = {1} /\ BlockText(cs[i])[1].kind = "picture" /\ BlockText(cs[i])[1].of = bs[i].source.of
               /\ DOMAIN BlockText(bs[i]) = {}
    BY <1>6, <2>3, <2>4
  <2>5. ASSUME NEW i \in DOMAIN bs, ~IsPicture(bs[i])
        PROVE  cs[i] = bs[i]
    BY <2>5
  <2>6. p \in WordsIn(m2, "said") => p \in WordsIn(m, "said")
    BY <2>1, <2>2, <2>4, <2>5
  <2>7. p \in WordsIn(m, "said") => p \in WordsIn(m2, "said")
    BY <2>1, <2>2, <2>4, <2>5
  <2>8. ASSUME WordsIn(m, "picture") = {}, p \in WordsIn(m2, "picture")
        PROVE  p \in PictureParts(m)
    <3>1. PICK i \in DOMAIN bs : \E j \in DOMAIN BlockText(cs[i]) :
                  BlockText(cs[i])[j].kind = "picture" /\ p = Part(i, j, BlockText(cs[i])[j].of)
      BY <2>1, <2>8
    <3>2. IsPicture(bs[i])
      <4>1. ~IsPicture(bs[i]) => p \in WordsIn(m, "picture")
        BY <2>2, <2>5, <3>1
      <4> QED
        BY <2>8, <4>1
    <3>3. p = Part(i, 1, bs[i].source.of)
      BY <2>4, <3>1, <3>2
    <3> QED
      BY <1>2, <3>2, <3>3 DEF PictureParts
  <2>9. ASSUME p \in PictureParts(m)
        PROVE  p \in WordsIn(m2, "picture")
    <3>1. PICK i \in DOMAIN bs : IsPicture(bs[i]) /\ p = Part(i, 1, bs[i].source.of)
      BY <1>2, <2>9 DEF PictureParts
    <3>2. 1 \in DOMAIN BlockText(cs[i]) /\ BlockText(cs[i])[1].kind = "picture" /\ p = Part(i, 1, BlockText(cs[i])[1].of)
      BY <2>4, <3>1
    <3> QED
      BY <2>1, <3>2
  <2> QED
    BY <2>6, <2>7, <2>8, <2>9
<1>12. PicturesIn(m) = PictureParts(m)
    BY ClaudePictures
<1> QED
    BY <1>9, <1>10, <1>11, <1>12

--------------------------------------------------------------------------------
(***************************************************************************)
(* The conversation grows.                                                 *)
(***************************************************************************)
NextNumbers(h, M, n, m) ==
    /\ \A i \in 1..M : Upward(h[i]) /\ OfAll(h[i]) \subseteq (n + 1)..(n + m)
    /\ \A i, j \in 1..M : i < j => \A x \in OfAll(h[i]), y \in OfAll(h[j]) : x < y
    /\ \A x \in (n + 1)..(n + m) : \E i \in 1..M : x \in OfAll(h[i])

LEMMA GrownParts ==
    ASSUME NEW L \in Nat, NEW M \in Nat, NEW f, NEW h, NEW g, DOMAIN f = 1..L, DOMAIN g = 1..(L + M),
           \A i \in 1..L : g[i] = f[i], \A i \in 1..M : g[L + i] = h[i],
           NEW n \in Nat, NEW m \in Nat, CountedTo(f, n), NextNumbers(h, M, n, m)
    PROVE  CountedTo(g, n + m)
<1>1. \A i \in 1..M : Upward(g[L + i]) /\ OfAll(g[L + i]) \subseteq (n + 1)..(n + m)
    BY DEF NextNumbers
<1>2. \A i, j \in 1..M : i < j => \A x \in OfAll(g[L + i]), y \in OfAll(g[L + j]) : x < y
    BY DEF NextNumbers
<1>3. ASSUME NEW x \in (n + 1)..(n + m)
      PROVE  \E i \in 1..M : x \in OfAll(g[L + i])
  <2>1. PICK i \in 1..M : x \in OfAll(h[i])
    BY DEF NextNumbers
  <2> QED
    BY <2>1
<1> QED
    BY <1>1, <1>2, <1>3, CountedOn

LEMMA GrownList ==
    ASSUME NEW list, NEW new, Listed(list), Listed(new)
    PROVE  /\ Len(list) \in Nat /\ Len(new) \in Nat /\ DOMAIN list = 1..Len(list) /\ DOMAIN new = 1..Len(new)
           /\ DOMAIN (list \o new) = 1..(Len(list) + Len(new)) /\ Listed(list \o new)
           /\ \A i \in 1..Len(list) : i \in DOMAIN (list \o new) /\ (list \o new)[i] = list[i]
           /\ \A i \in 1..Len(new) : Len(list) + i \in DOMAIN (list \o new) /\ (list \o new)[Len(list) + i] = new[i]
<1>1. /\ Len(list \o new) = Len(list) + Len(new)
      /\ \A i \in 1..Len(list) : (list \o new)[i] = list[i]
      /\ \A i \in 1..Len(new) : (list \o new)[Len(list) + i] = new[i]
    BY JoinedParts
<1>2. Listed(list \o new)
    BY JoinedLists
<1>3. Len(list) \in Nat /\ Len(new) \in Nat /\ DOMAIN list = 1..Len(list) /\ DOMAIN new = 1..Len(new)
    BY DEF Listed
<1>4. DOMAIN (list \o new) = 1..(Len(list) + Len(new))
    BY <1>1, <1>2 DEF Listed
<1>5. \A i \in 1..Len(new) : Len(list) + i \in 1..(Len(list) + Len(new))
    BY <1>3
<1>6. \A i \in 1..Len(list) : i \in 1..(Len(list) + Len(new))
    BY <1>3
<1> QED
    BY <1>1, <1>2, <1>3, <1>4, <1>5, <1>6

LEMMA GrownConversation ==
    ASSUME NEW list, NEW new, Listed(list), Listed(new), NEW n \in Nat, NEW m \in Nat
    PROVE  /\ \A kind : CountedTo(WordsOf(list, kind), n) /\ NextNumbers(WordsOf(new, kind), Len(new), n, m)
                           => CountedTo(WordsOf(list \o new, kind), n + m)
           /\ CountedTo(PicturesOf(list), n) /\ NextNumbers(PicturesOf(new), Len(new), n, m)
                => CountedTo(PicturesOf(list \o new), n + m)
           /\ CountedTo(CallsOf(list), n) /\ NextNumbers(CallsOf(new), Len(new), n, m)
                => CountedTo(CallsOf(list \o new), n + m)
           /\ CountedTo(AnswersOf(list), n) /\ NextNumbers(AnswersOf(new), Len(new), n, m)
                => CountedTo(AnswersOf(list \o new), n + m)
<1> DEFINE J == list \o new
           L == Len(list)
           M == Len(new)
<1>1. /\ L \in Nat /\ M \in Nat /\ DOMAIN list = 1..L /\ DOMAIN new = 1..M /\ DOMAIN J = 1..(L + M)
      /\ \A i \in 1..L : i \in DOMAIN J /\ J[i] = list[i]
      /\ \A i \in 1..M : L + i \in DOMAIN J /\ J[L + i] = new[i]
    BY GrownList
<1> HIDE DEF J, L, M
<1>2. ASSUME NEW f, NEW h, NEW g, DOMAIN f = DOMAIN list, DOMAIN g = DOMAIN J,
             \A i \in 1..L : g[i] = f[i], \A i \in 1..M : g[L + i] = h[i], CountedTo(f, n), NextNumbers(h, M, n, m)
      PROVE  CountedTo(g, n + m)
    BY <1>1, <1>2, GrownParts
<1>3. ASSUME NEW kind, CountedTo(WordsOf(list, kind), n), NextNumbers(WordsOf(new, kind), M, n, m)
      PROVE  CountedTo(WordsOf(J, kind), n + m)
  <2> DEFINE f == WordsOf(list, kind)
             h == WordsOf(new, kind)
             g == WordsOf(J, kind)
  <2>1. DOMAIN f = DOMAIN list /\ DOMAIN g = DOMAIN J /\ (\A i \in 1..L : g[i] = f[i]) /\ (\A i \in 1..M : g[L + i] = h[i])
    BY <1>1 DEF WordsOf
  <2> HIDE DEF f, h, g
  <2> QED
    BY <1>2, <1>3, <2>1 DEF f, h, g
<1>4. ASSUME CountedTo(PicturesOf(list), n), NextNumbers(PicturesOf(new), M, n, m)
      PROVE  CountedTo(PicturesOf(J), n + m)
  <2> DEFINE f == PicturesOf(list)
             h == PicturesOf(new)
             g == PicturesOf(J)
  <2>1. DOMAIN f = DOMAIN list /\ DOMAIN g = DOMAIN J /\ (\A i \in 1..L : g[i] = f[i]) /\ (\A i \in 1..M : g[L + i] = h[i])
    BY <1>1 DEF PicturesOf
  <2> HIDE DEF f, h, g
  <2> QED
    BY <1>2, <1>4, <2>1 DEF f, h, g
<1>5. ASSUME CountedTo(CallsOf(list), n), NextNumbers(CallsOf(new), M, n, m)
      PROVE  CountedTo(CallsOf(J), n + m)
  <2> DEFINE f == CallsOf(list)
             h == CallsOf(new)
             g == CallsOf(J)
  <2>1. DOMAIN f = DOMAIN list /\ DOMAIN g = DOMAIN J /\ (\A i \in 1..L : g[i] = f[i]) /\ (\A i \in 1..M : g[L + i] = h[i])
    BY <1>1 DEF CallsOf
  <2> HIDE DEF f, h, g
  <2> QED
    BY <1>2, <1>5, <2>1 DEF f, h, g
<1>6. ASSUME CountedTo(AnswersOf(list), n), NextNumbers(AnswersOf(new), M, n, m)
      PROVE  CountedTo(AnswersOf(J), n + m)
  <2> DEFINE f == AnswersOf(list)
             h == AnswersOf(new)
             g == AnswersOf(J)
  <2>1. DOMAIN f = DOMAIN list /\ DOMAIN g = DOMAIN J /\ (\A i \in 1..L : g[i] = f[i]) /\ (\A i \in 1..M : g[L + i] = h[i])
    BY <1>1 DEF AnswersOf
  <2> HIDE DEF f, h, g
  <2> QED
    BY <1>2, <1>6, <2>1 DEF f, h, g
<1> QED
    BY <1>3, <1>4, <1>5, <1>6 DEF J, M

\* A message of the client: what it calls and answers is in the form of its protocol.
OfClient(m) == IF Claude THEN OfClaude(m) ELSE InForm(m, "responses")

\* What is said, shown, called and answered has the numbers that the history variable has.
TalkInv ==
    /\ told.words \in Nat /\ told.pictures \in Nat /\ told.calls \in Nat
    /\ \A i \in DOMAIN messages : Fit(messages[i]) /\ OfClient(messages[i])
    /\ Len(told.pending) <= told.calls
    /\ \A i \in DOMAIN told.pending : told.pending[i] = told.calls - Len(told.pending) + i
    /\ CountedTo(WordsOf(messages, "said"), told.words) /\ CountedTo(WordsOf(messages, "picture"), 0)
    /\ CountedTo(PicturesOf(messages), told.pictures)
    /\ CountedTo(CallsOf(messages), told.calls)
    /\ CountedTo(AnswersOf(messages), told.calls - Len(told.pending)) /\ AnswersFollow(messages)
    /\ turn # "user" => told.pending = <<>>
    /\ FirstAnswers(messages) = told.firsts

LEMMA QuietIsOfClient ==
    ASSUME NEW m, Claude => OfClaude(m), CallsIn(m) = {}, AnswersIn(m) = {}
    PROVE  OfClient(m)
    BY DEF OfClient, InForm

LEMMA LeastOfRow ==
    ASSUME NEW d \in Nat, NEW a \in Nat
    PROVE  Least((d + 1)..(d + a)) = IF a = 0 THEN {} ELSE {d + 1}
<1>1. CASE a = 0
  <2>1. (d + 1)..(d + a) = {}
    BY <1>1
  <2> QED
    BY <1>1, <2>1 DEF Least
<1>2. CASE a # 0
  <2>1. d + 1 \in (d + 1)..(d + a) /\ \A y \in (d + 1)..(d + a) : y = d + 1 \/ (d + 1 < y /\ ~(y < d + 1))
    BY <1>2
  <2> QED
    BY <1>2, <2>1 DEF Least
<1> QED
    BY <1>1, <1>2

LEMMA CountedNumbers ==
    ASSUME NEW f, NEW n \in Nat, CountedTo(f, n)
    PROVE  /\ \A i \in DOMAIN f : OfAll(f[i]) \subseteq 1..n
           /\ \A x \in 1..n : \E i \in DOMAIN f : x \in OfAll(f[i])
           /\ n = 0 => \A i \in DOMAIN f : f[i] = {}
<1>1. Numbers(All(f)) = 1..n
    BY DEF CountedTo
<1>2. \A x : x \in 1..n <=> \E i \in DOMAIN f : x \in OfAll(f[i])
    BY <1>1, AmongNumbers
<1>3. ASSUME n = 0, NEW i \in DOMAIN f
      PROVE  f[i] = {}
  <2>1. OfAll(f[i]) = {}
    BY <1>2, <1>3
  <2> QED
    BY <2>1 DEF OfAll
<1> QED
    BY <1>2, <1>3

LEMMA AnswersStillFollow ==
    ASSUME NEW list, NEW new, Listed(list), Listed(new), AnswersFollow(list), NEW n \in Nat, CountedTo(CallsOf(list), n),
           \A i \in DOMAIN new : OfAll(AnswersIn(new[i])) \subseteq 1..n
    PROVE  AnswersFollow(list \o new)
<1> DEFINE J == list \o new
           L == Len(list)
           M == Len(new)
<1>1. /\ L \in Nat /\ M \in Nat /\ DOMAIN list = 1..L /\ DOMAIN new = 1..M /\ DOMAIN J = 1..(L + M)
      /\ \A i \in 1..L : i \in DOMAIN J /\ J[i] = list[i]
      /\ \A i \in 1..M : L + i \in DOMAIN J /\ J[L + i] = new[i]
    BY GrownList
<1> HIDE DEF J, L, M
<1>2. \A i \in 1..(L + M) : i \in 1..L \/ (i - L \in 1..M /\ L + (i - L) = i)
    BY <1>1
<1> SUFFICES ASSUME NEW i \in DOMAIN J, NEW x \in OfAll(AnswersIn(J[i]))
             PROVE  \E j \in DOMAIN J : j < i /\ x \in OfAll(CallsIn(J[j]))
    BY DEF AnswersFollow, J
<1>3. CASE i \in 1..L
  <2>1. PICK j \in DOMAIN list : j < i /\ x \in OfAll(CallsIn(list[j]))
    BY <1>1, <1>3 DEF AnswersFollow
  <2> QED
    BY <1>1, <2>1
<1>4. CASE i - L \in 1..M /\ L + (i - L) = i
  <2>1. x \in 1..n
    <3> DEFINE k == i - L
    <3>1. k \in 1..M /\ L + k = i
      BY <1>4
    <3> HIDE DEF k
    <3>2. J[i] = new[k] /\ k \in DOMAIN new
      BY <1>1, <3>1
    <3> QED
      BY <3>2
  <2>2. PICK j \in DOMAIN CallsOf(list) : x \in OfAll(CallsOf(list)[j])
    BY <2>1, CountedNumbers
  <2>3. j \in 1..L /\ x \in OfAll(CallsIn(J[j]))
    BY <1>1, <2>2 DEF CallsOf
  <2>4. j < i
    BY <1>1, <1>4, <2>3
  <2> QED
    BY <1>1, <2>3, <2>4
<1> QED
    BY <1>1, <1>2, <1>3, <1>4

LEMMA TalkNumbers ==
    ASSUME TalkInv, Listed(told.pending)
    PROVE  /\ told.calls - Len(told.pending) \in Nat /\ Len(told.pending) \in Nat
           /\ told.words \in Nat /\ told.pictures \in Nat /\ told.calls \in Nat
<1>1. Len(told.pending) \in Nat
    BY DEF Listed
<1>2. told.words \in Nat /\ told.pictures \in Nat /\ told.calls \in Nat /\ Len(told.pending) <= told.calls
    BY DEF TalkInv
<1> QED
    BY ONLY <1>1, <1>2

LEMMA TalkGrows ==
    ASSUME TalkInv, Listed(messages), Listed(told.pending),
           NEW new, Listed(new), messages' = messages \o new, inbound' = inbound,
           \A i \in DOMAIN new :
              Fit(new[i]) /\ OfClient(new[i]) /\ WordsIn(new[i], "picture") = {},
           NEW w \in Nat, NEW p \in Nat, NEW c \in Nat, NEW a \in Nat,
           told'.words = told.words + w, told'.pictures = told.pictures + p, told'.calls = told.calls + c,
           told'.calls - Len(told'.pending) = told.calls - Len(told.pending) + a, a <= Len(told.pending),
           NextNumbers(WordsOf(new, "said"), Len(new), told.words, w),
           NextNumbers(PicturesOf(new), Len(new), told.pictures, p),
           NextNumbers(CallsOf(new), Len(new), told.calls, c),
           NextNumbers(AnswersOf(new), Len(new), told.calls - Len(told.pending), a),
           Len(told'.pending) <= told'.calls,
           \A i \in DOMAIN told'.pending : told'.pending[i] = told'.calls - Len(told'.pending) + i,
           turn' = "user" \/ told'.pending = <<>>,
           told'.firsts = told.firsts \cup FirstAnswers(new)
    PROVE  TalkInv'
<1> DEFINE J == messages \o new
           L == Len(messages)
           M == Len(new)
           d == told.calls - Len(told.pending)
<1>1. /\ L \in Nat /\ M \in Nat /\ DOMAIN messages = 1..L /\ DOMAIN new = 1..M /\ DOMAIN J = 1..(L + M)
      /\ \A i \in 1..L : i \in DOMAIN J /\ J[i] = messages[i]
      /\ \A i \in 1..M : L + i \in DOMAIN J /\ J[L + i] = new[i]
    BY GrownList
<1>2. d \in Nat /\ told.words \in Nat /\ told.pictures \in Nat /\ told.calls \in Nat /\ Len(told.pending) \in Nat
    BY TalkNumbers
<1>3. /\ CountedTo(WordsOf(J, "said"), told.words + w)
      /\ CountedTo(PicturesOf(J), told.pictures + p)
      /\ CountedTo(CallsOf(J), told.calls + c)
      /\ CountedTo(AnswersOf(J), d + a)
  <2> HIDE DEF d
  <2>1. CountedTo(WordsOf(messages, "said"), told.words) /\ CountedTo(PicturesOf(messages), told.pictures)
        /\ CountedTo(CallsOf(messages), told.calls) /\ CountedTo(AnswersOf(messages), d)
    BY DEF TalkInv, d
  <2>2. NextNumbers(AnswersOf(new), M, d, a)
    BY DEF d
  <2>3. CountedTo(WordsOf(J, "said"), told.words + w)
    BY <1>2, <2>1, GrownConversation
  <2>4. CountedTo(PicturesOf(J), told.pictures + p)
    BY <1>2, <2>1, GrownConversation
  <2>5. CountedTo(CallsOf(J), told.calls + c)
    BY <1>2, <2>1, GrownConversation
  <2>6. CountedTo(AnswersOf(J), d + a)
    BY <1>2, <2>1, <2>2, GrownConversation
  <2> QED
    BY <2>3, <2>4, <2>5, <2>6
<1>4. CountedTo(WordsOf(J, "picture"), 0)
  <2>1. NextNumbers(WordsOf(new, "picture"), M, 0, 0)
    <3>1. \A i \in 1..M : WordsOf(new, "picture")[i] = {}
      BY <1>1 DEF WordsOf
    <3>2. \A i \in 1..M : Upward(WordsOf(new, "picture")[i]) /\ OfAll(WordsOf(new, "picture")[i]) = {}
      BY <3>1 DEF Upward, OfAll
    <3>3. (0 + 1)..(0 + 0) = {}
      OBVIOUS
    <3> QED
      BY <3>2, <3>3 DEF NextNumbers
  <2>2. CountedTo(WordsOf(messages, "picture"), 0)
    BY DEF TalkInv
  <2>3. 0 + 0 = 0 /\ 0 \in Nat
    OBVIOUS
  <2>4. CountedTo(WordsOf(J, "picture"), 0 + 0)
    BY <2>1, <2>2, <2>3, GrownConversation
  <2> QED
    BY <2>3, <2>4
<1>5. AnswersFollow(J)
  <2>1. \A i \in DOMAIN new : OfAll(AnswersIn(new[i])) \subseteq 1..told.calls
    <3>1. \A i \in 1..M : OfAll(AnswersOf(new)[i]) \subseteq (d + 1)..(d + a)
      BY DEF NextNumbers
    <3>2. (d + 1)..(d + a) \subseteq 1..told.calls
      <4>1. a \in Nat /\ a <= Len(told.pending) /\ d = told.calls - Len(told.pending)
        OBVIOUS
      <4> HIDE DEF d
      <4> QED
        BY ONLY <1>2, <4>1
    <3> QED
      BY <1>1, <3>1, <3>2 DEF AnswersOf
  <2> HIDE DEF J
  <2>2. AnswersFollow(messages) /\ CountedTo(CallsOf(messages), told.calls)
    BY DEF TalkInv
  <2> QED
    BY <1>2, <2>1, <2>2, AnswersStillFollow DEF J
<1>6. \A i \in DOMAIN J : (i \in 1..L /\ J[i] = messages[i]) \/ (\E k \in DOMAIN new : J[i] = new[k])
  <2>1. \A i \in 1..(L + M) : i \in 1..L \/ (i - L \in 1..M /\ L + (i - L) = i)
    BY <1>1
  <2> SUFFICES ASSUME NEW i \in DOMAIN J
               PROVE  (i \in 1..L /\ J[i] = messages[i]) \/ (\E k \in DOMAIN new : J[i] = new[k])
    OBVIOUS
  <2> HIDE DEF J, L, M
  <2>2. CASE i \in 1..L
    BY <1>1, <2>2
  <2>3. CASE i - L \in 1..M /\ L + (i - L) = i
    <3> DEFINE k == i - L
    <3>1. k \in 1..M /\ L + k = i
      BY <2>3
    <3> HIDE DEF k
    <3>2. J[i] = new[k] /\ k \in DOMAIN new
      BY <1>1, <3>1
    <3> QED
      BY <3>2
  <2> QED
    BY <1>1, <2>1, <2>2, <2>3
<1> HIDE DEF J, L, M
<1>7. messages' = J
    BY DEF J
<1>8. \A i \in DOMAIN J : Fit(J[i]) /\ OfClient(J[i])
  <2>1. \A i \in DOMAIN messages : Fit(messages[i]) /\ OfClient(messages[i])
    BY DEF TalkInv
  <2>2. \A i \in DOMAIN new : Fit(new[i]) /\ OfClient(new[i])
    OBVIOUS
  <2> SUFFICES ASSUME NEW i \in DOMAIN J
               PROVE  Fit(J[i]) /\ OfClient(J[i])
    OBVIOUS
  <2>3. CASE i \in 1..L /\ J[i] = messages[i]
    BY <1>1, <2>1, <2>3
  <2>4. CASE \E k \in DOMAIN new : J[i] = new[k]
    BY <2>2, <2>4
  <2> QED
    BY <1>6, <2>3, <2>4
<1>9. FirstAnswers(J) = FirstAnswers(messages) \cup FirstAnswers(new)
  <2> DEFINE F(m) == Least(OfAll(AnswersIn(m)))
  <2>1. \A list : FirstAnswers(list) = UNION {F(list[i]) : i \in DOMAIN list}
    BY DEF FirstAnswers
  <2> HIDE DEF F
  <2>2. \A x, list : x \in FirstAnswers(list) <=> \E i \in DOMAIN list : x \in F(list[i])
    BY <2>1
  <2>3. ASSUME NEW x
        PROVE  x \in FirstAnswers(J) <=> x \in FirstAnswers(messages) \/ x \in FirstAnswers(new)
    <3>1. ASSUME x \in FirstAnswers(J)
          PROVE  x \in FirstAnswers(messages) \/ x \in FirstAnswers(new)
      <4>1. PICK i \in DOMAIN J : x \in F(J[i])
        BY <2>2, <3>1
      <4>2. CASE i \in 1..L /\ J[i] = messages[i]
        BY <1>1, <2>2, <4>1, <4>2
      <4>3. CASE \E k \in DOMAIN new : J[i] = new[k]
        BY <2>2, <4>1, <4>3
      <4> QED
        BY <1>6, <4>2, <4>3
    <3>2. ASSUME x \in FirstAnswers(messages)
          PROVE  x \in FirstAnswers(J)
      <4>1. PICK i \in 1..L : x \in F(messages[i])
        BY <1>1, <2>2, <3>2
      <4> QED
        BY <1>1, <2>2, <4>1
    <3>3. ASSUME x \in FirstAnswers(new)
          PROVE  x \in FirstAnswers(J)
      <4>1. PICK i \in 1..M : x \in F(new[i])
        BY <1>1, <2>2, <3>3
      <4> QED
        BY <1>1, <2>2, <4>1
    <3> QED
      BY <3>1, <3>2, <3>3
  <2> QED
    BY <2>3
<1>10. Claude' = Claude
    BY DEF Claude
<1> HIDE DEF d
<1>11. told'.calls - Len(told'.pending) = d + a
    BY DEF d
<1>12. told'.words \in Nat /\ told'.pictures \in Nat /\ told'.calls \in Nat
  <2>1. told'.words = told.words + w /\ told'.pictures = told.pictures + p /\ told'.calls = told.calls + c
        /\ w \in Nat /\ p \in Nat /\ c \in Nat
    OBVIOUS
  <2> QED
    BY ONLY <1>2, <2>1
<1>13. /\ CountedTo(WordsOf(J, "said"), told'.words)
       /\ CountedTo(PicturesOf(J), told'.pictures)
       /\ CountedTo(CallsOf(J), told'.calls)
       /\ CountedTo(AnswersOf(J), told'.calls - Len(told'.pending))
    BY <1>3, <1>11
<1>14. /\ CountedTo(WordsOf(messages', "said"), told'.words) /\ CountedTo(WordsOf(messages', "picture"), 0)
       /\ CountedTo(PicturesOf(messages'), told'.pictures)
       /\ CountedTo(CallsOf(messages'), told'.calls)
       /\ CountedTo(AnswersOf(messages'), told'.calls - Len(told'.pending)) /\ AnswersFollow(messages')
    BY <1>4, <1>5, <1>7, <1>13
<1>15. \A i \in DOMAIN messages' : Fit(messages'[i]) /\ (IF Claude' THEN OfClaude(messages'[i]) ELSE InForm(messages'[i], "responses"))
    BY <1>7, <1>8, <1>10 DEF OfClient
<1>16. FirstAnswers(messages') = told'.firsts
  <2>1. FirstAnswers(messages) = told.firsts
    BY DEF TalkInv
  <2> QED
    BY <1>7, <1>9, <2>1
<1> QED
    BY <1>12, <1>14, <1>15, <1>16 DEF TalkInv, OfClient

--------------------------------------------------------------------------------
(***************************************************************************)
(* The messages that a conversation grows by.                              *)
(***************************************************************************)
Numbered(S, n, m) == Upward(S) /\ OfAll(S) = (n + 1)..(n + m)

LEMMA NoneIsNumbered ==
    ASSUME NEW n \in Nat
    PROVE  Numbered({}, n, 0)
<1>1. (n + 1)..(n + 0) = {}
    OBVIOUS
<1> QED
    BY <1>1 DEF Numbered, Upward, OfAll

LEMMA OneIsNumbered ==
    ASSUME NEW n \in Nat, NEW i \in Nat, NEW j \in Nat
    PROVE  Numbered({Part(i, j, n + 1)}, n, 1)
<1> DEFINE p == Part(i, j, n + 1)
<1>1. p.of = n + 1 /\ p.block = i /\ p.place = j
    BY PartIs
<1>2. (n + 1)..(n + 1) = {n + 1}
    OBVIOUS
<1>3. OfAll({p}) = {n + 1}
    BY <1>1 DEF OfAll
<1>4. Upward({p})
  <2>1. ~Earlier(p, p)
    BY <1>1 DEF Earlier
  <2> QED
    BY <2>1 DEF Upward
<1> QED
    BY <1>2, <1>3, <1>4 DEF Numbered

LEMMA SeveralAreNumbered ==
    ASSUME NEW n \in Nat, NEW m \in Nat, NEW b \in Nat, NEW S, S = {Part(b + i, 1, n + i) : i \in 1..m}
    PROVE  Numbered(S, n, m)
<1>1. ASSUME NEW p \in S, NEW q \in S, Earlier(p, q)
      PROVE  p.of < q.of
  <2>1. PICK i \in 1..m : p = Part(b + i, 1, n + i)
    OBVIOUS
  <2>2. PICK j \in 1..m : q = Part(b + j, 1, n + j)
    OBVIOUS
  <2>3. p.block = b + i /\ p.place = 1 /\ p.of = n + i /\ q.block = b + j /\ q.place = 1 /\ q.of = n + j
    BY <2>1, <2>2, PartIs
  <2>4. b + i < b + j
    BY <1>1, <2>3 DEF Earlier
  <2> QED
    BY <2>3, <2>4
<1>2. ASSUME NEW x
      PROVE  x \in OfAll(S) <=> x \in (n + 1)..(n + m)
  <2>1. ASSUME x \in OfAll(S)
        PROVE  x \in (n + 1)..(n + m)
    <3>1. PICK p \in S : x = p.of
      BY <2>1 DEF OfAll
    <3>2. PICK i \in 1..m : p = Part(b + i, 1, n + i)
      OBVIOUS
    <3>3. x = n + i
      BY <3>1, <3>2, PartIs
    <3> QED
      BY <3>3
  <2>2. ASSUME x \in (n + 1)..(n + m)
        PROVE  x \in OfAll(S)
    <3> DEFINE i == x - n
    <3>1. i \in 1..m /\ n + i = x
      BY <2>2
    <3> HIDE DEF i
    <3>2. Part(b + i, 1, n + i) \in S /\ Part(b + i, 1, n + i).of = x
      BY <3>1, PartIs
    <3> QED
      BY <3>2 DEF OfAll
  <2> QED
    BY <2>1, <2>2
<1> QED
    BY <1>1, <1>2 DEF Numbered, Upward

LEMMA OneNext ==
    ASSUME NEW h, NEW n \in Nat, NEW m \in Nat, Numbered(h[1], n, m)
    PROVE  NextNumbers(h, 1, n, m)
<1>1. 1..1 = {1}
    OBVIOUS
<1>2. \A i, j \in 1..1 : ~(i < j)
    OBVIOUS
<1> QED
    BY <1>1, <1>2 DEF Numbered, NextNumbers

LEMMA NoneNext ==
    ASSUME NEW h, NEW M, NEW n \in Nat, \A i \in 1..M : h[i] = {}
    PROVE  NextNumbers(h, M, n, 0)
<1>1. (n + 1)..(n + 0) = {}
    OBVIOUS
<1>2. \A i \in 1..M : Upward(h[i]) /\ OfAll(h[i]) = {}
    BY DEF Upward, OfAll
<1> QED
    BY <1>1, <1>2 DEF NextNumbers

LEMMA EachNext ==
    ASSUME NEW h, NEW n \in Nat, NEW m \in Nat, \A i \in 1..m : h[i] = {Part(0, 0, n + i)}
    PROVE  NextNumbers(h, m, n, m)
<1>1. ASSUME NEW i \in 1..m
      PROVE  Upward(h[i]) /\ OfAll(h[i]) = {n + i}
  <2> DEFINE p == Part(0, 0, n + i)
  <2>1. h[i] = {p} /\ p.of = n + i /\ p.block = 0 /\ p.place = 0
    BY PartIs
  <2> HIDE DEF p
  <2>2. ~Earlier(p, p)
    BY <2>1 DEF Earlier
  <2> QED
    BY <2>1, <2>2 DEF Upward, OfAll
<1>2. \A i \in 1..m : n + i \in (n + 1)..(n + m)
    OBVIOUS
<1>3. \A i, j \in 1..m : i < j => n + i < n + j
    OBVIOUS
<1>4. \A x \in (n + 1)..(n + m) : x - n \in 1..m /\ n + (x - n) = x
    OBVIOUS
<1>5. ASSUME NEW x \in (n + 1)..(n + m)
      PROVE  \E i \in 1..m : x \in OfAll(h[i])
  <2> DEFINE i == x - n
  <2>1. i \in 1..m /\ n + i = x
    BY <1>4
  <2> HIDE DEF i
  <2> QED
    BY <1>1, <2>1
<1> QED
    BY <1>1, <1>2, <1>3, <1>5 DEF NextNumbers

LEMMA TalkGrowsByOne ==
    ASSUME TalkInv, Listed(messages), Listed(told.pending),
           NEW m, messages' = Append(messages, m), inbound' = inbound,
           Fit(m), OfClient(m), WordsIn(m, "picture") = {},
           NEW w \in Nat, NEW p \in Nat, NEW c \in Nat, NEW a \in Nat,
           told'.words = told.words + w, told'.pictures = told.pictures + p, told'.calls = told.calls + c,
           told'.calls - Len(told'.pending) = told.calls - Len(told.pending) + a, a <= Len(told.pending),
           Numbered(WordsIn(m, "said"), told.words, w),
           Numbered(PicturesIn(m), told.pictures, p),
           Numbered(CallsIn(m), told.calls, c),
           Numbered(AnswersIn(m), told.calls - Len(told.pending), a),
           Len(told'.pending) <= told'.calls,
           \A i \in DOMAIN told'.pending : told'.pending[i] = told'.calls - Len(told'.pending) + i,
           turn' = "user" \/ told'.pending = <<>>,
           told'.firsts = told.firsts \cup (IF a = 0 THEN {} ELSE {told.calls - Len(told.pending) + 1})
    PROVE  TalkInv'
<1> DEFINE new == <<m>>
           d   == told.calls - Len(told.pending)
<1>1. Listed(new) /\ DOMAIN new = {1} /\ new[1] = m /\ Len(new) = 1
  <2>1. new \in Seq({m}) /\ DOMAIN new = {1} /\ new[1] = m /\ Len(new) = 1
    OBVIOUS
  <2> QED
    BY <2>1, SequenceIsList
<1>2. messages' = messages \o new
  <2> DEFINE S == {messages[i] : i \in DOMAIN messages} \cup {m}
  <2>1. messages \in Seq(S)
    <3>1. messages \in [1..Len(messages) -> S] /\ Len(messages) \in Nat
      BY DEF Listed
    <3> QED
      BY <3>1
  <2>2. m \in S
    OBVIOUS
  <2> HIDE DEF S
  <2>3. Append(messages, m) = messages \o <<m>>
    BY ONLY <2>1, <2>2
  <2> QED
    BY <2>3
<1> HIDE DEF new
<1>3. d \in Nat /\ told.words \in Nat /\ told.pictures \in Nat /\ told.calls \in Nat
    BY TalkNumbers
<1>4. WordsOf(new, "said")[1] = WordsIn(m, "said") /\ PicturesOf(new)[1] = PicturesIn(m)
      /\ CallsOf(new)[1] = CallsIn(m) /\ AnswersOf(new)[1] = AnswersIn(m)
    BY <1>1 DEF WordsOf, PicturesOf, CallsOf, AnswersOf
<1>5. /\ NextNumbers(WordsOf(new, "said"), Len(new), told.words, w)
      /\ NextNumbers(PicturesOf(new), Len(new), told.pictures, p)
      /\ NextNumbers(CallsOf(new), Len(new), told.calls, c)
      /\ NextNumbers(AnswersOf(new), Len(new), d, a)
  <2> HIDE DEF d
  <2>1. Numbered(AnswersIn(m), d, a)
    BY DEF d
  <2>2. \A h, k, l : k \in Nat /\ l \in Nat /\ Numbered(h[1], k, l) => NextNumbers(h, 1, k, l)
    BY OneNext
  <2>3. NextNumbers(WordsOf(new, "said"), 1, told.words, w)
    BY <1>3, <1>4, <2>2
  <2>4. NextNumbers(PicturesOf(new), 1, told.pictures, p)
    BY <1>3, <1>4, <2>2
  <2>5. NextNumbers(CallsOf(new), 1, told.calls, c)
    BY <1>3, <1>4, <2>2
  <2>6. NextNumbers(AnswersOf(new), 1, d, a)
    BY <1>3, <1>4, <2>1, <2>2
  <2> QED
    BY <1>1, <2>3, <2>4, <2>5, <2>6
<1>6. \A i \in DOMAIN new : Fit(new[i]) /\ OfClient(new[i]) /\ WordsIn(new[i], "picture") = {}
    BY <1>1
<1>7. told'.firsts = told.firsts \cup FirstAnswers(new)
  <2>1. told'.firsts = told.firsts \cup (IF a = 0 THEN {} ELSE {d + 1})
    OBVIOUS
  <2>2. OfAll(AnswersIn(m)) = (d + 1)..(d + a)
    BY DEF Numbered
  <2>3. FirstAnswers(new) = Least(OfAll(AnswersIn(m)))
    BY <1>1 DEF FirstAnswers
  <2> HIDE DEF d
  <2>4. d \in Nat /\ a \in Nat
    BY <1>3
  <2>5. Least((d + 1)..(d + a)) = IF a = 0 THEN {} ELSE {d + 1}
    BY ONLY <2>4, LeastOfRow
  <2> QED
    BY <2>1, <2>2, <2>3, <2>5
<1> QED
    BY <1>1, <1>2, <1>5, <1>6, <1>7, TalkGrows

--------------------------------------------------------------------------------
(***************************************************************************)
(* What a message of blocks has.                                           *)
(***************************************************************************)
LEMMA SaidBlocksHave ==
    ASSUME NEW role, NEW bs, BlocksFit(bs), NEW m, m = Said(role, Blocks(bs))
    PROVE  /\ Fit(m) /\ "content" \in DOMAIN m /\ m.role = role /\ BlocksOf(m) = bs /\ BlocksIn(m) = bs
           /\ Texts(m) = [i \in DOMAIN bs |-> BlockText(bs[i])]
           /\ CallsIn(m) = {Part(i, 1, bs[i].id) : i \in {k \in DOMAIN bs : bs[k].type = "tool_use"}}
           /\ AnswersIn(m) = {Part(i, 1, bs[i].tool_use_id) : i \in {k \in DOMAIN bs : bs[k].type = "tool_result"}}
           /\ PicturesIn(m) = {Part(i, 1, IF IsPicture(bs[i]) THEN bs[i].source.of ELSE bs[i].url.of)
                               : i \in {k \in DOMAIN bs : bs[k].type \in {"image", "image_url", "input_image"}}}
<1>1. DOMAIN m = {"role", "content"} /\ m.content = Blocks(bs) /\ m.role = role
    BY DEF Said
<1>2. ~IsText(Blocks(bs)) /\ IsBlocks(Blocks(bs)) /\ Blocks(bs).blocks = bs
    BY DEF Blocks, IsText, IsBlocks
<1>3. Fit(m)
    BY <1>1, <1>2 DEF Fit
<1>4. ContentOf(m) = Blocks(bs)
    BY <1>1 DEF ContentOf
<1>5. BlocksIn(m) = bs /\ Texts(m) = [i \in DOMAIN bs |-> BlockText(bs[i])]
    BY <1>4, TextsOfBlocks
<1>6. BlocksOf(m) = bs
    BY <1>1, <1>2 DEF BlocksOf
<1>7. \A f \in {"tool_calls", "tool_call_id", "id", "call_id"} : f \notin DOMAIN m
    BY <1>1
<1>8. \A types : Those(m, types) = {k \in DOMAIN bs : bs[k].type \in types}
    BY <1>5 DEF Those
<1>9. /\ Those(m, {"tool_use"}) = {k \in DOMAIN bs : bs[k].type = "tool_use"}
      /\ Those(m, {"tool_result"}) = {k \in DOMAIN bs : bs[k].type = "tool_result"}
    BY <1>8
<1>10. CallsIn(m) = {Part(i, 1, bs[i].id) : i \in {k \in DOMAIN bs : bs[k].type = "tool_use"}}
    BY <1>5, <1>7, <1>9 DEF CallsIn
<1>11. AnswersIn(m) = {Part(i, 1, bs[i].tool_use_id) : i \in {k \in DOMAIN bs : bs[k].type = "tool_result"}}
    BY <1>5, <1>7, <1>9 DEF AnswersIn
<1>12. PicturesIn(m) = {Part(i, 1, IF IsPicture(bs[i]) THEN bs[i].source.of ELSE bs[i].url.of)
                        : i \in {k \in DOMAIN bs : bs[k].type \in {"image", "image_url", "input_image"}}}
    BY <1>5, <1>8 DEF PicturesIn
<1> QED
    BY <1>1, <1>3, <1>5, <1>6, <1>10, <1>11, <1>12

\* One text, if any, and it is said.
LEMMA OneTextSaid ==
    ASSUME NEW m, NEW bs, Texts(m) = [i \in DOMAIN bs |-> BlockText(bs[i])],
           NEW x \in DOMAIN bs, NEW w, BlockText(bs[x]) = <<Word("said", w)>>,
           \A i \in DOMAIN bs : i # x => BlockText(bs[i]) = <<>>
    PROVE  WordsIn(m, "said") = {Part(x, 1, w)} /\ WordsIn(m, "picture") = {}
<1>1. DOMAIN <<Word("said", w)>> = {1} /\ <<Word("said", w)>>[1].kind = "said" /\ <<Word("said", w)>>[1].of = w
    BY DEF Word
<1>2. DOMAIN BlockText(bs[x]) = {1} /\ BlockText(bs[x])[1].kind = "said" /\ BlockText(bs[x])[1].of = w
    BY <1>1
<1>3. \A i \in DOMAIN bs : i # x => DOMAIN BlockText(bs[i]) = {}
    OBVIOUS
<1>4. \A kind, p : p \in WordsIn(m, kind) <=>
              \E i \in DOMAIN bs : \E j \in DOMAIN BlockText(bs[i]) :
                  BlockText(bs[i])[j].kind = kind /\ p = Part(i, j, BlockText(bs[i])[j].of)
    BY WordIn
<1>5. \A kind, p : p \in WordsIn(m, kind) <=> kind = "said" /\ p = Part(x, 1, w)
    BY ONLY <1>2, <1>3, <1>4, x \in DOMAIN bs
<1> QED
    BY <1>5

LEMMA NothingSaid ==
    ASSUME NEW m, NEW bs, Texts(m) = [i \in DOMAIN bs |-> BlockText(bs[i])],
           \A i \in DOMAIN bs : BlockText(bs[i]) = <<>>
    PROVE  WordsIn(m, "said") = {} /\ WordsIn(m, "picture") = {}
<1>1. \A i \in DOMAIN Texts(m) : DOMAIN Texts(m)[i] = {}
    OBVIOUS
<1> QED
    BY <1>1, WordIn

\* The blocks of the clients and of the providers.
LEMMA TextBlockIs ==
    ASSUME NEW role, NEW w, NEW b, b = TextBlock(role, w)
    PROVE  BlockFit(b) /\ BlockText(b) = <<Word("said", w)>> /\ b.type \in TextTypes
<1>1. b.type \in TextTypes /\ DOMAIN b = {"type", "text"} /\ b.text = <<Word("said", w)>>
    BY DEF TextBlock, TextTypes
<1>2. BlockFit(b)
    BY <1>1 DEF BlockFit, TextTypes, PictureTypes
<1> QED
    BY <1>1, <1>2 DEF BlockText

LEMMA PictureBlockIs ==
    ASSUME NEW n, NEW b, b = PictureBlock(n)
    PROVE  /\ BlockFit(b) /\ BlockText(b) = <<>> /\ b.type \in PictureTypes /\ (Claude => IsPicture(b))
           /\ (IF IsPicture(b) THEN b.source.of ELSE b.url.of) = n
<1>1. CASE Claude
  <2>1. b.type = "image" /\ DOMAIN b = {"type", "source"} /\ b.source.kind \in {"base64", "url"} /\ b.source.of = n
    BY <1>1 DEF PictureBlock
  <2> QED
    BY <2>1 DEF BlockFit, BlockText, IsPicture, TextTypes, PictureTypes
<1>2. CASE ~Claude
  <2>1. b.type = "input_image" /\ DOMAIN b = {"type", "url"} /\ b.url.of = n
    BY <1>2 DEF PictureBlock
  <2> QED
    BY <1>2, <2>1 DEF BlockFit, BlockText, IsPicture, TextTypes, PictureTypes
<1> QED
    BY <1>1, <1>2

LEMMA OtherBlocksAre ==
    /\ \A b : b = Attachment => BlockFit(b) /\ BlockText(b) = <<>> /\ b.type \notin ToolTypes \cup PictureTypes
    /\ \A id, b : b = [type |-> "tool_result", tool_use_id |-> id, content |-> Text(<<Word("result", id)>>)] =>
          BlockFit(b) /\ BlockText(b) = <<>> /\ b.type = "tool_result" /\ b.tool_use_id = id
    /\ \A id, b : b = [type |-> "tool_use", id |-> id] =>
          BlockFit(b) /\ BlockText(b) = <<>> /\ b.type = "tool_use" /\ b.id = id
<1>1. ASSUME NEW b, b = Attachment
      PROVE  BlockFit(b) /\ BlockText(b) = <<>> /\ b.type \notin ToolTypes \cup PictureTypes
  <2>1. DOMAIN b = {"type"} /\ b.type \in {"file", "input_file"}
    BY <1>1 DEF Attachment
  <2> QED
    BY <2>1 DEF BlockFit, BlockText, TextTypes, PictureTypes, ToolTypes
<1>2. ASSUME NEW id, NEW b, b = [type |-> "tool_result", tool_use_id |-> id, content |-> Text(<<Word("result", id)>>)]
      PROVE  BlockFit(b) /\ BlockText(b) = <<>> /\ b.type = "tool_result" /\ b.tool_use_id = id
  <2> DEFINE w == Word("result", id)
  <2>1. DOMAIN b = {"type", "tool_use_id", "content"} /\ b.type = "tool_result" /\ b.content = Text(<<w>>) /\ b.tool_use_id = id
    BY <1>2
  <2>2. w.kind = "result"
    BY DEF Word
  <2> HIDE DEF w
  <2>3. \E v : b.content = Text(<<v>>) /\ v.kind \notin {"said", "picture"}
    BY <2>1, <2>2
  <2> QED
    BY <2>1, <2>3 DEF BlockFit, BlockText, TextTypes, PictureTypes
<1>3. ASSUME NEW id, NEW b, b = [type |-> "tool_use", id |-> id]
      PROVE  BlockFit(b) /\ BlockText(b) = <<>> /\ b.type = "tool_use" /\ b.id = id
  <2>1. DOMAIN b = {"type", "id"} /\ b.type = "tool_use" /\ b.id = id
    BY <1>3
  <2> QED
    BY <2>1 DEF BlockFit, BlockText, TextTypes, PictureTypes
<1> QED
    BY <1>1, <1>2, <1>3

LEMMA TypesApart ==
    /\ \A type \in TextTypes : type \notin ToolTypes \cup PictureTypes
    /\ \A type \in ToolTypes : type \notin PictureTypes
    /\ {"image", "image_url", "input_image"} = PictureTypes
    BY DEF TextTypes, ToolTypes, PictureTypes

--------------------------------------------------------------------------------
(***************************************************************************)
(* What a message that is a text has.                                      *)
(***************************************************************************)
LEMMA SaidTextHas ==
    ASSUME NEW role, NEW w, NEW m, m = Said(role, Text(<<Word("said", w)>>))
    PROVE  /\ Fit(m) /\ OfClaude(m)
           /\ WordsIn(m, "said") = {Part(1, 1, w)} /\ WordsIn(m, "picture") = {}
           /\ PicturesIn(m) = {} /\ CallsIn(m) = {} /\ AnswersIn(m) = {}
<1> DEFINE text == <<Word("said", w)>>
           bs   == <<[text |-> text]>>
<1>1. DOMAIN m = {"role", "content"} /\ m.content = Text(text)
    BY DEF Said
<1>2. IsText(Text(text)) /\ ~IsBlocks(Text(text)) /\ Text(text).text = text
    BY DEF Text, IsText, IsBlocks
<1>3. DOMAIN bs = {1} /\ BlockText(bs[1]) = text
    BY DEF BlockText
<1> HIDE DEF text, bs
<1>4. BlocksIn(m) = <<>> /\ BlocksOf(m) = <<>> /\ Texts(m) = <<text>>
    BY <1>1, <1>2 DEF BlocksIn, BlocksOf, Texts, ContentOf
<1>5. Texts(m) = [i \in DOMAIN bs |-> BlockText(bs[i])]
  <2>1. <<text>> = [i \in {1} |-> text]
    OBVIOUS
  <2> QED
    BY <1>3, <1>4, <2>1
<1>6. WordsIn(m, "said") = {Part(1, 1, w)} /\ WordsIn(m, "picture") = {}
    BY <1>3, <1>5, OneTextSaid DEF text
<1>7. \A types : Those(m, types) = {}
    BY <1>4 DEF Those
<1>8. PicturesIn(m) = {} /\ CallsIn(m) = {} /\ AnswersIn(m) = {}
    BY <1>1, <1>7 DEF PicturesIn, CallsIn, AnswersIn
<1>9. Fit(m) /\ OfClaude(m)
    BY <1>1, <1>2, <1>4 DEF Fit, OfClaude
<1> QED
    BY <1>6, <1>8, <1>9

\* A block without tools, and perhaps another one.
LEMMA SaidBlocksFit ==
    ASSUME NEW text, NEW b, BlockFit(text), text.type \notin ToolTypes, BlockFit(b), b.type \notin ToolTypes
    PROVE  /\ BlocksFit(<<text>>) /\ BlocksFit(<<text, b>>)
           /\ DOMAIN <<text>> = {1} /\ DOMAIN <<text, b>> = {1, 2}
           /\ <<text>>[1] = text /\ <<text, b>>[1] = text /\ <<text, b>>[2] = b
<1>1. BlockFit(text) /\ text.type \notin ToolTypes
    OBVIOUS
<1>2. Listed(<<text>>) /\ Listed(<<text, b>>)
    BY SequenceIsList, <<text>> \in Seq({text}), <<text, b>> \in Seq({text, b})
<1>3. /\ DOMAIN <<text>> = {1} /\ DOMAIN <<text, b>> = {1, 2}
      /\ <<text>>[1] = text /\ <<text, b>>[1] = text /\ <<text, b>>[2] = b
    OBVIOUS
<1>4. "tool_result" \in ToolTypes
    BY DEF ToolTypes
<1>5. BlocksFit(<<text>>)
    BY <1>1, <1>2, <1>3, <1>4 DEF BlocksFit
<1>6. BlocksFit(<<text, b>>)
    BY <1>1, <1>2, <1>3, <1>4 DEF BlocksFit
<1> QED
    BY <1>3, <1>5, <1>6

LEMMA SaidAText ==
    ASSUME NEW role, NEW w, NEW m, m = Said(role, Blocks(<<TextBlock(role, w)>>))
    PROVE  /\ Fit(m) /\ OfClaude(m)
           /\ WordsIn(m, "said") = {Part(1, 1, w)} /\ WordsIn(m, "picture") = {}
           /\ PicturesIn(m) = {} /\ CallsIn(m) = {} /\ AnswersIn(m) = {}
<1> DEFINE text == TextBlock(role, w)
           bs   == <<text>>
<1>1. BlocksFit(bs) /\ DOMAIN bs = {1} /\ bs[1] = text
  <2>1. BlockFit(text) /\ text.type \notin ToolTypes
    BY TextBlockIs, TypesApart
  <2> HIDE DEF text
  <2>2. BlocksFit(<<text>>) /\ DOMAIN <<text>> = {1} /\ <<text>>[1] = text
    BY ONLY <2>1, SaidBlocksFit
  <2> QED
    BY <2>2
<1>2. text.type \in TextTypes /\ BlockText(text) = <<Word("said", w)>>
    BY TextBlockIs
<1> HIDE DEF text, bs
<1>3. m = Said(role, Blocks(bs))
    BY DEF bs, text
<1>4. text.type \notin {"tool_use", "tool_result", "image", "image_url", "input_image"}
    BY <1>2 DEF TextTypes
<1>5. /\ Fit(m) /\ "content" \in DOMAIN m /\ BlocksOf(m) = bs
      /\ Texts(m) = [i \in DOMAIN bs |-> BlockText(bs[i])]
      /\ CallsIn(m) = {Part(i, 1, bs[i].id) : i \in {k \in DOMAIN bs : bs[k].type = "tool_use"}}
      /\ AnswersIn(m) = {Part(i, 1, bs[i].tool_use_id) : i \in {k \in DOMAIN bs : bs[k].type = "tool_result"}}
      /\ PicturesIn(m) = {Part(i, 1, IF IsPicture(bs[i]) THEN bs[i].source.of ELSE bs[i].url.of)
                          : i \in {k \in DOMAIN bs : bs[k].type \in {"image", "image_url", "input_image"}}}
    BY ONLY <1>1, <1>3, SaidBlocksHave
<1>6. WordsIn(m, "said") = {Part(1, 1, w)} /\ WordsIn(m, "picture") = {}
    BY <1>1, <1>2, <1>5, OneTextSaid
<1>7. CallsIn(m) = {} /\ AnswersIn(m) = {} /\ PicturesIn(m) = {}
    BY <1>1, <1>4, <1>5
<1>8. OfClaude(m)
    BY <1>1, <1>4, <1>5 DEF OfClaude, PictureTypes
<1> QED
    BY <1>5, <1>6, <1>7, <1>8

LEMMA SaidATextAndMore ==
    ASSUME NEW w, NEW b, BlockFit(b), BlockText(b) = <<>>, b.type \notin ToolTypes,
           NEW m, m = Said("user", Blocks(<<TextBlock("user", w), b>>))
    PROVE  /\ Fit(m) /\ ((b.type \in PictureTypes => IsPicture(b)) => OfClaude(m))
           /\ WordsIn(m, "said") = {Part(1, 1, w)} /\ WordsIn(m, "picture") = {}
           /\ CallsIn(m) = {} /\ AnswersIn(m) = {}
           /\ b.type \notin PictureTypes => PicturesIn(m) = {}
           /\ b.type \in PictureTypes => PicturesIn(m) = {Part(2, 1, IF IsPicture(b) THEN b.source.of ELSE b.url.of)}
<1> DEFINE text == TextBlock("user", w)
           bs   == <<text, b>>
<1>1. BlocksFit(bs) /\ DOMAIN bs = {1, 2} /\ bs[1] = text /\ bs[2] = b
  <2>1. BlockFit(text) /\ text.type \notin ToolTypes
    BY TextBlockIs, TypesApart
  <2>2. BlockFit(b) /\ b.type \notin ToolTypes
    OBVIOUS
  <2> HIDE DEF text
  <2>3. /\ BlocksFit(<<text, b>>) /\ DOMAIN <<text, b>> = {1, 2}
        /\ <<text, b>>[1] = text /\ <<text, b>>[2] = b
    BY ONLY <2>1, <2>2, SaidBlocksFit
  <2> QED
    BY <2>3
<1>2. text.type \in TextTypes /\ BlockText(text) = <<Word("said", w)>>
    BY TextBlockIs
<1> HIDE DEF text, bs
<1>3. m = Said("user", Blocks(bs))
    BY DEF bs, text
<1>4. text.type \notin {"tool_use", "tool_result", "image", "image_url", "input_image"}
    BY <1>2 DEF TextTypes
<1>5. /\ Fit(m) /\ "content" \in DOMAIN m /\ m.role = "user" /\ BlocksOf(m) = bs
      /\ Texts(m) = [i \in DOMAIN bs |-> BlockText(bs[i])]
      /\ CallsIn(m) = {Part(i, 1, bs[i].id) : i \in {k \in DOMAIN bs : bs[k].type = "tool_use"}}
      /\ AnswersIn(m) = {Part(i, 1, bs[i].tool_use_id) : i \in {k \in DOMAIN bs : bs[k].type = "tool_result"}}
      /\ PicturesIn(m) = {Part(i, 1, IF IsPicture(bs[i]) THEN bs[i].source.of ELSE bs[i].url.of)
                          : i \in {k \in DOMAIN bs : bs[k].type \in {"image", "image_url", "input_image"}}}
    BY <1>1, <1>3, SaidBlocksHave
<1>6. WordsIn(m, "said") = {Part(1, 1, w)} /\ WordsIn(m, "picture") = {}
    BY <1>1, <1>2, <1>5, OneTextSaid
<1>7. CallsIn(m) = {} /\ AnswersIn(m) = {}
    BY <1>1, <1>4, <1>5 DEF ToolTypes
<1>8. b.type \notin PictureTypes => PicturesIn(m) = {}
    BY <1>1, <1>4, <1>5 DEF PictureTypes
<1>9. b.type \in PictureTypes => PicturesIn(m) = {Part(2, 1, IF IsPicture(b) THEN b.source.of ELSE b.url.of)}
  <2>1. b.type \in PictureTypes => {k \in DOMAIN bs : bs[k].type \in {"image", "image_url", "input_image"}} = {2}
    BY <1>1, <1>4 DEF PictureTypes
  <2> QED
    BY <1>1, <1>5, <2>1
<1>10. (b.type \in PictureTypes => IsPicture(b)) => OfClaude(m)
    BY <1>1, <1>4, <1>5 DEF OfClaude, PictureTypes
<1> QED
    BY <1>5, <1>6, <1>7, <1>8, <1>9, <1>10

LEMMA TalkGrowsByAWord ==
    ASSUME TalkInv, Listed(messages), Listed(told.pending), told.pending = <<>>,
           NEW m, messages' = Append(messages, m), inbound' = inbound,
           Fit(m), Claude => OfClaude(m), WordsIn(m, "picture") = {},
           NEW p \in Nat, told'.words = told.words + 1, told'.pictures = told.pictures + p, told'.calls = told.calls,
           told'.pending = told.pending, told'.firsts = told.firsts,
           WordsIn(m, "said") = {Part(1, 1, told.words + 1)}, Numbered(PicturesIn(m), told.pictures, p),
           CallsIn(m) = {}, AnswersIn(m) = {}
    PROVE  TalkInv'
<1>1. /\ told.calls - Len(told.pending) \in Nat /\ Len(told.pending) \in Nat
      /\ told.words \in Nat /\ told.pictures \in Nat /\ told.calls \in Nat
    BY TalkNumbers
<1>2. Numbered(WordsIn(m, "said"), told.words, 1)
    BY <1>1, OneIsNumbered
<1>3. Numbered(CallsIn(m), told.calls, 0) /\ Numbered(AnswersIn(m), told.calls - Len(told.pending), 0)
  <2>1. \A n \in Nat : Numbered({}, n, 0)
    BY NoneIsNumbered
  <2> QED
    BY <1>1, <2>1
<1>4. /\ Len(told'.pending) <= told'.calls
      /\ \A i \in DOMAIN told'.pending : told'.pending[i] = told'.calls - Len(told'.pending) + i
    BY DEF TalkInv
<1>5. /\ told'.calls = told.calls + 0 /\ 0 <= Len(told.pending)
      /\ told'.calls - Len(told'.pending) = told.calls - Len(told.pending) + 0
    BY <1>1
<1>6. OfClient(m) /\ told'.firsts = told.firsts \cup (IF 0 = 0 THEN {} ELSE {told.calls - Len(told.pending) + 1})
    BY QuietIsOfClient
<1> QED
    BY <1>1, <1>2, <1>3, <1>4, <1>5, <1>6, TalkGrowsByOne

--------------------------------------------------------------------------------
(***************************************************************************)
(* The user says something, and shows a picture.                           *)
(***************************************************************************)
LEMMA UserTalks ==
    ASSUME TalkInv, ConversationInv, UserSays
    PROVE  TalkInv'
<1> DEFINE t    == [told EXCEPT !.words = @ + 1]
           u    == [t EXCEPT !.pictures = @ + 1]
           text == TextBlock("user", t.words)
           pic  == PictureBlock(t.pictures + 1)
<1>1. Listed(messages) /\ Listed(told.pending) /\ told.pending = <<>>
    BY DEF ConversationInv, ToldType, MessagesOK, UserSays
<1>2. /\ t.words = told.words + 1 /\ t.pictures = told.pictures /\ t.calls = told.calls
      /\ t.pending = told.pending /\ t.firsts = told.firsts
      /\ u.words = told.words + 1 /\ u.pictures = told.pictures + 1 /\ u.calls = told.calls
      /\ u.pending = told.pending /\ u.firsts = told.firsts
    BY DEF ConversationInv, ToldType
<1>3. \/ Claude /\ Append1(t, Said("user", Text(<<Word("said", t.words)>>)))
      \/ Append1(t, Said("user", Blocks(<<text>>)))
      \/ Append1(u, Said("user", Blocks(<<text, pic>>)))
      \/ Append1(t, Said("user", Blocks(<<text, Attachment>>)))
    BY DEF UserSays
<1>4. told.words \in Nat /\ told.pictures \in Nat
    BY DEF TalkInv
<1> HIDE DEF t, u
<1>5. ASSUME NEW m, Append1(t, m), Fit(m), OfClaude(m), WordsIn(m, "said") = {Part(1, 1, t.words)},
             WordsIn(m, "picture") = {}, PicturesIn(m) = {}, CallsIn(m) = {}, AnswersIn(m) = {}
      PROVE  TalkInv'
  <2>1. messages' = Append(messages, m) /\ inbound' = inbound /\ told' = t
    BY <1>5 DEF Append1
  <2>2. 0 \in Nat /\ told'.words = told.words + 1 /\ told'.pictures = told.pictures + 0 /\ told'.calls = told.calls
        /\ told'.pending = told.pending /\ told'.firsts = told.firsts
    BY <1>2, <1>4, <2>1
  <2>3. WordsIn(m, "said") = {Part(1, 1, told.words + 1)} /\ Numbered(PicturesIn(m), told.pictures, 0)
    BY <1>2, <1>4, <1>5, NoneIsNumbered
  <2> QED
    BY <1>1, <1>5, <2>1, <2>2, <2>3, TalkGrowsByAWord
<1>6. CASE Claude /\ Append1(t, Said("user", Text(<<Word("said", t.words)>>)))
    BY <1>5, <1>6, SaidTextHas
<1>7. CASE Append1(t, Said("user", Blocks(<<text>>)))
  <2> DEFINE m == Said("user", Blocks(<<text>>))
  <2>1. /\ Fit(m) /\ OfClaude(m) /\ WordsIn(m, "said") = {Part(1, 1, t.words)} /\ WordsIn(m, "picture") = {}
        /\ PicturesIn(m) = {} /\ CallsIn(m) = {} /\ AnswersIn(m) = {}
    BY SaidAText
  <2> HIDE DEF m
  <2> QED
    BY <1>5, <1>7, <2>1 DEF m
<1>8. CASE Append1(t, Said("user", Blocks(<<text, Attachment>>)))
  <2> DEFINE m == Said("user", Blocks(<<text, Attachment>>))
  <2>1. BlockFit(Attachment) /\ BlockText(Attachment) = <<>> /\ Attachment.type \notin ToolTypes \cup PictureTypes
    BY OtherBlocksAre
  <2>2. /\ Fit(m) /\ OfClaude(m) /\ WordsIn(m, "said") = {Part(1, 1, t.words)} /\ WordsIn(m, "picture") = {}
        /\ PicturesIn(m) = {} /\ CallsIn(m) = {} /\ AnswersIn(m) = {}
    <3> DEFINE b == Attachment
    <3> HIDE DEF b
    <3>1. m = Said("user", Blocks(<<TextBlock("user", t.words), b>>))
      BY DEF b
    <3>2. BlockFit(b) /\ BlockText(b) = <<>> /\ b.type \notin ToolTypes /\ b.type \notin PictureTypes
      BY <2>1 DEF b
    <3> HIDE DEF m
    <3> QED
      BY ONLY <3>1, <3>2, SaidATextAndMore
  <2> HIDE DEF m
  <2> QED
    BY <1>5, <1>8, <2>2 DEF m
<1>9. CASE Append1(u, Said("user", Blocks(<<text, pic>>)))
  <2> DEFINE m == Said("user", Blocks(<<text, pic>>))
  <2>1. /\ BlockFit(pic) /\ BlockText(pic) = <<>> /\ pic.type \in PictureTypes /\ (Claude => IsPicture(pic))
        /\ (IF IsPicture(pic) THEN pic.source.of ELSE pic.url.of) = t.pictures + 1
    BY PictureBlockIs
  <2>2. pic.type \notin ToolTypes
    BY <2>1, TypesApart
  <2>3. /\ Fit(m) /\ (Claude => OfClaude(m))
        /\ WordsIn(m, "said") = {Part(1, 1, t.words)} /\ WordsIn(m, "picture") = {}
        /\ PicturesIn(m) = {Part(2, 1, t.pictures + 1)} /\ CallsIn(m) = {} /\ AnswersIn(m) = {}
    <3>1. m = Said("user", Blocks(<<TextBlock("user", t.words), pic>>))
      OBVIOUS
    <3> HIDE DEF m, pic
    <3>2. /\ BlockFit(pic) /\ BlockText(pic) = <<>> /\ pic.type \notin ToolTypes /\ pic.type \in PictureTypes
          /\ Claude => IsPicture(pic)
          /\ (IF IsPicture(pic) THEN pic.source.of ELSE pic.url.of) = t.pictures + 1
      BY <2>1, <2>2
    <3> QED
      BY ONLY <3>1, <3>2, SaidATextAndMore
  <2> HIDE DEF m
  <2>4. messages' = Append(messages, m) /\ inbound' = inbound /\ told' = u
    BY <1>9 DEF Append1, m
  <2>5. 1 \in Nat /\ told'.words = told.words + 1 /\ told'.pictures = told.pictures + 1 /\ told'.calls = told.calls
        /\ told'.pending = told.pending /\ told'.firsts = told.firsts
    BY <1>2, <2>4
  <2>6. WordsIn(m, "said") = {Part(1, 1, told.words + 1)} /\ Numbered(PicturesIn(m), told.pictures, 1)
    BY <1>2, <1>4, <2>3, OneIsNumbered
  <2> QED
    BY <1>1, <2>3, <2>4, <2>5, <2>6, TalkGrowsByAWord
<1> QED
    BY <1>3, <1>6, <1>7, <1>8, <1>9

LEMMA ProviderTalks ==
    ASSUME TalkInv, ConversationInv, ProviderSays
    PROVE  TalkInv'
<1> DEFINE t    == [told EXCEPT !.words = @ + 1]
           m    == Said("assistant", Blocks(<<TextBlock("assistant", t.words)>>))
<1>1. Listed(messages) /\ Listed(told.pending) /\ told.pending = <<>>
    BY DEF ConversationInv, ToldType, MessagesOK, ProviderSays, TalkInv
<1>2. /\ t.words = told.words + 1 /\ t.pictures = told.pictures /\ t.calls = told.calls
      /\ t.pending = told.pending /\ t.firsts = told.firsts
    BY DEF ConversationInv, ToldType
<1>3. Append1(t, m)
    BY DEF ProviderSays
<1>4. told.words \in Nat /\ told.pictures \in Nat
    BY DEF TalkInv
<1>5. /\ Fit(m) /\ OfClaude(m) /\ WordsIn(m, "said") = {Part(1, 1, t.words)} /\ WordsIn(m, "picture") = {}
      /\ PicturesIn(m) = {} /\ CallsIn(m) = {} /\ AnswersIn(m) = {}
    BY SaidAText
<1> HIDE DEF t, m
<1>6. messages' = Append(messages, m) /\ inbound' = inbound /\ told' = t
    BY <1>3 DEF Append1
<1>7. 0 \in Nat /\ told'.words = told.words + 1 /\ told'.pictures = told.pictures + 0 /\ told'.calls = told.calls
      /\ told'.pending = told.pending /\ told'.firsts = told.firsts
    BY <1>2, <1>4, <1>6
<1>8. WordsIn(m, "said") = {Part(1, 1, told.words + 1)} /\ Numbered(PicturesIn(m), told.pictures, 0)
    BY <1>2, <1>4, <1>5, NoneIsNumbered
<1> QED
    BY <1>1, <1>5, <1>6, <1>7, <1>8, TalkGrowsByAWord

--------------------------------------------------------------------------------
(***************************************************************************)
(* The items of Codex.                                                     *)
(***************************************************************************)
\* An item of Codex that is no message.
LEMMA ItemHas ==
    ASSUME NEW m, {"content", "parts", "tool_calls", "tool_call_id"} \cap DOMAIN m = {}
    PROVE  /\ Fit(m) /\ WordsIn(m, "said") = {} /\ WordsIn(m, "picture") = {} /\ PicturesIn(m) = {}
           /\ CallsIn(m) = IF "id" \in DOMAIN m THEN {Part(0, 0, m.id)} ELSE {}
           /\ AnswersIn(m) = IF "call_id" \in DOMAIN m THEN {Part(0, 0, m.call_id)} ELSE {}
<1>1. ContentOf(m) = Text(<<>>)
    BY DEF ContentOf
<1>2. IsText(Text(<<>>)) /\ ~IsBlocks(Text(<<>>)) /\ Text(<<>>).text = <<>>
    BY DEF Text, IsText, IsBlocks
<1>3. BlocksIn(m) = <<>> /\ Texts(m) = <<<<>>>>
    BY <1>1, <1>2 DEF BlocksIn, Texts
<1>4. \A i \in DOMAIN Texts(m) : DOMAIN Texts(m)[i] = {}
    BY <1>3
<1>5. WordsIn(m, "said") = {} /\ WordsIn(m, "picture") = {}
    BY <1>4, WordIn
<1>6. \A types : Those(m, types) = {}
    BY <1>3 DEF Those
<1>7. PicturesIn(m) = {}
    BY <1>6 DEF PicturesIn
<1>8. CallsIn(m) = IF "id" \in DOMAIN m THEN {Part(0, 0, m.id)} ELSE {}
    BY <1>6 DEF CallsIn
<1>9. AnswersIn(m) = IF "call_id" \in DOMAIN m THEN {Part(0, 0, m.call_id)} ELSE {}
    BY <1>6 DEF AnswersIn
<1>10. Fit(m)
    BY DEF Fit
<1> QED
    BY <1>5, <1>7, <1>8, <1>9, <1>10

LEMMA ItemIsInForm ==
    ASSUME NEW m, NEW x, CallsIn(m) \cup AnswersIn(m) = {Part(0, 0, x)}
    PROVE  InForm(m, "responses")
<1>1. FormOf(Part(0, 0, x)) = "responses"
    BY PartIs DEF FormOf
<1> QED
    BY <1>1 DEF InForm

LEMMA ResultsAre ==
    ASSUME NEW ids, Listed(ids), NEW results,
           results = [i \in DOMAIN ids |->
                         [type |-> "tool_result", tool_use_id |-> ids[i], content |-> Text(<<Word("result", ids[i])>>)]]
    PROVE  /\ BlocksFit(results) /\ DOMAIN results = 1..Len(ids) /\ Len(results) = Len(ids) /\ Listed(results)
           /\ \A i \in 1..Len(ids) : /\ BlockFit(results[i]) /\ BlockText(results[i]) = <<>>
                                     /\ results[i].type = "tool_result" /\ results[i].tool_use_id = ids[i]
<1>1. DOMAIN ids = 1..Len(ids)
    BY DEF Listed
<1>2. Listed(results) /\ Len(results) = Len(ids)
    BY MappedList
<1>3. ASSUME NEW i \in 1..Len(ids)
      PROVE  BlockFit(results[i]) /\ BlockText(results[i]) = <<>>
             /\ results[i].type = "tool_result" /\ results[i].tool_use_id = ids[i]
  <2>1. results[i] = [type |-> "tool_result", tool_use_id |-> ids[i], content |-> Text(<<Word("result", ids[i])>>)]
    BY <1>1
  <2> QED
    BY ONLY <2>1, OtherBlocksAre
<1>4. BlocksFit(results)
    BY <1>1, <1>2, <1>3 DEF BlocksFit
<1> QED
    BY <1>1, <1>2, <1>3, <1>4

\* The answers of Claude Code, with or without a text after them.
LEMMA ResultsSay ==
    ASSUME NEW ids, Listed(ids), NEW d \in Nat, \A i \in DOMAIN ids : ids[i] = d + i, NEW results,
           results = [i \in DOMAIN ids |->
                         [type |-> "tool_result", tool_use_id |-> ids[i], content |-> Text(<<Word("result", ids[i])>>)]],
           NEW m, m = Said("user", Blocks(results))
    PROVE  /\ Fit(m) /\ OfClaude(m) /\ WordsIn(m, "said") = {} /\ WordsIn(m, "picture") = {}
           /\ PicturesIn(m) = {} /\ CallsIn(m) = {}
           /\ Numbered(AnswersIn(m), d, Len(ids))
<1>1. /\ BlocksFit(results) /\ DOMAIN results = 1..Len(ids) /\ DOMAIN ids = 1..Len(ids) /\ Len(ids) \in Nat
      /\ \A i \in 1..Len(ids) : /\ BlockText(results[i]) = <<>>
                                /\ results[i].type = "tool_result" /\ results[i].tool_use_id = ids[i]
    BY ResultsAre DEF Listed
<1> DEFINE bs == results
<1>2. bs = results
    OBVIOUS
<1> HIDE DEF bs
<1>3. m = Said("user", Blocks(bs)) /\ BlocksFit(bs)
    BY <1>1, <1>2
<1>4. /\ Fit(m) /\ "content" \in DOMAIN m /\ BlocksOf(m) = bs
      /\ Texts(m) = [i \in DOMAIN bs |-> BlockText(bs[i])]
      /\ CallsIn(m) = {Part(i, 1, bs[i].id) : i \in {k \in DOMAIN bs : bs[k].type = "tool_use"}}
      /\ AnswersIn(m) = {Part(i, 1, bs[i].tool_use_id) : i \in {k \in DOMAIN bs : bs[k].type = "tool_result"}}
      /\ PicturesIn(m) = {Part(i, 1, IF IsPicture(bs[i]) THEN bs[i].source.of ELSE bs[i].url.of)
                          : i \in {k \in DOMAIN bs : bs[k].type \in {"image", "image_url", "input_image"}}}
    BY ONLY <1>3, SaidBlocksHave
<1>5. \A i \in 1..Len(ids) : bs[i].type = "tool_result" /\ bs[i].tool_use_id = d + i /\ BlockText(bs[i]) = <<>>
    BY <1>1, <1>2
<1>6. DOMAIN bs = 1..Len(ids)
    BY <1>1, <1>2
<1>7. WordsIn(m, "said") = {} /\ WordsIn(m, "picture") = {}
  <2>1. Texts(m) = [i \in DOMAIN bs |-> BlockText(bs[i])] /\ \A i \in DOMAIN bs : BlockText(bs[i]) = <<>>
    BY <1>4, <1>5, <1>6
  <2> QED
    BY ONLY <2>1, NothingSaid
<1>8. PicturesIn(m) = {} /\ CallsIn(m) = {}
    BY <1>4, <1>5, <1>6
<1>9. AnswersIn(m) = {Part(0 + i, 1, d + i) : i \in 1..Len(ids)}
  <2>1. {k \in DOMAIN bs : bs[k].type = "tool_result"} = 1..Len(ids)
    BY <1>5, <1>6
  <2>2. \A i \in 1..Len(ids) : 0 + i = i
    BY <1>1
  <2>3. \A i \in 1..Len(ids) : Part(i, 1, bs[i].tool_use_id) = Part(0 + i, 1, d + i)
    BY <1>5, <2>2
  <2>4. AnswersIn(m) = {Part(i, 1, bs[i].tool_use_id) : i \in 1..Len(ids)}
    BY <1>4, <2>1
  <2> QED
    BY ONLY <2>3, <2>4
<1>10. Numbered(AnswersIn(m), d, Len(ids))
    BY <1>1, <1>9, SeveralAreNumbered
<1>11. OfClaude(m)
    BY <1>4, <1>5, <1>6 DEF OfClaude, PictureTypes
<1> QED
    BY <1>4, <1>7, <1>8, <1>10, <1>11

ResultsOf(ids) ==
    [i \in DOMAIN ids |-> [type |-> "tool_result", tool_use_id |-> ids[i], content |-> Text(<<Word("result", ids[i])>>)]]

CountFrom(ids, d) == \A i \in DOMAIN ids : ids[i] = d + i

LEMMA ResultsAndATextSay ==
    ASSUME NEW ids, Listed(ids), NEW d \in Nat, CountFrom(ids, d),
           NEW w, NEW text, BlockFit(text), BlockText(text) = <<Word("said", w)>>, text.type \in TextTypes,
           NEW m, m = Said("user", Blocks(Append(ResultsOf(ids), text)))
    PROVE  /\ Fit(m) /\ OfClaude(m) /\ WordsIn(m, "said") = {Part(Len(ids) + 1, 1, w)} /\ WordsIn(m, "picture") = {}
           /\ PicturesIn(m) = {} /\ CallsIn(m) = {}
           /\ Numbered(AnswersIn(m), d, Len(ids))
<1> DEFINE results == ResultsOf(ids)
           bs == Append(results, text)
           n  == Len(ids)
<1>a. results = [i \in DOMAIN ids |->
                   [type |-> "tool_result", tool_use_id |-> ids[i], content |-> Text(<<Word("result", ids[i])>>)]]
    BY DEF ResultsOf
<1> HIDE DEF results
<1>0. /\ BlocksFit(results) /\ Listed(results) /\ Len(results) = Len(ids) /\ DOMAIN results = 1..Len(ids)
      /\ \A i \in 1..Len(ids) : /\ BlockFit(results[i]) /\ BlockText(results[i]) = <<>>
                                /\ results[i].type = "tool_result" /\ results[i].tool_use_id = ids[i]
  <2> HIDE DEF bs, n
  <2> QED
    BY <1>a, ResultsAre
<1>1. /\ BlocksFit(results) /\ Listed(results) /\ Len(results) = n /\ n \in Nat /\ DOMAIN ids = 1..n
      /\ \A i \in 1..n : /\ BlockFit(results[i]) /\ BlockText(results[i]) = <<>>
                         /\ results[i].type = "tool_result" /\ results[i].tool_use_id = ids[i]
    BY <1>0 DEF Listed
<1>2. Listed(bs) /\ DOMAIN bs = 1..(n + 1) /\ bs[n + 1] = text /\ \A i \in 1..n : bs[i] = results[i]
  <2>1. Listed(bs)
    BY <1>1, AppendedList
  <2>2. Len(bs) = n + 1 /\ bs[n + 1] = text /\ \A i \in 1..n : bs[i] = results[i]
    BY <1>1, AppendedParts
  <2> QED
    BY <2>1, <2>2 DEF Listed
<1>3. m = Said("user", Blocks(bs))
    BY DEF results
<1> HIDE DEF bs, n
<1>4. \A i \in 1..(n + 1) : i \in 1..n \/ i = n + 1
    BY <1>1
<1>5. n + 1 \in 1..(n + 1) /\ n + 1 \notin 1..n /\ \A i \in 1..n : i \in 1..(n + 1)
    BY <1>1
<1>6. \A i \in 1..n : bs[i].type = "tool_result" /\ bs[i].tool_use_id = d + i /\ BlockText(bs[i]) = <<>> /\ BlockFit(bs[i])
    BY <1>1, <1>2 DEF CountFrom
<1>7. bs[n + 1].type \in TextTypes /\ BlockText(bs[n + 1]) = <<Word("said", w)>> /\ BlockFit(bs[n + 1])
    BY <1>2
<1>8. BlocksFit(bs)
    BY <1>2, <1>4, <1>6, <1>7 DEF BlocksFit
<1>9. /\ Fit(m) /\ "content" \in DOMAIN m /\ BlocksOf(m) = bs
      /\ Texts(m) = [i \in DOMAIN bs |-> BlockText(bs[i])]
      /\ CallsIn(m) = {Part(i, 1, bs[i].id) : i \in {k \in DOMAIN bs : bs[k].type = "tool_use"}}
      /\ AnswersIn(m) = {Part(i, 1, bs[i].tool_use_id) : i \in {k \in DOMAIN bs : bs[k].type = "tool_result"}}
      /\ PicturesIn(m) = {Part(i, 1, IF IsPicture(bs[i]) THEN bs[i].source.of ELSE bs[i].url.of)
                          : i \in {k \in DOMAIN bs : bs[k].type \in {"image", "image_url", "input_image"}}}
    BY ONLY <1>3, <1>8, SaidBlocksHave
<1>10. bs[n + 1].type \notin {"tool_use", "tool_result", "image", "image_url", "input_image"}
    BY <1>7 DEF TextTypes
<1>11. WordsIn(m, "said") = {Part(n + 1, 1, w)} /\ WordsIn(m, "picture") = {}
  <2>1. \A i \in DOMAIN bs : i # n + 1 => BlockText(bs[i]) = <<>>
    BY <1>2, <1>4, <1>6
  <2>2. n + 1 \in DOMAIN bs
    BY <1>2, <1>5
  <2>3. Texts(m) = [i \in DOMAIN bs |-> BlockText(bs[i])] /\ BlockText(bs[n + 1]) = <<Word("said", w)>>
    BY <1>7, <1>9
  <2> QED
    BY ONLY <2>1, <2>2, <2>3, OneTextSaid
<1>12. /\ {k \in DOMAIN bs : bs[k].type = "tool_use"} = {}
       /\ {k \in DOMAIN bs : bs[k].type \in {"image", "image_url", "input_image"}} = {}
       /\ {k \in DOMAIN bs : bs[k].type = "tool_result"} = 1..n
    BY <1>2, <1>4, <1>5, <1>6, <1>10
<1>13. PicturesIn(m) = {} /\ CallsIn(m) = {}
    BY <1>9, <1>12
<1>14. AnswersIn(m) = {Part(0 + i, 1, d + i) : i \in 1..n}
  <2>1. \A i \in 1..n : 0 + i = i
    BY <1>1
  <2>2. \A i \in 1..n : Part(i, 1, bs[i].tool_use_id) = Part(0 + i, 1, d + i)
    BY <1>6, <2>1
  <2>3. AnswersIn(m) = {Part(i, 1, bs[i].tool_use_id) : i \in 1..n}
    BY <1>9, <1>12
  <2> QED
    BY ONLY <2>2, <2>3
<1>15. Numbered(AnswersIn(m), d, n)
  <2>1. n \in Nat /\ 0 \in Nat /\ d \in Nat
    BY <1>1
  <2> QED
    BY ONLY <1>14, <2>1, SeveralAreNumbered
<1>16. OfClaude(m)
  <2>1. \A j \in DOMAIN bs : bs[j].type \notin PictureTypes
    BY <1>12 DEF PictureTypes
  <2> QED
    BY <1>9, <2>1 DEF OfClaude
<1> QED
    BY <1>9, <1>11, <1>13, <1>15, <1>16 DEF n

--------------------------------------------------------------------------------
(***************************************************************************)
(* A tool answers.                                                         *)
(***************************************************************************)
\* The client answers: what the history variable has then.
LEMMA ToldAnswers ==
    ASSUME TalkInv, Listed(told.pending), NEW w \in Nat,
           told'.words = told.words + w, told'.pictures = told.pictures, told'.calls = told.calls, told'.pending = <<>>
    PROVE  /\ told'.pictures = told.pictures + 0 /\ told'.calls = told.calls + 0
           /\ Len(told.pending) \in Nat /\ Len(told.pending) <= Len(told.pending)
           /\ told'.calls - Len(told'.pending) = told.calls - Len(told.pending) + Len(told.pending)
           /\ Len(told'.pending) <= told'.calls
           /\ \A i \in DOMAIN told'.pending : told'.pending[i] = told'.calls - Len(told'.pending) + i
<1>1. /\ told.words \in Nat /\ told.pictures \in Nat /\ told.calls \in Nat
      /\ Len(told.pending) \in Nat /\ told.calls - Len(told.pending) \in Nat
    BY TalkNumbers DEF TalkInv
<1>2. Len(told'.pending) = 0 /\ DOMAIN told'.pending = {}
    OBVIOUS
<1>3. told'.calls = told.calls /\ told'.pictures = told.pictures
    OBVIOUS
<1>4. /\ told'.pictures = told.pictures + 0 /\ told'.calls = told.calls + 0
      /\ told'.calls - Len(told'.pending) = told.calls - Len(told.pending) + Len(told.pending)
      /\ Len(told'.pending) <= told'.calls
    BY ONLY <1>1, <1>2, <1>3
<1> QED
    BY <1>1, <1>2, <1>4

LEMMA PendingNumbers ==
    ASSUME TalkInv, Listed(told.pending)
    PROVE  /\ told.calls - Len(told.pending) \in Nat
           /\ \A i \in DOMAIN told.pending : told.pending[i] = told.calls - Len(told.pending) + i
    BY TalkNumbers DEF TalkInv

LEMMA OneIsListed == \A x : Listed(<<x>>) /\ DOMAIN <<x>> = {1} /\ <<x>>[1] = x
<1> TAKE x
<1>1. Listed(<<x>>)
    BY SequenceIsList, <<x>> \in Seq({x})
<1>2. DOMAIN <<x>> = {1} /\ <<x>>[1] = x
    OBVIOUS
<1> QED
    BY <1>1, <1>2

LEMMA ClaudeAnswers ==
    ASSUME TalkInv, Listed(messages), Listed(told.pending), told.pending # <<>>, Claude, turn' = "server" \/ turn' = "user",
           NEW m, messages' = Append(messages, m), inbound' = inbound, Fit(m), OfClaude(m),
           NEW w \in Nat, told'.words = told.words + w, told'.pictures = told.pictures, told'.calls = told.calls,
           told'.pending = <<>>, told'.firsts = told.firsts \cup {told.pending[1]},
           Numbered(WordsIn(m, "said"), told.words, w), WordsIn(m, "picture") = {}, PicturesIn(m) = {}, CallsIn(m) = {},
           Numbered(AnswersIn(m), told.calls - Len(told.pending), Len(told.pending))
    PROVE  TalkInv'
<1>1. /\ told'.words = told.words + w /\ told'.pictures = told.pictures /\ told'.calls = told.calls
      /\ told'.pending = <<>> /\ TalkInv /\ Listed(told.pending) /\ w \in Nat
    OBVIOUS
<1>2. /\ told'.pictures = told.pictures + 0 /\ told'.calls = told.calls + 0
      /\ Len(told.pending) \in Nat /\ Len(told.pending) <= Len(told.pending)
      /\ told'.calls - Len(told'.pending) = told.calls - Len(told.pending) + Len(told.pending)
      /\ Len(told'.pending) <= told'.calls
      /\ \A i \in DOMAIN told'.pending : told'.pending[i] = told'.calls - Len(told'.pending) + i
    BY ONLY <1>1, ToldAnswers
<1>3. told.calls - Len(told.pending) \in Nat /\ told'.words = told.words + w
    BY TalkNumbers
<1>4. told'.firsts = told.firsts \cup (IF Len(told.pending) = 0 THEN {} ELSE {told.calls - Len(told.pending) + 1})
  <2>1. Len(told.pending) # 0 /\ 1 \in DOMAIN told.pending
    <3>1. Len(told.pending) \in Nat /\ DOMAIN told.pending = 1..Len(told.pending)
          /\ told.pending \in [1..Len(told.pending) -> {told.pending[i] : i \in DOMAIN told.pending}]
      BY DEF Listed
    <3>2. told.pending \in Seq({told.pending[i] : i \in DOMAIN told.pending})
      BY <3>1
    <3>3. Len(told.pending) # 0
      BY <3>2
    <3> QED
      BY <3>1, <3>3
  <2>2. told.pending[1] = told.calls - Len(told.pending) + 1
    BY <2>1, PendingNumbers
  <2> QED
    BY <2>1, <2>2
<1>5. told.pictures \in Nat /\ told.calls \in Nat /\ 0 \in Nat
    BY DEF TalkInv
<1>6. Numbered(PicturesIn(m), told.pictures, 0) /\ Numbered(CallsIn(m), told.calls, 0)
    BY <1>5, NoneIsNumbered
<1>7. OfClient(m)
    BY DEF OfClient
<1> QED
    BY <1>2, <1>3, <1>4, <1>5, <1>6, <1>7, TalkGrowsByOne

--------------------------------------------------------------------------------
(***************************************************************************)
(* All the tools answer.                                                   *)
(***************************************************************************)
\* The items of Codex that answer.
OutputsOf(ids) == [i \in DOMAIN ids |-> [type |-> "function_call_output", call_id |-> ids[i]]]

LEMMA OutputsSay ==
    ASSUME NEW ids, Listed(ids), NEW d \in Nat, CountFrom(ids, d), NEW n \in Nat, NEW k \in Nat, NEW o \in Nat,
           NEW new, new = OutputsOf(ids)
    PROVE  /\ Listed(new) /\ Len(new) = Len(ids)
           /\ \A i \in DOMAIN new : Fit(new[i]) /\ InForm(new[i], "responses") /\ WordsIn(new[i], "picture") = {}
           /\ NextNumbers(WordsOf(new, "said"), Len(new), n, 0) /\ NextNumbers(PicturesOf(new), Len(new), k, 0)
           /\ NextNumbers(CallsOf(new), Len(new), o, 0) /\ NextNumbers(AnswersOf(new), Len(new), d, Len(ids))
           /\ FirstAnswers(new) = {ids[i] : i \in DOMAIN ids}
<1>1. Listed(new) /\ Len(new) = Len(ids) /\ DOMAIN new = DOMAIN ids
    BY MappedList DEF OutputsOf
<1>2. DOMAIN ids = 1..Len(ids) /\ Len(ids) \in Nat
    BY DEF Listed
<1>3. ASSUME NEW i \in DOMAIN ids
      PROVE  /\ Fit(new[i]) /\ WordsIn(new[i], "said") = {} /\ WordsIn(new[i], "picture") = {}
             /\ PicturesIn(new[i]) = {} /\ CallsIn(new[i]) = {} /\ AnswersIn(new[i]) = {Part(0, 0, d + i)}
             /\ InForm(new[i], "responses")
  <2> DEFINE m == new[i]
  <2>1. m = [type |-> "function_call_output", call_id |-> ids[i]]
    BY DEF OutputsOf
  <2>2. DOMAIN m = {"type", "call_id"} /\ m.call_id = d + i
    BY <2>1 DEF CountFrom
  <2> HIDE DEF m
  <2>3. {"content", "parts", "tool_calls", "tool_call_id"} \cap DOMAIN m = {} /\ "id" \notin DOMAIN m /\ "call_id" \in DOMAIN m
    BY <2>2
  <2>4. Fit(m) /\ WordsIn(m, "said") = {} /\ WordsIn(m, "picture") = {}
        /\ PicturesIn(m) = {} /\ CallsIn(m) = {} /\ AnswersIn(m) = {Part(0, 0, d + i)}
    BY <2>2, <2>3, ItemHas
  <2>5. CallsIn(m) \cup AnswersIn(m) = {Part(0, 0, d + i)}
    BY <2>4
  <2>6. InForm(m, "responses")
    BY ONLY <2>5, ItemIsInForm
  <2> QED
    BY <2>4, <2>6 DEF m
<1> HIDE DEF NextNumbers
<1>4. NextNumbers(WordsOf(new, "said"), Len(new), n, 0)
    BY <1>1, <1>2, <1>3, NoneNext DEF WordsOf
<1>5. NextNumbers(PicturesOf(new), Len(new), k, 0)
    BY <1>1, <1>2, <1>3, NoneNext DEF PicturesOf
<1>6. NextNumbers(CallsOf(new), Len(new), o, 0)
    BY <1>1, <1>2, <1>3, NoneNext DEF CallsOf
<1>7. NextNumbers(AnswersOf(new), Len(new), d, Len(ids))
  <2>1. \A i \in 1..Len(ids) : AnswersOf(new)[i] = {Part(0, 0, d + i)}
    BY <1>1, <1>2, <1>3 DEF AnswersOf
  <2> QED
    BY <1>1, <1>2, <2>1, EachNext
<1>8. FirstAnswers(new) = {ids[i] : i \in DOMAIN ids}
  <2>0. \A i \in DOMAIN ids : ids[i] = d + i
    BY DEF CountFrom
  <2>1. ASSUME NEW i \in DOMAIN ids
        PROVE  Least(OfAll(AnswersIn(new[i]))) = {ids[i]}
    <3>1. Part(0, 0, d + i).of = d + i /\ AnswersIn(new[i]) = {Part(0, 0, d + i)}
      BY <1>3, PartIs
    <3>2. OfAll(AnswersIn(new[i])) = {d + i}
      BY ONLY <3>1 DEF OfAll
    <3>3. Least({d + i}) = {d + i}
      BY DEF Least
    <3> QED
      BY <2>0, <3>2, <3>3
  <2>2. FirstAnswers(new) = UNION {Least(OfAll(AnswersIn(new[i]))) : i \in DOMAIN ids}
    BY <1>1 DEF FirstAnswers
  <2>3. {Least(OfAll(AnswersIn(new[i]))) : i \in DOMAIN ids} = {{ids[i]} : i \in DOMAIN ids}
    BY <2>1
  <2>4. UNION {{ids[i]} : i \in DOMAIN ids} = {ids[i] : i \in DOMAIN ids}
    OBVIOUS
  <2> QED
    BY ONLY <2>2, <2>3, <2>4
<1> QED
    BY <1>1, <1>3, <1>4, <1>5, <1>6, <1>7, <1>8

LEMMA ClientTalks ==
    ASSUME TalkInv, ConversationInv, ClientAnswers
    PROVE  TalkInv'
<1> DEFINE ids     == told.pending
           d       == told.calls - Len(told.pending)
           given   == IF Claude THEN {ids[1]} ELSE {ids[i] : i \in DOMAIN ids}
           t       == [told EXCEPT !.pending = <<>>, !.firsts = @ \cup given]
           u       == [t EXCEPT !.words = @ + 1]
           results == [i \in DOMAIN ids |->
                          [type |-> "tool_result", tool_use_id |-> ids[i], content |-> Text(<<Word("result", ids[i])>>)]]
           outputs == [i \in DOMAIN ids |-> [type |-> "function_call_output", call_id |-> ids[i]]]
<1>1. Listed(messages) /\ Listed(ids) /\ turn' = "server" /\ ids # <<>>
    BY DEF ConversationInv, ToldType, MessagesOK, ClientAnswers
<1>2. /\ t.words = told.words /\ t.pictures = told.pictures /\ t.calls = told.calls
      /\ t.pending = <<>> /\ t.firsts = told.firsts \cup given
      /\ u.words = told.words + 1 /\ u.pictures = told.pictures /\ u.calls = told.calls
      /\ u.pending = <<>> /\ u.firsts = told.firsts \cup given
  <2> HIDE DEF given
  <2> QED
    BY DEF ConversationInv, ToldType
<1>3. \/ Claude /\ Append1(t, Said("user", Blocks(results)))
      \/ Claude /\ Append1(u, Said("user", Blocks(Append(results, TextBlock("user", t.words + 1)))))
      \/ ~Claude /\ messages' = messages \o outputs /\ told' = t /\ inbound' = inbound
    BY DEF ClientAnswers
<1>4. /\ told.words \in Nat /\ told.pictures \in Nat /\ told.calls \in Nat /\ d \in Nat
      /\ \A i \in DOMAIN ids : ids[i] = d + i
    BY <1>1, PendingNumbers DEF TalkInv
<1> HIDE DEF t, u
<1>5. CASE Claude /\ Append1(t, Said("user", Blocks(results)))
  <2> DEFINE m == Said("user", Blocks(results))
  <2>1. /\ Fit(m) /\ OfClaude(m) /\ WordsIn(m, "said") = {} /\ WordsIn(m, "picture") = {}
        /\ PicturesIn(m) = {} /\ CallsIn(m) = {} /\ Numbered(AnswersIn(m), d, Len(ids))
    <3> HIDE DEF d, ids
    <3> QED
      BY <1>1, <1>4, ResultsSay
  <2> HIDE DEF m, results
  <2>2. messages' = Append(messages, m) /\ inbound' = inbound /\ told' = t
    BY <1>5 DEF Append1, m
  <2>3. Numbered(WordsIn(m, "said"), told.words, 0) /\ told'.words = told.words + 0
    <3>1. told'.words = told.words + 0
      BY <1>2, <1>4, <2>2
    <3>2. Numbered({}, told.words, 0)
      BY <1>4, NoneIsNumbered
    <3> QED
      BY <2>1, <3>1, <3>2
  <2>4. /\ told'.pictures = told.pictures /\ told'.calls = told.calls /\ told'.pending = <<>>
        /\ told'.firsts = told.firsts \cup {told.pending[1]}
    BY <1>2, <1>5, <2>2
  <2>5. Listed(told.pending) /\ Numbered(AnswersIn(m), told.calls - Len(told.pending), Len(told.pending)) /\ 0 \in Nat
    BY <1>1, <2>1
  <2> QED
    BY ONLY TalkInv, <1>1, <1>5, <2>1, <2>2, <2>3, <2>4, <2>5, ClaudeAnswers
<1>6. CASE Claude /\ Append1(u, Said("user", Blocks(Append(results, TextBlock("user", t.words + 1)))))
  <2> DEFINE w    == t.words + 1
             text == TextBlock("user", w)
             m    == Said("user", Blocks(Append(results, text)))
  <2>1. BlockFit(text) /\ BlockText(text) = <<Word("said", w)>> /\ text.type \in TextTypes
    BY TextBlockIs
  <2>2. messages' = Append(messages, m) /\ inbound' = inbound /\ told' = u
    BY <1>6 DEF Append1
  <2> HIDE DEF text
  <2>3. /\ Fit(m) /\ OfClaude(m) /\ WordsIn(m, "said") = {Part(Len(ids) + 1, 1, w)}
        /\ WordsIn(m, "picture") = {}
        /\ PicturesIn(m) = {} /\ CallsIn(m) = {} /\ Numbered(AnswersIn(m), d, Len(ids))
    <3>1. m = Said("user", Blocks(Append(ResultsOf(ids), text)))
      BY DEF ResultsOf
    <3>2. d \in Nat /\ Listed(ids) /\ CountFrom(ids, d)
      BY <1>1, <1>4 DEF CountFrom
    <3> HIDE DEF d, ids, m, results, w
    <3> QED
      BY ONLY <2>1, <3>1, <3>2, ResultsAndATextSay
  <2> HIDE DEF m, results
  <2>4. Numbered(WordsIn(m, "said"), told.words, 1) /\ told'.words = told.words + 1
    <3>1. Len(ids) + 1 \in Nat
      BY <1>1 DEF Listed
    <3>2. WordsIn(m, "said") = {Part(Len(ids) + 1, 1, told.words + 1)}
      BY <1>2, <2>3
    <3>3. told.words \in Nat /\ 1 \in Nat
      BY <1>4
    <3>4. Numbered(WordsIn(m, "said"), told.words, 1)
      BY ONLY <3>1, <3>2, <3>3, OneIsNumbered
    <3> QED
      BY <1>2, <2>2, <3>4
  <2>5. /\ told'.pictures = told.pictures /\ told'.calls = told.calls /\ told'.pending = <<>>
        /\ told'.firsts = told.firsts \cup {told.pending[1]}
    BY <1>2, <1>6, <2>2
  <2>6. Listed(told.pending) /\ Numbered(AnswersIn(m), told.calls - Len(told.pending), Len(told.pending)) /\ 1 \in Nat
    BY <1>1, <2>3
  <2> QED
    BY ONLY TalkInv, <1>1, <1>6, <2>2, <2>3, <2>4, <2>5, <2>6, ClaudeAnswers
<1>7. CASE ~Claude /\ messages' = messages \o outputs /\ told' = t /\ inbound' = inbound
  <2> DEFINE new == outputs
             all == {ids[i] : i \in DOMAIN ids}
  <2>1. /\ Listed(new) /\ Len(new) = Len(ids)
        /\ \A i \in DOMAIN new : Fit(new[i]) /\ InForm(new[i], "responses") /\ WordsIn(new[i], "picture") = {}
        /\ NextNumbers(WordsOf(new, "said"), Len(new), told.words, 0)
        /\ NextNumbers(PicturesOf(new), Len(new), told.pictures, 0)
        /\ NextNumbers(CallsOf(new), Len(new), told.calls, 0)
        /\ NextNumbers(AnswersOf(new), Len(new), d, Len(ids))
        /\ FirstAnswers(new) = all
    <3> DEFINE x == told.words
               k == told.pictures
               c == told.calls
    <3>1. /\ Listed(ids) /\ d \in Nat /\ x \in Nat /\ k \in Nat /\ c \in Nat
          /\ CountFrom(ids, d) /\ new = OutputsOf(ids)
      BY <1>1, <1>4 DEF CountFrom, OutputsOf
    <3> HIDE DEF d, ids, new, x, k, c
    <3>2. /\ Listed(new) /\ Len(new) = Len(ids)
          /\ \A i \in DOMAIN new : Fit(new[i]) /\ InForm(new[i], "responses") /\ WordsIn(new[i], "picture") = {}
          /\ NextNumbers(WordsOf(new, "said"), Len(new), x, 0)
          /\ NextNumbers(PicturesOf(new), Len(new), k, 0)
          /\ NextNumbers(CallsOf(new), Len(new), c, 0)
          /\ NextNumbers(AnswersOf(new), Len(new), d, Len(ids))
      BY ONLY <3>1, OutputsSay
    <3>3. FirstAnswers(new) = {ids[i] : i \in DOMAIN ids}
      BY ONLY <3>1, OutputsSay
    <3> QED
      BY <3>2, <3>3 DEF x, k, c
  <2>2. \A i \in DOMAIN new : Fit(new[i]) /\ OfClient(new[i]) /\ WordsIn(new[i], "picture") = {}
    BY <1>7, <2>1 DEF OfClient
  <2>0. told.words = told.words + 0
    BY <1>4
  <2>3. /\ told'.words = told.words + 0 /\ told'.pictures = told.pictures /\ told'.calls = told.calls
        /\ told'.pending = <<>> /\ told'.firsts = told.firsts \cup all
    BY <1>2, <1>7, <2>0
  <2> HIDE DEF all, new, outputs
  <2>4. TalkInv /\ Listed(told.pending) /\ 0 \in Nat
    BY <1>1
  <2>5. /\ told'.pictures = told.pictures + 0 /\ told'.calls = told.calls + 0
        /\ Len(told.pending) \in Nat /\ Len(told.pending) <= Len(told.pending)
        /\ told'.calls - Len(told'.pending) = told.calls - Len(told.pending) + Len(told.pending)
        /\ Len(told'.pending) <= told'.calls
        /\ \A i \in DOMAIN told'.pending : told'.pending[i] = told'.calls - Len(told'.pending) + i
    BY ONLY <2>3, <2>4, ToldAnswers
  <2>6. told'.firsts = told.firsts \cup FirstAnswers(new)
    BY <2>1, <2>3
  <2>7. messages' = messages \o new /\ inbound' = inbound /\ ~Claude
    BY <1>7 DEF new
  <2>8. NextNumbers(AnswersOf(new), Len(new), told.calls - Len(told.pending), Len(told.pending))
    BY <2>1
  <2> QED
    BY ONLY <1>1, <2>1, <2>2, <2>3, <2>4, <2>5, <2>6, <2>7, <2>8, TalkGrows
<1> QED
    BY <1>3, <1>5, <1>6, <1>7

--------------------------------------------------------------------------------
(***************************************************************************)
(* The model calls tools.                                                  *)
(***************************************************************************)
UsesOf(type, c, n) == [i \in 1..n |-> [type |-> type, id |-> c + i]]

\* The calls of the model, for Claude Code.
LEMMA UsesSay ==
    ASSUME NEW n \in Nat, NEW c \in Nat,
           NEW w, NEW text, BlockFit(text), BlockText(text) = <<Word("said", w)>>, text.type \in TextTypes,
           NEW m, m = Said("assistant", Blocks(<<text>> \o UsesOf("tool_use", c, n)))
    PROVE  /\ Fit(m) /\ OfClaude(m) /\ WordsIn(m, "said") = {Part(1, 1, w)} /\ WordsIn(m, "picture") = {}
           /\ PicturesIn(m) = {} /\ AnswersIn(m) = {}
           /\ Numbered(CallsIn(m), c, n)
<1> DEFINE uses == UsesOf("tool_use", c, n)
           one  == <<text>>
           bs   == one \o uses
<1>1. Listed(uses) /\ Len(uses) = n /\ \A i \in 1..n : uses[i] = [type |-> "tool_use", id |-> c + i]
    BY MadeList DEF UsesOf
<1>2. Listed(one) /\ Len(one) = 1 /\ one[1] = text
    BY OneIsListed
<1> HIDE DEF uses, one
<1>3. /\ Listed(bs) /\ DOMAIN bs = 1..(1 + n) /\ bs[1] = text
      /\ \A i \in 1..n : bs[1 + i] = [type |-> "tool_use", id |-> c + i]
  <2>1. /\ DOMAIN bs = 1..(Len(one) + Len(uses)) /\ Listed(bs)
        /\ \A i \in 1..Len(one) : bs[i] = one[i]
        /\ \A i \in 1..Len(uses) : bs[Len(one) + i] = uses[i]
    <3>1. Listed(one) /\ Listed(uses)
      BY <1>1, <1>2
    <3>2. /\ DOMAIN (one \o uses) = 1..(Len(one) + Len(uses)) /\ Listed(one \o uses)
      BY ONLY <3>1, GrownList
    <3>3. /\ \A i \in 1..Len(one) : (one \o uses)[i] = one[i]
          /\ \A i \in 1..Len(uses) : (one \o uses)[Len(one) + i] = uses[i]
      BY ONLY <3>1, JoinedParts
    <3> QED
      BY <3>2, <3>3
  <2> HIDE DEF bs
  <2>2. bs[1] = text
    BY <1>2, <2>1
  <2>3. \A i \in 1..n : bs[1 + i] = [type |-> "tool_use", id |-> c + i]
    <3> SUFFICES ASSUME NEW i \in 1..n
                 PROVE  bs[1 + i] = [type |-> "tool_use", id |-> c + i]
      OBVIOUS
    <3>1. bs[1 + i] = uses[i]
      BY <1>1, <1>2, <2>1
    <3> QED
      BY <1>1, <3>1
  <2> QED
    BY <1>1, <1>2, <2>1, <2>2, <2>3
<1>4. m = Said("assistant", Blocks(bs))
    BY DEF uses, one
<1> HIDE DEF bs
<1>5. \A k \in 1..(1 + n) : k = 1 \/ \E i \in 1..n : k = 1 + i
  <2> SUFFICES ASSUME NEW k \in 1..(1 + n), k # 1
               PROVE  \E i \in 1..n : k = 1 + i
    OBVIOUS
  <2>1. k - 1 \in 1..n /\ k = 1 + (k - 1)
    OBVIOUS
  <2> QED
    BY <2>1
<1>6. \A i \in 1..n : BlockFit(bs[1 + i]) /\ BlockText(bs[1 + i]) = <<>> /\ bs[1 + i].type = "tool_use" /\ bs[1 + i].id = c + i
    BY <1>3, OtherBlocksAre
<1>7. BlockFit(bs[1]) /\ BlockText(bs[1]) = <<Word("said", w)>>
      /\ bs[1].type \notin {"tool_use", "tool_result", "image", "image_url", "input_image"}
    BY <1>3 DEF TextTypes
<1>8. BlocksFit(bs)
    BY <1>3, <1>5, <1>6, <1>7 DEF BlocksFit
<1>9. /\ Fit(m) /\ "content" \in DOMAIN m /\ BlocksOf(m) = bs
      /\ Texts(m) = [i \in DOMAIN bs |-> BlockText(bs[i])]
      /\ CallsIn(m) = {Part(i, 1, bs[i].id) : i \in {k \in DOMAIN bs : bs[k].type = "tool_use"}}
      /\ AnswersIn(m) = {Part(i, 1, bs[i].tool_use_id) : i \in {k \in DOMAIN bs : bs[k].type = "tool_result"}}
      /\ PicturesIn(m) = {Part(i, 1, IF IsPicture(bs[i]) THEN bs[i].source.of ELSE bs[i].url.of)
                          : i \in {k \in DOMAIN bs : bs[k].type \in {"image", "image_url", "input_image"}}}
    BY ONLY <1>4, <1>8, SaidBlocksHave
<1>10. WordsIn(m, "said") = {Part(1, 1, w)} /\ WordsIn(m, "picture") = {}
  <2>1. \A i \in DOMAIN bs : i # 1 => BlockText(bs[i]) = <<>>
    <3> SUFFICES ASSUME NEW k \in DOMAIN bs, k # 1
                 PROVE  BlockText(bs[k]) = <<>>
      OBVIOUS
    <3>1. PICK i \in 1..n : k = 1 + i
      BY <1>3, <1>5
    <3>2. BlockText(bs[1 + i]) = <<>>
      BY <1>6
    <3> QED
      BY <3>1, <3>2
  <2>2. 1 \in DOMAIN bs
    BY <1>3
  <2>3. Texts(m) = [i \in DOMAIN bs |-> BlockText(bs[i])] /\ BlockText(bs[1]) = <<Word("said", w)>>
    BY <1>7, <1>9
  <2> QED
    BY ONLY <2>1, <2>2, <2>3, OneTextSaid
<1>11. \A k \in DOMAIN bs : bs[k].type \notin {"tool_result", "image", "image_url", "input_image"}
    BY <1>3, <1>5, <1>6, <1>7
<1>12. PicturesIn(m) = {} /\ AnswersIn(m) = {}
    BY <1>9, <1>11
<1>13. CallsIn(m) = {Part(1 + i, 1, c + i) : i \in 1..n}
  <2>1. \A i \in 1..n : 1 + i \in DOMAIN bs
    BY <1>3
  <2>2. \A k \in DOMAIN bs : bs[k].type = "tool_use" <=> \E i \in 1..n : k = 1 + i
    BY <1>3, <1>5, <1>6, <1>7, <2>1
  <2>3. \A i \in 1..n : Part(1 + i, 1, bs[1 + i].id) = Part(1 + i, 1, c + i)
    BY <1>6
  <2>4. ASSUME NEW p
        PROVE  p \in CallsIn(m) <=> \E i \in 1..n : p = Part(1 + i, 1, c + i)
    <3>1. p \in CallsIn(m) <=> \E k \in DOMAIN bs : bs[k].type = "tool_use" /\ p = Part(k, 1, bs[k].id)
      BY <1>9
    <3> QED
      BY ONLY <2>1, <2>2, <2>3, <3>1
  <2> QED
    BY <2>4
<1>14. Numbered(CallsIn(m), c, n)
  <2>1. n \in Nat /\ c \in Nat /\ 1 \in Nat
    OBVIOUS
  <2> QED
    BY ONLY <1>13, <2>1, SeveralAreNumbered
<1>15. OfClaude(m)
    BY <1>9, <1>11 DEF OfClaude, PictureTypes
<1> QED
    BY <1>9, <1>10, <1>12, <1>14, <1>15

\* The same for Codex: items.
LEMMA UseItemsSay ==
    ASSUME NEW n \in Nat, NEW c \in Nat, NEW x \in Nat, NEW k \in Nat, NEW d \in Nat,
           NEW new, new = UsesOf("function_call", c, n)
    PROVE  /\ Listed(new) /\ Len(new) = n
           /\ \A i \in DOMAIN new : Fit(new[i]) /\ InForm(new[i], "responses") /\ WordsIn(new[i], "picture") = {}
           /\ NextNumbers(WordsOf(new, "said"), Len(new), x, 0) /\ NextNumbers(PicturesOf(new), Len(new), k, 0)
           /\ NextNumbers(CallsOf(new), Len(new), c, n) /\ NextNumbers(AnswersOf(new), Len(new), d, 0)
           /\ FirstAnswers(new) = {}
<1>1. Listed(new) /\ Len(new) = n /\ DOMAIN new = 1..n
    BY MadeList DEF UsesOf
<1>3. ASSUME NEW i \in 1..n
      PROVE  /\ Fit(new[i]) /\ WordsIn(new[i], "said") = {} /\ WordsIn(new[i], "picture") = {}
             /\ PicturesIn(new[i]) = {} /\ AnswersIn(new[i]) = {} /\ CallsIn(new[i]) = {Part(0, 0, c + i)}
             /\ InForm(new[i], "responses")
  <2> DEFINE m == new[i]
  <2>1. m = [type |-> "function_call", id |-> c + i]
    BY DEF UsesOf
  <2>2. DOMAIN m = {"type", "id"} /\ m.id = c + i
    BY <2>1
  <2> HIDE DEF m
  <2>3. {"content", "parts", "tool_calls", "tool_call_id"} \cap DOMAIN m = {} /\ "id" \in DOMAIN m /\ "call_id" \notin DOMAIN m
    BY <2>2
  <2>4. Fit(m) /\ WordsIn(m, "said") = {} /\ WordsIn(m, "picture") = {}
        /\ PicturesIn(m) = {} /\ AnswersIn(m) = {} /\ CallsIn(m) = {Part(0, 0, c + i)}
    BY <2>2, <2>3, ItemHas
  <2>5. CallsIn(m) \cup AnswersIn(m) = {Part(0, 0, c + i)}
    BY <2>4
  <2>6. InForm(m, "responses")
    BY ONLY <2>5, ItemIsInForm
  <2> QED
    BY <2>4, <2>6 DEF m
<1> HIDE DEF NextNumbers
<1>4. NextNumbers(WordsOf(new, "said"), Len(new), x, 0)
    BY <1>1, <1>3, NoneNext DEF WordsOf
<1>5. NextNumbers(PicturesOf(new), Len(new), k, 0)
    BY <1>1, <1>3, NoneNext DEF PicturesOf
<1>6. NextNumbers(AnswersOf(new), Len(new), d, 0)
    BY <1>1, <1>3, NoneNext DEF AnswersOf
<1>7. NextNumbers(CallsOf(new), Len(new), c, n)
  <2>1. \A i \in 1..n : CallsOf(new)[i] = {Part(0, 0, c + i)}
    BY <1>1, <1>3 DEF CallsOf
  <2> QED
    BY <1>1, <2>1, EachNext
<1>8. FirstAnswers(new) = {}
  <2>1. \A i \in 1..n : OfAll(AnswersIn(new[i])) = {}
    BY <1>3 DEF OfAll
  <2> QED
    BY <1>1, <2>1 DEF FirstAnswers, Least
<1> QED
    BY <1>1, <1>3, <1>4, <1>5, <1>6, <1>7, <1>8

LEMMA ProviderAsks ==
    ASSUME TalkInv, ConversationInv, ProviderCalls
    PROVE  TalkInv'
<1>1. Listed(messages) /\ Listed(told.pending) /\ told.pending = <<>> /\ turn' = "user"
    BY DEF ConversationInv, ToldType, MessagesOK, ProviderCalls, TalkInv
<1>2. told.words \in Nat /\ told.pictures \in Nat /\ told.calls \in Nat
    BY DEF TalkInv
<1> SUFFICES ASSUME NEW n \in 1..2,
                    LET ids  == [i \in 1..n |-> told.calls + i]
                        t    == [told EXCEPT !.calls = @ + n, !.pending = ids]
                        uses == [i \in 1..n |-> [type |-> IF Claude THEN "tool_use" ELSE "function_call", id |-> ids[i]]]
                    IN  IF Claude
                        THEN Append1([t EXCEPT !.words = @ + 1],
                                     Said("assistant", Blocks(<<TextBlock("assistant", t.words + 1)>> \o uses)))
                        ELSE messages' = messages \o uses /\ told' = t /\ UNCHANGED inbound
             PROVE  TalkInv'
    BY DEF ProviderCalls
<1> DEFINE ids == [i \in 1..n |-> told.calls + i]
           t   == [told EXCEPT !.calls = @ + n, !.pending = ids]
           u   == [t EXCEPT !.words = @ + 1]
           c   == told.calls
<1>3. /\ t.words = told.words /\ t.pictures = told.pictures /\ t.calls = told.calls + n
      /\ t.pending = ids /\ t.firsts = told.firsts
      /\ u.words = told.words + 1 /\ u.pictures = told.pictures /\ u.calls = told.calls + n
      /\ u.pending = ids /\ u.firsts = told.firsts
  <2> HIDE DEF ids
  <2> QED
    BY DEF ConversationInv, ToldType
<1>4. Len(ids) = n /\ DOMAIN ids = 1..n /\ n \in Nat /\ \A i \in 1..n : ids[i] = told.calls + i
    BY MadeList
<1>5. \/ Claude /\ Append1(u, Said("assistant", Blocks(<<TextBlock("assistant", t.words + 1)>> \o UsesOf("tool_use", c, n))))
      \/ ~Claude /\ messages' = messages \o UsesOf("function_call", c, n) /\ told' = t /\ inbound' = inbound
  <2>1. CASE Claude
    <3>1. [i \in 1..n |-> [type |-> IF Claude THEN "tool_use" ELSE "function_call", id |-> ids[i]]] = UsesOf("tool_use", c, n)
      BY <2>1 DEF UsesOf
    <3> QED
      BY <2>1, <3>1
  <2>2. CASE ~Claude
    <3>1. [i \in 1..n |-> [type |-> IF Claude THEN "tool_use" ELSE "function_call", id |-> ids[i]]] = UsesOf("function_call", c, n)
      BY <2>2 DEF UsesOf
    <3> QED
      BY <2>2, <3>1
  <2> QED
    BY <2>1, <2>2
<1> HIDE DEF ids, t, u
<1>6. ASSUME told'.calls = told.calls + n, told'.pending = ids, told'.pictures = told.pictures
      PROVE  /\ told'.pictures = told.pictures + 0 /\ 0 <= Len(told.pending)
             /\ told.calls - Len(told.pending) \in Nat
             /\ told'.calls - Len(told'.pending) = told.calls - Len(told.pending) + 0
             /\ Len(told'.pending) <= told'.calls
             /\ \A i \in DOMAIN told'.pending : told'.pending[i] = told'.calls - Len(told'.pending) + i
  <2>1. Len(told.pending) = 0 /\ Len(told'.pending) = n
    BY <1>1, <1>4, <1>6
  <2>2. told.calls - 0 \in Nat /\ told.calls + n - n = told.calls - 0 + 0 /\ n <= told.calls + n /\ told.pictures = told.pictures + 0
    BY <1>2, <1>4
  <2>3. \A i \in 1..n : told.calls + i = told.calls + n - n + i
    BY <1>2, <1>4
  <2>4. \A i \in DOMAIN told'.pending : told'.pending[i] = told'.calls - Len(told'.pending) + i
    <3> SUFFICES ASSUME NEW i \in 1..n
                 PROVE  told'.pending[i] = told'.calls - Len(told'.pending) + i
      BY <1>4, <1>6
    <3>1. told'.pending[i] = told.calls + i
      BY <1>4, <1>6
    <3>2. told'.calls - Len(told'.pending) + i = told.calls + n - n + i
      <4>1. told'.calls = told.calls + n /\ Len(told'.pending) = n
        BY <1>6, <2>1
      <4>2. told'.calls - Len(told'.pending) = told.calls + n - n
        BY <1>2, <1>4, <4>1
      <4> QED
        BY <4>2
    <3> QED
      BY <2>3, <3>1, <3>2
  <2> QED
    BY <1>2, <1>6, <2>1, <2>2, <2>4
<1>7. CASE Claude /\ Append1(u, Said("assistant", Blocks(<<TextBlock("assistant", t.words + 1)>> \o UsesOf("tool_use", c, n))))
  <2> DEFINE w    == t.words + 1
             text == TextBlock("assistant", w)
             m    == Said("assistant", Blocks(<<text>> \o UsesOf("tool_use", c, n)))
  <2>1. BlockFit(text) /\ BlockText(text) = <<Word("said", w)>> /\ text.type \in TextTypes
    BY TextBlockIs
  <2>2. messages' = Append(messages, m) /\ inbound' = inbound /\ told' = u
    BY <1>7 DEF Append1
  <2> HIDE DEF text
  <2>3. /\ Fit(m) /\ OfClaude(m) /\ WordsIn(m, "said") = {Part(1, 1, w)}
        /\ WordsIn(m, "picture") = {}
        /\ PicturesIn(m) = {} /\ AnswersIn(m) = {} /\ Numbered(CallsIn(m), c, n)
    <3>1. c \in Nat /\ n \in Nat /\ m = Said("assistant", Blocks(<<text>> \o UsesOf("tool_use", c, n)))
      BY <1>2, <1>4
    <3> HIDE DEF m, w, c
    <3> QED
      BY ONLY <2>1, <3>1, UsesSay
  <2> HIDE DEF m
  <2>4. told'.words = told.words + 1 /\ told'.calls = told.calls + n /\ told'.pending = ids /\ told'.firsts = told.firsts
        /\ told'.pictures = told.pictures
    BY <1>3, <2>2
  <2>5. Numbered(WordsIn(m, "said"), told.words, 1)
    <3>1. WordsIn(m, "said") = {Part(1, 1, told.words + 1)}
      <4>1. w = told.words + 1
        BY <1>3
      <4> HIDE DEF w
      <4> QED
        BY <2>3, <4>1
    <3>2. told.words \in Nat /\ 1 \in Nat
      BY <1>2
    <3> QED
      BY ONLY <3>1, <3>2, OneIsNumbered
  <2>6. Numbered(PicturesIn(m), told.pictures, 0) /\ Numbered(CallsIn(m), told.calls, n)
    BY <1>2, <2>3, NoneIsNumbered
  <2>7. told.calls - Len(told.pending) \in Nat
    BY <1>6, <2>4
  <2>8. Numbered(AnswersIn(m), told.calls - Len(told.pending), 0)
    BY <2>3, <2>7, NoneIsNumbered
  <2>9. TalkInv /\ 1 \in Nat /\ 0 \in Nat /\ n \in Nat /\ OfClient(m)
        /\ told'.firsts = told.firsts \cup (IF 0 = 0 THEN {} ELSE {told.calls - Len(told.pending) + 1})
    BY <1>4, <1>7, <2>3, <2>4 DEF OfClient
  <2>10. /\ told'.pictures = told.pictures + 0 /\ 0 <= Len(told.pending)
         /\ told'.calls - Len(told'.pending) = told.calls - Len(told.pending) + 0
         /\ Len(told'.pending) <= told'.calls
         /\ \A i \in DOMAIN told'.pending : told'.pending[i] = told'.calls - Len(told'.pending) + i
    BY <1>6, <2>4
  <2> QED
    BY ONLY <1>1, <2>2, <2>3, <2>4, <2>5, <2>6, <2>8, <2>9, <2>10, TalkGrowsByOne
<1>8. CASE ~Claude /\ messages' = messages \o UsesOf("function_call", c, n) /\ told' = t /\ inbound' = inbound
  <2> DEFINE new == UsesOf("function_call", c, n)
  <2>1. told'.words = told.words /\ told'.calls = told.calls + n /\ told'.pending = ids /\ told'.firsts = told.firsts
        /\ told'.pictures = told.pictures
    BY <1>3, <1>8
  <2>2. /\ told'.pictures = told.pictures + 0 /\ 0 <= Len(told.pending)
        /\ told.calls - Len(told.pending) \in Nat
        /\ told'.calls - Len(told'.pending) = told.calls - Len(told.pending) + 0
        /\ Len(told'.pending) <= told'.calls
        /\ \A i \in DOMAIN told'.pending : told'.pending[i] = told'.calls - Len(told'.pending) + i
    BY <1>6, <2>1
  <2>3. told'.words = told.words + 0
    <3>1. told.words = told.words + 0
      BY <1>2
    <3> QED
      BY <2>1, <3>1
  <2>4. /\ Listed(new) /\ Len(new) = n
        /\ \A i \in DOMAIN new : Fit(new[i]) /\ InForm(new[i], "responses") /\ WordsIn(new[i], "picture") = {}
        /\ NextNumbers(WordsOf(new, "said"), Len(new), told.words, 0)
        /\ NextNumbers(PicturesOf(new), Len(new), told.pictures, 0)
        /\ NextNumbers(CallsOf(new), Len(new), c, n)
        /\ NextNumbers(AnswersOf(new), Len(new), told.calls - Len(told.pending), 0)
        /\ FirstAnswers(new) = {}
    <3> DEFINE d == told.calls - Len(told.pending)
               x == told.words
               k == told.pictures
    <3>1. n \in Nat /\ c \in Nat /\ x \in Nat /\ k \in Nat /\ d \in Nat /\ new = UsesOf("function_call", c, n)
      BY <1>2, <1>4, <2>2
    <3> HIDE DEF new, c, d, x, k
    <3>2. /\ Listed(new) /\ Len(new) = n
          /\ \A i \in DOMAIN new : Fit(new[i]) /\ InForm(new[i], "responses") /\ WordsIn(new[i], "picture") = {}
          /\ NextNumbers(WordsOf(new, "said"), Len(new), x, 0)
          /\ NextNumbers(PicturesOf(new), Len(new), k, 0)
          /\ NextNumbers(CallsOf(new), Len(new), c, n)
          /\ NextNumbers(AnswersOf(new), Len(new), d, 0)
      BY ONLY <3>1, UseItemsSay
    <3>3. FirstAnswers(new) = {}
      BY ONLY <3>1, UseItemsSay
    <3> QED
      BY <3>2, <3>3 DEF d, x, k
  <2>5. messages' = messages \o new /\ inbound' = inbound /\ ~Claude
    BY <1>8
  <2> HIDE DEF new
  <2>6. TalkInv /\ 0 \in Nat /\ n \in Nat /\ told'.firsts = told.firsts \cup FirstAnswers(new)
        /\ \A i \in DOMAIN new : Fit(new[i]) /\ OfClient(new[i]) /\ WordsIn(new[i], "picture") = {}
    BY <1>4, <1>8, <2>1, <2>4 DEF OfClient
  <2>7. NextNumbers(CallsOf(new), Len(new), told.calls, n)
    BY <2>4
  <2> QED
    BY ONLY <1>1, <2>1, <2>2, <2>3, <2>4, <2>5, <2>6, <2>7, TalkGrows
<1> QED
    BY <1>5, <1>7, <1>8

--------------------------------------------------------------------------------
(***************************************************************************)
(* Every step leaves what is said numbered.                                *)
(***************************************************************************)
LEMMA NothingCounted == \A f : DOMAIN f = {} => CountedTo(f, 0)
<1> SUFFICES ASSUME NEW f, DOMAIN f = {}
             PROVE  CountedTo(f, 0)
    OBVIOUS
<1>1. All(f) = {}
    BY DEF All
<1>2. 1..0 = {}
    OBVIOUS
<1> QED
    BY <1>1, <1>2 DEF CountedTo, Numbers, Ascending

LEMMA NoTalk ==
    ASSUME messages = <<>>, told = Told
    PROVE  TalkInv
<1>1. DOMAIN messages = {}
    OBVIOUS
<1>2. /\ told.words = 0 /\ told.pictures = 0 /\ told.calls = 0 /\ told.firsts = {} /\ told.pending = <<>>
    BY DEF Told
<1>3. Len(<<>>) = 0 /\ DOMAIN <<>> = {} /\ Listed(<<>>)
    BY EmptyIsListed
<1>4. /\ CountedTo(WordsOf(messages, "said"), 0) /\ CountedTo(WordsOf(messages, "picture"), 0)
      /\ CountedTo(PicturesOf(messages), 0) /\ CountedTo(CallsOf(messages), 0) /\ CountedTo(AnswersOf(messages), 0)
  <2>1. /\ DOMAIN WordsOf(messages, "said") = {} /\ DOMAIN WordsOf(messages, "picture") = {}
        /\ DOMAIN PicturesOf(messages) = {} /\ DOMAIN CallsOf(messages) = {} /\ DOMAIN AnswersOf(messages) = {}
    BY <1>1 DEF WordsOf, PicturesOf, CallsOf, AnswersOf
  <2> QED
    BY <2>1, NothingCounted
<1>5. AnswersFollow(messages) /\ FirstAnswers(messages) = {}
    BY <1>1 DEF AnswersFollow, FirstAnswers
<1> QED
    BY <1>1, <1>2, <1>3, <1>4, <1>5 DEF TalkInv

LEMMA NoTalkIsPlain == messages = <<>> /\ told = Told => TalkInv
    BY NoTalk

LEMMA TalkStep ==
    TalkInv /\ ConversationInv /\ [ExchangeNext]_<<vars, streamVars>> => TalkInv'
<1> SUFFICES ASSUME TalkInv, ConversationInv, [ExchangeNext]_<<vars, streamVars>>
             PROVE  TalkInv'
    OBVIOUS
<1>1. CASE UserSays
    BY <1>1, UserTalks
<1>2. CASE ClientAnswers
    BY <1>2, ClientTalks
<1>3. CASE ProviderSays
    BY <1>3, ProviderTalks
<1>4. CASE ProviderCalls
    BY <1>4, ProviderAsks
<1>5. ASSUME messages' = messages, told' = told, inbound' = inbound, turn' # "user" => told.pending = <<>>
      PROVE  TalkInv'
    BY <1>5 DEF TalkInv, WordsOf, PicturesOf, CallsOf, AnswersOf, AnswersFollow, FirstAnswers, OfClient, Claude
<1>6. CASE Messages \/ Responses
  <2>1. UNCHANGED <<inbound, messages, told>> /\ turn = "server"
    BY <1>6 DEF Messages, Responses, Ask
  <2>2. told.pending = <<>>
    BY <2>1 DEF TalkInv
  <2> QED
    BY <1>5, <2>1, <2>2
<1>7. CASE StreamBegins
  <2>1. messages' = <<>> /\ told' = Told
    BY <1>7 DEF StreamBegins
  <2>2. (messages = <<>> /\ told = Told)'
    BY <2>1 DEF Told
  <2> QED
    BY <2>2, NoTalkIsPlain, PTL
<1>8. CASE UNCHANGED vars
    BY <1>5, <1>8 DEF vars, TalkInv
<1> QED
    BY <1>1, <1>2, <1>3, <1>4, <1>6, <1>7, <1>8 DEF ExchangeNext, Next

--------------------------------------------------------------------------------
(***************************************************************************)
(* What is sent.                                                           *)
(***************************************************************************)
LEMMA SoundMessages ==
    ASSUME TalkInv, told.pending = <<>>, NEW L, Listed(L), DOMAIN L = DOMAIN messages,
           \A i \in DOMAIN L :
              /\ CallsIn(L[i]) = CallsIn(messages[i]) /\ AnswersIn(L[i]) = AnswersIn(messages[i])
              /\ WordsIn(L[i], "said") = WordsIn(messages[i], "said")
              /\ (IF Claude THEN WordsIn(L[i], "picture") ELSE PicturesIn(L[i])) = PicturesIn(messages[i])
    PROVE  Sound(L)
<1>1. /\ WordsOf(L, "said") = WordsOf(messages, "said") /\ ShownOf(L) = PicturesOf(messages)
      /\ CallsOf(L) = CallsOf(messages) /\ AnswersOf(L) = AnswersOf(messages)
    BY DEF WordsOf, ShownOf, PicturesOf, CallsOf, AnswersOf
<1>2. AnswersFollow(L)
    BY DEF TalkInv, AnswersFollow
<1>4. FirstAnswers(L) = told.firsts
  <2>1. {Least(OfAll(AnswersIn(L[i]))) : i \in DOMAIN L} = {Least(OfAll(AnswersIn(messages[i]))) : i \in DOMAIN messages}
    OBVIOUS
  <2>2. FirstAnswers(L) = FirstAnswers(messages)
    BY ONLY <2>1 DEF FirstAnswers
  <2> QED
    BY <2>2 DEF TalkInv
<1>3. told.calls - Len(told.pending) = told.calls
  <2>1. Len(told.pending) = 0 /\ told.calls \in Nat
    BY DEF TalkInv
  <2> QED
    BY <2>1
<1> QED
    BY <1>1, <1>2, <1>3, <1>4 DEF TalkInv, Sound

LEMMA PicturesAreNoWords ==
    ASSUME TalkInv, NEW i \in DOMAIN messages
    PROVE  WordsIn(messages[i], "picture") = {}
<1>1. CountedTo(WordsOf(messages, "picture"), 0) /\ 0 \in Nat
    BY DEF TalkInv
<1>2. \A k \in DOMAIN WordsOf(messages, "picture") : WordsOf(messages, "picture")[k] = {}
    BY ONLY <1>1, CountedNumbers
<1> QED
    BY <1>2 DEF WordsOf

\* Codex: as it is.
LEMMA CodexSound ==
    ASSUME TalkInv, ConversationInv, told.pending = <<>>, ~Claude
    PROVE  Sound(messages)
    BY SoundMessages DEF ConversationInv, MessagesOK

\* One text of Codex.
LEMMA CodexTextSound ==
    ASSUME ~Claude, told = [Told EXCEPT !.words = 1], NEW L, L = <<[role |-> "user", content |-> Text(<<Word("said", 1)>>)]>>
    PROVE  Sound(L)
<1> DEFINE m == Said("user", Text(<<Word("said", 1)>>))
<1>1. L = <<m>> /\ Listed(L) /\ DOMAIN L = {1} /\ L[1] = m
    BY OneIsListed DEF Said
<1>2. WordsIn(m, "said") = {Part(1, 1, 1)} /\ PicturesIn(m) = {} /\ CallsIn(m) = {} /\ AnswersIn(m) = {}
    BY SaidTextHas
<1> HIDE DEF m
<1>3. told.words = 1 /\ told.pictures = 0 /\ told.calls = 0 /\ told.firsts = {}
    BY DEF Told
<1>4. \A f : DOMAIN f = {1} /\ f[1] = {} => CountedTo(f, 0)
  <2> SUFFICES ASSUME NEW f, DOMAIN f = {1}, f[1] = {}
               PROVE  CountedTo(f, 0)
    OBVIOUS
  <2>1. All(f) = {}
    BY DEF All
  <2>2. 1..0 = {}
    OBVIOUS
  <2> QED
    BY <2>1, <2>2 DEF CountedTo, Numbers, Ascending
<1>5. CountedTo(ShownOf(L), 0) /\ CountedTo(CallsOf(L), 0) /\ CountedTo(AnswersOf(L), 0)
  <2>1. DOMAIN ShownOf(L) = {1} /\ ShownOf(L)[1] = {}
    BY <1>1, <1>2 DEF ShownOf
  <2>2. DOMAIN CallsOf(L) = {1} /\ CallsOf(L)[1] = {}
    BY <1>1, <1>2 DEF CallsOf
  <2>3. DOMAIN AnswersOf(L) = {1} /\ AnswersOf(L)[1] = {}
    BY <1>1, <1>2 DEF AnswersOf
  <2> QED
    BY <1>4, <2>1, <2>2, <2>3
<1>6. CountedTo(WordsOf(L, "said"), 1)
  <2> DEFINE f == WordsOf(L, "said")
             t == [message |-> 1, part |-> Part(1, 1, 1)]
  <2>1. DOMAIN f = {1} /\ f[1] = {Part(1, 1, 1)}
    BY <1>1, <1>2 DEF WordsOf
  <2> HIDE DEF f
  <2>2. All(f) = {t}
    BY <2>1 DEF All
  <2>3. t.message = 1 /\ t.part.of = 1 /\ t.part.block = 1 /\ t.part.place = 1
    BY DEF Part
  <2> HIDE DEF t
  <2>4. Numbers(All(f)) = 1..1
    BY <2>2, <2>3 DEF Numbers
  <2>5. ~Before(t, t)
    BY <2>3 DEF Before, Earlier
  <2>6. Ascending(All(f))
    BY <2>2, <2>5 DEF Ascending
  <2> QED
    BY <2>4, <2>6 DEF CountedTo, f
<1>7. AnswersFollow(L) /\ FirstAnswers(L) = {}
  <2>1. OfAll(AnswersIn(L[1])) = {}
    BY <1>1, <1>2 DEF OfAll
  <2> QED
    BY <1>1, <2>1 DEF AnswersFollow, FirstAnswers, Least
<1> QED
    BY <1>1, <1>3, <1>5, <1>6, <1>7 DEF Sound

--------------------------------------------------------------------------------
(***************************************************************************)
(* What Claude Code sends.                                                 *)
(***************************************************************************)
\* Claude Code: as it is, or with texts for the pictures.
LEMMA ModifiedMessage ==
    ASSUME TalkInv, ConversationInv, Claude, NEW i \in DOMAIN messages, NEW m2,
           m2 = IF HasPicture(messages[i])
                THEN Put(messages[i], "content",
                         Blocks([j \in DOMAIN BlocksOf(messages[i]) |->
                                    LET b == BlocksOf(messages[i])[j]
                                    IN  IF IsPicture(b) /\ messages[i].role = "user"
                                        THEN Placeholder(PictureNumber(messages, i, j)) ELSE b]))
                ELSE messages[i]
    PROVE  /\ Fit(m2) /\ "content" \in DOMAIN m2
           /\ CallsIn(m2) = CallsIn(messages[i]) /\ AnswersIn(m2) = AnswersIn(messages[i])
           /\ WordsIn(m2, "said") = WordsIn(messages[i], "said") /\ WordsIn(m2, "picture") = PicturesIn(messages[i])
<1> DEFINE m == messages[i]
           bs == BlocksOf(m)
           cs == [j \in DOMAIN bs |->
                    IF IsPicture(bs[j]) /\ m.role = "user" THEN Placeholder(PictureNumber(messages, i, j)) ELSE bs[j]]
<1>1. /\ Fit(m) /\ OfClaude(m) /\ "content" \in DOMAIN m /\ WordsIn(m, "picture") = {}
      /\ \A k \in DOMAIN messages : Fit(messages[k]) /\ OfClaude(messages[k])
    BY PicturesAreNoWords DEF TalkInv, OfClient, OfClaude
<1>2. Listed(messages) /\ told.pictures \in Nat /\ CountedTo(PicturesOf(messages), told.pictures)
    BY DEF ConversationInv, MessagesOK, TalkInv
<1>3. Listed(bs)
    BY <1>1, ClaudeBlocks
<1>4. CASE HasPicture(m)
  <2>1. IsBlocks(m.content) /\ bs = m.content.blocks
    BY <1>1, <1>4 DEF HasPicture, BlocksOf
  <2>2. Listed(cs) /\ DOMAIN cs = DOMAIN bs
    BY <1>3, MappedList
  <2>3. ASSUME NEW j \in DOMAIN bs
        PROVE  cs[j] = IF IsPicture(bs[j]) THEN Placeholder(bs[j].source.of) ELSE bs[j]
    <3>1. CASE IsPicture(bs[j])
      <4>1. m.role = "user"
        BY <1>1, <3>1 DEF OfClaude, IsPicture, PictureTypes
      <4>2. PictureNumber(messages, i, j) = bs[j].source.of
        BY <1>1, <1>2, <3>1, PictureHasItsNumber
      <4> QED
        BY <3>1, <4>1, <4>2
    <3>2. CASE ~IsPicture(bs[j])
      BY <3>2
    <3> QED
      BY <3>1, <3>2
  <2>4. m2 = Put(m, "content", Blocks(cs))
    BY <1>4
  <2> HIDE DEF m, bs, cs
  <2> QED
    BY <1>1, <2>1, <2>2, <2>3, <2>4, ModifiedSays DEF m
<1>5. CASE ~HasPicture(m)
  <2>1. m2 = m
    BY <1>5
  <2>2. PictureParts(m) = {}
    BY <1>5 DEF HasPicture, PictureParts
  <2> QED
    BY <1>1, <2>1, <2>2, ClaudePictures
<1> QED
    BY <1>4, <1>5

Modified(list, i) ==
    IF HasPicture(list[i])
    THEN Put(list[i], "content",
             Blocks([j \in DOMAIN BlocksOf(list[i]) |->
                        LET b == BlocksOf(list[i])[j]
                        IN  IF IsPicture(b) /\ list[i].role = "user"
                            THEN Placeholder(PictureNumber(list, i, j)) ELSE b]))
    ELSE list[i]

LEMMA ModifiedBody ==
    ASSUME NEW body, "messages" \in DOMAIN body, "system" \in DOMAIN body
    PROVE  /\ DOMAIN ModifyRequest(body) = DOMAIN body
           /\ ModifyRequest(body).messages = [i \in DOMAIN body.messages |-> Modified(body.messages, i)]
           /\ ModifyRequest(body).system = Prompted(body.system)
<1>1. ASSUME NEW messages2, NEW system2, NEW new, new = [body EXCEPT !.messages = messages2, !.system = system2, !.tools = "claude"]
      PROVE  DOMAIN new = DOMAIN body /\ new.messages = messages2 /\ new.system = system2
    BY <1>1
<1>2. ModifyRequest(body) =
         [body EXCEPT !.messages = [i \in DOMAIN body.messages |-> Modified(body.messages, i)],
                      !.system = Prompted(body.system), !.tools = "claude"]
    BY DEF ModifyRequest, Prompted, Modified
<1> QED
    BY <1>1, <1>2

LEMMA ClaudeSound ==
    ASSUME TalkInv, ConversationInv, told.pending = <<>>, Claude, NEW options \in ClaudeOptions, NEW body,
           body = IF AgentHandles(ClaudeBody(options)) THEN ModifyRequest(ClaudeBody(options)) ELSE ClaudeBody(options)
    PROVE  /\ Listed(body.messages) /\ Sound(body.messages)
           /\ \A i \in DOMAIN body.messages : Fit(body.messages[i]) /\ "content" \in DOMAIN body.messages[i]
           /\ "contents" \notin DOMAIN body
           /\ "system" \in DOMAIN body => QuietSystem(body.system)
<1> DEFINE cb == ClaudeBody(options)
           L  == body.messages
<1>1. options.system \in SystemPrompts /\ "system" \in DOMAIN options /\ "contents" \notin DOMAIN options
    BY GatewayAssumption
<1>2. /\ DOMAIN cb = DOMAIN options \cup {"messages"} /\ cb.messages = messages /\ cb.system = options.system
    BY <1>1 DEF ClaudeBody, Put, Joined
<1>3. Listed(messages)
    BY DEF ConversationInv, MessagesOK
<1>4. CASE AgentHandles(cb)
  <2>1. /\ DOMAIN body = DOMAIN cb /\ body.messages = [i \in DOMAIN messages |-> Modified(messages, i)]
        /\ body.system = Prompted(options.system)
    <3> HIDE DEF cb
    <3>1. body = ModifyRequest(cb)
      BY <1>4 DEF cb
    <3> QED
      BY <1>1, <1>2, <3>1, ModifiedBody
  <2>2. DOMAIN L = DOMAIN messages /\ \A i \in DOMAIN L : L[i] = Modified(messages, i)
    BY <2>1
  <2>3. Listed(L)
    BY <1>3, <2>1, MappedList
  <2> HIDE DEF L
  <2>4. \A i \in DOMAIN L :
           /\ Fit(L[i]) /\ "content" \in DOMAIN L[i]
           /\ CallsIn(L[i]) = CallsIn(messages[i]) /\ AnswersIn(L[i]) = AnswersIn(messages[i])
           /\ WordsIn(L[i], "said") = WordsIn(messages[i], "said") /\ WordsIn(L[i], "picture") = PicturesIn(messages[i])
    BY <2>2, ModifiedMessage DEF Modified
  <2>5. Sound(L)
    BY <2>2, <2>3, <2>4, SoundMessages
  <2>6. QuietSystem(body.system)
    BY <1>1, <2>1, PromptedIsPrompt, QuietPrompts
  <2> QED
    BY <1>1, <1>2, <2>1, <2>3, <2>4, <2>5, <2>6 DEF L
<1>5. CASE ~AgentHandles(cb)
  <2>1. body = cb
    BY <1>5
  <2>2. \A i \in DOMAIN messages :
           /\ Fit(messages[i]) /\ "content" \in DOMAIN messages[i]
           /\ PicturesIn(messages[i]) = {} /\ WordsIn(messages[i], "picture") = {}
    <3> SUFFICES ASSUME NEW i \in DOMAIN messages
                 PROVE  /\ Fit(messages[i]) /\ "content" \in DOMAIN messages[i]
                        /\ PicturesIn(messages[i]) = {} /\ WordsIn(messages[i], "picture") = {}
      OBVIOUS
    <3>1. Fit(messages[i]) /\ OfClaude(messages[i]) /\ "content" \in DOMAIN messages[i] /\ WordsIn(messages[i], "picture") = {}
      BY PicturesAreNoWords DEF TalkInv, OfClient, OfClaude
    <3>2. PictureParts(messages[i]) = {}
      BY <1>2, <1>5 DEF AgentHandles, HasPicture, PictureParts
    <3> QED
      BY <3>1, <3>2, ClaudePictures
  <2>3. Sound(messages)
    BY <1>3, <2>2, SoundMessages
  <2>4. QuietSystem(options.system)
    BY <1>1, QuietPrompts
  <2> HIDE DEF cb
  <2> QED
    BY <1>1, <1>2, <1>3, <2>1, <2>2, <2>3, <2>4
<1> QED
    BY <1>4, <1>5

--------------------------------------------------------------------------------
(***************************************************************************)
(* Every request follows what was said.                                    *)
(***************************************************************************)
\* There is a list of messages with all that was said, and what is sent follows it.
Heard == \E L : Sound(L) /\ (sent.ok /\ Upstream # <<>> => Follows(Upstream, L, FormSent(sent.mode)))

LEMMA HeardIsAll == Heard => ContentArrives /\ CallsArePaired
    BY HeardIsRight DEF Heard

LEMMA CarriedFollows ==
    ASSUME NEW form, NEW b, NEW L, Carries(b, L, form), MessagesOf(b) # <<>>
    PROVE  Follows(MessagesOf(b), L, form)
    BY DEF Carries, MessagesOf

LEMMA AskedIsHeard ==
    ASSUME NEW p \in Providers, NEW body, NEW options, Ask(p, body, options), inbound \in Inbound,
           NEW L, Sound(L),
           \A model, mode : IF Claude THEN Carries(PrepareAnthropicBodyForMode(body, model, mode), L, FormSent(mode))
                            ELSE NothingToSend(body, mode) \/ Carries(PrepareResponsesBodyForMode(body, model, mode), L, FormSent(mode))
    PROVE  Heard'
<1> DEFINE request == BuildUpstreamRequest(inbound, p.route, p, body)
<1>1. sent' = Outcome(request, p, options) /\ inbound' = inbound /\ told' = told
    BY DEF Ask
<1>2. Sound(L)'
    BY <1>1 DEF Sound, ShownOf, WordsOf, CallsOf, AnswersOf, FirstAnswers, AnswersFollow, Claude
<1>3. \/ request = NoRequest
      \/ \E b, mode, auth, asked :
            /\ request = [ok |-> TRUE, mode |-> mode, auth |-> auth, body |-> ApplyChain(p.use, b), stream |-> asked]
            /\ Carries(b, L, FormSent(mode))
  <2> DEFINE mode     == Mode(ResolveProviderApiKind(p))
             model    == UpstreamModelName(body, p.route, p)
             prepared == IF inbound = "AnthropicMessages"
                         THEN PrepareAnthropicBodyForMode(body, model, mode)
                         ELSE PrepareResponsesBodyForMode(body, model, mode)
             upstream == ApplyChain(p.use, prepared)
  <2>1. \/ request = NoRequest
        \/ /\ ~(inbound = "OpenAiResponses" /\ NothingToSend(body, mode))
           /\ request = [ok |-> TRUE, mode |-> mode, auth |-> AuthHeader(mode), body |-> upstream,
                         stream |-> Asked(upstream)]
    BY DEF BuildUpstreamRequest
  <2>2. \/ inbound = "OpenAiResponses" /\ NothingToSend(body, mode)
        \/ Carries(prepared, L, FormSent(mode))
    <3> HIDE DEF mode, model
    <3>1. inbound = "AnthropicMessages" \/ inbound = "OpenAiResponses"
      BY DEF Inbound
    <3> QED
      BY <3>1 DEF Claude
  <2> HIDE DEF request, mode, model, prepared
  <2>3. CASE ~(inbound = "OpenAiResponses" /\ NothingToSend(body, mode))
             /\ request = [ok |-> TRUE, mode |-> mode, auth |-> AuthHeader(mode), body |-> upstream,
                           stream |-> Asked(upstream)]
    BY <2>2, <2>3
  <2> QED
    BY <2>1, <2>3
<1> HIDE DEF request
<1>4. sent'.ok /\ MessagesOf(sent'.body) # <<>> => Follows(MessagesOf(sent'.body), L, FormSent(sent'.mode))
  <2>1. CASE request = NoRequest
    BY <1>1, <2>1 DEF Outcome, NoRequest
  <2>2. ASSUME NEW b, NEW mode, NEW auth, NEW asked,
               request = [ok |-> TRUE, mode |-> mode, auth |-> auth, body |-> ApplyChain(p.use, b), stream |-> asked],
               Carries(b, L, FormSent(mode))
        PROVE  MessagesOf(sent'.body) # <<>> => Follows(MessagesOf(sent'.body), L, FormSent(sent'.mode))
    <3>1. sent' = Joined(request, [use |-> p.use, asked |-> Asked(options), answer |-> AnswerProtocol(request)])
      BY <1>1, <2>2 DEF Outcome
    <3>2. sent'.body = ApplyChain(p.use, b) /\ sent'.mode = mode
      BY <2>2, <3>1 DEF Joined
    <3> DEFINE form == FormSent(mode)
    <3>3. Carries(b, L, form) /\ p.use \in Seq(STRING)
      BY <2>2, GatewayAssumption
    <3> HIDE DEF form
    <3>4. Carries(ApplyChain(p.use, b), L, form)
      BY ONLY <3>3, ChainCarries
    <3>5. MessagesOf(sent'.body) # <<>> => Follows(MessagesOf(sent'.body), L, form)
      BY <3>2, <3>4, CarriedFollows
    <3> QED
      BY <3>2, <3>5 DEF form
  <2> QED
    BY <1>3, <2>1, <2>2
<1>5. Sound(L)' /\ (sent.ok /\ Upstream # <<>> => Follows(Upstream, L, FormSent(sent.mode)))'
    BY <1>1, <1>2, <1>4 DEF Upstream, FormSent, Claude
<1> QED
    BY <1>5 DEF Heard

--------------------------------------------------------------------------------
(***************************************************************************)
(* Every step keeps it so.                                                 *)
(***************************************************************************)
LEMMA ClaudeIsHeard ==
    ASSUME TalkInv, ConversationInv, inbound \in Inbound, Messages
    PROVE  Heard'
<1>1. turn = "server" /\ Claude
    BY DEF Messages
<1>2. told.pending = <<>>
    BY <1>1 DEF TalkInv
<1>3. PICK p \in Providers, options \in ClaudeOptions :
         LET body == ClaudeBody(options)
         IN  Ask(p, IF AgentHandles(body) THEN ModifyRequest(body) ELSE body, options)
    BY DEF Messages
<1>4. PICK body : body = IF AgentHandles(ClaudeBody(options)) THEN ModifyRequest(ClaudeBody(options))
                         ELSE ClaudeBody(options)
    OBVIOUS
<1>5. Ask(p, body, options)
    BY <1>3, <1>4
<1>6. PICK L : L = body.messages
    OBVIOUS
<1>7. /\ Listed(L) /\ Sound(L) /\ \A i \in DOMAIN L : Fit(L[i]) /\ "content" \in DOMAIN L[i]
      /\ "contents" \notin DOMAIN body
      /\ "system" \in DOMAIN body => QuietSystem(body.system)
    BY <1>1, <1>2, <1>4, <1>6, ClaudeSound
<1>8. \A model, mode : Carries(PrepareAnthropicBodyForMode(body, model, mode), L, FormSent(mode))
  <2> SUFFICES ASSUME NEW model, NEW mode
               PROVE  Carries(PrepareAnthropicBodyForMode(body, model, mode), L, FormSent(mode))
    OBVIOUS
  <2>1. PICK form : form = FormSent(mode)
    OBVIOUS
  <2>2. form = IF mode = "OpenAiChat" THEN "chat" ELSE "anthropic"
    BY <1>1, <2>1 DEF FormSent
  <2>3. Carries(PrepareAnthropicBodyForMode(body, model, mode), L, form)
    BY ONLY <1>6, <1>7, <2>2, ClaudePreparedCarries
  <2> QED
    BY <2>1, <2>3
<1> QED
    BY <1>1, <1>5, <1>7, <1>8, AskedIsHeard

LEMMA CodexIsHeard ==
    ASSUME TalkInv, ConversationInv, inbound \in Inbound, Responses
    PROVE  Heard'
<1>1. turn = "server" /\ ~Claude
    BY DEF Responses
<1>2. told.pending = <<>>
    BY <1>1 DEF TalkInv
<1>3. PICK p \in Providers, options \in CodexOptions :
         /\ options.form = "text" => told = [Told EXCEPT !.words = 1]
         /\ Ask(p, CodexBody(options), options)
    BY DEF Responses
<1>4. PICK body : body = CodexBody(options)
    OBVIOUS
<1>5. Ask(p, body, options)
    BY <1>3, <1>4
<1> DEFINE asked == Drop(options, {"form"})
<1>6. {"input", "messages", "contents", "prompt"} \cap DOMAIN asked = {}
    BY GatewayAssumption DEF Drop, Restrict
<1>7. PICK L : L = messages
    OBVIOUS
<1>8. Sound(L) /\ Listed(L) /\ \A i \in DOMAIN L : Fit(L[i]) /\ InForm(L[i], "responses")
    BY <1>1, <1>2, <1>7, CodexSound DEF TalkInv, OfClient, ConversationInv, MessagesOK
<1>0. \A mode : FormSent(mode) = "responses"
    BY <1>1 DEF FormSent
<1> HIDE DEF asked
<1>9. CASE options.form = "items" \/ options.form = "messages"
  <2>1. /\ {"contents", "prompt"} \cap DOMAIN body = {}
        /\ \/ "messages" \in DOMAIN body /\ body.messages = L /\ "input" \notin DOMAIN body
           \/ "input" \in DOMAIN body /\ body.input = [items |-> L] /\ "messages" \notin DOMAIN body
    <3>1. CASE options.form = "items"
      <4>1. body = Put(asked, "input", [items |-> L])
        BY <1>4, <1>7, <3>1 DEF CodexBody, asked
      <4> QED
        BY <1>6, <4>1 DEF Put, Joined
    <3>2. CASE options.form = "messages"
      <4>1. body = Put(asked, "messages", L)
        BY <1>4, <1>7, <3>2 DEF CodexBody, asked
      <4> QED
        BY <1>6, <4>1 DEF Put, Joined
    <3> QED
      BY <1>9, <3>1, <3>2
  <2>2. \A model, mode : Carries(PrepareResponsesBodyForMode(body, model, mode), L, "responses")
    BY ONLY <1>8, <2>1, CodexPreparedCarries
  <2> QED
    BY <1>0, <1>1, <1>5, <1>8, <2>2, AskedIsHeard
<1>10. CASE options.form = "text"
  <2> DEFINE words == <<Word("said", 1)>>
  <2>1. PICK L2 : L2 = <<[role |-> "user", content |-> Text(<<Word("said", 1)>>)]>>
    OBVIOUS
  <2>2. told = [Told EXCEPT !.words = 1]
    BY <1>3, <1>10
  <2>3. Sound(L2)
    BY <1>1, <2>1, <2>2, CodexTextSound
  <2>4. body = Put(asked, "input", Text(words))
    BY <1>4, <1>10 DEF CodexBody, asked
  <2>5. L2 = <<[role |-> "user", content |-> Text(words)]>>
    BY <2>1
  <2> HIDE DEF words
  <2>6. {"messages", "contents", "prompt"} \cap DOMAIN body = {} /\ "input" \in DOMAIN body /\ body.input = Text(words)
    BY <1>6, <2>4 DEF Put, Joined
  <2>7. \A model, mode : Carries(PrepareResponsesBodyForMode(body, model, mode), L2, "responses")
    BY ONLY <2>5, <2>6, TextPreparedCarries
  <2> QED
    BY <1>0, <1>1, <1>5, <2>3, <2>7, AskedIsHeard
<1>11. CASE options.form \notin {"items", "messages", "text"}
  <2>1. body = asked
    BY <1>4, <1>11 DEF CodexBody, asked
  <2>2. \A model : Carries(PrepareResponsesBodyForMode(body, model, "OpenAiResponses"), L, "responses")
    BY <1>6, <2>1, StatePreparedCarries
  <2>3. \A mode : mode # "OpenAiResponses" => NothingToSend(body, mode)
    BY <1>6, <2>1 DEF NothingToSend
  <2>4. \A model, mode : NothingToSend(body, mode) \/ Carries(PrepareResponsesBodyForMode(body, model, mode), L, "responses")
    BY <2>2, <2>3
  <2> QED
    BY <1>0, <1>1, <1>5, <1>8, <2>4, AskedIsHeard
<1> QED
    BY <1>9, <1>10, <1>11

HeardInv == ProtocolInv /\ ConversationInv /\ TalkInv /\ ContentArrives /\ CallsArePaired

LEMMA HeardStep == HeardInv /\ [ExchangeNext]_<<vars, streamVars>> => HeardInv'
<1> SUFFICES ASSUME HeardInv, [ExchangeNext]_<<vars, streamVars>>
             PROVE  HeardInv'
    OBVIOUS
<1>0. ProtocolInv /\ ConversationInv /\ TalkInv /\ inbound \in Inbound
    BY DEF HeardInv, ProtocolInv
<1>1. ProtocolInv' /\ ConversationInv' /\ TalkInv'
    BY <1>0, ProtocolStep, ConversationStep, TalkStep
<1>2. CASE sent' = NoRequest
    BY <1>1, <1>2 DEF HeardInv, ContentArrives, CallsArePaired, NoRequest
<1>3. CASE UserSays \/ ClientAnswers \/ ProviderSays \/ ProviderCalls \/ StreamBegins
    BY <1>2, <1>3 DEF UserSays, ClientAnswers, ProviderSays, ProviderCalls, StreamBegins
<1>4. CASE Heard'
  <2>1. ContentArrives' /\ CallsArePaired'
    BY <1>4, HeardIsAll, PTL
  <2> QED
    BY <1>1, <2>1 DEF HeardInv
<1>5. CASE Messages
    BY <1>0, <1>4, <1>5, ClaudeIsHeard
<1>6. CASE Responses
    BY <1>0, <1>4, <1>6, CodexIsHeard
<1>7. CASE UNCHANGED vars
  <2>1. Upstream' = Upstream
    BY <1>7 DEF vars, Upstream
  <2> QED
    BY <1>1, <1>7, <2>1 DEF vars, HeardInv, ContentArrives, CallsArePaired, Claude
<1> QED
    BY <1>3, <1>5, <1>6, <1>7 DEF ExchangeNext, Next

LEMMA HeardFirst == ExchangeInit => HeardInv
<1>1. Listed(<<>>)
    BY EmptyIsListed
<1>2. ExchangeInit => ProtocolInv /\ ConversationInv
    BY <1>1 DEF ExchangeInit, Init, ProtocolInv, StreamsAreUnderstood, NoRequest, ConversationInv, MessagesOK, ToldType, Told
<1>3. ExchangeInit => TalkInv
    BY NoTalkIsPlain DEF ExchangeInit, Init
<1>4. ExchangeInit => ContentArrives /\ CallsArePaired
    BY DEF ExchangeInit, Init, NoRequest, ContentArrives, CallsArePaired
<1> QED
    BY <1>2, <1>3, <1>4 DEF HeardInv

\* What a client has said reaches the provider, for conversations of any length, any protocol
\* and any chain of transformers: every word once and in order, and every picture or the text
\* with its number (build_upstream_request, the transformers, ImageAgent::modify_request).
THEOREM ContentIsDelivered == ExchangeSpec => []ContentArrives
<1>1. HeardInv => ContentArrives
    BY DEF HeardInv
<1> QED
    BY <1>1, HeardFirst, HeardStep, PTL DEF ExchangeSpec

\* In the form of its own protocol a provider sees, where the code converts, the calls it made,
\* all and in order, and each answer after its call, of which chat providers get the first of
\* each message only; where it does not, no call and no answer at all
\* (map_tool_messages, message_to_openai_chat, normalize_messages_for_target).
THEOREM CallsStayPaired == ExchangeSpec => []CallsArePaired
<1>1. HeardInv => CallsArePaired
    BY DEF HeardInv
<1> QED
    BY <1>1, HeardFirst, HeardStep, PTL DEF ExchangeSpec

================================================================================
