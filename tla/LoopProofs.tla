----------------------------- MODULE LoopProofs -----------------------------
(***************************************************************************)
(* Proofs about PromptLoop and MessageLog, for any requests, kinds of      *)
(* replies, tail turns, cancels and restarts: the stored log stays in      *)
(* order and a scan finds a user message in it; a prompt whose run ended   *)
(* normally was read by a model, unless it raced a turn or stayed in a     *)
(* retained tail; the subtask of a message is executed once; and nothing   *)
(* that was said leaves the context before a summary was made from it.     *)
(***************************************************************************)
EXTENDS PromptLoop, SequenceTheorems, WellFoundedInduction, FiniteSetTheorems, TLAPS

-----------------------------------------------------------------------------
(* Sets of numbers, and the places that the operators on sequences find *)

\* A nonempty set of numbers has a smallest one: the intervals below them are
\* finite, and strict inclusion of finite sets is well-founded.
LEMMA MinExists ==
    ASSUME NEW T \in SUBSET Nat, T # {}
    PROVE  \E x \in T : \A y \in T : x <= y
<1> DEFINE Below(n) == 1 .. n
           Family == {Below(n) : n \in T}
           Subs == FiniteSubsetsOf(Nat)
<1>1. \A n \in Nat : Below(n) \in Subs
  BY FS_Interval DEF FiniteSubsetsOf
<1>2. Family \subseteq Subs /\ Family # {}
  BY <1>1
<1>3. \E x \in Family : \A y \in Family : ~ (<<y, x>> \in StrictSubsetOrdering(Nat))
  <2> HIDE DEF Family
  <2> QED  BY <1>2, FS_StrictSubsetOrderingWellFounded, WFMin
<1>4. PICK m \in T : \A n \in T : ~ (<<Below(n), Below(m)>> \in StrictSubsetOrdering(Nat))
  BY <1>3
<1>5. ASSUME NEW n \in T, n < m PROVE <<Below(n), Below(m)>> \in StrictSubsetOrdering(Nat)
  <2>1. Below(n) \subseteq Below(m) /\ m \in Below(m) /\ m \notin Below(n)
    BY <1>5
  <2>2. \A A, B \in SUBSET Nat : A \subseteq B /\ A # B => <<A, B>> \in StrictSubsetOrdering(Nat)
    BY DEF StrictSubsetOrdering
  <2>3. Below(n) \in SUBSET Nat /\ Below(m) \in SUBSET Nat /\ Below(n) # Below(m)
    BY <2>1
  <2> HIDE DEF Below
  <2> QED  BY <2>1, <2>2, <2>3
<1>6. \A n \in T : ~ (n < m)
  BY <1>4, <1>5
<1> QED  BY <1>6

\* A nonempty set of numbers below a bound has a largest one.
LEMMA MaxExists ==
    ASSUME NEW T \in SUBSET Nat, T # {}, NEW n \in Nat, \A x \in T : x <= n
    PROVE  \E x \in T : \A y \in T : x >= y
<1> DEFINE U == {n - x : x \in T}
<1>0. \A x \in T : n - x \in Nat
  OBVIOUS
<1>1. U \in SUBSET Nat /\ U # {}
  BY <1>0
<1>2. PICK u \in U : \A v \in U : u <= v
  <2> HIDE DEF U
  <2> QED  BY <1>1, MinExists
<1>3. PICK x \in T : u = n - x
  BY <1>2
<1>4. \A y \in T : n - x <= n - y
  BY <1>2, <1>3
<1> QED  BY <1>4

\* Min of the community modules is the smallest number of a set.
LEMMA MinIs ==
    ASSUME NEW T \in SUBSET Nat, T # {}
    PROVE  Min(T) \in T /\ \A y \in T : Min(T) <= y
  BY MinExists DEF Min

\* Max of the community modules is the largest number of a bounded set.
LEMMA MaxIs ==
    ASSUME NEW T \in SUBSET Nat, T # {}, NEW n \in Nat, \A x \in T : x <= n
    PROVE  Max(T) \in T /\ \A y \in T : Max(T) >= y
  BY MaxExists DEF Max

-----------------------------------------------------------------------------
(* What the scans of MessageLog find *)

\* The first place in from .. to with a property, and the last one; T are the places.
LEMMA FirstPlace ==
    ASSUME NEW n \in Nat, NEW T \in SUBSET (0 .. n), NEW p, p = IF T # {} THEN Min(T) ELSE 0
    PROVE  /\ p \in 0 .. n
           /\ T = {} => p = 0
           /\ T # {} => p \in T /\ \A j \in T : p <= j
<1>1. CASE T = {}
  BY <1>1
<1>2. CASE T # {}
  <2>1. T \in SUBSET Nat
    OBVIOUS
  <2>2. p \in T /\ \A j \in T : p <= j
    BY <1>2, <2>1, MinIs
  <2> QED  BY <1>2, <2>2
<1> QED  BY <1>1, <1>2

\* The same for the last place.
LEMMA LastPlace ==
    ASSUME NEW n \in Nat, NEW T \in SUBSET (0 .. n), NEW p, p = IF T # {} THEN Max(T) ELSE 0
    PROVE  /\ p \in 0 .. n
           /\ T = {} => p = 0
           /\ T # {} => p \in T /\ \A j \in T : p >= j
<1>1. CASE T = {}
  BY <1>1
<1>2. CASE T # {}
  <2>1. T \in SUBSET Nat /\ \A x \in T : x <= n
    OBVIOUS
  <2>2. p \in T /\ \A j \in T : p >= j
    BY <1>2, <2>1, MaxIs
  <2> QED  BY <1>2, <2>2
<1> QED  BY <1>1, <1>2

\* IndexOf is the first place of an id in a log, or 0.
LEMMA IndexOfIs ==
    ASSUME NEW S, NEW s \in Seq(S), NEW i
    PROVE  /\ IndexOf(s, i) \in 0 .. Len(s)
           /\ IndexOf(s, i) # 0 => s[IndexOf(s, i)].id = i
           /\ \A j \in 1 .. Len(s) : s[j].id = i => IndexOf(s, i) # 0 /\ IndexOf(s, i) <= j
<1> DEFINE T == {j \in 1 .. Len(s) : s[j].id = i}
<1>1. Len(s) \in Nat
  OBVIOUS
<1>2. IndexOf(s, i) = IF T # {} THEN Min(T) ELSE 0
  BY DEF IndexOf, SelectInSeq
<1>3. T \in SUBSET (0 .. Len(s))
  OBVIOUS
<1>4. /\ IndexOf(s, i) \in 0 .. Len(s)
      /\ T = {} => IndexOf(s, i) = 0
      /\ T # {} => IndexOf(s, i) \in T /\ \A j \in T : IndexOf(s, i) <= j
  <2> HIDE DEF T
  <2> QED  BY <1>1, <1>2, <1>3, FirstPlace
<1> QED  BY <1>1, <1>4

\* LastUser is the last place of a user message in a view, or 0.
LEMMA LastUserIs ==
    ASSUME NEW S, NEW s \in Seq(S)
    PROVE  /\ LastUser(s) \in 0 .. Len(s)
           /\ LastUser(s) # 0 => IsUser(s[LastUser(s)])
           /\ \A j \in 1 .. Len(s) : IsUser(s[j]) => LastUser(s) # 0 /\ j <= LastUser(s)
<1> DEFINE T == {j \in 1 .. Len(s) : IsUser(s[j])}
<1>1. LastUser(s) = IF T # {} THEN Max(T) ELSE 0
  BY DEF LastUser, SelectLastInSeq
<1>2. T \in SUBSET (0 .. Len(s)) /\ Len(s) \in Nat
  OBVIOUS
<1>3. /\ LastUser(s) \in 0 .. Len(s)
      /\ T = {} => LastUser(s) = 0
      /\ T # {} => LastUser(s) \in T /\ \A j \in T : LastUser(s) >= j
  <2> HIDE DEF T
  <2> QED  BY <1>1, <1>2, LastPlace
<1> QED  BY <1>2, <1>3

\* LastAssistant is the place of an assistant message, or 0.
LEMMA LastAssistantIs ==
    ASSUME NEW S, NEW s \in Seq(S)
    PROVE  /\ LastAssistant(s) \in 0 .. Len(s)
           /\ LastAssistant(s) # 0 => ~IsUser(s[LastAssistant(s)])
<1> DEFINE T == {j \in 1 .. Len(s) : ~IsUser(s[j])}
<1>1. LastAssistant(s) = IF T # {} THEN Max(T) ELSE 0
  BY DEF LastAssistant, SelectLastInSeq
<1>2. T \in SUBSET (0 .. Len(s)) /\ Len(s) \in Nat
  OBVIOUS
<1>3. /\ LastAssistant(s) \in 0 .. Len(s)
      /\ T = {} => LastAssistant(s) = 0
      /\ T # {} => LastAssistant(s) \in T
  <2> HIDE DEF T
  <2> QED  BY <1>1, <1>2, LastPlace
<1> QED  BY <1>2, <1>3

\* No finished assistant message is behind LastFinished.
LEMMA LastFinishedIs ==
    ASSUME NEW S, NEW s \in Seq(S)
    PROVE  /\ LastFinished(s) \in 0 .. Len(s)
           /\ \A j \in 1 .. Len(s) : ~IsUser(s[j]) /\ s[j].finish # "none" => j <= LastFinished(s)
<1> DEFINE T == {j \in 1 .. Len(s) : ~IsUser(s[j]) /\ s[j].finish # "none"}
<1>1. LastFinished(s) = IF T # {} THEN Max(T) ELSE 0
  BY DEF LastFinished, SelectLastInSeq
<1>2. T \in SUBSET (0 .. Len(s)) /\ Len(s) \in Nat
  OBVIOUS
<1>3. /\ LastFinished(s) \in 0 .. Len(s)
      /\ T # {} => \A j \in T : LastFinished(s) >= j
  <2> HIDE DEF T
  <2> QED  BY <1>1, <1>2, LastPlace
<1> QED  BY <1>2, <1>3

\* Task is the place of a compaction or a subtask behind the last finished message.
LEMMA TaskIs ==
    ASSUME NEW S, NEW s \in Seq(S)
    PROVE  /\ Task(s) \in 0 .. Len(s)
           /\ Task(s) # 0 => /\ LastFinished(s) < Task(s)
                             /\ HasPart(s[Task(s)], "compaction") \/ HasPart(s[Task(s)], "subtask")
<1> DEFINE from == LastFinished(s) + 1
           T == {j \in from .. Len(s) : HasPart(s[j], "compaction") \/ HasPart(s[j], "subtask")}
<1>1. Task(s) = IF T # {} THEN Min(T) ELSE 0
  BY DEF Task, SelectInSubSeq
<1>2. T \in SUBSET (0 .. Len(s)) /\ Len(s) \in Nat /\ LastFinished(s) \in Nat
  BY LastFinishedIs
<1>3. /\ Task(s) \in 0 .. Len(s)
      /\ T = {} => Task(s) = 0
      /\ T # {} => Task(s) \in T
  <2> HIDE DEF T
  <2> QED  BY <1>1, <1>2, FirstPlace
<1> QED  BY <1>2, <1>3

-----------------------------------------------------------------------------
(* What storing a message does to a log *)

\* A log in the order of time.
Ordered(s) == \A i, j \in DOMAIN s : i < j => s[i].time < s[j].time

\* Insert keeps a log in the order of time, and adds one message to it.
LEMMA InsertIs ==
    ASSUME NEW S, NEW s \in Seq(S), NEW m \in S, Ordered(s),
           \A x \in S : x.time \in Nat, \A x \in Range(s) : x.time # m.time
    PROVE  /\ Insert(s, m) \in Seq(S)
           /\ Ordered(Insert(s, m))
           /\ Range(Insert(s, m)) = Range(s) \cup {m}
<1> DEFINE T == {j \in 1 .. Len(s) : s[j].time < m.time}
           p == IF T # {} THEN Max(T) ELSE 0
           t == Insert(s, m)
<1>1. Len(s) \in Nat /\ \A j \in 1 .. Len(s) : s[j] \in S /\ s[j].time \in Nat /\ s[j].time # m.time
  BY DEF Range
<1>2. p \in 0 .. Len(s) /\ (T = {} => p = 0) /\ (T # {} => p \in T) /\ \A j \in T : p >= j
  <2>1. T \in SUBSET (0 .. Len(s))
    OBVIOUS
  <2> HIDE DEF T
  <2> QED  BY <1>1, <2>1, LastPlace
<1>3. \A j \in 1 .. Len(s) : (j <= p => s[j].time < m.time) /\ (p < j => m.time < s[j].time)
  <2> TAKE j \in 1 .. Len(s)
  <2>0. \A k \in 1 .. Len(s) : k \in T <=> s[k].time < m.time
    OBVIOUS
  <2> HIDE DEF p, T
  <2>1. ASSUME p < j PROVE m.time < s[j].time
    <3>1. j \notin T
      BY <1>2, <2>1
    <3> QED  BY <1>1, <2>0, <3>1
  <2>2. ASSUME j <= p PROVE s[j].time < m.time
    <3>1. p \in T
      BY <1>2, <2>2
    <3>2. j = p \/ s[j].time < s[p].time
      BY <1>2, <2>2, <3>1 DEF Ordered
    <3>3. s[p].time < m.time /\ s[p].time \in Nat /\ m.time \in Nat /\ s[j].time \in Nat
      BY <1>1, <1>2, <2>0, <2>2, <3>1
    <3> QED  BY <3>2, <3>3
  <2> QED  BY <2>1, <2>2
<1>4. t = InsertAt(s, 1 + p, m)
  BY DEF Insert, SelectLastInSeq
<1> HIDE DEF p, t, T
<1>4a. t = (SubSeq(s, 1, p) \o <<m>>) \o SubSeq(s, p + 1, Len(s))
  <2>1. (1 + p) - 1 = p /\ 1 + p = p + 1
    BY <1>2
  <2> QED  BY <1>4, <2>1 DEF InsertAt
<1>5. /\ SubSeq(s, 1, p) \in Seq(S) /\ Len(SubSeq(s, 1, p)) = p
      /\ \A j \in 1 .. p : SubSeq(s, 1, p)[j] = s[j]
  BY <1>1, <1>2
<1>6. /\ SubSeq(s, p + 1, Len(s)) \in Seq(S) /\ Len(SubSeq(s, p + 1, Len(s))) = Len(s) - p
      /\ \A j \in 1 .. Len(s) - p : SubSeq(s, p + 1, Len(s))[j] = s[p + j]
  BY <1>1, <1>2
<1>7. /\ t \in Seq(S) /\ Len(t) = Len(s) + 1
      /\ \A j \in 1 .. Len(t) : t[j] = IF j <= p THEN s[j] ELSE IF j = p + 1 THEN m ELSE s[j - 1]
  <2> DEFINE a == SubSeq(s, 1, p)
             b == SubSeq(s, p + 1, Len(s))
  <2>1. /\ a \o <<m>> \in Seq(S) /\ Len(a \o <<m>>) = p + 1
        /\ \A j \in 1 .. p + 1 : (a \o <<m>>)[j] = IF j <= p THEN s[j] ELSE m
    <3> HIDE DEF a
    <3>1. a \in Seq(S) /\ Len(a) = p /\ \A j \in 1 .. p : a[j] = s[j]
      BY <1>5 DEF a
    <3> QED  BY <1>2, <3>1
  <2> DEFINE c == a \o <<m>>
  <2> HIDE DEF c
  <2>2. c \in Seq(S) /\ Len(c) = p + 1 /\ \A j \in 1 .. p + 1 : c[j] = IF j <= p THEN s[j] ELSE m
    BY <2>1 DEF c
  <2>3. b \in Seq(S) /\ Len(b) = Len(s) - p /\ \A j \in 1 .. Len(s) - p : b[j] = s[p + j]
    BY <1>6
  <2>4. t = c \o b
    BY <1>4a DEF c
  <2> HIDE DEF b
  <2>5. t \in Seq(S) /\ Len(t) = Len(s) + 1
    <3>1. c \o b \in Seq(S) /\ Len(c \o b) = Len(c) + Len(b)
      BY <2>2, <2>3, ConcatProperties
    <3> QED  BY <1>1, <1>2, <2>2, <2>3, <2>4, <3>1
  <2>6. \A j \in 1 .. Len(t) : t[j] = IF j <= p + 1 THEN c[j] ELSE b[j - (p + 1)]
    <3>1. \A j \in 1 .. Len(c) + Len(b) : (c \o b)[j] = IF j <= Len(c) THEN c[j] ELSE b[j - Len(c)]
      BY <2>2, <2>3, ConcatProperties
    <3> QED  BY <1>1, <1>2, <2>2, <2>3, <2>4, <2>5, <3>1
  <2>7. ASSUME NEW j \in 1 .. Len(t)
        PROVE  t[j] = IF j <= p THEN s[j] ELSE IF j = p + 1 THEN m ELSE s[j - 1]
    <3>1. CASE j <= p + 1
      BY <1>2, <2>2, <2>6, <3>1
    <3>2. CASE j > p + 1
      <4>1. j - (p + 1) \in 1 .. Len(s) - p /\ p + (j - (p + 1)) = j - 1
        BY <1>1, <1>2, <2>5, <3>2
      <4>2. t[j] = b[j - (p + 1)]
        BY <1>2, <2>6, <3>2
      <4>3. b[j - (p + 1)] = s[p + (j - (p + 1))]
        BY <2>3, <4>1
      <4> QED  BY <1>2, <3>2, <4>1, <4>2, <4>3
    <3> QED  BY <1>2, <3>1, <3>2
  <2> QED  BY <2>5, <2>7
<1>8. Ordered(t)
  <2> SUFFICES ASSUME NEW i \in 1 .. Len(s) + 1, NEW j \in 1 .. Len(s) + 1, i < j
               PROVE  t[i].time < t[j].time
    BY <1>1, <1>7 DEF Ordered
  <2>0. t[i] \in S /\ t[j] \in S
    BY <1>1, <1>7
  <2>1. \A a, b \in 1 .. Len(s) : a < b => s[a].time < s[b].time
    BY DEF Ordered
  <2>2. CASE j <= p
    BY <1>1, <1>2, <1>7, <2>1, <2>2, SMTT(30)
  <2>3. CASE j = p + 1
    <3>1. i \in 1 .. Len(s) /\ t[i] = s[i] /\ i <= p
      BY <1>1, <1>2, <1>7, <2>3
    <3>2. t[j] = m
      BY <1>2, <1>7, <2>3
    <3> QED  BY <1>3, <3>1, <3>2
  <2>4. CASE j > p + 1 /\ i <= p
    <3>1. j - 1 \in 1 .. Len(s) /\ i \in 1 .. Len(s) /\ i < j - 1
      BY <1>1, <1>2, <2>4
    <3>2. t[i] = s[i] /\ t[j] = s[j - 1]
      BY <1>1, <1>2, <1>7, <2>4
    <3> QED  BY <2>1, <3>1, <3>2
  <2>5. CASE j > p + 1 /\ i = p + 1
    <3>1. j - 1 \in 1 .. Len(s) /\ p < j - 1
      BY <1>1, <1>2, <2>5
    <3>2. t[i] = m /\ t[j] = s[j - 1]
      BY <1>1, <1>2, <1>7, <2>5
    <3> QED  BY <1>3, <3>1, <3>2
  <2>6. CASE j > p + 1 /\ i > p + 1
    <3>1. j - 1 \in 1 .. Len(s) /\ i - 1 \in 1 .. Len(s) /\ i - 1 < j - 1
      BY <1>1, <1>2, <2>6
    <3>2. t[i] = s[i - 1] /\ t[j] = s[j - 1]
      BY <1>1, <1>2, <1>7, <2>6
    <3> QED  BY <2>1, <3>1, <3>2
  <2> QED  BY <1>2, <2>2, <2>3, <2>4, <2>5, <2>6
<1>9. Range(t) = Range(s) \cup {m}
  <2>1. ASSUME NEW j \in 1 .. Len(t) PROVE t[j] \in Range(s) \cup {m}
    <3>2. CASE j <= p
      <4>1. j \in 1 .. Len(s) /\ t[j] = s[j]
        BY <1>1, <1>2, <1>7, <3>2
      <4> QED  BY <4>1 DEF Range
    <3>3. CASE j = p + 1
      <4>1. t[j] = m
        BY <1>2, <1>7, <3>3
      <4> QED  BY <4>1
    <3>4. CASE j > p + 1
      <4>1. j - 1 \in 1 .. Len(s) /\ t[j] = s[j - 1]
        BY <1>1, <1>2, <1>7, <3>4
      <4> QED  BY <4>1 DEF Range
    <3> QED  BY <1>2, <3>2, <3>3, <3>4
  <2>2. m = t[p + 1] /\ p + 1 \in 1 .. Len(t)
    BY <1>1, <1>2, <1>7
  <2>3. ASSUME NEW j \in 1 .. Len(s) PROVE \E i \in 1 .. Len(t) : t[i] = s[j]
    <3>1. CASE j <= p
      BY <1>1, <1>2, <1>7, <3>1
    <3>2. CASE j > p
      <4>1. j + 1 \in 1 .. Len(t) /\ j + 1 > p + 1 /\ (j + 1) - 1 = j
        BY <1>1, <1>2, <1>7, <3>2
      <4>2. t[j + 1] = s[j]
        BY <1>2, <1>7, <4>1
      <4> QED  BY <4>1, <4>2
    <3> QED  BY <1>2, <3>1, <3>2
  <2>4. DOMAIN t = 1 .. Len(t) /\ DOMAIN s = 1 .. Len(s)
    BY <1>7
  <2>5. Range(t) \subseteq Range(s) \cup {m}
    BY <2>1, <2>4 DEF Range
  <2>6. m \in Range(t)
    BY <2>2, <2>4 DEF Range
  <2>7. Range(s) \subseteq Range(t)
    BY <2>3, <2>4 DEF Range
  <2> QED  BY <2>5, <2>6, <2>7
<1> QED  BY <1>7, <1>8, <1>9 DEF t

\* The messages there can be.
Messages ==
    [id : Nat, time : Nat, kind : UserKinds \cup AssistantKinds, ready : BOOLEAN,
     text : SUBSET Requests, tail : Nat, auto : BOOLEAN, overflow : BOOLEAN, of : Nat, parent : Nat,
     finish : {"none", "stop", "tool-calls", "error"}, tools : BOOLEAN, error : BOOLEAN, full : BOOLEAN]

\* Update replaces the one message of its id, and keeps the order of a log.
LEMMA ChangeIs ==
    ASSUME NEW s \in Seq(Messages), NEW x \in Range(s), NEW m \in Messages,
           Ordered(s), \A y, z \in Range(s) : y.id = z.id => y = z, m.time = x.time
    PROVE  /\ IndexOf(s, x.id) \in DOMAIN s /\ IndexOf(s, x.id) # 0 /\ s[IndexOf(s, x.id)] = x
           /\ Update(s, x.id, m) \in Seq(Messages)
           /\ Ordered(Update(s, x.id, m))
           /\ Range(Update(s, x.id, m)) = (Range(s) \ {x}) \cup {m}
<1>0. \A y \in Messages : y.time \in Nat
  BY DEF Messages
<1> DEFINE i == IndexOf(s, x.id)
           t == [s EXCEPT ![i] = m]
<1>1. PICK j \in 1 .. Len(s) : s[j] = x
  BY DEF Range
<1>2. i \in 1 .. Len(s) /\ s[i].id = x.id
  BY <1>1, IndexOfIs
<1>3. s[i] = x
  BY <1>2 DEF Range
<1> HIDE DEF i
<1>4. t \in Seq(Messages) /\ Len(t) = Len(s) /\ \A k \in 1 .. Len(s) : t[k] = IF k = i THEN m ELSE s[k]
  BY <1>2
<1> HIDE DEF t
<1>5. Ordered(t)
  <2>1. \A k \in 1 .. Len(s) : t[k].time = s[k].time
    BY <1>2, <1>3, <1>4
  <2>2. DOMAIN t = 1 .. Len(s) /\ DOMAIN s = 1 .. Len(s)
    BY <1>4
  <2> QED  BY <2>1, <2>2 DEF Ordered
<1>6. \A k \in 1 .. Len(s) : k # i => s[k] # x
  <2> TAKE k \in 1 .. Len(s)
  <2>1. s[k].time \in Nat /\ (k < i => s[k].time < s[i].time) /\ (i < k => s[i].time < s[k].time)
    BY <1>0, <1>2 DEF Ordered
  <2> QED  BY <1>2, <1>3, <2>1
<1>7. Range(t) = (Range(s) \ {x}) \cup {m}
  <2>1. DOMAIN t = 1 .. Len(s) /\ DOMAIN s = 1 .. Len(s)
    BY <1>4
  <2>2. Range(t) \subseteq (Range(s) \ {x}) \cup {m}
    BY <1>4, <1>6, <2>1 DEF Range
  <2>3. m \in Range(t)
    BY <1>2, <1>4, <2>1 DEF Range
  <2>4. Range(s) \ {x} \subseteq Range(t)
    BY <1>2, <1>3, <1>4, <2>1 DEF Range
  <2> QED  BY <2>2, <2>3, <2>4
<1>8. i \in DOMAIN s /\ i # 0
  BY <1>2
<1> QED  BY <1>3, <1>4, <1>5, <1>7, <1>8 DEF i, t, Update

-----------------------------------------------------------------------------
(* What a scan finds in a log *)

\* A compaction that recorded a tail.
HasTail(m) == HasPart(m, "compaction") /\ m.tail # 0

\* Reorder moves what is before place c, from place t, behind the summary at place s.
Moved(u, t, c, s) ==
    /\ t \in 1 .. Len(u) /\ c \in 1 .. Len(u) /\ s \in 1 .. Len(u) /\ t < c /\ c < s
    /\ HasTail(u[c]) /\ \A j \in 1 .. Len(u) : HasTail(u[j]) => j <= c
    /\ u[t].id = u[c].tail /\ u[s].kind = "summary" /\ u[s].parent = u[c].id
    /\ Reorder(u) = (SubSeq(u, c, s) \o SubSeq(u, t, c - 1)) \o SubSeq(u, s + 1, Len(u))

\* Reorder leaves a log as it is or moves a retained tail behind a summary.
LEMMA ReorderIs ==
    ASSUME NEW u \in Seq(Messages)
    PROVE  Reorder(u) = u \/ \E t, c, s \in 1 .. Len(u) : Moved(u, t, c, s)
<1> DEFINE C == {j \in 1 .. Len(u) : HasPart(u[j], "compaction") /\ u[j].tail # 0}
           c == IF C # {} THEN Max(C) ELSE 0
           F == {j \in c + 1 .. Len(u) : u[j].kind = "summary" /\ u[j].parent = u[c].id}
           s == IF c = 0 THEN 0 ELSE IF F # {} THEN Min(F) ELSE 0
           t == IF c = 0 THEN 0 ELSE IndexOf(u, u[c].tail)
<1>1. Len(u) \in Nat
  OBVIOUS
<1>2. c \in 0 .. Len(u) /\ (C # {} => c \in C) /\ (C = {} => c = 0) /\ \A j \in C : c >= j
  <2>1. C \in SUBSET (0 .. Len(u))
    OBVIOUS
  <2> HIDE DEF C
  <2> QED  BY <1>1, <2>1, LastPlace
<1>3. \A j \in 1 .. Len(u) : j \in C <=> HasTail(u[j])
  BY DEF HasTail
<1>4. Reorder(u) = IF 0 < t /\ t < c /\ c < s
                   THEN (SubSeq(u, c, s) \o SubSeq(u, t, c - 1)) \o SubSeq(u, s + 1, Len(u)) ELSE u
  BY DEF Reorder, SelectLastInSeq, SelectInSubSeq
<1> HIDE DEF c, C
<1>5. s \in 0 .. Len(u) /\ (s # 0 => s \in F)
  <2>1. F \in SUBSET (0 .. Len(u))
    BY <1>2
  <2>2. CASE c = 0
    BY <1>1, <2>2
  <2>3. CASE c # 0
    <3> HIDE DEF F
    <3>1. s = IF F # {} THEN Min(F) ELSE 0
      BY <2>3
    <3> HIDE DEF s
    <3>2. s \in 0 .. Len(u) /\ (F = {} => s = 0) /\ (F # {} => s \in F)
      BY <1>1, <2>1, <3>1, FirstPlace
    <3> QED  BY <3>2
  <2> QED  BY <2>2, <2>3
<1>6. t \in 0 .. Len(u) /\ (t # 0 => u[t].id = u[c].tail)
  <2>1. CASE c = 0
    BY <1>1, <2>1
  <2>2. CASE c # 0
    <3>1. PICK i : i = u[c].tail
      OBVIOUS
    <3>2. IndexOf(u, i) \in 0 .. Len(u) /\ (IndexOf(u, i) # 0 => u[IndexOf(u, i)].id = i)
      BY IndexOfIs
    <3> QED  BY <2>2, <3>1, <3>2
  <2> QED  BY <2>1, <2>2
<1>7. CASE 0 < t /\ t < c /\ c < s
  <2>1. s \in F /\ s \in 1 .. Len(u) /\ c \in 1 .. Len(u) /\ t \in 1 .. Len(u)
    BY <1>1, <1>2, <1>5, <1>6, <1>7
  <2>2. u[t].id = u[c].tail /\ u[s].kind = "summary" /\ u[s].parent = u[c].id
    BY <1>6, <1>7, <2>1
  <2>3. C # {} /\ c \in C
    BY <1>2, <2>1
  <2> HIDE DEF s, t, F
  <2>4. Moved(u, t, c, s)
    BY <1>2, <1>3, <1>4, <1>7, <2>1, <2>2, <2>3 DEF Moved
  <2> QED  BY <2>1, <2>4
<1>8. CASE ~(0 < t /\ t < c /\ c < s)
  BY <1>4, <1>8
<1> QED  BY <1>7, <1>8

\* Where Reorder has what is at a place of the reordered log.
From(t, c, s, i) ==
    IF i <= s - c + 1 THEN c + i - 1
    ELSE IF i <= s - t + 1 THEN i - (s - c + 1) + t - 1
    ELSE i + t - 1

\* No place from t on is lost.
LEMMA FromReaches ==
    ASSUME NEW n \in Nat, NEW t \in 1 .. n, NEW c \in 1 .. n, NEW s \in 1 .. n, t < c, c < s, NEW j \in t .. n
    PROVE  \E i \in 1 .. n - t + 1 : From(t, c, s, i) = j
<1>1. CASE j < c
  <2>1. j - t + (s - c + 1) + 1 \in 1 .. n - t + 1 /\ From(t, c, s, j - t + (s - c + 1) + 1) = j
    BY <1>1 DEF From
  <2> QED  BY <2>1
<1>2. CASE c <= j /\ j <= s
  <2>1. j - c + 1 \in 1 .. n - t + 1 /\ From(t, c, s, j - c + 1) = j
    BY <1>2 DEF From
  <2> QED  BY <2>1
<1>3. CASE s < j
  <2>1. j - t + 1 \in 1 .. n - t + 1 /\ From(t, c, s, j - t + 1) = j
    BY <1>3 DEF From
  <2> QED  BY <2>1
<1> QED  BY <1>1, <1>2, <1>3

\* What a moved log has at each place.
LEMMA MovedIs ==
    ASSUME NEW u \in Seq(Messages), NEW t, NEW c, NEW s, NEW v, Moved(u, t, c, s), v = Reorder(u)
    PROVE  /\ v \in Seq(Messages) /\ Len(v) = Len(u) - t + 1
           /\ \A i \in 1 .. Len(v) : v[i] = u[From(t, c, s, i)]
<1>1. /\ Len(u) \in Nat /\ \A j \in 1 .. Len(u) : u[j] \in Messages
      /\ t \in 1 .. Len(u) /\ c \in 1 .. Len(u) /\ s \in 1 .. Len(u) /\ t < c /\ c < s
  BY DEF Moved
<1> DEFINE a == SubSeq(u, c, s)
           b == SubSeq(u, t, c - 1)
           d == SubSeq(u, s + 1, Len(u))
<1>2. a \in Seq(Messages) /\ Len(a) = s - c + 1 /\ \A j \in 1 .. s - c + 1 : a[j] = u[c + j - 1]
  BY <1>1, SubSeqProperties
<1>3. b \in Seq(Messages) /\ Len(b) = c - t /\ \A j \in 1 .. c - t : b[j] = u[t + j - 1]
  <2>1. \A j \in t .. c - 1 : u[j] \in Messages
    BY <1>1
  <2>2. b \in Seq(Messages) /\ Len(b) = (c - 1) - t + 1 /\ \A j \in 1 .. (c - 1) - t + 1 : b[j] = u[t + j - 1]
    BY <1>1, <2>1, SubSeqProperties
  <2>3. (c - 1) - t + 1 = c - t
    BY <1>1
  <2> QED  BY <2>2, <2>3
<1>4. d \in Seq(Messages) /\ Len(d) = Len(u) - s /\ \A j \in 1 .. Len(u) - s : d[j] = u[s + j]
  <2>1. \A j \in s + 1 .. Len(u) : u[j] \in Messages
    BY <1>1
  <2> QED  BY <1>1, <2>1
<1>5. v = (a \o b) \o d
  BY DEF Moved
<1> HIDE DEF a, b, d
<1> DEFINE e == a \o b
<1>6. e \in Seq(Messages) /\ Len(e) = s - t + 1
      /\ \A i \in 1 .. Len(a) + Len(b) : e[i] = IF i <= Len(a) THEN a[i] ELSE b[i - Len(a)]
  <2>1. e \in Seq(Messages) /\ Len(e) = Len(a) + Len(b)
    BY <1>2, <1>3, ConcatProperties
  <2>2. \A i \in 1 .. Len(a) + Len(b) : e[i] = IF i <= Len(a) THEN a[i] ELSE b[i - Len(a)]
    BY <1>2, <1>3, ConcatProperties
  <2>3. Len(a) + Len(b) = s - t + 1
    BY <1>1, <1>2, <1>3
  <2> QED  BY <2>1, <2>2, <2>3
<1>7. v = e \o d
  BY <1>5
<1> HIDE DEF e
<1>8. v \in Seq(Messages) /\ Len(v) = Len(e) + Len(d)
      /\ \A i \in 1 .. Len(e) + Len(d) : v[i] = IF i <= Len(e) THEN e[i] ELSE d[i - Len(e)]
  <2>1. v \in Seq(Messages) /\ Len(v) = Len(e) + Len(d)
    BY <1>4, <1>6, <1>7, ConcatProperties, ZenonT(60)
  <2>2. \A i \in 1 .. Len(e) + Len(d) : v[i] = IF i <= Len(e) THEN e[i] ELSE d[i - Len(e)]
    BY <1>4, <1>6, <1>7, ConcatProperties
  <2> QED  BY <2>1, <2>2
<1>9. Len(v) = Len(u) - t + 1
  BY <1>1, <1>4, <1>6, <1>8
<1>10. ASSUME NEW i \in 1 .. Len(v) PROVE v[i] = u[From(t, c, s, i)]
  <2>1. CASE i <= s - c + 1
    <3>1. v[i] = e[i]
      BY <1>1, <1>4, <1>6, <1>8, <2>1, SMTT(30)
    <3>2. e[i] = a[i]
      BY <1>1, <1>2, <1>3, <1>6, <2>1, SMTT(30)
    <3>3. a[i] = u[c + i - 1]
      BY <1>1, <1>2, <2>1
    <3> QED  BY <2>1, <3>1, <3>2, <3>3 DEF From
  <2>2. CASE ~(i <= s - c + 1) /\ i <= s - t + 1
    <3>1. v[i] = e[i] /\ e[i] = b[i - (s - c + 1)]
      BY <1>1, <1>2, <1>3, <1>4, <1>6, <1>8, <2>2, SMTT(30)
    <3>2. i - (s - c + 1) \in 1 .. c - t
      BY <1>1, <2>2
    <3>3. b[i - (s - c + 1)] = u[t + (i - (s - c + 1)) - 1]
      BY <1>3, <3>2
    <3>4. t + (i - (s - c + 1)) - 1 = i - (s - c + 1) + t - 1
      BY <1>1
    <3> QED  BY <2>2, <3>1, <3>3, <3>4 DEF From
  <2>3. CASE ~(i <= s - t + 1)
    <3>1. v[i] = d[i - (s - t + 1)]
      BY <1>1, <1>4, <1>6, <1>8, <2>3
    <3>2. i - (s - t + 1) \in 1 .. Len(u) - s
      BY <1>1, <1>9, <2>3
    <3>3. d[i - (s - t + 1)] = u[s + (i - (s - t + 1))]
      BY <1>4, <3>2
    <3>4. s + (i - (s - t + 1)) = i + t - 1 /\ ~(i <= s - c + 1)
      BY <1>1, <2>3
    <3> QED  BY <2>3, <3>1, <3>3, <3>4 DEF From
  <2> QED  BY <2>1, <2>2, <2>3
<1> QED  BY <1>8, <1>9, <1>10

\* v shows the places of s from lo on, each once, in the order P. Where P goes back
\* to before the last compaction with a tail, it was at that compaction or between it
\* and a summary of it, and both went first.
Places(v, s, lo, P) ==
    /\ lo \in 1 .. Len(s) + 1
    /\ P \in [1 .. Len(v) -> lo .. Len(s)]
    /\ \A i \in 1 .. Len(v) : v[i] = s[P[i]]
    /\ \A i, k \in 1 .. Len(v) : P[i] = P[k] => i = k
    /\ \A j \in lo .. Len(s) : \E i \in 1 .. Len(v) : P[i] = j
    /\ \A i, k \in 1 .. Len(v) : i < k /\ P[k] < P[i] => \E c, e \in lo .. Len(s) :
          /\ HasTail(s[c]) /\ \A j \in lo .. Len(s) : HasTail(s[j]) => j <= c
          /\ s[e].kind = "summary" /\ s[e].parent = s[c].id
          /\ c <= P[i] /\ P[i] <= e /\ P[k] < c
          /\ \E x, y \in 1 .. Len(v) : x < k /\ y < k /\ P[x] = e /\ P[y] = c

\* Reorder shows every place from some place on, and keeps a user message.
LEMMA ReorderPlaces ==
    ASSUME NEW u \in Seq(Messages), NEW v, v = Reorder(u)
    PROVE  /\ v \in Seq(Messages) /\ \E lo, P : Places(v, u, lo, P)
           /\ (\E j \in 1 .. Len(u) : IsUser(u[j])) => \E i \in 1 .. Len(v) : IsUser(v[i])
<1>0. Len(u) \in Nat
  OBVIOUS
<1>1. CASE v = u
  <2> DEFINE P == [i \in 1 .. Len(u) |-> i]
  <2>1. Places(v, u, 1, P)
    BY <1>0, <1>1 DEF Places
  <2> QED  BY <1>1, <2>1
<1>2. ASSUME NEW t \in 1 .. Len(u), NEW c \in 1 .. Len(u), NEW s \in 1 .. Len(u), Moved(u, t, c, s)
      PROVE  v \in Seq(Messages) /\ (\E lo, P : Places(v, u, lo, P)) /\ \E i \in 1 .. Len(v) : IsUser(v[i])
  <2>0. Moved(u, t, c, s)
    BY <1>2
  <2>1a. v \in Seq(Messages)
    BY <2>0, MovedIs
  <2>1b. Len(v) = Len(u) - t + 1
    BY <2>0, MovedIs
  <2>1c. ASSUME NEW i \in 1 .. Len(v) PROVE v[i] = u[From(t, c, s, i)]
    BY <2>0, MovedIs
  <2>1. v \in Seq(Messages) /\ Len(v) = Len(u) - t + 1 /\ \A i \in 1 .. Len(v) : v[i] = u[From(t, c, s, i)]
    BY <2>1a, <2>1b, <2>1c
  <2>2. t < c /\ c < s /\ HasTail(u[c]) /\ (\A j \in 1 .. Len(u) : HasTail(u[j]) => j <= c)
        /\ u[s].kind = "summary" /\ u[s].parent = u[c].id
    BY <1>2 DEF Moved
  <2> DEFINE P == [i \in 1 .. Len(v) |-> From(t, c, s, i)]
  <2>3. \A i \in 1 .. Len(v) : From(t, c, s, i) \in t .. Len(u)
    BY <1>0, <2>1, <2>2 DEF From
  <2>4. \A i, k \in 1 .. Len(v) : From(t, c, s, i) = From(t, c, s, k) => i = k
    BY <1>0, <2>1, <2>2 DEF From
  <2>5. ASSUME NEW j \in t .. Len(u) PROVE \E i \in 1 .. Len(v) : From(t, c, s, i) = j
    <3>1. PICK n \in Nat : n = Len(u)
      BY <1>0
    <3>2. t \in 1 .. n /\ c \in 1 .. n /\ s \in 1 .. n /\ t < c /\ c < s /\ j \in t .. n
      BY <2>2, <3>1
    <3>3. \E i \in 1 .. n - t + 1 : From(t, c, s, i) = j
      BY ONLY <3>2, n \in Nat, FromReaches
    <3> QED  BY <2>1, <3>1, <3>3
  <2>6. ASSUME NEW i \in 1 .. Len(v), NEW k \in 1 .. Len(v), i < k, From(t, c, s, k) < From(t, c, s, i)
        PROVE  /\ c <= From(t, c, s, i) /\ From(t, c, s, i) <= s /\ From(t, c, s, k) < c
               /\ 1 \in 1 .. Len(v) /\ 1 < k /\ From(t, c, s, 1) = c
               /\ s - c + 1 \in 1 .. Len(v) /\ s - c + 1 < k /\ From(t, c, s, s - c + 1) = s
    <3>1. c <= From(t, c, s, i) /\ From(t, c, s, i) <= s /\ From(t, c, s, k) < c
      BY <1>0, <2>1, <2>2, <2>6 DEF From
    <3>2. 1 \in 1 .. Len(v) /\ 1 < k /\ From(t, c, s, 1) = c
      BY <1>0, <2>1, <2>2, <2>6 DEF From
    <3>3. s - c + 1 \in 1 .. Len(v) /\ s - c + 1 < k /\ From(t, c, s, s - c + 1) = s
      BY <1>0, <2>1, <2>2, <2>6 DEF From
    <3> QED  BY <3>1, <3>2, <3>3
  <2>7. Places(v, u, t, P)
    <3>1. \A i \in 1 .. Len(v) : P[i] = From(t, c, s, i)
      OBVIOUS
    <3>2. P \in [1 .. Len(v) -> t .. Len(u)]
      BY <2>3
    <3> HIDE DEF P
    <3>3. \A i, k \in 1 .. Len(v) : P[i] = P[k] => i = k
      BY <2>4, <3>1
    <3>4. \A j \in t .. Len(u) : \E i \in 1 .. Len(v) : P[i] = j
      BY <2>5, <3>1
    <3>5. ASSUME NEW i \in 1 .. Len(v), NEW k \in 1 .. Len(v), i < k, P[k] < P[i]
          PROVE  \E c1, e1 \in t .. Len(u) :
                    /\ HasTail(u[c1]) /\ \A j \in t .. Len(u) : HasTail(u[j]) => j <= c1
                    /\ u[e1].kind = "summary" /\ u[e1].parent = u[c1].id
                    /\ c1 <= P[i] /\ P[i] <= e1 /\ P[k] < c1
                    /\ \E x, y \in 1 .. Len(v) : x < k /\ y < k /\ P[x] = e1 /\ P[y] = c1
      <4>1. c <= P[i] /\ P[i] <= s /\ P[k] < c
        BY <2>6, <3>1, <3>5
      <4>3. \E x, y \in 1 .. Len(v) : x < k /\ y < k /\ P[x] = s /\ P[y] = c
        <5>1. 1 \in 1 .. Len(v) /\ 1 < k /\ P[1] = c
          BY <2>6, <3>1, <3>5
        <5>2. s - c + 1 \in 1 .. Len(v) /\ s - c + 1 < k /\ P[s - c + 1] = s
          BY <2>6, <3>1, <3>5
        <5> QED  BY <5>1, <5>2
      <4>2. c \in t .. Len(u) /\ s \in t .. Len(u) /\ \A j \in t .. Len(u) : j \in 1 .. Len(u)
        BY <1>0, <2>2
      <4> QED  BY <2>2, <4>1, <4>2, <4>3
    <3>6. t \in 1 .. Len(u) + 1 /\ \A i \in 1 .. Len(v) : v[i] = u[P[i]]
      BY <1>0, <2>1, <3>1
    <3> QED  BY <3>2, <3>3, <3>4, <3>5, <3>6 DEF Places
  <2>8. \E i \in 1 .. Len(v) : IsUser(v[i])
    <3>1. 1 \in 1 .. Len(v) /\ From(t, c, s, 1) = c
      BY <1>0, <2>1, <2>2 DEF From
    <3>2. v[1] = u[c]
      BY <2>1, <3>1
    <3>3. IsUser(u[c])
      BY <2>2 DEF HasTail, HasPart, IsUser, UserKinds
    <3> QED  BY <3>1, <3>2, <3>3
  <2> QED  BY <2>1, <2>7, <2>8
<1> QED  BY <1>1, <1>2, ReorderIs

\* A scan begins at a place of the log, with a user message in what follows if it
\* is not the first.
LEMMA OldestIs ==
    ASSUME NEW s \in Seq(Messages), s # <<>>
    PROVE  /\ Oldest(s) \in 1 .. Len(s)
           /\ Oldest(s) = 1 \/ \E b \in Oldest(s) .. Len(s) : IsUser(s[b])
<1>1. Len(s) \in Nat /\ Len(s) >= 1
  OBVIOUS
<1>2. CASE Boundaries(s) = {}
  BY <1>1, <1>2 DEF Oldest
<1>3. CASE Boundaries(s) # {}
  <2> DEFINE b == Max(Boundaries(s))
             T == {j \in 1 .. b : s[j].id = s[b].tail}
             t == IF T # {} THEN Max(T) ELSE 0
  <2>1. Boundaries(s) \in SUBSET (1 .. Len(s)) /\ \A x \in Boundaries(s) : HasPart(s[x], "compaction")
    BY DEF Boundaries
  <2>2. b \in 1 .. Len(s) /\ HasPart(s[b], "compaction")
    <3>1. Boundaries(s) \in SUBSET Nat /\ \A x \in Boundaries(s) : x <= Len(s)
      BY <2>1
    <3>2. b \in Boundaries(s)
      BY <1>1, <1>3, <3>1, MaxIs
    <3> QED  BY <2>1, <3>2
  <2>3. Oldest(s) = IF s[b].tail = 0 THEN b ELSE IF t = 0 THEN 1 ELSE t
    BY <1>3 DEF Oldest, SelectLastInSubSeq
  <2> HIDE DEF b
  <2>4. t \in 0 .. b
    <3>1. T \in SUBSET (0 .. b) /\ b \in Nat
      BY <2>2
    <3> HIDE DEF T
    <3> QED  BY <3>1, LastPlace
  <2> HIDE DEF t
  <2>5. IsUser(s[b])
    BY <2>2 DEF HasPart, IsUser, UserKinds
  <2> QED  BY <1>1, <2>2, <2>3, <2>4, <2>5
<1> QED  BY <1>2, <1>3

\* What a log has from a place on.
LEMMA RestOf ==
    ASSUME NEW s \in Seq(Messages), NEW o \in 1 .. Len(s) + 1
    PROVE  /\ SubSeq(s, o, Len(s)) \in Seq(Messages)
           /\ Len(SubSeq(s, o, Len(s))) = Len(s) - o + 1
           /\ \A j \in 1 .. Len(s) - o + 1 : SubSeq(s, o, Len(s))[j] = s[o + j - 1]
<1>0. Len(s) \in Nat /\ \A j \in 1 .. Len(s) : s[j] \in Messages
  OBVIOUS
<1>1. CASE o = Len(s) + 1
  BY <1>0, <1>1
<1>2. CASE o # Len(s) + 1
  <2>1. \A j \in o .. Len(s) : s[j] \in Messages
    BY <1>0
  <2> QED  BY <1>0, <1>2, <2>1, SubSeqProperties
<1> QED  BY <1>1, <1>2

\* What a scan of the log finds: FilterCompacted shows places of the log.
LEMMA ScanPlaces ==
    ASSUME NEW s \in Seq(Messages), NEW v, v = FilterCompacted(s)
    PROVE  /\ v \in Seq(Messages)
           /\ \E lo, P : Places(v, s, lo, P)
           /\ (\E j \in 1 .. Len(s) : IsUser(s[j])) => \E i \in 1 .. Len(v) : IsUser(v[i])
<1> DEFINE o == Oldest(s)
           u == SubSeq(s, o, Len(s))
<1>0. Len(s) \in Nat /\ \A j \in 1 .. Len(s) : s[j] \in Messages
  OBVIOUS
<1>1. o \in 1 .. Len(s) + 1 /\ (o = 1 \/ \E b \in 1 .. Len(s) : o <= b /\ IsUser(s[b]))
  <2>1. CASE s = <<>>
    <3>1. Boundaries(s) = {}
      BY <2>1 DEF Boundaries
    <3> QED  BY <2>1, <3>1 DEF Oldest
  <2>2. CASE s # <<>>
    <3>1. o \in 1 .. Len(s) /\ (o = 1 \/ \E b \in o .. Len(s) : IsUser(s[b]))
      BY <2>2, OldestIs
    <3> HIDE DEF o
    <3> QED  BY <1>0, <3>1
  <2> QED  BY <2>1, <2>2
<1>2. v = Reorder(u)
  BY DEF FilterCompacted
<1> HIDE DEF o
<1>3. u \in Seq(Messages) /\ Len(u) = Len(s) - o + 1 /\ \A j \in 1 .. Len(s) - o + 1 : u[j] = s[o + j - 1]
  BY <1>1, RestOf
<1> HIDE DEF u
<1>4. /\ v \in Seq(Messages) /\ \E lo, P : Places(v, u, lo, P)
      /\ (\E j \in 1 .. Len(u) : IsUser(u[j])) => \E i \in 1 .. Len(v) : IsUser(v[i])
  BY <1>2, <1>3, ReorderPlaces
<1>5. PICK lo, P : Places(v, u, lo, P)
  BY <1>4
<1> DEFINE R == [i \in 1 .. Len(v) |-> P[i] + o - 1]
           at == lo + o - 1
<1>6. Places(v, s, at, R)
  <2>1. lo \in 1 .. Len(u) + 1 /\ at \in 1 .. Len(s) + 1
    BY <1>0, <1>1, <1>3, <1>5 DEF Places
  <2>2. \A i \in 1 .. Len(v) : P[i] \in lo .. Len(u) /\ P[i] \in Int /\ R[i] = P[i] + o - 1
    BY <1>5, <2>1 DEF Places
  <2>3. \A i \in 1 .. Len(v) : R[i] \in at .. Len(s)
    BY <1>0, <1>1, <1>3, <2>1, <2>2, SMTT(30)
  <2>4. R \in [1 .. Len(v) -> at .. Len(s)]
    BY <2>3
  <2> HIDE DEF R
  <2>5. \A i \in 1 .. Len(v) : v[i] = s[R[i]]
    <3> TAKE i \in 1 .. Len(v)
    <3>1. v[i] = u[P[i]]
      BY <1>5 DEF Places
    <3>2. P[i] \in 1 .. Len(s) - o + 1 /\ o + P[i] - 1 = R[i]
      BY SMTT(30), <1>0, <1>1, <1>3, <2>1, <2>2
    <3> QED  BY <1>3, <3>1, <3>2
  <2>6. \A i, k \in 1 .. Len(v) : R[i] = R[k] => i = k
    <3> TAKE i, k \in 1 .. Len(v)
    <3>1. R[i] = R[k] => P[i] = P[k]
      BY <1>1, <2>2
    <3> QED  BY <1>5, <3>1 DEF Places
  <2>7. \A j \in at .. Len(s) : \E i \in 1 .. Len(v) : R[i] = j
    <3> TAKE j \in at .. Len(s)
    <3>1. j - o + 1 \in lo .. Len(u)
      BY <1>0, <1>1, <1>3, <2>1
    <3>2. PICK i \in 1 .. Len(v) : P[i] = j - o + 1
      BY <1>5, <3>1 DEF Places
    <3>3. R[i] = j
      BY <1>1, <2>1, <2>2, <3>2
    <3> QED  BY <3>3
  <2>8. ASSUME NEW i \in 1 .. Len(v), NEW k \in 1 .. Len(v), i < k, R[k] < R[i]
        PROVE  \E c, e \in at .. Len(s) :
                  /\ HasTail(s[c]) /\ \A j \in at .. Len(s) : HasTail(s[j]) => j <= c
                  /\ s[e].kind = "summary" /\ s[e].parent = s[c].id
                  /\ c <= R[i] /\ R[i] <= e /\ R[k] < c
                  /\ \E x, y \in 1 .. Len(v) : x < k /\ y < k /\ R[x] = e /\ R[y] = c
    <3>1. P[k] < P[i]
      BY <1>1, <2>2, <2>8
    <3>2. PICK c \in lo .. Len(u), e \in lo .. Len(u) :
              /\ HasTail(u[c]) /\ \A j \in lo .. Len(u) : HasTail(u[j]) => j <= c
              /\ u[e].kind = "summary" /\ u[e].parent = u[c].id
              /\ c <= P[i] /\ P[i] <= e /\ P[k] < c
              /\ \E x, y \in 1 .. Len(v) : x < k /\ y < k /\ P[x] = e /\ P[y] = c
      BY <1>5, <2>8, <3>1 DEF Places
    <3> DEFINE c2 == o + c - 1
               e2 == o + e - 1
    <3>3. c2 \in at .. Len(s) /\ e2 \in at .. Len(s)
      BY <1>0, <1>1, <1>3, <2>1
    <3>2a. c \in 1 .. Len(s) - o + 1 /\ e \in 1 .. Len(s) - o + 1 /\ c \in Int /\ e \in Int /\ lo \in Int /\ o \in Int
      BY <1>0, <1>1, <1>3, <2>1
    <3>4. u[c] = s[c2] /\ u[e] = s[e2]
      BY <1>3, <3>2a
    <3>5. c2 <= R[i] /\ R[i] <= e2 /\ R[k] < c2
      <4>1. R[i] = P[i] + o - 1 /\ R[k] = P[k] + o - 1 /\ P[i] \in Int /\ P[k] \in Int
        BY <2>2, <2>8
      <4>2. c <= P[i] /\ P[i] <= e /\ P[k] < c
        BY <3>2
      <4>3. c \in Int /\ e \in Int /\ o \in Int
        BY <3>2a
      <4>4. c2 <= R[i]
        BY <4>1, <4>2, <4>3
      <4>5. R[i] <= e2
        BY <4>1, <4>2, <4>3
      <4>6. R[k] < c2
        BY <4>1, <4>2, <4>3
      <4> QED  BY <4>4, <4>5, <4>6
    <3>6. ASSUME NEW j \in at .. Len(s), HasTail(s[j]) PROVE j <= c2
      <4>0. j \in Int /\ lo + o - 1 <= j /\ j <= Len(s) /\ Len(u) = Len(s) - o + 1 /\ lo >= 1
        BY <1>0, <1>3, <2>1, <3>2a
      <4>1. j - o + 1 \in lo .. Len(u) /\ j - o + 1 \in 1 .. Len(s) - o + 1 /\ o + (j - o + 1) - 1 = j
        BY <1>0, <3>2a, <4>0
      <4>2. HasTail(u[j - o + 1])
        BY <1>3, <3>6, <4>1
      <4>3. j - o + 1 <= c
        BY <3>2, <4>1, <4>2
      <4> QED  BY <3>2a, <4>0, <4>3
    <3>7. \E x, y \in 1 .. Len(v) : x < k /\ y < k /\ R[x] = e2 /\ R[y] = c2
      <4>1. PICK x \in 1 .. Len(v), y \in 1 .. Len(v) : x < k /\ y < k /\ P[x] = e /\ P[y] = c
        BY <3>2
      <4>2. R[x] = P[x] + o - 1 /\ R[y] = P[y] + o - 1
        BY <2>2
      <4>3. R[x] = e2 /\ R[y] = c2
        BY <3>2a, <4>1, <4>2
      <4> QED  BY <4>1, <4>3
    <3> HIDE DEF c2, e2
    <3> QED  BY <3>2, <3>3, <3>4, <3>5, <3>6, <3>7
  <2> HIDE DEF at
  <2> QED  BY <2>1, <2>4, <2>5, <2>6, <2>7, <2>8 DEF Places
<1>7. ASSUME NEW j \in 1 .. Len(s), IsUser(s[j]) PROVE \E i \in 1 .. Len(u) : IsUser(u[i])
  <2>1. PICK b \in 1 .. Len(s) : o <= b /\ IsUser(s[b])
    BY <1>1, <1>7
  <2>2. b - o + 1 \in 1 .. Len(s) - o + 1 /\ o + (b - o + 1) - 1 = b
    BY <1>0, <1>1, <2>1
  <2>3. b - o + 1 \in 1 .. Len(u) /\ u[b - o + 1] = s[b]
    BY <1>3, <2>2
  <2> QED  BY <2>1, <2>3
<1> QED  BY <1>4, <1>6, <1>7

-----------------------------------------------------------------------------
(* The shapes of the log, the requests and the run *)

\* The stored messages; when the run has a view, and when it is writing a message.
Stored  == Range(log)
Reading == {"ready", "asking", "summarizing", "subtask"}
Writing == {"asking", "summarizing", "subtask", "create", "parts"}

\* A message whose id a request drew; the others are of the run.
Requested(m) == \E q \in Requests : mid[q].id = m.id

\* A log whose ids and times were drawn until n.
LogFine(l, n) ==
    /\ l \in Seq(Messages)
    /\ Ordered(l)
    /\ n \in Ids
    /\ \A m \in Range(l) : m.id \in 1 .. n /\ m.time \in 1 .. n
    /\ \A m, o \in Range(l) : m.id = o.id => m = o
    /\ \A m \in Range(l) : (m.overflow => m.auto) /\ (m.tail # 0 => HasPart(m, "compaction"))
    /\ Range(l) # {} => \E m \in Range(l) : IsUser(m)

\* A request draws ids and times of its own, first the id; its message is stored when
\* it says so.
RequestShapes ==
    /\ pc \in [Requests -> {"new", "drawn", "saved", "stored", "waiting", "answered"}]
    /\ mid \in [Requests -> [id : Nat, time : Nat]]
    /\ result \in [Requests -> Results]
    /\ \A q \in Requests : mid[q].id <= now /\ mid[q].time <= now
    /\ \A q \in Requests : mid[q].time # 0 => mid[q].id # 0 /\ mid[q].id <= mid[q].time
    /\ \A q, r \in Requests : q # r /\ mid[q].id # 0 => mid[q].id # mid[r].id
    /\ \A q, r \in Requests : q # r /\ mid[q].time # 0 => mid[q].time # mid[r].time
    /\ \A q \in Requests : pc[q] = "new" => mid[q].time = 0
    /\ \A q \in Requests : pc[q] = "new" /\ mid[q].id # 0 => q \in ClientIds
    /\ \A q \in Requests : pc[q] = "drawn" => mid[q].time # 0 /\ Kind[q] # "compaction"
    /\ \A q \in Requests : pc[q] \in {"saved", "stored", "waiting"} =>
          \E m \in Stored : m.id = mid[q].id /\ (pc[q] # "saved" => m.ready)

\* A stored message is that of a request, or the run wrote it.
Suits(m) ==
    /\ \A q \in Requests : mid[q].id = m.id =>
          /\ pc[q] \notin {"new", "drawn"}
          /\ m.time = mid[q].time
          /\ m.kind = Kind[q]
          /\ m.text = IF Kind[q] = "compaction" THEN {} ELSE {q}
    /\ \A q \in Requests : mid[q].time = m.time => mid[q].id = m.id
    /\ ~Requested(m) => m.id = m.time
    /\ ~IsUser(m) => ~Requested(m) /\ m.ready
    /\ m.kind = "summary" => \E n \in Stored : n.id = m.parent

\* Every stored message is of somebody.
StoredShapes == \A m \in Stored : Suits(m)

\* The message the run is writing is the last one it wrote.
DoingIs(m) ==
    /\ m.id = doing /\ ~Requested(m)
    /\ loop = "parts" => IsUser(m)
    /\ loop \in {"asking", "create"} => m.kind = "reply"
    /\ loop = "summarizing" => m.kind = "summary"
    /\ loop = "subtask" => m.kind = "task"
    /\ loop \in Reading => m.finish = "none"

\* Where the run is, and what it reads and writes there.
RunShapes ==
    /\ loop \in Loops
    /\ doing \in Nat
    /\ loop \in Writing => doing # 0
    /\ doing # 0 => loop \in Writing \cup {"fail"}
    /\ doing # 0 => \E m \in Stored : DoingIs(m)
    /\ doing # 0 => \A m \in Stored : ~Requested(m) => m.id <= doing
    /\ view \in Seq(Messages)
    /\ view # <<>> <=> loop \in Reading
    /\ loop \in Reading => LastUser(view) # 0
    /\ loop = "subtask" => TaskKind = "subtask"
    /\ loop = "summarizing" => TaskKind = "compaction"
    /\ heard \cup late \cup retained \subseteq Requests
    /\ folded \cup skipped \cup ran \subseteq Ids

\* What the view of a message says of the message, which may have its parts since.
Shows(m, n) ==
    /\ m.id = n.id /\ m.time = n.time /\ m.kind = n.kind /\ m.text = n.text
    /\ m.parent = n.parent /\ m.finish = n.finish /\ m.error = n.error /\ m.tail = n.tail
    /\ m.auto = n.auto /\ m.overflow = n.overflow
    /\ m.ready => n.ready
    /\ m.tail # 0 => m.ready

\* The newest stored message with a tail.
LastTail(c) == c \in Stored /\ c.tail # 0 /\ \A d \in Stored : d.tail # 0 => d.time <= c.time

\* A view has m before n though m is the later one: the last compaction with a tail,
\* after n, goes first with its summary s.
Turned(s, m, n) ==
    /\ s \in Stored /\ s.kind = "summary"
    /\ \E c \in Stored : /\ LastTail(c) /\ s.parent = c.id
                         /\ c.time <= m.time /\ m.time <= s.time /\ n.time < c.time

\* A view shows stored messages, each once; of the newer ones it lacks at most what
\* requests stored since and what the run is writing.
Fits(v) ==
    /\ \A m \in Range(v) : \E n \in Stored : Shows(m, n)
    /\ \A i, k \in DOMAIN v : v[i].id = v[k].id => i = k
    /\ \A n \in Stored, m \in Range(v) : ~Requested(n) /\ n.id # doing /\ n.time > m.time =>
          \E o \in Range(v) : o.id = n.id
    /\ \A i, k \in DOMAIN v : i < k /\ v[i].time > v[k].time => \E s \in Stored :
          /\ Turned(s, v[i], v[k])
          /\ \E x, y \in DOMAIN v : x < k /\ y < k /\ v[x].id = s.id /\ v[y].id = s.parent

\* As long as the run has a view, it fits the log.
ViewFits == loop \in Reading => Fits(view)

\* What a turn reads is older than what it writes.
ViewIsOlder == loop \in Reading /\ doing # 0 => \A m \in Range(view) : m.time < doing

\* The shapes of everything, before what the parts have to do with each other.
Shapes == LogFine(log, now) /\ RequestShapes /\ StoredShapes /\ RunShapes

-----------------------------------------------------------------------------
(* Storing and changing messages keeps a log fine *)

\* A new message, drawn last, leaves a log fine.
LEMMA AddFine ==
    ASSUME NEW l, NEW n, NEW k \in Ids, NEW m \in Messages, LogFine(l, n), n <= k,
           m.id \in 1 .. k, m.time \in 1 .. k,
           \A o \in Range(l) : o.id # m.id /\ o.time # m.time,
           m.overflow => m.auto, m.tail = 0,
           IsUser(m) \/ Range(l) # {}
    PROVE  /\ LogFine(Insert(l, m), k)
           /\ Range(Insert(l, m)) = Range(l) \cup {m}
<1>1. \A x \in Messages : x.time \in Nat
  BY DEF Messages
<1>2. /\ Insert(l, m) \in Seq(Messages) /\ Ordered(Insert(l, m))
      /\ Range(Insert(l, m)) = Range(l) \cup {m}
  BY <1>1, InsertIs DEF LogFine
<1> DEFINE t == Insert(l, m)
<1> HIDE DEF t
<1>3. t \in Seq(Messages) /\ Ordered(t) /\ Range(t) = Range(l) \cup {m}
  BY <1>2 DEF t
<1>4. n \in Nat /\ k \in Nat
  BY PromptLoopAssumption DEF LogFine, Ids
<1>5. \A o \in Range(t) : o.id \in 1 .. k /\ o.time \in 1 .. k
  BY <1>3, <1>4 DEF LogFine
<1>6. \A o, p \in Range(t) : o.id = p.id => o = p
  BY <1>3 DEF LogFine
<1>7. \A o \in Range(t) : (o.overflow => o.auto) /\ (o.tail # 0 => HasPart(o, "compaction"))
  BY <1>3 DEF LogFine
<1>8. \E o \in Range(t) : IsUser(o)
  BY <1>3 DEF LogFine
<1>9. LogFine(t, k)
  BY <1>3, <1>5, <1>6, <1>7, <1>8 DEF LogFine
<1> QED  BY <1>3, <1>9 DEF t

\* x is replaced by m, a later version of it.
LEMMA ChangeFine ==
    ASSUME NEW l, NEW n, NEW x \in Range(l), NEW m \in Messages, LogFine(l, n),
           m.id = x.id, m.time = x.time, m.kind = x.kind, m.auto = x.auto, m.overflow = x.overflow, m.of = x.of,
           m.tail # 0 => HasPart(m, "compaction")
    PROVE  /\ IndexOf(l, x.id) \in DOMAIN l /\ IndexOf(l, x.id) # 0 /\ l[IndexOf(l, x.id)] = x
           /\ LogFine(Update(l, x.id, m), n)
           /\ Range(Update(l, x.id, m)) = (Range(l) \ {x}) \cup {m}
<1>1. \A y \in Messages : y.time \in Nat
  BY DEF Messages
<1>1a. l \in Seq(Messages) /\ Ordered(l) /\ \A y, z \in Range(l) : y.id = z.id => y = z
  BY DEF LogFine
<1>1b. /\ IndexOf(l, x.id) \in DOMAIN l /\ IndexOf(l, x.id) # 0 /\ l[IndexOf(l, x.id)] = x
       /\ Update(l, x.id, m) \in Seq(Messages)
       /\ Ordered(Update(l, x.id, m))
       /\ Range(Update(l, x.id, m)) = (Range(l) \ {x}) \cup {m}
  BY <1>1a, ChangeIs
<1> DEFINE t == Update(l, x.id, m)
<1>2. /\ IndexOf(l, x.id) \in DOMAIN l /\ IndexOf(l, x.id) # 0 /\ l[IndexOf(l, x.id)] = x
      /\ t \in Seq(Messages) /\ Ordered(t) /\ Range(t) = (Range(l) \ {x}) \cup {m}
  BY <1>1b
<1> HIDE DEF t
<1>3. \A o \in Range(t) : o.id \in 1 .. n /\ o.time \in 1 .. n
  BY <1>2 DEF LogFine
<1>4. \A o, p \in Range(t) : o.id = p.id => o = p
  BY <1>2 DEF LogFine
<1>5. \A o \in Range(t) : (o.overflow => o.auto) /\ (o.tail # 0 => HasPart(o, "compaction"))
  BY <1>2 DEF LogFine
<1>6. \E o \in Range(t) : IsUser(o)
  <2>1. PICK o \in Range(l) : IsUser(o)
    BY DEF LogFine
  <2>2. CASE o = x
    BY <1>2, <2>1, <2>2 DEF IsUser
  <2>3. CASE o # x
    BY <1>2, <2>1, <2>3
  <2> QED  BY <2>2, <2>3
<1>7. LogFine(t, n)
  BY <1>2, <1>3, <1>4, <1>5, <1>6 DEF LogFine
<1> QED  BY <1>2, <1>7 DEF t

-----------------------------------------------------------------------------
(* What a step leaves of the log *)

\* A finish comes of the message that is being written, when it is closed.
Closes(m, n) ==
    /\ m.id = doing /\ m.finish = "none" /\ loop' # loop
    /\ \/ n.finish = "tool-calls" /\ loop = "subtask"
       \/ loop = "asking"
       \/ EndSummary /\ (loop' = "break" => late' = late \cup {q \in Requests : mid[q].id # 0})

\* n is what a step leaves of the stored message m.
Kept(m, n) ==
    /\ n.id = m.id /\ n.time = m.time /\ n.kind = m.kind /\ n.text = m.text
    /\ n.parent = m.parent /\ n.auto = m.auto /\ n.overflow = m.overflow /\ n.of = m.of
    /\ m.ready => n.ready
    /\ n.ready = m.ready \/ m.id = doing \/ Requested(m)
    /\ n.tail = m.tail \/ (EndSummary /\ loop' # loop /\ m.id = User.id /\ n.tail # 0)
    /\ n.finish = m.finish \/ Closes(m, n)
    /\ n.error = m.error \/ (m.id = doing /\ m.finish = "none" /\ loop' # loop)

\* A step stores n: the run just drew its id, or a request did (a prompt, earlier).
Comes(n) ==
    /\ \A m \in Stored : m.id # n.id
    /\ n.finish = "none" /\ n.tail = 0
    /\ Suits(n)'
    /\ \/ n.id = now' /\ n.time = now' /\ now' = now + 1
       \/ IsUser(n) /\ \E q \in Requests : mid[q].id = n.id /\ mid[q].time = n.time
    /\ Requested(n)' \/ doing' = n.id
    /\ ~IsUser(n) => n.id = now' /\ loop = "ready" /\ late' = late \cup Missed /\ mid' = mid
    /\ n.kind = "summary" => TaskKind = "compaction" /\ n.parent = User.id
    /\ \A q \in n.text : mid[q].id = n.id \/ \E m \in Stored : q \in m.text

\* A step keeps every stored message and adds only new ones.
LogStep ==
    /\ \A m \in Stored : \E n \in Stored' : Kept(m, n)
    /\ \A n \in Stored' : Comes(n) \/ \E m \in Stored : Kept(m, n)

\* An id or a time that is drawn stays, and is drawn from the clock.
MidsGrow == \A q \in Requests :
    /\ mid'[q].id = mid[q].id \/ (mid[q].id = 0 /\ mid'[q].id = now' /\ now' = now + 1)
    /\ mid'[q].time = mid[q].time \/ (pc[q] = "new" /\ mid'[q].time = now' /\ now' = now + 1)

\* A request does not go back.
PcMoves == \A q \in Requests :
    /\ pc'[q] = "new" => pc[q] = "new"
    /\ pc'[q] = "drawn" => pc[q] \in {"new", "drawn"}

\* Ghosts do not shrink.
GhostsGrow == heard \subseteq heard' /\ late \subseteq late' /\ retained \subseteq retained'

\* A message that stays the same is kept.
LEMMA KeptIsItself == \A m : Kept(m, m)
BY DEF Kept

\* x becomes y.
LEMMA ChangeStepIs ==
    ASSUME NEW x \in Stored, NEW y, Kept(x, y), Stored' = (Stored \ {x}) \cup {y}
    PROVE  LogStep
BY KeptIsItself DEF LogStep

\* m comes.
LEMMA AddStepIs ==
    ASSUME NEW m, Comes(m), Stored' = Stored \cup {m}
    PROVE  LogStep
BY KeptIsItself DEF LogStep

\* A step that leaves the log alone.
LEMMA SameStepIs ==
    ASSUME log' = log, now' \in Ids, LogFine(log, now), now <= now'
    PROVE  LogStep /\ LogFine(log', now')
<1>1. Stored' = Stored
  BY DEF Stored
<1>2. LogStep
  BY <1>1, KeptIsItself DEF LogStep
<1>3. now \in Nat /\ now' \in Nat
  BY PromptLoopAssumption DEF LogFine, Ids
<1>4. LogFine(log, now')
  BY <1>3 DEF LogFine
<1> QED  BY <1>2, <1>4

\* The run stores m, which it just drew, in the log l.
LEMMA RunAdds ==
    ASSUME NEW l, NEW m \in Messages, Shapes, Tick, mid' = mid,
           LogFine(l, now), log' = Insert(l, m), m.id = now', m.time = now',
           m.overflow => m.auto, m.tail = 0, IsUser(m) \/ (Range(l) # {} /\ m.ready),
           m.kind = "summary" => \E n \in Range(l) : n.id = m.parent
    PROVE  /\ LogFine(log', now')
           /\ Stored' = Range(l) \cup {m}
           /\ Suits(m)'
           /\ \A o \in Range(l) : o.id # m.id
<1>1. now \in Nat /\ now' = now + 1 /\ now' \in Ids /\ now' \in Nat
  BY PromptLoopAssumption DEF Tick, LogFine, Ids
<1>2. \A o \in Range(l) : o.id # m.id /\ o.time # m.time
  BY <1>1 DEF LogFine
<1>3. LogFine(log', now') /\ Stored' = Range(l) \cup {m}
  <2>1. now <= now' /\ m.id \in 1 .. now' /\ m.time \in 1 .. now'
    BY <1>1
  <2>2. IsUser(m) \/ Range(l) # {}
    OBVIOUS
  <2>3. LogFine(Insert(l, m), now') /\ Range(Insert(l, m)) = Range(l) \cup {m}
    BY ONLY ZenonT(60), <1>1, <1>2, <2>1, <2>2, AddFine, LogFine(l, now), m \in Messages,
       m.overflow => m.auto, m.tail = 0
  <2> QED  BY <2>3 DEF Stored
<1>4. \A q \in Requests : mid'[q].id # m.id /\ mid'[q].time # m.time
  BY <1>1 DEF Shapes, RequestShapes
<1>5. ~Requested(m)'
  BY <1>4 DEF Requested
<1>6. Suits(m)'
  BY <1>3, <1>4, <1>5 DEF Suits
<1> QED  BY <1>2, <1>3, <1>6

-----------------------------------------------------------------------------
(* Step by step *)

\* The message of a request, once it is stored.
LEMMA OfRequest ==
    ASSUME NEW q \in Requests, Shapes, pc[q] \in {"saved", "stored", "waiting"}
    PROVE  \E x \in Stored : x.id = mid[q].id /\ IsUser(x) /\ x.time = mid[q].time /\ mid[q].time # 0
<1>1. PICK x \in Stored : x.id = mid[q].id
  BY DEF Shapes, RequestShapes
<1>2. x.time = mid[q].time /\ x.kind = Kind[q]
  BY <1>1 DEF Shapes, StoredShapes, Suits
<1>3. x.time # 0
  BY DEF Shapes, LogFine, Stored
<1>4. IsUser(x)
  BY <1>2, PromptLoopAssumption DEF IsUser
<1> QED  BY <1>1, <1>2, <1>3, <1>4

\* Save stores the message that a request drew before.
LEMMA SaveStep ==
    ASSUME NEW q \in Requests, Shapes, Save(q)
    PROVE  LogStep /\ LogFine(log', now')
<1>0. PICK m : m = [Blank EXCEPT !.id = mid[q].id, !.time = mid[q].time, !.kind = Kind[q], !.text = {q}]
  OBVIOUS
<1>1. pc[q] = "drawn" /\ mid[q].time # 0 /\ mid[q].id # 0 /\ Kind[q] # "compaction"
  BY DEF Save, Shapes, RequestShapes
<1>2. mid[q].id \in Nat /\ mid[q].time \in Nat /\ Kind[q] \in UserKinds
  BY PromptLoopAssumption DEF Shapes, RequestShapes
<1>3. /\ m \in Messages /\ IsUser(m) /\ m.id = mid[q].id /\ m.time = mid[q].time
      /\ m.tail = 0 /\ m.overflow = FALSE /\ m.finish = "none" /\ m.kind = Kind[q] /\ m.text = {q}
  BY <1>0, <1>2 DEF Messages, Blank, IsUser
<1>4. now \in Ids /\ now \in Nat
  BY PromptLoopAssumption DEF Shapes, LogFine, Ids
<1>5. \A o \in Stored : o.id # m.id /\ o.time # m.time
  <2> TAKE o \in Stored
  <2>1. o.id # mid[q].id
    BY <1>1 DEF Shapes, StoredShapes, Suits
  <2>2. o.time # mid[q].time
    BY <2>1 DEF Shapes, StoredShapes, Suits
  <2> QED  BY <1>3, <2>1, <2>2
<1>6. m.id \in 1 .. now /\ m.time \in 1 .. now
  BY <1>1, <1>2, <1>3, <1>4 DEF Shapes, RequestShapes
<1>7. LogFine(log', now') /\ Stored' = Stored \cup {m}
  <2>1. log' = Insert(log, m) /\ now' = now
    BY <1>0 DEF Save
  <2>2. LogFine(log, now) /\ now <= now
    BY <1>4 DEF Shapes
  <2>3. LogFine(Insert(log, m), now) /\ Range(Insert(log, m)) = Range(log) \cup {m}
    BY <1>3, <1>4, <1>5, <1>6, <2>2, AddFine, SMTT(30) DEF Stored
  <2> QED  BY <2>1, <2>3 DEF Stored
<1>8. Suits(m)'
  <2>1. mid' = mid /\ pc'[q] = "saved"
    BY DEF Save, Goto, Shapes, RequestShapes
  <2>2. \A r \in Requests : r # q => mid[r].id # m.id /\ mid[r].time # m.time
    BY <1>1, <1>3 DEF Shapes, RequestShapes
  <2>3. Requested(m)'
    BY <1>3, <2>1 DEF Requested
  <2> QED  BY <1>1, <1>3, <2>1, <2>2, <2>3 DEF Suits, IsUser, UserKinds
<1>9. Comes(m)
  <2>1. m.kind # "summary"
    BY <1>3 DEF IsUser, UserKinds
  <2>2. Requested(m)'
    BY <1>3 DEF Requested, Save
  <2>3. \A r \in m.text : mid[r].id = m.id
    BY <1>3
  <2> QED  BY <1>3, <1>5, <1>8, <2>1, <2>2, <2>3 DEF Comes
<1> QED  BY <1>7, <1>9, AddStepIs

\* CreateManual draws and stores a compaction.
LEMMA CreateManualStep ==
    ASSUME NEW q \in Requests, Shapes, CreateManual(q)
    PROVE  LogStep /\ LogFine(log', now')
<1>0. PICK m : m = [Blank EXCEPT !.id = now', !.time = now', !.kind = "compaction"]
  OBVIOUS
<1>1. now \in Nat /\ now' = now + 1 /\ now' \in Ids /\ now' \in Nat
  BY PromptLoopAssumption DEF CreateManual, Tick, Shapes, LogFine, Ids
<1>2. /\ m \in Messages /\ IsUser(m) /\ m.id = now' /\ m.time = now' /\ m.text = {}
      /\ m.tail = 0 /\ m.overflow = FALSE /\ m.finish = "none" /\ m.kind = "compaction"
  BY <1>0, <1>1 DEF Messages, Blank, IsUser, UserKinds
<1>3. log' = Insert(log, m)
  BY <1>0 DEF CreateManual
<1>4. \A o \in Stored : o.id # m.id /\ o.time # m.time
  BY <1>1, <1>2 DEF Shapes, LogFine, Stored
<1>5. m.id \in 1 .. now' /\ m.time \in 1 .. now' /\ now <= now'
  BY <1>1, <1>2
<1>6. LogFine(log', now') /\ Stored' = Stored \cup {m}
  <2>1. LogFine(Insert(log, m), now') /\ Range(Insert(log, m)) = Range(log) \cup {m}
    BY <1>1, <1>2, <1>4, <1>5, AddFine DEF Stored, Shapes
  <2> QED  BY <1>3, <2>1 DEF Stored
<1>7. Suits(m)'
  <2>1. pc'[q] = "saved" /\ mid'[q].id = now' /\ mid'[q].time = now' /\ \A r \in Requests : r # q => mid'[r] = mid[r]
    BY DEF CreateManual, Goto, Shapes, RequestShapes
  <2>2. \A r \in Requests : r # q => mid'[r].id # m.id /\ mid'[r].time # m.time
    BY <1>1, <1>2, <2>1 DEF Shapes, RequestShapes
  <2>3. Requested(m)' /\ Kind[q] = "compaction"
    BY <1>2, <2>1 DEF Requested, CreateManual
  <2> QED  BY <1>2, <2>1, <2>2, <2>3 DEF Suits, IsUser, UserKinds
<1>8. Comes(m)
  <2>1. mid'[q].id = now'
    BY DEF CreateManual, Shapes, RequestShapes
  <2>2. Requested(m)'
    BY <1>2, <2>1 DEF Requested
  <2> QED  BY <1>1, <1>2, <1>4, <1>7, <2>2 DEF Comes
<1> QED  BY <1>6, <1>8, AddStepIs

-----------------------------------------------------------------------------

\* SaveParts completes the message of a request.
LEMMA SavePartsStep ==
    ASSUME NEW q \in Requests, Shapes, SaveParts(q)
    PROVE  /\ LogStep /\ LogFine(log', now')
           /\ \E m \in Stored' : m.id = mid[q].id /\ m.ready
<1>1. PICK x \in Stored : x.id = mid[q].id
  BY OfRequest DEF SaveParts
<1>2. PICK y : y = [x EXCEPT !.ready = TRUE]
  OBVIOUS
<1>3. LogFine(log, now) /\ now' = now /\ x \in Messages
  BY DEF Shapes, SaveParts, Stored, LogFine, Range
<1>4. /\ y \in Messages /\ y.id = x.id /\ y.time = x.time /\ y.kind = x.kind /\ y.auto = x.auto
      /\ y.overflow = x.overflow /\ y.of = x.of /\ y.tail = x.tail /\ y.ready /\ y.text = x.text /\ y.parent = x.parent
      /\ y.finish = x.finish /\ y.error = x.error
  BY <1>2, <1>3 DEF Messages
<1>5. y.tail # 0 => HasPart(y, "compaction")
  BY <1>3, <1>4 DEF LogFine, Stored, HasPart
<1>6. /\ IndexOf(log, x.id) # 0 /\ log[IndexOf(log, x.id)] = x
      /\ LogFine(Update(log, x.id, y), now)
      /\ Range(Update(log, x.id, y)) = (Range(log) \ {x}) \cup {y}
  BY <1>3, <1>4, <1>5, ChangeFine DEF Stored
<1>7. log' = Update(log, x.id, y)
  BY <1>1, <1>2, <1>6 DEF SaveParts
<1>8. LogFine(log', now') /\ Stored' = (Stored \ {x}) \cup {y}
  BY <1>3, <1>6, <1>7 DEF Stored
<1>9. Kept(x, y)
  BY <1>1, <1>4 DEF Kept, Requested
<1>10. LogStep
  BY <1>8, <1>9, ChangeStepIs
<1> QED  BY <1>1, <1>4, <1>8, <1>10

\* The run writes m.
LEMMA RunWrites ==
    ASSUME NEW m \in Messages, Shapes, Tick, mid' = mid, log' = Insert(log, m),
           m.id = now', m.time = now', doing' = now', m.overflow => m.auto, m.tail = 0, m.finish = "none",
           m.text = {},
           ~IsUser(m) => m.ready /\ loop = "ready" /\ late' = late \cup Missed /\ Stored # {},
           m.kind = "summary" => /\ TaskKind = "compaction" /\ m.parent = User.id
                                 /\ \E n \in Stored : n.id = m.parent
    PROVE  LogStep /\ LogFine(log', now') /\ m \in Stored' /\ ~Requested(m)'
<1>1. LogFine(log, now) /\ now' = now + 1
  BY DEF Shapes, Tick
<1>2. IsUser(m) \/ (Range(log) # {} /\ m.ready)
  BY DEF Stored
<1>3. m.kind = "summary" => \E n \in Range(log) : n.id = m.parent
  BY DEF Stored
<1>4. /\ LogFine(log', now')
      /\ Stored' = Range(log) \cup {m}
      /\ Suits(m)'
      /\ \A o \in Range(log) : o.id # m.id
  BY <1>1, <1>2, <1>3, RunAdds
<1>5. Comes(m)
  BY <1>1, <1>4 DEF Comes, Stored
<1>6. LogStep
  BY <1>4, <1>5, AddStepIs DEF Stored
<1>7. ~Requested(m)'
  <2>1. \A q \in Requests : mid[q].id <= now /\ mid[q].id \in Nat
    BY DEF Shapes, RequestShapes
  <2>2. now \in Nat
    BY <1>1, PromptLoopAssumption DEF LogFine, Ids
  <2> QED  BY <1>1, <2>1, <2>2 DEF Requested
<1> QED  BY <1>4, <1>6, <1>7

\* The user message the run answers, and its task.
LEMMA UserIsStored ==
    ASSUME Shapes, ViewFits, loop \in Reading
    PROVE  /\ LastUser(view) \in 1 .. Len(view) /\ User \in Range(view) /\ IsUser(User) /\ User.id \in Nat
           /\ \E n \in Stored : Shows(User, n)
<1>1. view \in Seq(Messages) /\ LastUser(view) # 0
  BY DEF Shapes, RunShapes
<1>2. LastUser(view) \in 1 .. Len(view) /\ IsUser(User)
  BY <1>1, LastUserIs DEF User
<1>3. User \in Range(view) /\ User \in Messages
  BY <1>1, <1>2 DEF User, Range
<1>4. User.id \in Nat
  BY <1>3 DEF Messages
<1> QED  BY <1>2, <1>3, <1>4 DEF ViewFits, Fits

\* The task of a turn is that of a stored user message.
LEMMA TaskIsStored ==
    ASSUME Shapes, ViewFits, loop \in Reading, TaskKind # "none"
    PROVE  /\ Task(view) \in 1 .. Len(view) /\ view[Task(view)] \in Range(view)
           /\ IsUser(view[Task(view)]) /\ view[Task(view)] \in Messages
           /\ \E n \in Stored : Shows(view[Task(view)], n)
<1>1. view \in Seq(Messages) /\ Task(view) # 0
  BY DEF Shapes, RunShapes, TaskKind
<1>2. Task(view) \in 1 .. Len(view) /\ IsUser(view[Task(view)])
  BY <1>1, TaskIs DEF HasPart, IsUser, UserKinds
<1>3. view[Task(view)] \in Range(view) /\ view[Task(view)] \in Messages
  BY <1>1, <1>2 DEF Range
<1> QED  BY <1>2, <1>3 DEF ViewFits, Fits

\* The clock is a number and moves by one.
LEMMA NowIs ==
    ASSUME Shapes
    PROVE  now \in Nat /\ now \in Ids /\ (Tick => now' = now + 1 /\ now' \in Nat /\ now' \in Ids)
BY PromptLoopAssumption DEF Shapes, LogFine, Ids, Tick

\* The run draws an id for w and stores it.
LEMMA WriteIs ==
    ASSUME NEW w \in Messages, Shapes, Write(w), mid' = mid, w.overflow => w.auto, w.tail = 0, w.finish = "none",
           w.text = {},
           ~IsUser(w) => w.ready /\ loop = "ready" /\ late' = late \cup Missed /\ Stored # {},
           w.kind = "summary" => /\ TaskKind = "compaction" /\ w.parent = User.id
                                 /\ \E n \in Stored : n.id = w.parent
    PROVE  /\ LogStep /\ LogFine(log', now')
           /\ \E m \in Stored' : m.id = doing' /\ ~Requested(m)' /\ m.kind = w.kind /\ m.finish = "none"
<1>1. now' \in Nat /\ doing' = now' /\ Tick
  BY NowIs DEF Write
<1>2. PICK m : m = [w EXCEPT !.id = now', !.time = now']
  OBVIOUS
<1>3. log' = Insert(log, m)
  BY <1>2 DEF Write
<1>4. /\ m \in Messages /\ m.id = now' /\ m.time = now' /\ m.overflow = w.overflow /\ m.auto = w.auto /\ m.tail = 0
      /\ m.finish = "none" /\ m.kind = w.kind /\ m.parent = w.parent /\ m.ready = w.ready /\ m.text = {}
  BY <1>1, <1>2 DEF Messages
<1>5. IsUser(m) <=> IsUser(w)
  BY <1>4 DEF IsUser
<1>6. LogStep /\ LogFine(log', now') /\ m \in Stored' /\ ~Requested(m)'
  BY <1>1, <1>3, <1>4, <1>5, RunWrites
<1> QED  BY <1>1, <1>4, <1>6

\* StartSubtask stores the message of a subtask.
LEMMA StartSubtaskStep ==
    ASSUME Shapes, ViewFits, StartSubtask
    PROVE  /\ LogStep /\ LogFine(log', now')
           /\ \E m \in Stored' : m.id = doing' /\ ~Requested(m)' /\ m.kind = "task" /\ m.finish = "none"
<1>1. PICK w : w = [Blank EXCEPT !.kind = "task", !.parent = User.id, !.ready = TRUE, !.tools = TRUE]
  OBVIOUS
<1>2. loop = "ready" /\ late' = late \cup Missed /\ mid' = mid /\ Write(w)
  BY <1>1 DEF StartSubtask, reqVars
<1>3. User.id \in Nat /\ \E n \in Stored : n.id = User.id
  BY <1>2, UserIsStored DEF Shows, Reading
<1>4. /\ w \in Messages /\ w.overflow = FALSE /\ w.tail = 0 /\ w.finish = "none" /\ w.text = {}
      /\ w.kind = "task" /\ w.parent = User.id /\ w.ready
  BY <1>1, <1>3 DEF Messages, Blank, AssistantKinds
<1> QED  BY <1>2, <1>3, <1>4, WriteIs

\* StartSummary stores a summary of the last user message.
LEMMA StartSummaryStep ==
    ASSUME Shapes, ViewFits, StartSummary
    PROVE  /\ LogStep /\ LogFine(log', now')
           /\ \E m \in Stored' : m.id = doing' /\ ~Requested(m)' /\ m.kind = "summary" /\ m.finish = "none"
<1>1. PICK w : w = [Blank EXCEPT !.kind = "summary", !.parent = User.id, !.ready = TRUE]
  OBVIOUS
<1>2. loop = "ready" /\ late' = late \cup Missed /\ mid' = mid /\ Write(w) /\ TaskKind = "compaction"
  BY <1>1 DEF StartSummary, reqVars
<1>3. User.id \in Nat /\ \E n \in Stored : n.id = User.id
  BY <1>2, UserIsStored DEF Shows, Reading
<1>4. /\ w \in Messages /\ w.overflow = FALSE /\ w.tail = 0 /\ w.finish = "none" /\ w.text = {}
      /\ w.kind = "summary" /\ w.parent = User.id /\ w.ready
  BY <1>1, <1>3 DEF Messages, Blank, AssistantKinds
<1> QED  BY <1>2, <1>3, <1>4, WriteIs

\* Ask stores a reply.
LEMMA AskStep ==
    ASSUME Shapes, ViewFits, Ask
    PROVE  /\ LogStep /\ LogFine(log', now')
           /\ \E m \in Stored' : m.id = doing' /\ ~Requested(m)' /\ m.kind = "reply" /\ m.finish = "none"
<1>1. PICK w : w = [Blank EXCEPT !.kind = "reply", !.parent = User.id, !.ready = TRUE]
  OBVIOUS
<1>2. loop = "ready" /\ late' = late \cup Missed /\ mid' = mid /\ Write(w)
  BY <1>1 DEF Ask, reqVars
<1>3. User.id \in Nat /\ \E n \in Stored : n.id = User.id
  BY <1>2, UserIsStored DEF Shows, Reading
<1>4. /\ w \in Messages /\ w.overflow = FALSE /\ w.tail = 0 /\ w.finish = "none" /\ w.text = {}
      /\ w.kind = "reply" /\ w.parent = User.id /\ w.ready
  BY <1>1, <1>3 DEF Messages, Blank, AssistantKinds
<1> QED  BY <1>2, <1>3, <1>4, WriteIs

\* CompactFirst stores a compaction.
LEMMA CompactFirstStep ==
    ASSUME Shapes, CompactFirst
    PROVE  /\ LogStep /\ LogFine(log', now')
           /\ \E m \in Stored' : m.id = doing' /\ ~Requested(m)' /\ IsUser(m)
<1>1. PICK w : w = [Blank EXCEPT !.kind = "compaction", !.auto = TRUE]
  OBVIOUS
<1>2. mid' = mid /\ Write(w)
  BY <1>1 DEF CompactFirst, reqVars
<1>3. /\ w \in Messages /\ w.auto = TRUE /\ w.tail = 0 /\ w.finish = "none" /\ w.text = {}
      /\ w.kind = "compaction" /\ IsUser(w)
  BY <1>1 DEF Messages, Blank, UserKinds, IsUser
<1> QED  BY <1>2, <1>3, WriteIs DEF IsUser

\* CreateAuto stores a compaction.
LEMMA CreateAutoStep ==
    ASSUME Shapes, CreateAuto
    PROVE  /\ LogStep /\ LogFine(log', now')
           /\ \E m \in Stored' : m.id = doing' /\ ~Requested(m)' /\ IsUser(m)
<1>1. PICK w : w = [Blank EXCEPT !.kind = "compaction", !.auto = TRUE, !.overflow = log[IndexOf(log, doing)].finish = "none"]
  OBVIOUS
<1>2. mid' = mid /\ Write(w)
  BY <1>1 DEF CreateAuto, reqVars
<1>3. /\ w \in Messages /\ w.auto = TRUE /\ w.tail = 0 /\ w.finish = "none" /\ w.text = {}
      /\ w.kind = "compaction" /\ IsUser(w)
  BY <1>1 DEF Messages, Blank, UserKinds, IsUser
<1> QED  BY <1>2, <1>3, WriteIs DEF IsUser

\* The message that is being written becomes y.
LEMMA DoingIsStored ==
    ASSUME Shapes, doing # 0
    PROVE  /\ \E x \in Stored : x \in Messages /\ DoingIs(x)
           /\ \A x \in Stored : DoingIs(x) => IndexOf(log, doing) # 0 /\ log[IndexOf(log, doing)] = x
<1>1. \E x \in Stored : DoingIs(x)
  BY DEF Shapes, RunShapes
<1>2. \A x \in Stored : x \in Messages
  BY DEF Shapes, LogFine, Stored, Range
<1>3. ASSUME NEW x \in Stored, DoingIs(x) PROVE IndexOf(log, doing) # 0 /\ log[IndexOf(log, doing)] = x
  <2>1. x.id = doing /\ x \in Range(log) /\ LogFine(log, now)
    BY <1>3 DEF DoingIs, Stored, Shapes
  <2>2. x.tail # 0 => HasPart(x, "compaction")
    BY <2>1 DEF LogFine
  <2>3. IndexOf(log, x.id) # 0 /\ log[IndexOf(log, x.id)] = x
    BY <1>2, <1>3, <2>1, <2>2, ChangeFine
  <2> QED  BY <2>1, <2>3
<1> QED  BY <1>1, <1>2, <1>3

\* What becomes of the message that is being written, in the log.
LEMMA DoingChanges ==
    ASSUME NEW x \in Stored, NEW y \in Messages, Shapes, doing # 0, DoingIs(x),
           y.id = x.id, y.time = x.time, y.kind = x.kind, y.auto = x.auto, y.overflow = x.overflow, y.of = x.of,
           y.tail = x.tail, x.ready => y.ready, y.text = x.text, y.parent = x.parent,
           y.finish = x.finish \/ Closes(x, y), y.error = x.error \/ (x.finish = "none" /\ loop' # loop)
    PROVE  /\ LogFine(Update(log, doing, y), now)
           /\ Range(Update(log, doing, y)) = (Stored \ {x}) \cup {y}
           /\ Kept(x, y)
<1>1. x.id = doing /\ x \in Range(log) /\ LogFine(log, now)
  BY DEF DoingIs, Stored, Shapes
<1>2. y.tail # 0 => HasPart(y, "compaction")
  BY <1>1 DEF LogFine, HasPart
<1>3. LogFine(Update(log, x.id, y), now) /\ Range(Update(log, x.id, y)) = (Range(log) \ {x}) \cup {y}
  BY <1>1, <1>2, ChangeFine
<1>4. Kept(x, y)
  BY <1>1 DEF Kept
<1> QED  BY <1>1, <1>3, <1>4 DEF Stored

\* A step that only closes or completes the message that is being written.
LEMMA DoingStep ==
    ASSUME NEW x \in Stored, NEW y \in Messages, Shapes, doing # 0, DoingIs(x),
           y.id = x.id, y.time = x.time, y.kind = x.kind, y.auto = x.auto, y.overflow = x.overflow, y.of = x.of,
           y.tail = x.tail, x.ready => y.ready, y.text = x.text, y.parent = x.parent,
           y.finish = x.finish \/ Closes(x, y), y.error = x.error \/ (x.finish = "none" /\ loop' # loop),
           log' = Update(log, doing, y), now' = now
    PROVE  LogStep /\ LogFine(log', now') /\ y \in Stored'
<1>1. /\ LogFine(Update(log, doing, y), now)
      /\ Range(Update(log, doing, y)) = (Stored \ {x}) \cup {y}
      /\ Kept(x, y)
  BY DoingChanges
<1>2. LogFine(log', now') /\ Stored' = (Stored \ {x}) \cup {y}
  BY <1>1 DEF Stored
<1> QED  BY <1>1, <1>2, ChangeStepIs

\* Reply closes the reply that is being written.
LEMMA ReplyStep ==
    ASSUME Shapes, Reply
    PROVE  /\ LogStep /\ LogFine(log', now')
           /\ loop' = "create" => \E m \in Stored' : m.id = doing /\ m.kind = "reply"
<1>1. loop = "asking" /\ doing # 0 /\ now' = now
  BY DEF Reply, Shapes, RunShapes, Writing
<1>2. PICK x \in Stored : x \in Messages /\ DoingIs(x) /\ log[IndexOf(log, doing)] = x
  BY <1>1, DoingIsStored
<1>3. x.finish = "none" /\ x.kind = "reply" /\ x.id = doing
  BY <1>1, <1>2 DEF DoingIs, Reading
<1>4. PICK r \in Replies : log' = Update(log, doing, [x EXCEPT
                !.finish = CASE r \in {"stop", "stop with tools", "full"} -> "stop"
                             [] r = "tool-calls" -> "tool-calls"
                             [] OTHER -> "none",
                !.tools = r \in {"stop with tools", "tool-calls"},
                !.full = r = "full",
                !.error = r = "error"])
  BY <1>2 DEF Reply
<1>5. PICK f \in {"none", "stop", "tool-calls"} :
         f = CASE r \in {"stop", "stop with tools", "full"} -> "stop"
               [] r = "tool-calls" -> "tool-calls"
               [] OTHER -> "none"
  OBVIOUS
<1>6. (r \in {"stop with tools", "tool-calls"}) \in BOOLEAN /\ (r = "full") \in BOOLEAN /\ (r = "error") \in BOOLEAN
  OBVIOUS
<1>9. PICK y : y = [x EXCEPT !.finish = f, !.tools = r \in {"stop with tools", "tool-calls"},
                             !.full = r = "full", !.error = r = "error"]
  OBVIOUS
<1>10. log' = Update(log, doing, y)
  BY <1>4, <1>5, <1>9
<1>11. /\ y \in Messages /\ y.id = x.id /\ y.time = x.time /\ y.kind = x.kind /\ y.auto = x.auto
       /\ y.overflow = x.overflow /\ y.of = x.of /\ y.tail = x.tail /\ y.ready = x.ready /\ y.text = x.text
       /\ y.parent = x.parent
  <2>1. y \in Messages
    BY <1>2, <1>6, <1>9, ZenonT(60) DEF Messages
  <2>2. y.id = x.id /\ y.time = x.time /\ y.kind = x.kind /\ y.auto = x.auto /\ y.overflow = x.overflow /\ y.of = x.of
    BY <1>2, <1>9, ZenonT(30) DEF Messages
  <2>3. y.tail = x.tail /\ y.ready = x.ready /\ y.text = x.text /\ y.parent = x.parent
    BY <1>2, <1>9, ZenonT(30) DEF Messages
  <2> QED  BY <2>1, <2>2, <2>3
<1>12. Closes(x, y) /\ loop' # loop
  <2>1. loop' # loop
    BY <1>1 DEF Reply
  <2> QED  BY <1>1, <1>3, <2>1 DEF Closes
<1>13. LogStep /\ LogFine(log', now') /\ y \in Stored'
  BY <1>1, <1>2, <1>3, <1>10, <1>11, <1>12, DoingStep
<1> QED  BY <1>3, <1>11, <1>13

\* WriteParts completes what the run wrote.
LEMMA WritePartsStep ==
    ASSUME Shapes, WriteParts
    PROVE  LogStep /\ LogFine(log', now')
<1>1. loop = "parts" /\ doing # 0 /\ now' = now
  BY DEF WriteParts, Shapes, RunShapes, Writing
<1>2. PICK x \in Stored : x \in Messages /\ DoingIs(x) /\ log[IndexOf(log, doing)] = x
  BY <1>1, DoingIsStored
<1>3. PICK y : y = [x EXCEPT !.ready = TRUE]
  OBVIOUS
<1>4. log' = Update(log, doing, y)
  BY <1>2, <1>3 DEF WriteParts, Update
<1>5. /\ y \in Messages /\ y.id = x.id /\ y.time = x.time /\ y.kind = x.kind /\ y.auto = x.auto
      /\ y.overflow = x.overflow /\ y.of = x.of /\ y.tail = x.tail /\ y.ready /\ y.text = x.text
      /\ y.parent = x.parent /\ y.finish = x.finish /\ y.error = x.error
  BY <1>2, <1>3 DEF Messages
<1> QED  BY <1>1, <1>2, <1>4, <1>5, DoingStep

\* Cancel closes what the run is writing, if it is an assistant message.
LEMMA CancelStep ==
    ASSUME Shapes, Cancel
    PROVE  LogStep /\ LogFine(log', now')
<1>0. now' = now /\ LogFine(log, now)
  BY DEF Cancel, Shapes
<1>1. CASE loop \in {"asking", "summarizing"}
  <2>1. doing # 0
    BY <1>1 DEF Shapes, RunShapes, Writing
  <2>2. PICK x \in Stored : x \in Messages /\ DoingIs(x) /\ log[IndexOf(log, doing)] = x
    BY <2>1, DoingIsStored
  <2>3. PICK y : y = [x EXCEPT !.error = TRUE]
    OBVIOUS
  <2>4. log' = Update(log, doing, y)
    BY <1>1, <2>2, <2>3 DEF Cancel, Update
  <2>5. /\ y \in Messages /\ y.id = x.id /\ y.time = x.time /\ y.kind = x.kind /\ y.auto = x.auto
        /\ y.overflow = x.overflow /\ y.of = x.of /\ y.tail = x.tail /\ y.ready = x.ready /\ y.text = x.text
        /\ y.parent = x.parent /\ y.finish = x.finish
    BY <2>2, <2>3 DEF Messages
  <2>6. x.finish = "none" /\ loop' # loop
    BY <1>1, <2>2 DEF DoingIs, Reading, Cancel, Settle
  <2> QED  BY <1>0, <2>1, <2>2, <2>4, <2>5, <2>6, DoingStep
<1>2. CASE loop = "subtask"
  <2>1. doing # 0
    BY <1>2 DEF Shapes, RunShapes, Writing
  <2>2. PICK x \in Stored : x \in Messages /\ DoingIs(x) /\ log[IndexOf(log, doing)] = x
    BY <2>1, DoingIsStored
  <2>3. PICK y : y = [x EXCEPT !.finish = "tool-calls"]
    OBVIOUS
  <2>4. log' = Update(log, doing, y)
    BY <1>2, <2>2, <2>3 DEF Cancel, Update
  <2>5. /\ y \in Messages /\ y.id = x.id /\ y.time = x.time /\ y.kind = x.kind /\ y.auto = x.auto
        /\ y.overflow = x.overflow /\ y.of = x.of /\ y.tail = x.tail /\ y.ready = x.ready /\ y.text = x.text
        /\ y.parent = x.parent /\ y.finish = "tool-calls" /\ y.error = x.error
    BY <2>2, <2>3 DEF Messages
  <2>6. Closes(x, y)
    BY <1>2, <2>2, <2>5 DEF Closes, DoingIs, Reading, Cancel, Settle
  <2> QED  BY <1>0, <2>1, <2>2, <2>4, <2>5, <2>6, DoingStep
<1>3. CASE loop \notin {"asking", "summarizing", "subtask"}
  <2>1. log' = log
    BY <1>3 DEF Cancel
  <2> QED  BY <1>0, <2>1, NowIs, SameStepIs
<1> QED  BY <1>1, <1>2, <1>3

\* The subtask is done: y is what becomes of its message.
LEMMA EndSubtaskIs ==
    ASSUME Shapes, EndSubtask
    PROVE  /\ loop = "subtask" /\ doing # 0 /\ mid' = mid /\ late' = late
           /\ \/ loop' = "fail" /\ log' = log /\ now' = now /\ doing' = doing /\ ran' = ran
              \/ \E x \in Stored, y \in Messages :
                    /\ DoingIs(x) /\ x \in Messages /\ y = [x EXCEPT !.finish = "tool-calls"]
                    /\ ran' = ran \cup {view[Task(view)].id}
                    /\ \/ loop' = "scan" /\ log' = Update(log, doing, y) /\ doing' = 0 /\ now' = now
                       \/ /\ Tick /\ doing' = now' /\ loop' = "parts"
                          /\ log' = Insert(Update(log, doing, y), [Blank EXCEPT !.id = now', !.time = now'])
<1>1. loop = "subtask" /\ doing # 0 /\ mid' = mid /\ late' = late
  BY DEF EndSubtask, Shapes, RunShapes, Writing, reqVars
<1>2. PICK x \in Stored : x \in Messages /\ DoingIs(x) /\ log[IndexOf(log, doing)] = x
  BY <1>1, DoingIsStored
<1>3. PICK y : y = [x EXCEPT !.finish = "tool-calls"]
  OBVIOUS
<1>4. y \in Messages
  BY <1>2, <1>3 DEF Messages
<1>5. [log EXCEPT ![IndexOf(log, doing)].finish = "tool-calls"] = Update(log, doing, y)
  BY <1>2, <1>3 DEF Update
<1>6. \/ loop' = "fail" /\ log' = log /\ now' = now /\ doing' = doing /\ ran' = ran
      \/ /\ ran' = ran \cup {view[Task(view)].id}
         /\ \/ loop' = "scan" /\ log' = Update(log, doing, y) /\ doing' = 0 /\ now' = now
            \/ /\ Tick /\ doing' = now' /\ loop' = "parts"
               /\ log' = Insert(Update(log, doing, y), [Blank EXCEPT !.id = now', !.time = now'])
  BY <1>5 DEF EndSubtask
<1> QED  BY <1>1, <1>2, <1>3, <1>4, <1>6

\* The run changes its message and writes the next one, a user message.
LEMMA DoingAddStep ==
    ASSUME NEW l, NEW m \in Messages, NEW A, Shapes, Tick, mid' = mid, doing' = now', LogFine(l, now),
           Range(l) = A, log' = Insert(l, m), m.id = now', m.time = now', m.overflow => m.auto, m.tail = 0,
           m.finish = "none", IsUser(m), \A q \in m.text : \E o \in Stored : q \in o.text,
           \A o \in Stored : \E p \in A : Kept(o, p),
           \A p \in A : \E o \in Stored : Kept(o, p)
    PROVE  LogStep /\ LogFine(log', now') /\ m \in Stored' /\ ~Requested(m)'
<1>1. now' = now + 1
  BY DEF Tick
<1>2. m.kind # "summary"
  BY DEF IsUser, UserKinds
<1>3. /\ LogFine(log', now')
      /\ Stored' = Range(l) \cup {m}
      /\ Suits(m)'
      /\ \A o \in Range(l) : o.id # m.id
  BY <1>2, RunAdds
<1>4. \A o \in Stored : o.id # m.id
  BY <1>3 DEF Kept
<1>5. Comes(m)
  BY <1>1, <1>2, <1>3, <1>4 DEF Comes
<1>6. LogStep
  BY <1>3, <1>5 DEF LogStep
<1>7. ~Requested(m)'
  <2>1. \A q \in Requests : mid[q].id <= now /\ mid[q].id \in Nat
    BY DEF Shapes, RequestShapes
  <2> QED  BY <1>1, <2>1, NowIs DEF Requested
<1> QED  BY <1>3, <1>6, <1>7

\* EndSubtask closes the message of the subtask; a command writes a prompt after it.
LEMMA EndSubtaskStep ==
    ASSUME Shapes, EndSubtask
    PROVE  /\ LogStep /\ LogFine(log', now')
           /\ loop' = "parts" => \E m \in Stored' : m.id = doing' /\ ~Requested(m)' /\ IsUser(m)
           /\ ran' = ran \/ \E y \in Stored' : y.id = doing /\ y.kind = "task" /\ y.finish = "tool-calls"
<1>1. loop = "subtask" /\ doing # 0 /\ mid' = mid
  BY EndSubtaskIs
<1>2. CASE loop' = "fail" /\ log' = log /\ now' = now /\ doing' = doing /\ ran' = ran
  BY <1>2, NowIs, SameStepIs DEF Shapes
<1>3. ASSUME NEW x \in Stored, NEW y \in Messages, DoingIs(x), x \in Messages, y = [x EXCEPT !.finish = "tool-calls"]
      PROVE  /\ LogFine(Update(log, doing, y), now)
             /\ Range(Update(log, doing, y)) = (Stored \ {x}) \cup {y}
             /\ Kept(x, y) /\ y.id = doing /\ y.kind = "task" /\ y.finish = "tool-calls"
  <2>1. /\ y.id = x.id /\ y.time = x.time /\ y.kind = x.kind /\ y.auto = x.auto
        /\ y.overflow = x.overflow /\ y.of = x.of /\ y.tail = x.tail /\ y.ready = x.ready /\ y.text = x.text
        /\ y.parent = x.parent /\ y.finish = "tool-calls" /\ y.error = x.error
    BY <1>3 DEF Messages
  <2>2. x.id = doing /\ x.kind = "task" /\ x.finish = "none"
    BY <1>1, <1>3 DEF DoingIs, Reading
  <2>3. Closes(x, y)
    BY <1>1, <2>1, <2>2 DEF Closes, EndSubtask
  <2>4. /\ LogFine(Update(log, doing, y), now)
        /\ Range(Update(log, doing, y)) = (Stored \ {x}) \cup {y}
        /\ Kept(x, y)
    BY <1>1, <1>3, <2>1, <2>3, DoingChanges
  <2> QED  BY <2>1, <2>2, <2>4
<1>4. ASSUME NEW x \in Stored, NEW y \in Messages, DoingIs(x), x \in Messages, y = [x EXCEPT !.finish = "tool-calls"],
             loop' = "scan", log' = Update(log, doing, y), doing' = 0, now' = now
      PROVE  LogStep /\ LogFine(log', now') /\ y \in Stored' /\ y.id = doing /\ y.kind = "task" /\ y.finish = "tool-calls"
  <2>1. Stored' = (Stored \ {x}) \cup {y} /\ LogFine(log', now') /\ Kept(x, y)
    BY <1>3, <1>4 DEF Stored
  <2> QED  BY <1>3, <1>4, <2>1, ChangeStepIs
<1>5. ASSUME NEW x \in Stored, NEW y \in Messages, DoingIs(x), x \in Messages, y = [x EXCEPT !.finish = "tool-calls"],
             Tick, doing' = now', loop' = "parts",
             log' = Insert(Update(log, doing, y), [Blank EXCEPT !.id = now', !.time = now'])
      PROVE  /\ LogStep /\ LogFine(log', now') /\ y \in Stored' /\ y.id = doing /\ y.kind = "task" /\ y.finish = "tool-calls"
             /\ \E m \in Stored' : m.id = doing' /\ ~Requested(m)' /\ IsUser(m)
  <2>1. PICK m : m = [Blank EXCEPT !.id = now', !.time = now']
    OBVIOUS
  <2>2. now' \in Nat
    BY <1>5, NowIs
  <2>3. /\ m \in Messages /\ m.id = now' /\ m.time = now' /\ m.overflow = FALSE /\ m.tail = 0 /\ m.finish = "none"
        /\ IsUser(m) /\ m.text = {}
    BY <2>1, <2>2 DEF Messages, Blank, UserKinds, IsUser
  <2>4. PICK l : l = Update(log, doing, y)
    OBVIOUS
  <2>5. LogFine(l, now) /\ Range(l) = (Stored \ {x}) \cup {y} /\ Kept(x, y) /\ y.id = doing /\ y.kind = "task" /\ y.finish = "tool-calls"
    BY <1>3, <1>5, <2>4
  <2>6. /\ \A o \in Stored : \E p \in Range(l) : Kept(o, p)
        /\ \A p \in Range(l) : \E o \in Stored : Kept(o, p)
    BY <2>5, KeptIsItself
  <2>7. log' = Insert(l, m)
    BY <1>5, <2>1, <2>4
  <2>8. LogStep /\ LogFine(log', now') /\ m \in Stored' /\ ~Requested(m)'
    BY <1>1, <1>5, <2>3, <2>5, <2>6, <2>7, DoingAddStep
  <2>9. y \in Stored'
    <3>1. \A n : Kept(y, n) => n.id = y.id
      BY DEF Kept
    <3>2. now' = now + 1 /\ now \in Nat /\ now' \in Ids
      BY <1>5, NowIs DEF Tick
    <3>3. Range(Insert(l, m)) = Range(l) \cup {m}
      <4>1. \A o \in Range(l) : o.id # m.id /\ o.time # m.time
        BY <2>3, <2>5, <3>2 DEF LogFine
      <4>2. m.id \in 1 .. now' /\ m.time \in 1 .. now' /\ now <= now'
        BY <2>3, <3>2
      <4>3. LogFine(l, now) /\ now' \in Ids /\ m \in Messages /\ (m.overflow => m.auto) /\ m.tail = 0 /\ IsUser(m)
        BY <2>3, <2>5, <3>2
      <4> QED  BY ONLY <4>1, <4>2, <4>3, AddFine
    <3> QED  BY <2>5, <2>7, <3>3 DEF Stored
  <2> QED  BY <1>5, <2>3, <2>5, <2>8, <2>9
<1> QED  BY <1>2, <1>4, <1>5, EndSubtaskIs

-----------------------------------------------------------------------------
(* What a summary is made of *)

\* ReplayAt is the place of a turn in the view, or 0.
LEMMA ReplayIs ==
    ASSUME NEW s \in Seq(Messages), NEW u
    PROVE  ReplayAt(s, u) \in 0 .. Len(s) /\ (ReplayAt(s, u) # 0 => IsTurn(s[ReplayAt(s, u)]))
<1> DEFINE to == IndexOf(s, u) - 1
           T == {j \in 1 .. to : IsTurn(s[j])}
           i == IF T # {} THEN Max(T) ELSE 0
<1>1. Len(s) \in Nat /\ IndexOf(s, u) \in 0 .. Len(s)
  BY IndexOfIs
<1>2. T \in SUBSET (0 .. Len(s))
  BY <1>1
<1>3. i \in 0 .. Len(s) /\ (T = {} => i = 0) /\ (T # {} => i \in T)
  <2> HIDE DEF T
  <2> QED  BY <1>1, <1>2, LastPlace
<1>4. i # 0 => IsTurn(s[i])
  BY <1>3
<1> HIDE DEF i
<1>5. ReplayAt(s, u) = i \/ ReplayAt(s, u) = 0
  BY DEF ReplayAt, SelectLastInSubSeq, i
<1> QED  BY <1>1, <1>3, <1>4, <1>5

\* No later turn lies before the message u.
LEMMA ReplayIsLast ==
    ASSUME NEW s \in Seq(Messages), NEW u, ReplayAt(s, u) # 0,
           NEW j \in 1 .. Len(s), j < IndexOf(s, u), IsTurn(s[j])
    PROVE  j <= ReplayAt(s, u)
<1> DEFINE to == IndexOf(s, u) - 1
           T == {k \in 1 .. to : IsTurn(s[k])}
           i == IF T # {} THEN Max(T) ELSE 0
<1>1. Len(s) \in Nat /\ IndexOf(s, u) \in 0 .. Len(s)
  BY IndexOfIs
<1>2. T \in SUBSET (0 .. Len(s)) /\ j \in T
  BY <1>1
<1>3. i >= j
  <2> HIDE DEF T
  <2> QED  BY <1>1, <1>2, LastPlace
<1> HIDE DEF i
<1>4. ReplayAt(s, u) = i
  <2>1. ReplayAt(s, u) = i \/ ReplayAt(s, u) = 0
    BY DEF ReplayAt, SelectLastInSubSeq, i
  <2> QED  BY <2>1
<1> QED  BY <1>3, <1>4

\* History shows the first places of the view, all but a compaction if nothing is replayed.
LEMMA HistoryIs ==
    ASSUME NEW s \in Seq(Messages), NEW u, NEW o \in BOOLEAN, NEW h, h = Summarised(s, u, o)
    PROVE  /\ h \in Seq(Messages) /\ Len(h) <= Len(s)
           /\ \A i \in 1 .. Len(h) : h[i] = s[i]
           /\ \A i \in 1 .. Len(s) : s[i].kind # "compaction" =>
                 i \in 1 .. Len(h) \/ (o /\ ReplayAt(s, u) # 0 /\ ReplayAt(s, u) <= i)
<1> DEFINE r == IF o THEN ReplayAt(s, u) ELSE 0
           g == IF r = 0 THEN s ELSE SubSeq(s, 1, r - 1)
<1>0. Len(s) \in Nat /\ \A j \in 1 .. Len(s) : s[j] \in Messages
  OBVIOUS
<1>1. r \in 0 .. Len(s) /\ (r # 0 => o /\ ReplayAt(s, u) = r)
  BY <1>0, ReplayIs
<1>2. h = IF g # <<>> /\ Last(g).id = u /\ HasPart(Last(g), "compaction") THEN Front(g) ELSE g
  BY DEF Summarised
<1> HIDE DEF r
<1>3. /\ g \in Seq(Messages) /\ Len(g) <= Len(s) /\ \A i \in 1 .. Len(g) : g[i] = s[i]
      /\ \A i \in 1 .. Len(s) : i \in 1 .. Len(g) \/ (r # 0 /\ r <= i)
  <2>1. CASE r = 0
    BY <1>0, <1>1, <2>1
  <2>2. CASE r # 0
    <3>1. 1 <= r /\ r - 1 <= Len(s) /\ \A j \in 1 .. r - 1 : s[j] \in Messages
      BY <1>0, <1>1, <2>2
    <3>2. /\ SubSeq(s, 1, r - 1) \in Seq(Messages)
          /\ Len(SubSeq(s, 1, r - 1)) = r - 1
          /\ \A i \in 1 .. r - 1 : SubSeq(s, 1, r - 1)[i] = s[i]
      BY <1>0, <1>1, <2>2, <3>1
    <3> QED  BY <1>1, <2>2, <3>1, <3>2
  <2> QED  BY <2>1, <2>2
<1> HIDE DEF g
<1>4. CASE h = g
  BY <1>0, <1>1, <1>3, <1>4
<1>5. CASE g # <<>> /\ HasPart(Last(g), "compaction") /\ h = Front(g)
  <2>1. Len(g) \in Nat /\ Len(g) >= 1 /\ g[Len(g)].kind = "compaction"
    BY <1>3, <1>5 DEF HasPart, Last
  <2>2. h = SubSeq(g, 1, Len(g) - 1)
    BY <1>5 DEF Front
  <2>3. h \in Seq(Messages) /\ Len(h) = Len(g) - 1 /\ \A i \in 1 .. Len(g) - 1 : h[i] = g[i]
    <3>1. PICK n \in Nat : n = Len(g) - 1
      BY <2>1
    <3>2. \A i \in 1 .. n : g[i] \in Messages
      BY <1>3, <2>1, <3>1
    <3>3. /\ SubSeq(g, 1, n) \in Seq(Messages)
          /\ Len(SubSeq(g, 1, n)) = n
          /\ \A i \in 1 .. n : SubSeq(g, 1, n)[i] = g[i]
      BY <3>2
    <3> QED  BY <2>2, <3>1, <3>3
  <2>4. \A i \in 1 .. Len(h) : h[i] = s[i]
    BY <1>3, <2>1, <2>3
  <2>5. \A i \in 1 .. Len(s) : s[i].kind # "compaction" => i \in 1 .. Len(h) \/ (r # 0 /\ r <= i)
    BY <1>3, <2>1, <2>3
  <2> QED  BY <1>0, <1>1, <1>3, <2>1, <2>3, <2>4, <2>5
<1> QED  BY <1>2, <1>4, <1>5

\* A tail begins with the id of a message.
LEMMA TailIs ==
    ASSUME NEW h \in Seq(Messages), NEW tail \in TailStarts(h, TailTurns)
    PROVE  tail \in Nat
<1>1. tail = 0 \/ \E i \in Visible(h) : tail = h[i].id
  BY DEF TailStarts
<1>2. \A i \in Visible(h) : h[i] \in Messages
  BY DEF Visible
<1> QED  BY <1>1, <1>2 DEF Messages

\* The anchor is the id of a message in the history.
LEMMA AnchorIs ==
    ASSUME NEW h \in Seq(Messages)
    PROVE  Anchor(h) = 0 \/ \E i \in 1 .. Len(h) : Anchor(h) = h[i].id
<1>1. Priors(h) \in SUBSET Nat /\ Len(h) \in Nat /\ \A x \in Priors(h) : x \in 1 .. Len(h) /\ x <= Len(h)
  BY DEF Priors
<1>2. CASE Priors(h) = {}
  BY <1>2 DEF Anchor
<1>3. CASE Priors(h) # {}
  <2>1. Max(Priors(h)) \in Priors(h)
    BY <1>1, <1>3, MaxIs
  <2>2. Anchor(h) = h[Max(Priors(h))].id
    BY <1>3 DEF Anchor
  <2> QED  BY <1>1, <2>1, <2>2
<1> QED  BY <1>2, <1>3

\* Texts are requests, among them those of the messages that are given.
LEMMA TextsAre ==
    ASSUME NEW h \in Seq(Messages), NEW T \in SUBSET (1 .. Len(h))
    PROVE  /\ Texts(h, T) \subseteq Requests
           /\ \A i \in T : h[i].ready => h[i].text \subseteq Texts(h, T)
<1>0. \A m \in Messages : m.text \subseteq Requests
  BY DEF Messages
<1>1. \A i \in T : h[i].text \subseteq Requests
  BY <1>0
<1> QED  BY <1>1 DEF Texts

\* The log with the tail recorded, and the summary closed.
Tailed(tail, r) ==
    IF HasPart(User, "compaction") /\ tail # 0 /\ r # "too long"
    THEN [log EXCEPT ![IndexOf(log, User.id)].tail = tail] ELSE log

\* The tail of the stored message m, then.
Recorded(tail, r, m) ==
    IF m.id = User.id /\ HasPart(User, "compaction") /\ tail # 0 /\ r # "too long" THEN tail ELSE m.tail

\* The summary when it is closed.
Closed(r) ==
    [log[IndexOf(log, doing)] EXCEPT
        !.finish = CASE r = "stop" -> "stop" [] r = "too long" -> "error" [] OTHER -> "none",
        !.error = r # "stop"]

\* Whether a message is replayed after the summary.
Replayed == view[Task(view)].overflow /\ ReplayAt(view, User.id) # 0

\* The replies after the replayed message.
Passed == {view[i].id : i \in {j \in DOMAIN view : Replayed /\ j > ReplayAt(view, User.id) /\ ~IsUser(view[j])}}

\* The replayed message, or an empty prompt.
Again == [Copy(IF Replayed THEN ReplayAt(view, User.id) ELSE 0) EXCEPT !.id = now', !.time = now']

\* How a summary ends, by its tail and the outcome of the model.
EndsAs(tail, r) ==
    /\ late' = IF r = "too long" THEN late \cup {q \in Requests : mid[q].id # 0} ELSE late
    /\ r # "stop" => /\ loop' = "break" /\ log' = Update(Tailed(tail, r), doing, Closed(r)) /\ doing' = 0
                     /\ now' = now /\ folded' = folded /\ skipped' = skipped /\ heard' = heard /\ retained' = retained
    /\ r = "stop" =>
          /\ folded' = folded \cup {History[i].id : i \in Collapsed(History, tail)} \cup {Anchor(History)}
          /\ skipped' = skipped \cup Passed
          /\ heard' = heard \cup Texts(History, Collapsed(History, tail))
          /\ retained' = IF view[Task(view)].auto THEN retained
                         ELSE retained \cup Texts(History, DOMAIN History \ Collapsed(History, tail))
          /\ ~view[Task(view)].auto =>
                loop' = "scan" /\ log' = Update(Tailed(tail, r), doing, Closed(r)) /\ doing' = 0 /\ now' = now
          /\ view[Task(view)].auto =>
                /\ Tick /\ doing' = now' /\ loop' = "parts"
                /\ log' = Insert(Update(Tailed(tail, r), doing, Closed(r)), Again)

\* The ways in which a summary ends.
LEMMA EndSummaryIs ==
    ASSUME EndSummary
    PROVE  /\ loop = "summarizing" /\ mid' = mid /\ pc' = pc /\ result' = result /\ ran' = ran /\ view' = <<>>
           /\ \E tail \in TailStarts(History, TailTurns), r \in {"stop", "too long", "error"} : EndsAs(tail, r)
<1>1. loop = "summarizing" /\ mid' = mid /\ pc' = pc /\ result' = result /\ ran' = ran /\ view' = <<>>
  BY DEF EndSummary, reqVars
<1>2. \E tail \in TailStarts(History, TailTurns), r \in {"stop", "too long", "error"} : EndsAs(tail, r)
  <2>1. PICK tail \in TailStarts(History, TailTurns), r \in {"stop", "too long", "error"} :
           /\ r \in Replies
           /\ late' = IF r = "too long" THEN late \cup {q \in Requests : mid[q].id # 0} ELSE late
           /\ IF r # "stop"
                THEN /\ loop' = "break" /\ log' = Update(Tailed(tail, r), doing, Closed(r)) /\ doing' = 0
                     /\ UNCHANGED <<now, folded, skipped, heard, retained>>
                ELSE /\ folded' = folded \cup {History[i].id : i \in Collapsed(History, tail)} \cup {Anchor(History)}
                     /\ skipped' = skipped \cup Passed
                     /\ heard' = heard \cup Texts(History, Collapsed(History, tail))
                     /\ retained' = IF view[Task(view)].auto THEN retained
                            ELSE retained \cup Texts(History, DOMAIN History \ Collapsed(History, tail))
                     /\ IF ~view[Task(view)].auto
                          THEN /\ loop' = "scan" /\ log' = Update(Tailed(tail, r), doing, Closed(r)) /\ doing' = 0
                               /\ UNCHANGED now
                          ELSE /\ Tick
                               /\ log' = Insert(Update(Tailed(tail, r), doing, Closed(r)), Again)
                               /\ doing' = now'
                               /\ loop' = "parts"
    BY DEF EndSummary, Tailed, Closed, Replayed, Again, Passed
  <2>2. EndsAs(tail, r)
    BY <2>1 DEF EndsAs
  <2> QED  BY <2>2
<1> QED  BY <1>1, <1>2

\* The tail is recorded in the message that the summary answers, if at all.
LEMMA TailedIs ==
    ASSUME NEW tail \in Nat, NEW r, Shapes, ViewFits, EndSummary, loop = "summarizing", loop' # loop
    PROVE  /\ LogFine(Tailed(tail, r), now)
           /\ \A o \in Stored : ~IsUser(o) => o \in Range(Tailed(tail, r))
           /\ \A o \in Stored : \E p \in Range(Tailed(tail, r)) : Kept(o, p)
           /\ \A p \in Range(Tailed(tail, r)) : \E o \in Stored : Kept(o, p)
           /\ \A p \in Range(Tailed(tail, r)) : \E o \in Stored : p.id = o.id /\ p.tail = Recorded(tail, r, o)
<1>0. LogFine(log, now)
  BY DEF Shapes
<1>1. CASE ~(HasPart(User, "compaction") /\ tail # 0 /\ r # "too long")
  <2>1. Tailed(tail, r) = log
    BY <1>1 DEF Tailed
  <2>2. \A o \in Stored : o.tail = Recorded(tail, r, o)
    BY <1>1 DEF Recorded
  <2> QED  BY <1>0, <2>1, <2>2, KeptIsItself DEF Stored
<1>2. CASE HasPart(User, "compaction") /\ tail # 0 /\ r # "too long"
  <2>1. PICK x \in Stored : Shows(User, x)
    BY UserIsStored DEF Reading
  <2>2. x \in Messages /\ x \in Range(log)
    BY <1>0 DEF Stored, LogFine, Range
  <2>3. HasPart(x, "compaction") /\ x.id = User.id /\ IsUser(x)
    BY <1>2, <2>1 DEF Shows, HasPart, IsUser, UserKinds
  <2>4. PICK y : y = [x EXCEPT !.tail = tail]
    OBVIOUS
  <2>5. /\ y \in Messages /\ y.id = x.id /\ y.time = x.time /\ y.kind = x.kind /\ y.auto = x.auto
        /\ y.overflow = x.overflow /\ y.of = x.of /\ y.tail = tail /\ y.ready = x.ready /\ y.text = x.text
        /\ y.parent = x.parent /\ y.finish = x.finish /\ y.error = x.error
    BY <2>2, <2>4 DEF Messages
  <2>6. HasPart(y, "compaction") /\ Kept(x, y)
    BY <1>2, <2>3, <2>5 DEF HasPart, Kept
  <2>7. /\ log[IndexOf(log, x.id)] = x
        /\ LogFine(Update(log, x.id, y), now)
        /\ Range(Update(log, x.id, y)) = (Range(log) \ {x}) \cup {y}
    BY <1>0, <2>2, <2>5, <2>6, ChangeFine
  <2>8. Tailed(tail, r) = Update(log, x.id, y)
    BY <1>2, <2>3, <2>4, <2>7 DEF Tailed, Update
  <2>9. y.id = x.id /\ y.tail = Recorded(tail, r, x)
    BY <1>2, <2>3, <2>5 DEF Recorded
  <2>10. \A o \in Stored \ {x} : o.tail = Recorded(tail, r, o)
    BY <1>0, <2>2, <2>3 DEF Recorded, LogFine, Stored
  <2> QED  BY <2>3, <2>6, <2>7, <2>8, <2>9, <2>10, KeptIsItself DEF Stored
<1> QED  BY <1>1, <1>2

\* The log with the summary closed.
Summed(tail, r) == Update(Tailed(tail, r), doing, Closed(r))

\* The log l has stored messages with their tails then, and the summary has an error
\* unless it was made.
Records(l, tail, r) == \A p \in Range(l) : \E o \in Stored :
    p.id = o.id /\ p.tail = Recorded(tail, r, o) /\ (p.id = doing /\ ~p.error => r = "stop")

\* The log stays fine when the tail is recorded and the summary is closed.
LEMMA ClosedIs ==
    ASSUME NEW tail \in Nat, NEW r, r \in {"stop", "too long", "error"}, Shapes, ViewFits, EndSummary,
           EndsAs(tail, r)
    PROVE  /\ LogFine(Summed(tail, r), now)
           /\ \A o \in Stored : \E p \in Range(Summed(tail, r)) : Kept(o, p)
           /\ \A p \in Range(Summed(tail, r)) : \E o \in Stored : Kept(o, p)
           /\ Records(Summed(tail, r), tail, r)
<1> DEFINE l == Summed(tail, r)
<1> HIDE DEF l
<1>0. loop = "summarizing" /\ doing # 0 /\ loop' # loop
  BY ZenonT(60) DEF EndSummary, Shapes, RunShapes, Writing
<1>1. PICK d \in Stored : d \in Messages /\ DoingIs(d) /\ log[IndexOf(log, doing)] = d
  BY <1>0, DoingIsStored
<1>2. d.id = doing /\ d.kind = "summary" /\ d.finish = "none" /\ ~IsUser(d)
  BY <1>0, <1>1 DEF DoingIs, Reading, IsUser, UserKinds
<1>3. PICK k : k = Tailed(tail, r)
  OBVIOUS
<1>4. /\ LogFine(k, now) /\ d \in Range(k)
      /\ \A o \in Stored : \E p \in Range(k) : Kept(o, p)
      /\ \A p \in Range(k) : \E o \in Stored : Kept(o, p)
      /\ \A p \in Range(k) : \E o \in Stored : p.id = o.id /\ p.tail = Recorded(tail, r, o)
  BY <1>0, <1>2, <1>3, TailedIs
<1>5. PICK f \in {"none", "stop", "error"} :
         f = CASE r = "stop" -> "stop" [] r = "too long" -> "error" [] OTHER -> "none"
  OBVIOUS
<1>6. (r # "stop") \in BOOLEAN
  OBVIOUS
<1>7. PICK e : e = [d EXCEPT !.finish = f, !.error = r # "stop"]
  OBVIOUS
<1>8. l = Update(k, d.id, e)
  BY <1>1, <1>2, <1>3, <1>5, <1>7 DEF Closed, Summed, l
<1>9. /\ e \in Messages /\ e.id = d.id /\ e.time = d.time /\ e.kind = d.kind /\ e.auto = d.auto
      /\ e.overflow = d.overflow /\ e.of = d.of /\ e.tail = d.tail /\ e.ready = d.ready /\ e.text = d.text
      /\ e.parent = d.parent
  BY <1>1, <1>6, <1>7, ZenonT(60) DEF Messages
<1>10. e.finish = d.finish \/ Closes(d, e)
  <2>1. CASE r = "error"
    <3>1. f = "none"
      BY <1>5, <2>1
    <3> QED  BY <1>1, <1>2, <1>7, <3>1 DEF Messages
  <2>2. CASE r = "too long"
    <3>1. late' = late \cup {q \in Requests : mid[q].id # 0}
      BY <2>2 DEF EndsAs
    <3> QED  BY <1>0, <1>2, <3>1 DEF Closes
  <2>3. CASE r = "stop"
    <3>1. loop' # "break"
      BY <2>3 DEF EndsAs
    <3> QED  BY <1>0, <1>2, <3>1 DEF Closes
  <2> QED  BY <2>1, <2>2, <2>3
<1>11. Kept(d, e)
  BY <1>0, <1>2, <1>9, <1>10 DEF Kept
<1>12. e.tail # 0 => HasPart(e, "compaction")
  BY <1>4, <1>9 DEF LogFine, HasPart
<1>13. LogFine(l, now) /\ Range(l) = (Range(k) \ {d}) \cup {e}
  <2>1. LogFine(k, now) /\ d \in Range(k) /\ e \in Messages
    BY <1>4, <1>9
  <2>2. e.id = d.id /\ e.time = d.time /\ e.kind = d.kind /\ e.auto = d.auto /\ e.overflow = d.overflow /\ e.of = d.of
    BY <1>9
  <2>3. LogFine(Update(k, d.id, e), now) /\ Range(Update(k, d.id, e)) = (Range(k) \ {d}) \cup {e}
    BY ONLY <1>12, <2>1, <2>2, ChangeFine
  <2> QED  BY <1>8, <2>3
<1>14. ASSUME NEW o \in Stored PROVE \E p \in Range(l) : Kept(o, p)
  <2>1. CASE o = d
    BY <1>11, <1>13, <2>1
  <2>2. CASE o # d
    <3>1. o.id # d.id
      BY <2>2 DEF Shapes, LogFine, Stored
    <3>2. PICK p \in Range(k) : Kept(o, p)
      BY <1>4
    <3>3. p # d
      BY <3>1, <3>2 DEF Kept
    <3> QED  BY <1>13, <3>2, <3>3
  <2> QED  BY <2>1, <2>2
<1>15. \A p \in Range(l) : \E o \in Stored : Kept(o, p)
  BY <1>4, <1>11, <1>13
<1>16. ASSUME NEW p \in Range(l)
       PROVE  \E o \in Stored : p.id = o.id /\ p.tail = Recorded(tail, r, o) /\ (p.id = doing /\ ~p.error => r = "stop")
  <2>1. CASE p = e
    <3>1. PICK o \in Stored : d.id = o.id /\ d.tail = Recorded(tail, r, o)
      BY <1>4
    <3>2. ~e.error => r = "stop"
      BY <1>1, <1>6, <1>7, Zenon DEF Messages
    <3> QED  BY <1>9, <2>1, <3>1, <3>2
  <2>2. CASE p # e
    <3>1. p \in Range(k) /\ p # d
      BY <1>13, <2>2
    <3>2. p.id # doing
      BY <1>2, <1>4, <3>1 DEF LogFine
    <3> QED  BY <1>4, <3>1, <3>2
  <2> QED  BY <2>1, <2>2
<1>17. Records(l, tail, r)
  BY <1>16 DEF Records
<1> QED  BY <1>13, <1>14, <1>15, <1>17 DEF l

\* What is written after the summary is a user message, and no compaction.
LEMMA AgainIs ==
    ASSUME NEW m, Shapes, ViewFits, loop \in Reading, now' \in Nat, m = Again
    PROVE  /\ m \in Messages /\ m.id = now' /\ m.time = now' /\ m.overflow = FALSE /\ m.tail = 0
           /\ m.finish = "none" /\ IsUser(m) /\ m.kind # "compaction"
           /\ \A q \in m.text : \E o \in Stored : q \in o.text
<1>0. PICK n \in Nat : n = now'
  OBVIOUS
<1>1. PICK i : i = IF Replayed THEN ReplayAt(view, User.id) ELSE 0
  OBVIOUS
<1>2. m = [Copy(i) EXCEPT !.id = now', !.time = now']
  BY <1>1 DEF Again
<1>3. view \in Seq(Messages)
  BY DEF Shapes, RunShapes
<1>4. CASE i = 0 \/ ~view[i].ready
  <2>0. PICK c \in Nat : c = IF i = 0 THEN 0 ELSE view[i].id
    <3>1. i \in 0 .. Len(view)
      BY <1>1, <1>3, ReplayIs
    <3>2. i # 0 => view[i] \in Messages
      BY <1>3, <3>1
    <3> QED  BY <3>2 DEF Messages
  <2>1. m = [Blank EXCEPT !.of = c, !.id = n, !.time = n]
    <3>1. CASE i = 0
      <4>1. Copy(i) = Blank /\ c = 0
        BY <2>0, <3>1 DEF Copy
      <4>2. [Blank EXCEPT !.of = 0] = Blank
        BY DEF Blank
      <4>3. m = [Blank EXCEPT !.id = n, !.time = n]
        BY <1>0, <1>2, <4>1
      <4>4. m = [[Blank EXCEPT !.of = 0] EXCEPT !.id = n, !.time = n]
        BY <4>2, <4>3
      <4> QED  BY <4>1, <4>4
    <3>2. CASE i # 0 /\ ~view[i].ready
      <4>1. Copy(i) = [Blank EXCEPT !.of = c]
        BY <2>0, <3>2 DEF Copy
      <4> QED  BY <1>0, <1>2, <4>1
    <3> QED  BY <1>4, <3>1, <3>2
  <2>2. n \in Nat
    OBVIOUS
  <2>3. m \in Messages /\ m.id = n /\ m.time = n /\ m.overflow = FALSE /\ m.tail = 0 /\ m.finish = "none" /\ m.kind = "text" /\ m.text = {}
    BY ONLY <2>0, <2>1, <2>2 DEF Messages, Blank, UserKinds
  <2> QED  BY <1>0, <2>3 DEF UserKinds, IsUser
<1>5. CASE i # 0 /\ view[i].ready
  <2>1. i \in 1 .. Len(view) /\ IsTurn(view[i])
    BY <1>1, <1>3, <1>5, ReplayIs
  <2>2. view[i] \in Messages
    BY <1>3, <2>1
  <2>3. PICK k, t, c : k = view[i].kind /\ t = view[i].text /\ c = view[i].id
    OBVIOUS
  <2>4. k \in UserKinds /\ k # "compaction" /\ t \in SUBSET Requests /\ c \in Nat
    BY <1>5, <2>1, <2>2, <2>3 DEF Messages, IsTurn, IsUser, HasPart
  <2>5. m = [[Blank EXCEPT !.of = c, !.kind = k, !.text = t] EXCEPT !.id = n, !.time = n]
    BY <1>0, <1>2, <1>5, <2>3 DEF Copy
  <2>6. n \in Nat
    OBVIOUS
  <2>7. m \in Messages /\ m.id = n /\ m.time = n /\ m.overflow = FALSE /\ m.tail = 0 /\ m.finish = "none" /\ m.kind = k /\ m.text = t
    BY ONLY <2>4, <2>5, <2>6 DEF Messages, Blank
  <2>8. \E o \in Stored : o.text = t
    BY <1>3, <2>1, <2>3 DEF ViewFits, Fits, Shows, Range
  <2> QED  BY <1>0, <2>4, <2>7, <2>8 DEF IsUser
<1> QED  BY <1>4, <1>5

\* EndSummary closes the summary, records its tail and may write a prompt after it.
LEMMA EndSummaryStep ==
    ASSUME Shapes, ViewFits, EndSummary
    PROVE  /\ LogStep /\ LogFine(log', now')
           /\ loop' = "parts" => \E m \in Stored' :
                 m.id = doing' /\ ~Requested(m)' /\ IsUser(m) /\ m.kind # "compaction" /\ m.id = now + 1
           /\ loop' = "parts" => Again \in Stored'
<1>1. loop = "summarizing" /\ mid' = mid
  BY EndSummaryIs
<1>2. PICK tail, r : tail \in TailStarts(History, TailTurns) /\ r \in {"stop", "too long", "error"} /\ EndsAs(tail, r)
  BY EndSummaryIs
<1>3. tail \in Nat
  <2>1. PICK o \in BOOLEAN : o = view[Task(view)].overflow
    <3>1. TaskKind # "none"
      BY <1>1 DEF Shapes, RunShapes
    <3>2. view[Task(view)] \in Messages
      BY <1>1, <3>1, TaskIsStored DEF Reading
    <3> QED  BY <3>2 DEF Messages
  <2>2. History \in Seq(Messages)
    BY <2>1, HistoryIs DEF History, Shapes, RunShapes
  <2> QED  BY <1>2, <2>2, TailIs
<1> DEFINE l == Summed(tail, r)
<1>4. l = Update(Tailed(tail, r), doing, Closed(r))
  BY DEF Summed
<1>5. /\ LogFine(l, now)
      /\ \A o \in Stored : \E p \in Range(l) : Kept(o, p)
      /\ \A p \in Range(l) : \E o \in Stored : Kept(o, p)
  BY <1>2, <1>3, ClosedIs
<1> HIDE DEF l
<1>6. CASE loop' # "parts"
  <2>1. log' = l /\ now' = now
    BY <1>2, <1>4, <1>6 DEF EndsAs
  <2> QED  BY <1>5, <1>6, <2>1 DEF LogStep, Stored
<1>7. CASE loop' = "parts"
  <2>1. Tick /\ doing' = now' /\ log' = Insert(l, Again)
    BY <1>2, <1>4, <1>7 DEF EndsAs
  <2>2. PICK m : m = Again
    OBVIOUS
  <2>3. now' \in Nat /\ now' = now + 1
    BY <2>1, NowIs
  <2>4. /\ m \in Messages /\ m.id = now' /\ m.time = now' /\ m.overflow = FALSE /\ m.tail = 0
        /\ m.finish = "none" /\ IsUser(m) /\ m.kind # "compaction"
        /\ \A q \in m.text : \E o \in Stored : q \in o.text
    BY <1>1, <2>2, <2>3, AgainIs DEF Reading
  <2>5. log' = Insert(l, m)
    BY <2>1, <2>2
  <2>6. LogStep /\ LogFine(log', now') /\ m \in Stored' /\ ~Requested(m)'
    BY <1>1, <1>5, <2>1, <2>4, <2>5, DoingAddStep
  <2> QED  BY <2>1, <2>2, <2>3, <2>4, <2>6
<1> QED  BY <1>6, <1>7

-----------------------------------------------------------------------------
(* The requests *)

\* The requests after a step.
RequestMoves == RequestShapes' /\ MidsGrow /\ PcMoves

\* Whoever stored a message finds it in the log after a step.
LEMMA StillStored ==
    ASSUME NEW q \in Requests, Shapes, LogStep, mid'[q].id = mid[q].id, pc[q] \in {"saved", "stored", "waiting"}
    PROVE  \E m \in Stored' : m.id = mid'[q].id /\ (pc[q] # "saved" => m.ready)
<1>1. PICK m \in Stored : m.id = mid[q].id /\ (pc[q] # "saved" => m.ready)
  BY DEF Shapes, RequestShapes
<1>2. PICK n \in Stored' : Kept(m, n)
  BY DEF LogStep
<1> QED  BY <1>1, <1>2 DEF Kept

\* A step that leaves the requests alone.
LEMMA RequestsRest ==
    ASSUME Shapes, LogStep, UNCHANGED reqVars, now' \in Nat, now <= now'
    PROVE  RequestMoves
<1>1. pc' = pc /\ mid' = mid /\ result' = result /\ now \in Nat
  BY NowIs DEF reqVars
<1>2. \A q \in Requests : mid'[q].id <= now' /\ mid'[q].time <= now'
  BY <1>1 DEF Shapes, RequestShapes
<1>3. \A q \in Requests : pc'[q] \in {"saved", "stored", "waiting"} =>
          \E m \in Stored' : m.id = mid'[q].id /\ (pc'[q] # "saved" => m.ready)
  BY <1>1, StillStored
<1>4. RequestShapes'
  BY <1>1, <1>2, <1>3 DEF Shapes, RequestShapes
<1> QED  BY <1>1, <1>4 DEF RequestMoves, MidsGrow, PcMoves

\* ClientDraws keeps the requests in shape.
LEMMA ClientDrawsMoves ==
    ASSUME NEW q \in Requests, Shapes, LogStep, ClientDraws(q)
    PROVE  RequestMoves
<1>1. /\ now \in Nat /\ now' = now + 1 /\ now' \in Nat
      /\ pc' = pc /\ result' = result /\ pc[q] = "new" /\ mid[q].id = 0 /\ mid[q].time = 0 /\ q \in ClientIds
  BY NowIs DEF ClientDraws, Shapes, RequestShapes
<1>2. /\ mid' \in [Requests -> [id : Nat, time : Nat]]
      /\ mid'[q].id = now' /\ mid'[q].time = 0
      /\ \A r \in Requests : r # q => mid'[r] = mid[r]
  BY <1>1 DEF ClientDraws, Shapes, RequestShapes
<1>3. \A r \in Requests : mid[r].id <= now /\ mid[r].time <= now /\ mid[r].id \in Nat /\ mid[r].time \in Nat
  BY DEF Shapes, RequestShapes
<1>4. \A r \in Requests : mid'[r].id <= now' /\ mid'[r].time <= now'
  BY <1>1, <1>2, <1>3
<1>5. \A r \in Requests : mid'[r].time # 0 => mid'[r].id # 0 /\ mid'[r].id <= mid'[r].time
  BY <1>1, <1>2 DEF Shapes, RequestShapes
<1>6. \A r, s \in Requests : r # s /\ mid'[r].id # 0 => mid'[r].id # mid'[s].id
  BY <1>1, <1>2, <1>3 DEF Shapes, RequestShapes
<1>7. \A r, s \in Requests : r # s /\ mid'[r].time # 0 => mid'[r].time # mid'[s].time
  BY <1>1, <1>2 DEF Shapes, RequestShapes
<1>8. \A r \in Requests : /\ pc'[r] = "new" => mid'[r].time = 0
                          /\ pc'[r] = "new" /\ mid'[r].id # 0 => r \in ClientIds
                          /\ pc'[r] = "drawn" => mid'[r].time # 0 /\ Kind[r] # "compaction"
  BY <1>1, <1>2 DEF Shapes, RequestShapes
<1>9. ASSUME NEW r \in Requests, pc'[r] \in {"saved", "stored", "waiting"}
      PROVE  \E m \in Stored' : m.id = mid'[r].id /\ (pc'[r] # "saved" => m.ready)
  <2>1. r # q /\ pc[r] = pc'[r] /\ mid'[r].id = mid[r].id
    BY <1>1, <1>2, <1>9
  <2> QED  BY <1>9, <2>1, StillStored
<1>10. RequestShapes'
  BY <1>1, <1>2, <1>4, <1>5, <1>6, <1>7, <1>8, <1>9 DEF Shapes, RequestShapes
<1>11. MidsGrow /\ PcMoves
  BY <1>1, <1>2 DEF MidsGrow, PcMoves
<1> QED  BY <1>10, <1>11 DEF RequestMoves

\* A request that was new draws the time of its message, and its id at the latest then.
LEMMA DrawsMove ==
    ASSUME NEW q \in Requests, NEW to \in {"drawn", "saved"}, NEW i \in Nat, Shapes, LogStep, Tick,
           pc[q] = "new", pc' = [pc EXCEPT ![q] = to],
           mid' = [mid EXCEPT ![q] = [id |-> i, time |-> now']], result' = result,
           (i = now' /\ mid[q].id = 0) \/ (i = mid[q].id /\ i # 0),
           to = "drawn" => Kind[q] # "compaction",
           to = "saved" => \E m \in Stored' : m.id = i
    PROVE  RequestMoves
<1>1. now \in Nat /\ now' = now + 1 /\ now' \in Nat /\ mid[q].time = 0
  BY NowIs DEF Shapes, RequestShapes
<1>2. /\ mid' \in [Requests -> [id : Nat, time : Nat]]
      /\ mid'[q].id = i /\ mid'[q].time = now'
      /\ \A r \in Requests : r # q => mid'[r] = mid[r]
  BY <1>1 DEF Shapes, RequestShapes
<1>3. \A r \in Requests : mid[r].id <= now /\ mid[r].time <= now /\ mid[r].id \in Nat /\ mid[r].time \in Nat
  BY DEF Shapes, RequestShapes
<1>4. i # 0 /\ i <= now'
  BY <1>1, <1>3
<1>5. \A r \in Requests : mid'[r].id <= now' /\ mid'[r].time <= now'
  BY <1>1, <1>2, <1>3, <1>4
<1>6. \A r \in Requests : mid'[r].time # 0 => mid'[r].id # 0 /\ mid'[r].id <= mid'[r].time
  BY <1>2, <1>4 DEF Shapes, RequestShapes
<1>7. \A r \in Requests : r # q => mid[r].id # i
  BY <1>1, <1>3, <1>4 DEF Shapes, RequestShapes
<1>8. \A r, s \in Requests : r # s /\ mid'[r].id # 0 => mid'[r].id # mid'[s].id
  BY <1>2, <1>7 DEF Shapes, RequestShapes
<1>9. \A r, s \in Requests : r # s /\ mid'[r].time # 0 => mid'[r].time # mid'[s].time
  BY <1>1, <1>2, <1>3 DEF Shapes, RequestShapes
<1>10. /\ pc' \in [Requests -> {"new", "drawn", "saved", "stored", "waiting", "answered"}]
       /\ pc'[q] = to /\ \A r \in Requests : r # q => pc'[r] = pc[r]
  BY DEF Shapes, RequestShapes
<1>11. \A r \in Requests : /\ pc'[r] = "new" => mid'[r].time = 0
                           /\ pc'[r] = "new" /\ mid'[r].id # 0 => r \in ClientIds
                           /\ pc'[r] = "drawn" => mid'[r].time # 0 /\ Kind[r] # "compaction"
  BY <1>1, <1>2, <1>10 DEF Shapes, RequestShapes
<1>12. ASSUME NEW r \in Requests, pc'[r] \in {"saved", "stored", "waiting"}
       PROVE  \E m \in Stored' : m.id = mid'[r].id /\ (pc'[r] # "saved" => m.ready)
  <2>1. CASE r = q
    BY <1>2, <1>10, <1>12, <2>1
  <2>2. CASE r # q
    <3>1. pc[r] = pc'[r] /\ mid'[r].id = mid[r].id
      BY <1>2, <1>10, <2>2
    <3> QED  BY <1>12, <3>1, StillStored
  <2> QED  BY <2>1, <2>2
<1>13. result' \in [Requests -> Results]
  BY DEF Shapes, RequestShapes
<1>14. RequestShapes'
  BY <1>2, <1>5, <1>6, <1>8, <1>9, <1>10, <1>11, <1>12, <1>13 DEF RequestShapes
<1>15. MidsGrow /\ PcMoves
  BY <1>1, <1>2, <1>10 DEF MidsGrow, PcMoves
<1> QED  BY <1>14, <1>15 DEF RequestMoves

\* Draw keeps the requests in shape.
LEMMA DrawMoves ==
    ASSUME NEW q \in Requests, Shapes, LogStep, Draw(q)
    PROVE  RequestMoves
<1>1. PICK i : i = IF q \in ClientIds THEN mid[q].id ELSE now'
  OBVIOUS
<1>2. /\ Tick /\ pc[q] = "new" /\ pc' = [pc EXCEPT ![q] = "drawn"] /\ result' = result
      /\ mid' = [mid EXCEPT ![q] = [id |-> i, time |-> now']] /\ Kind[q] # "compaction"
  BY <1>1 DEF Draw, Goto
<1>3. (i = now' /\ mid[q].id = 0) \/ (i = mid[q].id /\ i # 0)
  BY <1>1 DEF Draw, Shapes, RequestShapes
<1>4. i \in Nat
  BY <1>2, <1>3, NowIs DEF Shapes, RequestShapes
<1>5. "drawn" \in {"drawn", "saved"}
  OBVIOUS
<1> QED  BY <1>2, <1>3, <1>4, <1>5, DrawsMove

\* CreateManual keeps the requests in shape.
LEMMA CreateManualMoves ==
    ASSUME NEW q \in Requests, Shapes, LogStep, CreateManual(q), \E m \in Stored' : m.id = now'
    PROVE  RequestMoves
<1>1. PICK i : i = now'
  OBVIOUS
<1>2. /\ Tick /\ pc[q] = "new" /\ pc' = [pc EXCEPT ![q] = "saved"] /\ result' = result
      /\ mid' = [mid EXCEPT ![q] = [id |-> i, time |-> now']]
  BY <1>1 DEF CreateManual, Goto
<1>3. mid[q].id = 0
  BY PromptLoopAssumption DEF CreateManual, Shapes, RequestShapes
<1>4. i \in Nat
  BY <1>1, <1>2, NowIs
<1>5. "saved" \in {"drawn", "saved"}
  OBVIOUS
<1> QED  BY <1>1, <1>2, <1>3, <1>4, <1>5, DrawsMove

\* A request goes on, and its message is where it has to be.
LEMMA GoesOn ==
    ASSUME NEW q \in Requests, NEW to \in {"saved", "stored", "waiting"}, Shapes, LogStep, now' = now,
           pc[q] # "new", pc' = [pc EXCEPT ![q] = to], mid' = mid, result' = result,
           \E m \in Stored' : m.id = mid[q].id /\ (to # "saved" => m.ready)
    PROVE  RequestMoves
<1>1. /\ pc' \in [Requests -> {"new", "drawn", "saved", "stored", "waiting", "answered"}]
      /\ pc'[q] = to /\ \A r \in Requests : r # q => pc'[r] = pc[r]
  BY DEF Shapes, RequestShapes
<1>2. \A r \in Requests : /\ pc'[r] = "new" => pc[r] = "new"
                          /\ pc'[r] = "drawn" => pc[r] = "drawn"
  BY <1>1
<1>3. ASSUME NEW r \in Requests, pc'[r] \in {"saved", "stored", "waiting"}
      PROVE  \E m \in Stored' : m.id = mid'[r].id /\ (pc'[r] # "saved" => m.ready)
  <2>1. CASE r = q
    BY <1>1, <1>3, <2>1
  <2>2. CASE r # q
    BY <1>1, <1>3, <2>2, StillStored
  <2> QED  BY <2>1, <2>2
<1>4. RequestShapes'
  BY <1>1, <1>2, <1>3 DEF Shapes, RequestShapes
<1> QED  BY <1>2, <1>4 DEF RequestMoves, MidsGrow, PcMoves

\* The waiting requests are answered, or all that drew an id.
LEMMA AnswersMove ==
    ASSUME NEW A, Shapes, LogStep, now' = now, mid' = mid,
           pc' = [q \in Requests |-> IF q \in A THEN "answered" ELSE pc[q]],
           result' \in [Requests -> Results]
    PROVE  RequestMoves
<1>1. /\ pc' \in [Requests -> {"new", "drawn", "saved", "stored", "waiting", "answered"}]
      /\ \A r \in Requests : pc'[r] # "answered" => pc'[r] = pc[r]
  BY DEF Shapes, RequestShapes
<1>2. ASSUME NEW r \in Requests, pc'[r] \in {"saved", "stored", "waiting"}
      PROVE  \E m \in Stored' : m.id = mid'[r].id /\ (pc'[r] # "saved" => m.ready)
  BY <1>1, <1>2, StillStored
<1>3. RequestShapes'
  BY <1>1, <1>2 DEF Shapes, RequestShapes
<1> QED  BY <1>1, <1>3 DEF RequestMoves, MidsGrow, PcMoves

\* Settle answers those who wait.
LEMMA SettleMoves ==
    ASSUME NEW r \in Results, Shapes, LogStep, now' = now, mid' = mid, Settle(r)
    PROVE  RequestMoves
<1> DEFINE A == {q \in Requests : pc[q] = "waiting"}
<1>1. pc' = [q \in Requests |-> IF q \in A THEN "answered" ELSE pc[q]]
  BY DEF Settle
<1>2. result' \in [Requests -> Results]
  BY DEF Settle, Shapes, RequestShapes
<1> HIDE DEF A
<1> QED  BY <1>1, <1>2, AnswersMove

\* Restart answers all that had drawn an id.
LEMMA RestartMoves ==
    ASSUME Shapes, LogStep, Restart
    PROVE  RequestMoves
<1> DEFINE A == {q \in Requests : mid[q].id # 0}
<1>1. pc' = [q \in Requests |-> IF q \in A THEN "answered" ELSE pc[q]]
  BY DEF Restart
<1>2. result' \in [Requests -> Results]
  BY DEF Restart, Shapes, RequestShapes, Results
<1>3. now' = now /\ mid' = mid
  BY DEF Restart
<1> HIDE DEF A
<1> QED  BY <1>1, <1>2, <1>3, AnswersMove

-----------------------------------------------------------------------------
(* What every step does to the log and the requests *)

\* What every step does to the log and the requests.
Moves == LogStep /\ LogFine(log', now') /\ RequestMoves

\* A step that leaves log, clock and requests alone.
LEMMA SameLogMoves ==
    ASSUME Shapes, UNCHANGED <<log, now, reqVars>>
    PROVE  Moves
<1>1. LogStep /\ LogFine(log', now')
  BY NowIs, SameStepIs DEF Shapes
<1>2. now' \in Nat /\ now <= now'
  BY NowIs
<1>3. RequestMoves
  BY <1>1, <1>2, RequestsRest
<1> QED  BY <1>1, <1>3 DEF Moves

\* The steps of a request move the log and the requests as they may.
LEMMA RequestStepMoves ==
    ASSUME NEW q \in Requests, Shapes,
           ClientDraws(q) \/ Draw(q) \/ Save(q) \/ CreateManual(q) \/ SaveParts(q) \/ Enter(q)
    PROVE  Moves
<1>1. CASE ClientDraws(q)
  <2>1. log' = log /\ now' \in Ids /\ now <= now'
    BY <1>1, NowIs DEF ClientDraws
  <2>2. LogStep /\ LogFine(log', now')
    BY <2>1, SameStepIs DEF Shapes
  <2> QED  BY <1>1, <2>2, ClientDrawsMoves DEF Moves
<1>2. CASE Draw(q)
  <2>1. log' = log /\ now' \in Ids /\ now <= now'
    BY <1>2, NowIs DEF Draw
  <2>2. LogStep /\ LogFine(log', now')
    BY <2>1, SameStepIs DEF Shapes
  <2> QED  BY <1>2, <2>2, DrawMoves DEF Moves
<1>3. CASE Save(q)
  <2>1. LogStep /\ LogFine(log', now')
    BY <1>3, SaveStep
  <2>2. /\ now' = now /\ mid' = mid /\ result' = result /\ pc[q] # "new" /\ pc' = [pc EXCEPT ![q] = "saved"]
    BY <1>3 DEF Save, Goto
  <2>3. \E m \in Stored' : m.id = mid[q].id
    <3>1. PICK m : m = [Blank EXCEPT !.id = mid[q].id, !.time = mid[q].time, !.kind = Kind[q], !.text = {q}]
      OBVIOUS
    <3>2. mid[q].id \in Nat /\ mid[q].time \in Nat /\ Kind[q] \in UserKinds
      BY PromptLoopAssumption DEF Shapes, RequestShapes
    <3>3. m \in Messages /\ m.id = mid[q].id /\ m.time = mid[q].time
      BY <3>1, <3>2 DEF Messages, Blank
    <3>4. log' = Insert(log, m)
      BY <1>3, <3>1 DEF Save
    <3>5. log \in Seq(Messages) /\ Ordered(log) /\ \A x \in Messages : x.time \in Nat
      BY DEF Shapes, LogFine, Messages
    <3>6. \A x \in Range(log) : x.time # m.time
      <4> TAKE x \in Range(log)
      <4>1. Suits(x) /\ pc[q] = "drawn"
        BY <1>3 DEF Shapes, StoredShapes, Stored, Save
      <4>2. x.id # mid[q].id
        BY <4>1 DEF Suits
      <4> QED  BY <3>3, <4>1, <4>2 DEF Suits
    <3>7. Range(Insert(log, m)) = Range(log) \cup {m}
      BY <3>3, <3>5, <3>6, InsertIs
    <3> QED  BY <3>3, <3>4, <3>7 DEF Stored
  <2>4. "saved" \in {"saved", "stored", "waiting"}
    OBVIOUS
  <2>5. RequestMoves
    BY <2>1, <2>2, <2>3, <2>4, GoesOn
  <2> QED  BY <2>1, <2>5 DEF Moves
<1>4. CASE CreateManual(q)
  <2>1. LogStep /\ LogFine(log', now')
    BY <1>4, CreateManualStep
  <2>2. \E m \in Stored' : m.id = now'
    <3>1. PICK m : m = [Blank EXCEPT !.id = now', !.time = now', !.kind = "compaction"]
      OBVIOUS
    <3>2. now \in Nat /\ now' = now + 1 /\ now' \in Nat
      BY <1>4, NowIs DEF CreateManual
    <3>3. m \in Messages /\ m.id = now' /\ m.time = now'
      BY <3>1, <3>2 DEF Messages, Blank, UserKinds
    <3>4. log' = Insert(log, m)
      BY <1>4, <3>1 DEF CreateManual
    <3>5. log \in Seq(Messages) /\ Ordered(log) /\ \A x \in Messages : x.time \in Nat
      BY DEF Shapes, LogFine, Messages
    <3>6. \A x \in Range(log) : x.time # m.time
      BY <3>2, <3>3 DEF Shapes, LogFine
    <3>7. Range(Insert(log, m)) = Range(log) \cup {m}
      BY <3>3, <3>5, <3>6, InsertIs
    <3> QED  BY <3>3, <3>4, <3>7 DEF Stored
  <2> QED  BY <1>4, <2>1, <2>2, CreateManualMoves DEF Moves
<1>5. CASE SaveParts(q)
  <2>1. LogStep /\ LogFine(log', now') /\ \E m \in Stored' : m.id = mid[q].id /\ m.ready
    BY <1>5, SavePartsStep
  <2>2. /\ now' = now /\ mid' = mid /\ result' = result /\ pc[q] # "new" /\ pc' = [pc EXCEPT ![q] = "stored"]
    BY <1>5 DEF SaveParts, Goto
  <2>3. "stored" \in {"saved", "stored", "waiting"}
    OBVIOUS
  <2>4. RequestMoves
    BY <2>1, <2>2, <2>3, GoesOn
  <2> QED  BY <2>1, <2>4 DEF Moves
<1>6. CASE Enter(q)
  <2>1. log' = log /\ now' = now /\ mid' = mid /\ result' = result /\ pc[q] = "stored" /\ pc' = [pc EXCEPT ![q] = "waiting"]
    BY <1>6 DEF Enter, Goto
  <2>2. LogStep /\ LogFine(log', now')
    BY <2>1, NowIs, SameStepIs DEF Shapes
  <2>3. \E m \in Stored' : m.id = mid[q].id /\ m.ready
    BY <2>1 DEF Shapes, RequestShapes, Stored
  <2>4. "waiting" \in {"saved", "stored", "waiting"}
    OBVIOUS
  <2>5. RequestMoves
    BY <2>1, <2>2, <2>3, <2>4, GoesOn
  <2> QED  BY <2>2, <2>5 DEF Moves
<1> QED  BY <1>1, <1>2, <1>3, <1>4, <1>5, <1>6

\* The steps of the run that read or write.
RunStep ==
    \/ Scan \/ Fails
    \/ StartSubtask \/ EndSubtask \/ StartSummary \/ EndSummary
    \/ CompactFirst \/ Ask \/ Reply \/ CreateAuto \/ WriteParts

\* So do the steps of the run.
LEMMA RunStepMoves ==
    ASSUME Shapes, ViewFits, RunStep
    PROVE  Moves
<1>1. CASE Scan \/ Fails
  <2>1. UNCHANGED <<log, now, reqVars>>
    BY <1>1 DEF Scan, Fails
  <2> QED  BY <2>1, SameLogMoves
<1>2. CASE ~(Scan \/ Fails)
  <2>1. LogStep /\ LogFine(log', now')
    BY <1>2, StartSubtaskStep, EndSubtaskStep, StartSummaryStep, EndSummaryStep, CompactFirstStep,
       AskStep, ReplyStep, CreateAutoStep, WritePartsStep
       DEF RunStep
  <2>2. UNCHANGED reqVars
    BY <1>2
       DEF RunStep, StartSubtask, EndSubtask, StartSummary, EndSummary, CompactFirst, Ask, Reply,
           CreateAuto, WriteParts
  <2>3. now' = now \/ Tick
    BY <1>2
       DEF RunStep, StartSubtask, EndSubtask, StartSummary, EndSummary, CompactFirst, Ask, Reply,
           CreateAuto, WriteParts, Write
  <2>4. now' \in Nat /\ now <= now'
    BY <2>3, NowIs
  <2>5. RequestMoves
    BY <2>1, <2>2, <2>4, RequestsRest
  <2> QED  BY <2>1, <2>5 DEF Moves
<1> QED  BY <1>1, <1>2

\* So do its end, a cancel and a restart.
LEMMA StopsMove ==
    ASSUME Shapes, End \/ Cancel \/ Restart
    PROVE  Moves
<1>1. now' = now /\ mid' = mid
  BY DEF End, Cancel, Restart
<1>2. LogStep /\ LogFine(log', now')
  <2>1. CASE Cancel
    BY <2>1, CancelStep
  <2>2. CASE End \/ Restart
    <3>1. log' = log
      BY <2>2 DEF End, Restart
    <3> QED  BY <1>1, <3>1, NowIs, SameStepIs DEF Shapes
  <2> QED  BY <2>1, <2>2
<1>3. CASE End
  <2>1. loop \in Results /\ Settle(loop)
    BY <1>3 DEF End, Results
  <2> QED  BY <1>1, <1>2, <2>1, SettleMoves DEF Moves
<1>4. CASE Cancel
  <2>1. "cancelled" \in Results /\ Settle("cancelled")
    BY <1>4 DEF Cancel, Results
  <2> QED  BY <1>1, <1>2, <2>1, SettleMoves DEF Moves
<1>5. CASE Restart
  BY <1>2, <1>5, RestartMoves DEF Moves
<1> QED  BY <1>3, <1>4, <1>5

\* So does every step.
LEMMA NextMoves ==
    ASSUME Shapes, ViewFits, [Next]_vars
    PROVE  Moves
<1>1. CASE \E q \in Requests : ClientDraws(q) \/ Draw(q) \/ Save(q) \/ CreateManual(q) \/ SaveParts(q) \/ Enter(q)
  BY <1>1, RequestStepMoves
<1>2. CASE RunStep
  BY <1>2, RunStepMoves
<1>3. CASE End \/ Cancel \/ Restart
  BY <1>3, StopsMove
<1>4. CASE UNCHANGED vars
  BY <1>4, SameLogMoves DEF vars
<1> QED  BY <1>1, <1>2, <1>3, <1>4 DEF Next, RunStep

\* Who was read, retained or late stays so.
LEMMA GhostsDoGrow ==
    ASSUME [Next]_vars
    PROVE  GhostsGrow
<1>1. CASE \E q \in Requests : ClientDraws(q) \/ Draw(q) \/ Save(q) \/ CreateManual(q) \/ SaveParts(q) \/ Enter(q)
  BY <1>1 DEF GhostsGrow, ClientDraws, Draw, Save, CreateManual, SaveParts, Enter, ghosts
<1>2. CASE RunStep /\ ~EndSummary
  BY <1>2
     DEF GhostsGrow, RunStep, Scan, Fails, StartSubtask, EndSubtask, StartSummary, CompactFirst,
         Ask, Reply, CreateAuto, WriteParts, ghosts
<1>3. CASE EndSummary
  BY <1>3, EndSummaryIs DEF GhostsGrow, EndsAs
<1>4. CASE End \/ Cancel \/ Restart
  BY <1>4 DEF GhostsGrow, End, Cancel, Restart, ghosts
<1>5. CASE UNCHANGED vars
  BY <1>5 DEF GhostsGrow, vars, ghosts
<1> QED  BY <1>1, <1>2, <1>3, <1>4, <1>5 DEF Next, RunStep

-----------------------------------------------------------------------------
(* The shapes after a step *)

\* A message is a request's after a step as before.
LEMMA RequestedRests ==
    ASSUME NEW m \in Stored, Shapes, Moves
    PROVE  /\ Requested(m)' <=> Requested(m)
           /\ \A q \in Requests : mid'[q].id = m.id <=> mid[q].id = m.id
<1>1. m.id \in Nat /\ m.id # 0 /\ m.id <= now /\ now \in Nat
  BY NowIs DEF Shapes, LogFine, Stored
<1>2. \A q \in Requests : mid'[q].id = m.id <=> mid[q].id = m.id
  BY <1>1 DEF Moves, RequestMoves, MidsGrow
<1> QED  BY <1>2 DEF Requested

\* Stored messages stay those of their requests or of the run.
LEMMA StoredShapesRest ==
    ASSUME Shapes, Moves
    PROVE  StoredShapes'
<1> SUFFICES ASSUME NEW n \in Stored' PROVE Suits(n)'
  BY DEF StoredShapes
<1>1. CASE Comes(n)
  BY <1>1 DEF Comes
<1>2. ASSUME NEW m \in Stored, Kept(m, n) PROVE Suits(n)'
  <2>1. /\ n.id = m.id /\ n.time = m.time /\ n.kind = m.kind /\ n.text = m.text /\ n.parent = m.parent
        /\ m.ready => n.ready
    BY <1>2 DEF Kept
  <2>2. Suits(m)
    BY DEF Shapes, StoredShapes
  <2>3. \A q \in Requests : mid'[q].id = n.id <=> mid[q].id = m.id
    BY <2>1, RequestedRests
  <2>4. m.id # 0 /\ m.time \in Nat /\ m.time <= now /\ now \in Nat
    BY NowIs DEF Shapes, LogFine, Stored
  <2>5. ASSUME NEW q \in Requests, mid'[q].id = n.id
        PROVE  pc'[q] \notin {"new", "drawn"} /\ n.time = mid'[q].time /\ n.kind = Kind[q]
               /\ n.text = IF Kind[q] = "compaction" THEN {} ELSE {q}
    <3>1. /\ pc[q] \notin {"new", "drawn"} /\ m.time = mid[q].time /\ m.kind = Kind[q]
          /\ m.text = IF Kind[q] = "compaction" THEN {} ELSE {q}
      BY <2>2, <2>3, <2>5 DEF Suits
    <3>2. pc'[q] \notin {"new", "drawn"} /\ mid'[q].time = mid[q].time
      BY <3>1 DEF Moves, RequestMoves, MidsGrow, PcMoves
    <3> QED  BY <2>1, <3>1, <3>2
  <2>6. ASSUME NEW q \in Requests, mid'[q].time = n.time PROVE mid'[q].id = n.id
    <3>1. mid'[q].time = mid[q].time
      BY <2>1, <2>4, <2>6 DEF Moves, RequestMoves, MidsGrow
    <3> QED  BY <2>1, <2>2, <2>3, <2>6, <3>1 DEF Suits
  <2>7. Requested(n)' <=> Requested(m)
    BY <2>3 DEF Requested
  <2>8. n.kind = "summary" => \E o \in Stored' : o.id = n.parent
    <3>1. ASSUME NEW o \in Stored PROVE \E p \in Stored' : p.id = o.id
      BY DEF Moves, LogStep, Kept
    <3> QED  BY <2>1, <2>2, <3>1 DEF Suits
  <2>9. ~Requested(n)' => n.id = n.time
    BY <2>1, <2>2, <2>7 DEF Suits
  <2>10. ~IsUser(n) => ~Requested(n)' /\ n.ready
    BY <2>1, <2>2, <2>7 DEF Suits, IsUser
  <2> QED  BY <2>5, <2>6, <2>8, <2>9, <2>10 DEF Suits
<1> QED  BY <1>1, <1>2 DEF Moves, LogStep

\* What the run is writing, in a step that goes on with it.
WritingFits ==
    /\ doing' \in Nat
    /\ loop' \in Loops
    /\ loop' \in Writing => doing' # 0
    /\ doing' # 0 => loop' \in Writing \cup {"fail"}
    /\ doing' # 0 => \E m \in Stored' : DoingIs(m)'
    /\ doing' # 0 => \A m \in Stored' : ~Requested(m)' => m.id <= doing'

\* A step that goes on with the message that is being written.
LEMMA GoesOnWriting ==
    ASSUME Shapes, Moves, doing' = doing,
           loop' = loop \/ (loop = "off" /\ loop' = "scan") \/ (loop = "asking" /\ loop' = "create") \/ loop' = "fail"
    PROVE  WritingFits
<1>1. doing' \in Nat /\ loop' \in Loops
  BY DEF Shapes, RunShapes, Loops, Ends
<1>2. (loop' \in Writing => doing' # 0) /\ (doing' # 0 => loop' \in Writing \cup {"fail"})
  BY DEF Shapes, RunShapes, Writing
<1>3. ASSUME doing' # 0 PROVE \E m \in Stored' : DoingIs(m)'
  <2>1. PICK x \in Stored : DoingIs(x)
    BY <1>3 DEF Shapes, RunShapes
  <2>2. PICK n \in Stored' : Kept(x, n)
    BY DEF Moves, LogStep
  <2>3. ~Requested(n)'
    <3>1. ~Requested(x)'
      BY <2>1, RequestedRests DEF DoingIs
    <3> QED  BY <2>2, <3>1 DEF Kept, Requested
  <2>4. n.id = x.id /\ n.kind = x.kind /\ (loop' = loop => n.finish = x.finish)
    BY <2>2 DEF Kept, Closes
  <2>5. loop \in Writing \cup {"fail"}
    BY <1>3 DEF Shapes, RunShapes
  <2>6. /\ loop' = "parts" => loop = "parts"
        /\ loop' = "asking" => loop = "asking"
        /\ loop' = "create" => loop \in {"asking", "create"}
        /\ loop' = "summarizing" => loop = "summarizing"
        /\ loop' = "subtask" => loop = "subtask"
        /\ loop' \in Reading => loop' = loop
    BY <2>5 DEF Writing, Reading
  <2>7. DoingIs(n)'
    BY <2>1, <2>3, <2>4, <2>6 DEF DoingIs, IsUser, Reading
  <2> QED  BY <2>7
<1>4. ASSUME doing' # 0, NEW n \in Stored', ~Requested(n)' PROVE n.id <= doing'
  <2>1. CASE Comes(n)
    BY <1>1, <1>4, <2>1 DEF Comes
  <2>2. ASSUME NEW m \in Stored, Kept(m, n) PROVE n.id <= doing'
    <3>1. ~Requested(m)' /\ n.id = m.id
      BY <1>4, <2>2 DEF Kept, Requested
    <3>2. ~Requested(m)
      BY <3>1, RequestedRests
    <3> QED  BY <1>4, <3>1, <3>2 DEF Shapes, RunShapes
  <2> QED  BY <2>1, <2>2 DEF Moves, LogStep
<1> QED  BY <1>1, <1>2, <1>3, <1>4 DEF WritingFits

\* The run writes the message m next.
LEMMA WritesNext ==
    ASSUME NEW m \in Stored', Shapes, Moves, doing' = now', m.id = doing', ~Requested(m)',
           loop' \in Writing,
           loop' = "parts" => IsUser(m),
           loop' \in {"asking", "create"} => m.kind = "reply",
           loop' = "summarizing" => m.kind = "summary",
           loop' = "subtask" => m.kind = "task",
           loop' \in Reading => m.finish = "none"
    PROVE  WritingFits
<1>1. LogFine(log', now') /\ \A o \in Stored' : o.id \in 1 .. now'
  BY DEF Moves, LogFine, Stored
<1>2. now' \in Nat
  BY <1>1, PromptLoopAssumption DEF LogFine, Ids
<1>3. doing' # 0 /\ doing' \in Nat
  BY <1>1, <1>2
<1>4. loop' \in Loops
  BY DEF Writing, Loops
<1>5. DoingIs(m)'
  BY DEF DoingIs, Reading
<1> QED  BY <1>1, <1>2, <1>3, <1>4, <1>5 DEF WritingFits

\* A step after which the run writes nothing.
LEMMA WritesNothing ==
    ASSUME doing' = 0, loop' \in Loops \ Writing
    PROVE  WritingFits
BY DEF WritingFits

\* After every step, what the run is writing is the last it wrote.
LEMMA WritingIs ==
    ASSUME Shapes, ViewFits, Moves, [Next]_vars
    PROVE  WritingFits
<1>1. CASE \E q \in Requests : ClientDraws(q) \/ Draw(q) \/ Save(q) \/ CreateManual(q) \/ SaveParts(q) \/ Enter(q)
  <2>1. doing' = doing /\ (loop' = loop \/ (loop = "off" /\ loop' = "scan"))
    BY <1>1 DEF ClientDraws, Draw, Save, CreateManual, SaveParts, Enter, loopVars, Busy
  <2> QED  BY <2>1, GoesOnWriting
<1>2. CASE Scan \/ Fails
  <2>1. doing = 0 /\ doing' = doing /\ loop' \in {"fail", "exit", "ready"}
    BY <1>2 DEF Scan, Fails, Shapes, RunShapes, Writing
  <2> QED  BY <2>1, WritesNothing DEF Loops, Ends, Writing
<1>3. CASE StartSubtask
  <2>1. doing' = now' /\ loop' = "subtask"
    BY <1>3 DEF StartSubtask, Write
  <2>2. "subtask" \in Writing /\ "subtask" \in Reading
    BY DEF Writing, Reading
  <2> QED  BY <1>3, <2>1, <2>2, StartSubtaskStep, WritesNext
<1>4. CASE StartSummary
  <2>1. doing' = now' /\ loop' = "summarizing"
    BY <1>4 DEF StartSummary, Write
  <2>2. "summarizing" \in Writing /\ "summarizing" \in Reading
    BY DEF Writing, Reading
  <2> QED  BY <1>4, <2>1, <2>2, StartSummaryStep, WritesNext
<1>5. CASE Ask
  <2>1. doing' = now' /\ loop' = "asking"
    BY <1>5 DEF Ask, Write
  <2>2. "asking" \in Writing /\ "asking" \in Reading
    BY DEF Writing, Reading
  <2> QED  BY <1>5, <2>1, <2>2, AskStep, WritesNext
<1>6. CASE CompactFirst \/ CreateAuto
  <2>1. doing' = now' /\ loop' = "parts"
    BY <1>6 DEF CompactFirst, CreateAuto, Write
  <2>2. "parts" \in Writing /\ "parts" \notin Reading
    BY DEF Writing, Reading
  <2> QED  BY <1>6, <2>1, <2>2, CompactFirstStep, CreateAutoStep, WritesNext
<1>7. CASE EndSubtask
  <2>1. \/ loop' = "fail" /\ doing' = doing
        \/ loop' = "scan" /\ doing' = 0
        \/ loop' = "parts" /\ doing' = now'
    BY <1>7, EndSubtaskIs
  <2>2. "parts" \in Writing /\ "parts" \notin Reading /\ "scan" \in Loops \ Writing
    BY DEF Writing, Reading, Loops
  <2> QED  BY <1>7, <2>1, <2>2, EndSubtaskStep, WritesNext, WritesNothing, GoesOnWriting
<1>8. CASE EndSummary
  <2>1. \/ loop' \in {"scan", "break"} /\ doing' = 0
        \/ loop' = "parts" /\ doing' = now'
    BY <1>8, EndSummaryIs DEF EndsAs
  <2>2. "parts" \in Writing /\ "parts" \notin Reading /\ {"scan", "break"} \subseteq Loops \ Writing
    BY DEF Writing, Reading, Loops, Ends
  <2> QED  BY <1>8, <2>1, <2>2, EndSummaryStep, WritesNext, WritesNothing
<1>9. CASE Reply
  <2>1. \/ loop = "asking" /\ loop' = "create" /\ doing' = doing
        \/ loop' \in {"scan", "break"} /\ doing' = 0
    BY <1>9 DEF Reply
  <2> QED  BY <2>1, WritesNothing, GoesOnWriting DEF Loops, Ends, Writing
<1>10. CASE WriteParts \/ End \/ Cancel \/ Restart
  <2>1. doing' = 0 /\ loop' \in {"scan", "off"}
    BY <1>10 DEF WriteParts, End, Cancel, Restart, Settle
  <2> QED  BY <2>1, WritesNothing DEF Loops, Ends, Writing
<1>11. CASE UNCHANGED vars
  <2>1. doing' = doing /\ loop' = loop
    BY <1>11 DEF vars, loopVars
  <2> QED  BY <2>1, GoesOnWriting
<1> QED
  BY <1>1, <1>2, <1>3, <1>4, <1>5, <1>6, <1>7, <1>8, <1>9, <1>10, <1>11 DEF Next

-----------------------------------------------------------------------------
(* What the run has read after a step *)

\* It goes on with the view it has; it scanned the log; it begins to write a message.
Rests  == loop' = loop /\ view' = view /\ doing' = doing
Scans  == /\ loop = "scan" /\ loop' = "ready" /\ doing = 0 /\ doing' = 0
          /\ log' = log /\ now' = now /\ mid' = mid /\ late' = late
          /\ view' = FilterCompacted(log) /\ LastUser(view') # 0
Begins == /\ loop = "ready" /\ loop' \in {"asking", "subtask", "summarizing"}
          /\ view' = view /\ doing = 0 /\ doing' = now' /\ now' = now + 1
          /\ mid' = mid /\ late' = late \cup Missed
          /\ loop' = "asking" => heard' = heard \cup Texts(view, DOMAIN view)
          /\ loop' = "subtask" => TaskKind = "subtask"
          /\ loop' = "summarizing" => TaskKind = "compaction"

\* A step leaves the run its view, takes one by a scan, begins to write, or drops it.
LEMMA ReadsAre ==
    ASSUME Shapes, [Next]_vars
    PROVE  IF loop' \in Reading THEN Rests \/ Scans \/ Begins ELSE view' = <<>>
<1>0. view # <<>> <=> loop \in Reading
  BY DEF Shapes, RunShapes
<1>1. CASE \E q \in Requests : ClientDraws(q) \/ Draw(q) \/ Save(q) \/ CreateManual(q) \/ SaveParts(q) \/ Enter(q)
  <2>1. view' = view /\ doing' = doing /\ (loop' = loop \/ (loop = "off" /\ loop' = "scan"))
    BY <1>1 DEF ClientDraws, Draw, Save, CreateManual, SaveParts, Enter, loopVars, Busy
  <2> QED  BY <1>0, <2>1 DEF Rests, Reading
<1>2. CASE Scan
  <2>1. CASE loop' = "ready"
    <3>1. view' = FilterCompacted(log) /\ LastUser(view') # 0
      BY <1>2, <2>1 DEF Scan
    <3>2. doing = 0
      BY <1>2 DEF Scan, Shapes, RunShapes, Writing
    <3> QED  BY <1>2, <2>1, <3>1, <3>2 DEF Scan, Scans, Reading, reqVars, ghosts
  <2>2. CASE loop' # "ready"
    <3>1. view' = view /\ loop' \in {"fail", "exit"}
      BY <1>2, <2>2 DEF Scan
    <3> QED  BY <1>0, <1>2, <3>1 DEF Scan, Reading
  <2> QED  BY <2>1, <2>2
<1>3. CASE StartSubtask \/ StartSummary \/ Ask
  <2>1. doing = 0
    BY <1>3 DEF StartSubtask, StartSummary, Ask, Shapes, RunShapes, Writing
  <2>2. /\ loop = "ready" /\ view' = view /\ doing' = now' /\ now' = now + 1
        /\ mid' = mid /\ late' = late \cup Missed
    BY <1>3 DEF StartSubtask, StartSummary, Ask, Write, Tick, reqVars
  <2>3. CASE StartSubtask
    BY <2>1, <2>2, <2>3 DEF StartSubtask, Begins, Reading
  <2>4. CASE StartSummary
    BY <2>1, <2>2, <2>4 DEF StartSummary, Begins, Reading
  <2>5. CASE Ask
    BY <2>1, <2>2, <2>5 DEF Ask, Begins, Reading
  <2> QED  BY <1>3, <2>3, <2>4, <2>5
<1>4. CASE CreateAuto \/ WriteParts
  <2>1. view' = view /\ loop \in {"create", "parts"} /\ loop' \in {"parts", "scan"}
    BY <1>4 DEF CreateAuto, WriteParts
  <2> QED  BY <1>0, <2>1 DEF Reading
<1>5. CASE Fails \/ EndSubtask \/ EndSummary \/ CompactFirst \/ Reply \/ End \/ Cancel \/ Restart
  <2>1. view' = <<>>
    BY <1>5 DEF Fails, EndSubtask, EndSummary, CompactFirst, Reply, End, Cancel, Restart, Settle
  <2>2. loop' \notin Reading
    <3>1. CASE Fails \/ CompactFirst
      BY <3>1 DEF Fails, CompactFirst, Reading
    <3>2. CASE EndSubtask
      BY <3>2, EndSubtaskIs DEF Reading
    <3>3. CASE EndSummary
      BY <3>3, EndSummaryIs DEF EndsAs, Reading
    <3>4. CASE Reply
      BY <3>4 DEF Reply, Reading
    <3>5. CASE End \/ Cancel \/ Restart
      BY <3>5 DEF End, Cancel, Restart, Settle, Reading
    <3> QED  BY <1>5, <3>1, <3>2, <3>3, <3>4, <3>5
  <2> QED  BY <2>1, <2>2
<1>6. CASE UNCHANGED vars
  BY <1>0, <1>6 DEF vars, loopVars, Rests
<1> QED  BY <1>1, <1>2, <1>3, <1>4, <1>5, <1>6 DEF Next

\* The view and the task in it stay in shape.
LEMMA ViewShapesRest ==
    ASSUME Shapes, [Next]_vars
    PROVE  /\ view' \in Seq(Messages)
           /\ view' # <<>> <=> loop' \in Reading
           /\ loop' \in Reading => LastUser(view') # 0
           /\ loop' = "subtask" => TaskKind' = "subtask"
           /\ loop' = "summarizing" => TaskKind' = "compaction"
<1>1. CASE loop' \notin Reading
  <2>1. view' = <<>>
    BY <1>1, ReadsAre
  <2>2. view' \in Seq(Messages)
    BY <2>1
  <2> QED  BY <1>1, <2>1, <2>2 DEF Reading
<1>2. CASE loop' \in Reading /\ (Rests \/ Begins)
  <2>1. view' = view /\ TaskKind' = TaskKind
    BY <1>2 DEF Rests, Begins, TaskKind
  <2>2. loop \in Reading
    BY <1>2 DEF Rests, Begins, Reading
  <2>3. /\ view \in Seq(Messages) /\ view # <<>> /\ LastUser(view) # 0
        /\ loop = "subtask" => TaskKind = "subtask"
        /\ loop = "summarizing" => TaskKind = "compaction"
    BY <2>2 DEF Shapes, RunShapes
  <2>4. /\ loop' = "subtask" => TaskKind = "subtask"
        /\ loop' = "summarizing" => TaskKind = "compaction"
    BY <1>2, <2>3 DEF Rests, Begins
  <2> QED  BY <1>2, <2>1, <2>3, <2>4
<1>3. CASE Scans
  <2>0. PICK v : v = FilterCompacted(log)
    OBVIOUS
  <2>1. log \in Seq(Messages)
    BY DEF Shapes, LogFine
  <2>2. v \in Seq(Messages)
    BY <2>0, <2>1, ScanPlaces
  <2>3. view' = v /\ LastUser(v) # 0 /\ loop' = "ready"
    BY <1>3, <2>0 DEF Scans
  <2>4. v # <<>>
    <3>1. LastUser(v) \in 1 .. Len(v)
      BY <2>2, <2>3, LastUserIs
    <3> QED  BY <2>2, <3>1
  <2>5. LastUser(view') # 0
    BY <2>3
  <2> QED  BY <2>2, <2>3, <2>4, <2>5 DEF Reading
<1> QED  BY <1>1, <1>2, <1>3, ReadsAre

-----------------------------------------------------------------------------
(* The ghosts *)

\* A view has messages with ids in it.
LEMMA ShownIds ==
    ASSUME Shapes, ViewFits, loop \in Reading
    PROVE  \A i \in 1 .. Len(view) : view[i].id \in Ids /\ view[i] \in Messages
<1> TAKE i \in 1 .. Len(view)
<1>1. view \in Seq(Messages) /\ view[i] \in Range(view)
  BY DEF Shapes, RunShapes, Range
<1>2. PICK n \in Stored : Shows(view[i], n)
  BY <1>1 DEF ViewFits, Fits
<1>3. n.id \in 1 .. now
  BY DEF Shapes, LogFine, Stored
<1>4. now \in Nat /\ now <= MaxId /\ MaxId \in Nat
  BY PromptLoopAssumption DEF Shapes, LogFine, Ids
<1> QED  BY <1>1, <1>2, <1>3, <1>4 DEF Shows, Ids

\* What is summarised is the beginning of the view.
LEMMA HistoryShows ==
    ASSUME Shapes, ViewFits, loop = "summarizing"
    PROVE  /\ History \in Seq(Messages) /\ Len(History) <= Len(view)
           /\ \A i \in 1 .. Len(History) : History[i] = view[i]
           /\ \A i \in 1 .. Len(view) : view[i].kind # "compaction" =>
                 i \in 1 .. Len(History) \/ (Replayed /\ ReplayAt(view, User.id) <= i)
<1>1. view[Task(view)] \in Messages /\ view \in Seq(Messages)
  BY TaskIsStored DEF Reading, Shapes, RunShapes
<1>2. PICK o \in BOOLEAN : o = view[Task(view)].overflow
  BY <1>1 DEF Messages
<1>3. PICK h : h = History
  OBVIOUS
<1>4. h = Summarised(view, User.id, o)
  BY <1>2, <1>3 DEF History
<1>5. /\ h \in Seq(Messages) /\ Len(h) <= Len(view)
      /\ \A i \in 1 .. Len(h) : h[i] = view[i]
      /\ \A i \in 1 .. Len(view) : view[i].kind # "compaction" =>
            i \in 1 .. Len(h) \/ (o /\ ReplayAt(view, User.id) # 0 /\ ReplayAt(view, User.id) <= i)
  BY <1>1, <1>4, HistoryIs
<1> QED  BY <1>2, <1>3, <1>5 DEF Replayed

\* The ghosts stay sets of requests and ids.
LEMMA GhostsRest ==
    ASSUME Shapes, ViewFits, [Next]_vars
    PROVE  heard' \cup late' \cup retained' \subseteq Requests /\ folded' \cup skipped' \cup ran' \subseteq Ids
<1>0. heard \cup late \cup retained \subseteq Requests /\ folded \cup skipped \cup ran \subseteq Ids
  BY DEF Shapes, RunShapes
<1>1. CASE \E q \in Requests : ClientDraws(q) \/ Draw(q) \/ Save(q) \/ CreateManual(q) \/ SaveParts(q) \/ Enter(q)
  BY <1>0, <1>1 DEF ClientDraws, Draw, Save, CreateManual, SaveParts, Enter, ghosts
<1>2. CASE UNCHANGED ghosts
  BY <1>0, <1>2 DEF ghosts
<1>3. CASE StartSubtask \/ StartSummary
  BY <1>0, <1>3 DEF StartSubtask, StartSummary, Missed
<1>4. CASE Ask
  <2>1. view \in Seq(Messages) /\ DOMAIN view = 1 .. Len(view)
    BY DEF Shapes, RunShapes
  <2>2. Texts(view, DOMAIN view) \subseteq Requests
    BY <2>1, TextsAre
  <2> QED  BY <1>0, <1>4, <2>2 DEF Ask, Missed
<1>5. CASE EndSubtask
  <2>1. ran' = ran \/ ran' = ran \cup {view[Task(view)].id}
    BY <1>5, EndSubtaskIs
  <2>2. UNCHANGED <<heard, late, retained, folded, skipped>>
    BY <1>5 DEF EndSubtask
  <2>3. view[Task(view)].id \in Ids
    <3>1. loop \in Reading /\ TaskKind # "none"
      BY <1>5 DEF EndSubtask, Shapes, RunShapes, Reading
    <3> QED  BY <3>1, TaskIsStored, ShownIds
  <2> QED  BY <1>0, <2>1, <2>2, <2>3
<1>6. CASE EndSummary
  <2>1. loop = "summarizing" /\ loop \in Reading /\ ran' = ran
    BY <1>6, EndSummaryIs DEF Reading
  <2>2. PICK tail, r : EndsAs(tail, r)
    BY <1>6, EndSummaryIs
  <2>3. PICK h : h = History
    OBVIOUS
  <2>4. h \in Seq(Messages) /\ Len(h) <= Len(view) /\ (\A i \in 1 .. Len(h) : h[i] = view[i]) /\ Len(view) \in Nat
    BY <2>1, <2>3, HistoryShows DEF Shapes, RunShapes
  <2>5. DOMAIN h = 1 .. Len(h) /\ Len(h) \in Nat /\ Collapsed(h, tail) \in SUBSET (1 .. Len(h))
    BY <2>4 DEF Collapsed, Visible
  <2>6. \A i \in 1 .. Len(h) : h[i].id \in Ids
    BY <2>1, <2>4, <2>5, ShownIds
  <2>7. Anchor(h) \in Ids
    <3>1. 0 \in Ids
      BY PromptLoopAssumption DEF Ids
    <3> QED  BY <2>4, <2>6, <3>1, AnchorIs
  <2>8. /\ Texts(h, Collapsed(h, tail)) \subseteq Requests
        /\ Texts(h, DOMAIN h \ Collapsed(h, tail)) \subseteq Requests
    BY <2>4, <2>5, TextsAre
  <2>9. Passed \subseteq Ids
    <3>1. DOMAIN view = 1 .. Len(view)
      BY DEF Shapes, RunShapes
    <3> QED  BY <2>1, <3>1, ShownIds DEF Passed
  <2>10. {h[i].id : i \in Collapsed(h, tail)} \subseteq Ids
    BY <2>5, <2>6
  <2>11. folded' \cup skipped' \subseteq Ids
    <3>1. CASE r # "stop"
      BY <1>0, <2>2, <3>1 DEF EndsAs
    <3>2. CASE r = "stop"
      <4>1. /\ folded' = folded \cup {h[i].id : i \in Collapsed(h, tail)} \cup {Anchor(h)}
            /\ skipped' = skipped \cup Passed
        BY <2>2, <2>3, <3>2 DEF EndsAs
      <4> QED  BY <1>0, <2>7, <2>9, <2>10, <4>1
    <3> QED  BY <3>1, <3>2
  <2>12. heard' \subseteq Requests /\ retained' \subseteq Requests
    BY <1>0, <2>2, <2>3, <2>8 DEF EndsAs
  <2>13. late' \subseteq Requests
    BY <1>0, <2>2 DEF EndsAs
  <2> QED  BY <1>0, <2>1, <2>11, <2>12, <2>13
<1> QED
  BY <1>1, <1>2, <1>3, <1>4, <1>5, <1>6
     DEF Next, Scan, Fails, CompactFirst, Reply, CreateAuto, WriteParts, End, Cancel, Restart, vars

\* Every step keeps the shapes.
LEMMA ShapesRest ==
    ASSUME Shapes, ViewFits, [Next]_vars
    PROVE  Shapes' /\ Moves
<1>1. Moves
  BY NextMoves
<1>2. StoredShapes'
  BY <1>1, StoredShapesRest
<1>3. RunShapes'
  BY <1>1, WritingIs, ViewShapesRest, GhostsRest DEF WritingFits, RunShapes
<1> QED  BY <1>1, <1>2, <1>3 DEF Shapes, Moves, RequestMoves

-----------------------------------------------------------------------------
(* The view after a step *)

\* While the run has a view no step finishes what it shows, or records a tail.
LEMMA ReadingKeeps ==
    ASSUME Shapes, Moves, Rests \/ Begins, NEW m \in Stored, NEW n \in Stored', Kept(m, n)
    PROVE  n.finish = m.finish /\ n.tail = m.tail /\ n.error = m.error
<1>1. n.finish = m.finish \/ Closes(m, n)
  BY DEF Kept
<1>2. ~Closes(m, n)
  <2>1. CASE Rests
    BY <2>1 DEF Rests, Closes
  <2>2. CASE Begins
    BY <2>2 DEF Begins, Closes, Shapes, LogFine, Stored
  <2> QED  BY <2>1, <2>2
<1>3. n.tail = m.tail
  <2>1. EndSummary => loop = "summarizing"
    BY EndSummaryIs
  <2> QED  BY <2>1 DEF Kept, Rests, Begins
<1>4. n.error = m.error
  <2>1. CASE Rests
    BY <2>1 DEF Rests, Kept
  <2>2. CASE Begins
    BY <2>2 DEF Begins, Kept, Shapes, LogFine, Stored
  <2> QED  BY <2>1, <2>2
<1> QED  BY <1>1, <1>2, <1>3, <1>4

\* What a view shows of a message it shows after the step.
LEMMA ShowsStill ==
    ASSUME Shapes, Moves, Rests \/ Begins, NEW x, NEW m \in Stored, Shows(x, m)
    PROVE  \E n \in Stored' : Shows(x, n)
<1>1. PICK n \in Stored' : Kept(m, n)
  BY DEF Moves, LogStep
<1>2. n.finish = m.finish /\ n.tail = m.tail /\ n.error = m.error
  BY <1>1, ReadingKeeps
<1>3. Shows(x, n)
  BY <1>1, <1>2 DEF Kept, Shows
<1> QED  BY <1>3

\* Two messages that a scan turned stay so.
LEMMA TurnedStill ==
    ASSUME Shapes, Moves, Rests \/ Begins, NEW x, NEW y, NEW s, Turned(s, x, y)
    PROVE  \E t \in Stored' : Turned(t, x, y)' /\ t.id = s.id /\ t.parent = s.parent
<1>1. PICK c \in Stored : /\ LastTail(c) /\ s.parent = c.id
                          /\ c.time <= x.time /\ x.time <= s.time /\ y.time < c.time
  BY DEF Turned
<1>2. s \in Stored /\ s.kind = "summary"
  BY DEF Turned
<1>3. PICK t \in Stored' : Kept(s, t)
  BY <1>2 DEF Moves, LogStep
<1>4. PICK d \in Stored' : Kept(c, d)
  BY DEF Moves, LogStep
<1>5. /\ t.kind = "summary" /\ t.parent = d.id /\ t.time = s.time /\ d.time = c.time
      /\ t.id = s.id /\ t.parent = s.parent
  BY <1>1, <1>2, <1>3, <1>4 DEF Kept
<1>6. d.tail # 0
  BY <1>1, <1>4, ReadingKeeps DEF LastTail
<1>7. \A e \in Stored' : e.tail # 0 => e.time <= d.time
  <2> SUFFICES ASSUME NEW e \in Stored', e.tail # 0 PROVE e.time <= d.time
    OBVIOUS
  <2>1. PICK f \in Stored : Kept(f, e)
    BY DEF Moves, LogStep, Comes
  <2>2. f.tail # 0 /\ f.time = e.time
    BY <2>1, ReadingKeeps DEF Kept
  <2> QED  BY <1>1, <1>5, <2>2 DEF LastTail
<1>8. LastTail(d)'
  BY <1>6, <1>7 DEF LastTail
<1> QED  BY <1>1, <1>5, <1>8 DEF Turned

\* A view fits the log after a step of the run that keeps it.
LEMMA FitsStill ==
    ASSUME Shapes, Moves, Rests \/ Begins, Fits(view)
    PROVE  Fits(view)'
<1>1. view' = view /\ (doing' = doing \/ doing = 0)
  BY DEF Rests, Begins
<1>2. PICK v : v = view
  OBVIOUS
<1>3. \A m \in Range(v) : \E n \in Stored' : Shows(m, n)
  BY <1>2, ShowsStill DEF Fits
<1>4. \A i, k \in DOMAIN v : v[i].id = v[k].id => i = k
  BY <1>2 DEF Fits
<1>5. ASSUME NEW n \in Stored', NEW m \in Range(v), ~Requested(n)', n.id # doing', n.time > m.time
      PROVE  \E o \in Range(v) : o.id = n.id
  <2>1. PICK p \in Stored : Kept(p, n)
    BY <1>5 DEF Moves, LogStep, Comes
  <2>2. n.id = p.id /\ n.time = p.time /\ p.id # 0
    BY <2>1 DEF Kept, Shapes, LogFine, Stored
  <2>3. ~Requested(p)
    <3>1. ~Requested(p)'
      BY <1>5, <2>2 DEF Requested
    <3> QED  BY <3>1, RequestedRests
  <2>4. p.id # doing
    BY <1>1, <1>5, <2>2
  <2>5. \E o \in Range(v) : o.id = p.id
    BY <1>2, <1>5, <2>2, <2>3, <2>4 DEF Fits
  <2> QED  BY <2>2, <2>5
<1>6. ASSUME NEW i \in DOMAIN v, NEW k \in DOMAIN v, i < k, v[i].time > v[k].time
      PROVE  \E s \in Stored' : /\ Turned(s, v[i], v[k])'
                                /\ \E x, y \in DOMAIN v : x < k /\ y < k /\ v[x].id = s.id /\ v[y].id = s.parent
  <2>1. PICK s \in Stored : /\ Turned(s, v[i], v[k])
                            /\ \E x, y \in DOMAIN v : x < k /\ y < k /\ v[x].id = s.id /\ v[y].id = s.parent
    BY <1>2, <1>6 DEF Fits
  <2>2. PICK x, y : x = v[i] /\ y = v[k]
    OBVIOUS
  <2>3. PICK t \in Stored' : Turned(t, x, y)' /\ t.id = s.id /\ t.parent = s.parent
    BY <2>1, <2>2, TurnedStill
  <2> QED  BY <2>1, <2>2, <2>3
<1>7. view' = v
  BY <1>1, <1>2
<1> QED  BY <1>3, <1>4, <1>5, <1>6, <1>7 DEF Fits

\* A scan shows the log from some place on, turned at most at its last compaction.
LEMMA ScanFits ==
    ASSUME Shapes, NEW v, v = FilterCompacted(log)
    PROVE  /\ Fits(v)
           /\ \A n \in Stored, m \in Range(v) : n.time > m.time => \E o \in Range(v) : o.id = n.id
<1>1. log \in Seq(Messages) /\ Ordered(log)
  BY DEF Shapes, LogFine
<1>2. PICK lo, P : Places(v, log, lo, P)
  BY <1>1, ScanPlaces
<1>3. v \in Seq(Messages)
  BY <1>1, ScanPlaces
<1>4. Len(v) \in Nat /\ DOMAIN v = 1 .. Len(v) /\ DOMAIN log = 1 .. Len(log) /\ Len(log) \in Nat
  BY <1>1, <1>3
<1>5. /\ lo \in 1 .. Len(log) + 1
      /\ \A i \in 1 .. Len(v) : P[i] \in lo .. Len(log) /\ P[i] \in 1 .. Len(log) /\ v[i] = log[P[i]]
  BY <1>2, <1>4 DEF Places
<1>6. \A j \in 1 .. Len(log) : log[j] \in Stored /\ log[j].time \in Nat
  <2>1. \A j \in 1 .. Len(log) : log[j] \in Messages
    BY <1>1
  <2>2. \A j \in 1 .. Len(log) : log[j] \in Stored
    BY <1>4 DEF Stored, Range
  <2> QED  BY <2>1, <2>2 DEF Messages
<1>7. \A j, k \in 1 .. Len(log) : j < k => log[j].time < log[k].time
  BY <1>1, <1>4 DEF Ordered
<1>8. \A j, k \in 1 .. Len(log) : log[j].time < log[k].time => j < k
  BY <1>6, <1>7
<1>8a. \A j, k \in 1 .. Len(log) : log[j].time <= log[k].time <=> j <= k
  BY <1>6, <1>7
<1>9. \A m \in Range(v) : \E i \in 1 .. Len(v) : m = v[i]
  BY <1>4 DEF Range
<1>10. \A m \in Range(v) : \E n \in Stored : Shows(m, n)
  <2>1. \A i \in 1 .. Len(v) : v[i] \in Stored
    BY <1>5, <1>6
  <2>2. \A m \in Stored : Shows(m, m)
    BY DEF Shows, Shapes, LogFine, Stored, HasPart
  <2> QED  BY <1>9, <2>1, <2>2
<1>11. ASSUME NEW i \in 1 .. Len(v), NEW k \in 1 .. Len(v), v[i].id = v[k].id PROVE i = k
  <2>1. log[P[i]] = log[P[k]]
    BY <1>5, <1>6, <1>11 DEF Shapes, LogFine, Stored
  <2>2. P[i] = P[k]
    <3>1. log[P[i]].time <= log[P[k]].time /\ log[P[k]].time <= log[P[i]].time
      BY <1>5, <1>6, <2>1
    <3>2. P[i] <= P[k] /\ P[k] <= P[i]
      BY <1>5, <1>8a, <3>1
    <3> QED  BY <1>5, <3>2
  <2> QED  BY <1>2, <2>2 DEF Places
<1>12. ASSUME NEW n \in Stored, NEW m \in Range(v), n.time > m.time PROVE \E o \in Range(v) : o.id = n.id
  <2>1. PICK i \in 1 .. Len(v) : m = v[i]
    BY <1>9
  <2>2. PICK j \in 1 .. Len(log) : n = log[j]
    BY <1>4 DEF Stored, Range
  <2>3. P[i] < j
    BY <1>5, <1>6, <1>8, <1>12, <2>1, <2>2
  <2>4. j \in lo .. Len(log)
    BY <1>5, <2>3
  <2>5. PICK k \in 1 .. Len(v) : P[k] = j
    BY <1>2, <2>4 DEF Places
  <2>6. v[k] = n /\ v[k] \in Range(v)
    BY <1>4, <1>5, <2>2, <2>5 DEF Range
  <2> QED  BY <2>6
<1>13. ASSUME NEW i \in 1 .. Len(v), NEW k \in 1 .. Len(v), i < k, v[i].time > v[k].time
       PROVE  \E s \in Stored : /\ Turned(s, v[i], v[k])
                                /\ \E x, y \in 1 .. Len(v) : x < k /\ y < k /\ v[x].id = s.id /\ v[y].id = s.parent
  <2>1. P[k] < P[i]
    BY <1>5, <1>6, <1>8, <1>13
  <2>2. PICK c \in lo .. Len(log), e \in lo .. Len(log) :
          /\ HasTail(log[c]) /\ \A j \in lo .. Len(log) : HasTail(log[j]) => j <= c
          /\ log[e].kind = "summary" /\ log[e].parent = log[c].id
          /\ c <= P[i] /\ P[i] <= e /\ P[k] < c
          /\ \E x, y \in 1 .. Len(v) : x < k /\ y < k /\ P[x] = e /\ P[y] = c
    BY <1>2, <1>13, <2>1 DEF Places
  <2>3. c \in 1 .. Len(log) /\ e \in 1 .. Len(log)
    BY <1>5
  <2>4. ASSUME NEW d \in Stored, d.tail # 0 PROVE d.time <= log[c].time
    <3>1. PICK j \in 1 .. Len(log) : d = log[j]
      BY <1>4 DEF Stored, Range
    <3>2. HasTail(d)
      BY <2>4 DEF Shapes, LogFine, Stored, HasTail
    <3>3. j <= c
      <4>1. CASE j \in lo .. Len(log)
        BY <2>2, <3>1, <3>2, <4>1
      <4>2. CASE j \notin lo .. Len(log)
        BY <1>5, <4>2
      <4> QED  BY <4>1, <4>2
    <3> QED  BY <1>8a, <2>3, <3>1, <3>3
  <2>5. LastTail(log[c])
    BY <1>6, <2>2, <2>3, <2>4 DEF LastTail, HasTail
  <2>6. log[c].time <= v[i].time /\ v[i].time <= log[e].time /\ v[k].time < log[c].time
    BY <1>5, <1>7, <1>8a, <2>2, <2>3, SMTT(30)
  <2>7. Turned(log[e], v[i], v[k])
    BY <1>6, <2>2, <2>3, <2>5, <2>6 DEF Turned
  <2>8. \E x, y \in 1 .. Len(v) : x < k /\ y < k /\ v[x].id = log[e].id /\ v[y].id = log[e].parent
    <3>1. PICK x \in 1 .. Len(v), y \in 1 .. Len(v) : x < k /\ y < k /\ P[x] = e /\ P[y] = c
      BY <2>2
    <3>2. v[x] = log[e] /\ v[y] = log[c]
      BY <1>5, <3>1
    <3> QED  BY <2>2, <3>1, <3>2
  <2> QED  BY <1>6, <2>3, <2>7, <2>8
<1>14. Fits(v)
  BY <1>4, <1>10, <1>11, <1>12, <1>13 DEF Fits
<1> QED  BY <1>12, <1>14

\* Every step keeps ViewFits.
LEMMA ViewFitsRests ==
    ASSUME Shapes, ViewFits, Moves, [Next]_vars
    PROVE  ViewFits'
<1> SUFFICES ASSUME loop' \in Reading PROVE Fits(view)'
  BY DEF ViewFits, Reading
<1>1. CASE Rests \/ Begins
  <2>1. loop \in Reading
    BY <1>1 DEF Rests, Begins, Reading
  <2> QED  BY <1>1, <2>1, FitsStill DEF ViewFits
<1>2. CASE Scans
  <2>1. PICK v : v = FilterCompacted(log)
    OBVIOUS
  <2>2. Fits(v)
    BY <2>1, ScanFits
  <2>3. log' = log /\ mid' = mid /\ doing' = doing /\ view' = v /\ Stored' = Stored
    BY <1>2, <2>1 DEF Scans, Stored
  <2>4. \A n : Requested(n)' <=> Requested(n)
    BY <2>3 DEF Requested
  <2>5. \A s, x, y : Turned(s, x, y)' <=> Turned(s, x, y)
    BY <2>3 DEF Turned, LastTail
  <2> QED  BY <2>2, <2>3, <2>4, <2>5 DEF Fits
<1> QED  BY <1>1, <1>2, ReadsAre DEF Reading

\* Every step keeps ViewIsOlder.
LEMMA ViewIsOlderRests ==
    ASSUME Shapes, ViewFits, ViewIsOlder, [Next]_vars
    PROVE  ViewIsOlder'
<1> SUFFICES ASSUME loop' \in Reading, doing' # 0 PROVE \A m \in Range(view') : m.time < doing'
  BY DEF ViewIsOlder, Reading
<1>1. CASE Rests
  BY <1>1 DEF Rests, ViewIsOlder
<1>2. CASE Scans
  BY <1>2 DEF Scans
<1>3. CASE Begins
  <2>1. now \in Nat /\ view' = view /\ doing' = now + 1
    BY <1>3, NowIs DEF Begins
  <2>2. \A m \in Range(view) : \E n \in Stored : n.time = m.time
    BY <1>3 DEF Begins, ViewFits, Fits, Reading, Shows
  <2>3. \A n \in Stored : n.time \in 1 .. now
    BY DEF Shapes, LogFine, Stored
  <2> QED  BY <2>1, <2>2, <2>3
<1> QED  BY <1>1, <1>2, <1>3, ReadsAre DEF Reading

-----------------------------------------------------------------------------
(* Who is late, and who was read in time *)

\* The message of the request is not stored.
Outside(q) == \A m \in Stored : m.id # mid[q].id

\* Who was not stored when a later message was begun is late.
RacersAreLate == \A q \in Requests, a \in Stored :
    /\ mid[q].id # 0 /\ ~IsUser(a) /\ mid[q].id < a.id
    /\ Outside(q) \/ mid[q].time = 0 \/ mid[q].time > a.id
    => q \in late

\* Whose text is stored or was read, and who asked for a compaction, is stored.
OwnStored == \A q \in Requests :
    \/ q \in heard
    \/ Kind[q] = "compaction" /\ mid[q].id # 0
    \/ \E m \in Stored : q \in m.text
    => ~Outside(q)

\* What a turn may begin without: what somebody stored whom no turn has seen, and
\* what is older than its view.
ReadyShows == loop = "ready" => \A n \in Stored :
    \/ \E o \in Range(view) : o.id = n.id
    \/ \E q \in Requests : mid[q].id = n.id /\ Unseen(q)
    \/ \A m \in Range(view) : n.time <= m.time

\* A prompt that drew an id before the message that is being written was begun is in
\* the view, or was read, or is late.
SeenInTime == loop \in Reading /\ doing # 0 => \A q \in Requests :
    /\ mid[q].id # 0 /\ mid[q].id < doing /\ Kind[q] # "compaction" /\ q \notin late \cup heard
       => \E m \in Range(view) : m.id = mid[q].id /\ m.ready
    /\ loop = "asking" /\ Kind[q] # "compaction" /\ mid[q].id # 0 /\ mid[q].id < doing => q \in heard \cup late

\* What a step leaves of the ids below a stored one.
LEMMA MidRests ==
    ASSUME Shapes, Moves, NEW q \in Requests, NEW i, i <= now, i \in Nat, mid'[q].id < i
    PROVE  mid'[q].id = mid[q].id
<1>1. now \in Nat
  BY NowIs
<1>2. mid[q].id \in Nat
  BY DEF Shapes, RequestShapes
<1> QED  BY <1>1, <1>2 DEF Moves, RequestMoves, MidsGrow

\* The stored message of a request.
LEMMA OwnMessage ==
    ASSUME Shapes, NEW q \in Requests, NEW m \in Stored, mid[q].id = m.id
    PROVE  /\ pc[q] \notin {"new", "drawn"} /\ m.time = mid[q].time /\ m.kind = Kind[q]
           /\ m.text = (IF Kind[q] = "compaction" THEN {} ELSE {q})
           /\ IsUser(m)
<1>1. Suits(m)
  BY DEF Shapes, StoredShapes
<1>2. m.kind = Kind[q]
  BY <1>1 DEF Suits
<1>3. IsUser(m)
  BY <1>2, PromptLoopAssumption DEF IsUser
<1> QED  BY <1>1, <1>3 DEF Suits

\* The text of a request is in the message that carries its id.
LEMMA ShownTexts ==
    ASSUME Shapes, ViewFits, loop \in Reading, NEW q \in Requests, Kind[q] # "compaction",
           NEW m \in Range(view), m.id = mid[q].id
    PROVE  m.text = {q} /\ m.kind = Kind[q] /\ IsUser(m) /\ m.time = mid[q].time
<1>1. PICK n \in Stored : Shows(m, n)
  BY DEF ViewFits, Fits
<1>2. n.text = {q} /\ n.kind = Kind[q] /\ n.time = mid[q].time
  BY <1>1, OwnMessage, ZenonT(60) DEF Shows
<1> QED  BY <1>1, <1>2, PromptLoopAssumption DEF Shows, IsUser

\* Only what is stored is read.
LEMMA HeardIs ==
    ASSUME Shapes, ViewFits, [Next]_vars, NEW q \in heard'
    PROVE  q \in heard \/ \E m \in Stored : q \in m.text
<1>1. CASE heard' = heard
  BY <1>1
<1>2. CASE Ask
  <2>1. loop \in Reading /\ heard' = heard \cup Texts(view, DOMAIN view)
    BY <1>2 DEF Ask, Reading
  <2>2. ASSUME q \in Texts(view, DOMAIN view) PROVE \E m \in Stored : q \in m.text
    <3>1. PICK i \in DOMAIN view : q \in view[i].text
      BY <2>2 DEF Texts
    <3>2. PICK n \in Stored : Shows(view[i], n)
      BY <2>1 DEF ViewFits, Fits, Range
    <3> QED  BY <3>1, <3>2 DEF Shows
  <2> QED  BY <2>1, <2>2
<1>3. CASE EndSummary
  <2>1. loop = "summarizing" /\ loop \in Reading
    BY <1>3, EndSummaryIs DEF Reading
  <2>2. PICK tail, r : EndsAs(tail, r)
    BY <1>3, EndSummaryIs
  <2>3. PICK h : h = History
    OBVIOUS
  <2>4. h \in Seq(Messages) /\ Len(h) <= Len(view) /\ \A i \in 1 .. Len(h) : h[i] = view[i]
    BY <2>1, <2>3, HistoryShows
  <2>5. heard' = heard \/ heard' = heard \cup Texts(h, Collapsed(h, tail))
    BY <2>2, <2>3 DEF EndsAs
  <2>6. ASSUME q \in Texts(h, Collapsed(h, tail)) PROVE \E m \in Stored : q \in m.text
    <3>1. PICK i \in 1 .. Len(h) : q \in h[i].text
      BY <2>4, <2>6 DEF Texts, Collapsed, Visible
    <3>2. i \in DOMAIN view /\ h[i] = view[i]
      BY <2>4 DEF Shapes, RunShapes
    <3>3. PICK n \in Stored : Shows(view[i], n)
      BY <2>1, <3>2 DEF ViewFits, Fits, Range
    <3> QED  BY <3>1, <3>2, <3>3 DEF Shows
  <2> QED  BY <2>5, <2>6
<1> QED
  BY <1>1, <1>2, <1>3
     DEF Next, ClientDraws, Draw, Save, CreateManual, SaveParts, Enter, Scan, Fails, StartSubtask,
         EndSubtask, StartSummary, CompactFirst, Reply, CreateAuto, WriteParts, End, Cancel,
         Restart, vars, ghosts

\* A compaction request that draws an id is stored.
LEMMA CompactionIsStored ==
    ASSUME Shapes, Shapes', [Next]_vars, NEW q \in Requests, Kind[q] = "compaction", mid[q].id = 0, mid'[q].id # 0
    PROVE  ~Outside(q)'
<1>1. PICK p \in Requests : ClientDraws(p) \/ Draw(p) \/ CreateManual(p)
  BY EndSummaryIs
     DEF Next, Save, SaveParts, Enter, Scan, Fails, StartSubtask, EndSubtask, StartSummary,
         EndSummary, CompactFirst, Ask, Reply, CreateAuto, WriteParts, End, Cancel, Restart, vars,
         reqVars
<1>2. p = q
  BY <1>1 DEF ClientDraws, Draw, CreateManual, Shapes, RequestShapes
<1>3. CreateManual(q)
  BY <1>1, <1>2, PromptLoopAssumption DEF ClientDraws, Draw
<1>4. pc'[q] = "saved"
  BY <1>3 DEF CreateManual, Goto, Shapes, RequestShapes
<1> QED  BY <1>4 DEF Shapes, RequestShapes, Outside

\* A stored request stays stored.
LEMMA InsideStays ==
    ASSUME Shapes, Moves, NEW q \in Requests, ~Outside(q)
    PROVE  ~Outside(q)' /\ mid'[q].id = mid[q].id
<1>1. PICK m \in Stored : m.id = mid[q].id
  BY DEF Outside
<1>2. PICK n \in Stored' : Kept(m, n)
  BY DEF Moves, LogStep
<1>3. mid'[q].id = m.id
  BY <1>1, RequestedRests
<1> QED  BY <1>1, <1>2, <1>3 DEF Outside, Kept

\* Every step keeps OwnStored.
LEMMA OwnStoredRests ==
    ASSUME Shapes, ViewFits, OwnStored, Moves, Shapes', [Next]_vars
    PROVE  OwnStored'
<1> SUFFICES ASSUME NEW q \in Requests,
                    \/ q \in heard'
                    \/ Kind[q] = "compaction" /\ mid'[q].id # 0
                    \/ \E m \in Stored' : q \in m.text
             PROVE  ~Outside(q)'
  BY DEF OwnStored
<1>1. ASSUME \E m \in Stored : q \in m.text PROVE ~Outside(q)'
  BY <1>1, InsideStays DEF OwnStored
<1>2. CASE q \in heard'
  BY <1>1, <1>2, HeardIs, InsideStays DEF OwnStored
<1>3. CASE Kind[q] = "compaction" /\ mid'[q].id # 0
  <2>1. CASE mid[q].id = 0
    BY <1>3, <2>1, CompactionIsStored
  <2>2. CASE mid[q].id # 0
    BY <1>3, <2>2, InsideStays DEF OwnStored
  <2> QED  BY <2>1, <2>2
<1>4. ASSUME NEW n \in Stored', q \in n.text PROVE ~Outside(q)'
  <2>1. CASE \E m \in Stored : Kept(m, n)
    BY <1>1, <1>4, <2>1 DEF Kept
  <2>2. CASE Comes(n)
    <3>1. CASE mid[q].id = n.id
      <4>1. n.id # 0
        BY DEF Shapes, LogFine, Stored
      <4>2. mid'[q].id = n.id
        BY <3>1, <4>1 DEF Moves, RequestMoves, MidsGrow
      <4> QED  BY <4>2 DEF Outside
    <3>2. CASE mid[q].id # n.id
      BY <1>1, <1>4, <2>2, <3>2 DEF Comes
    <3> QED  BY <3>1, <3>2
  <2> QED  BY <2>1, <2>2 DEF Moves, LogStep
<1> QED  BY <1>2, <1>3, <1>4

\* Whoever drew an id and is not stored is missed by the turn that begins.
LEMMA OutsideIsMissed ==
    ASSUME Shapes, ViewFits, OwnStored, loop \in Reading, NEW q \in Requests, mid[q].id # 0, Outside(q)
    PROVE  q \in Missed
<1>1. Unseen(q)
  BY DEF OwnStored, Unseen
<1>2. ASSUME NEW i \in DOMAIN view, view[i].id = mid[q].id PROVE FALSE
  BY <1>2 DEF ViewFits, Fits, Shows, Range, Outside
<1> QED  BY <1>1, <1>2 DEF Missed

\* Every step keeps RacersAreLate.
LEMMA RacersAreLateRests ==
    ASSUME Shapes, ViewFits, OwnStored, RacersAreLate, Moves, GhostsGrow
    PROVE  RacersAreLate'
<1> SUFFICES ASSUME NEW q \in Requests, NEW b \in Stored', mid'[q].id # 0, ~IsUser(b), mid'[q].id < b.id,
                    Outside(q)' \/ mid'[q].time = 0 \/ mid'[q].time > b.id
             PROVE  q \in late'
  BY DEF RacersAreLate
<1>0. now \in Nat /\ \A m \in Stored : m.id \in 1 .. now /\ m.time \in 1 .. now
  BY NowIs DEF Shapes, LogFine, Stored
<1>1. ASSUME NEW a \in Stored, Kept(a, b) PROVE q \in late'
  <2>1. b.id = a.id /\ ~IsUser(a)
    BY <1>1 DEF Kept, IsUser
  <2>2. mid'[q].id = mid[q].id
    BY <1>0, <2>1, MidRests
  <2>3. Outside(q)' => Outside(q)
    <3> SUFFICES ASSUME Outside(q)', NEW m \in Stored PROVE m.id # mid[q].id
      BY DEF Outside
    <3>1. PICK n \in Stored' : Kept(m, n)
      BY DEF Moves, LogStep
    <3> QED  BY <2>2, <3>1 DEF Outside, Kept
  <2>4. mid'[q].time = mid[q].time \/ mid[q].time = 0
    BY DEF Moves, RequestMoves, MidsGrow, Shapes, RequestShapes
  <2>5. Outside(q) \/ mid[q].time = 0 \/ mid[q].time > a.id
    BY <2>1, <2>3, <2>4
  <2>6. q \in late
    BY <2>1, <2>2, <2>5 DEF RacersAreLate
  <2> QED  BY <2>6 DEF GhostsGrow
<1>2. CASE Comes(b)
  <2>1. loop = "ready" /\ loop \in Reading /\ late' = late \cup Missed /\ mid' = mid /\ b.id = now'
    BY <1>2 DEF Comes, Reading
  <2>2. mid[q].time <= now' /\ mid[q].time \in Nat /\ now' \in Nat
    BY <2>1, PromptLoopAssumption DEF Moves, RequestMoves, RequestShapes, LogFine, Ids
  <2>3. Outside(q)' \/ mid[q].time = 0
    BY <2>1, <2>2
  <2>4. Outside(q)
    <3> SUFFICES ASSUME NEW n \in Stored, n.id = mid[q].id PROVE FALSE
      BY DEF Outside
    <3>1. n.time = mid[q].time
      BY OwnMessage
    <3>2. mid[q].time # 0
      BY <1>0, <3>1
    <3>3. PICK o \in Stored' : Kept(n, o)
      BY DEF Moves, LogStep
    <3> QED  BY <2>1, <2>3, <3>2, <3>3 DEF Outside, Kept
  <2>5. q \in late'
    BY <2>1, <2>4, OutsideIsMissed
  <2> QED  BY <2>5
<1> QED  BY <1>1, <1>2 DEF Moves, LogStep

\* Every step keeps SeenInTime.
LEMMA SeenInTimeRests ==
    ASSUME Shapes, ViewFits, SeenInTime, Moves, GhostsGrow, [Next]_vars
    PROVE  SeenInTime'
<1> SUFFICES ASSUME loop' \in Reading, doing' # 0, NEW q \in Requests, mid'[q].id # 0, mid'[q].id < doing'
             PROVE  /\ Kind[q] # "compaction" /\ q \notin late' \cup heard' =>
                          \E m \in Range(view') : m.id = mid'[q].id /\ m.ready
                    /\ loop' = "asking" /\ Kind[q] # "compaction" => q \in heard' \cup late'
  BY DEF SeenInTime, Reading
<1>1. CASE Rests
  <2>1. doing # 0 /\ loop \in Reading /\ view' = view /\ doing' = doing /\ loop' = loop
    BY <1>1 DEF Rests
  <2>2. doing <= now /\ doing \in Nat
    <3>1. PICK m \in Stored : m.id = doing
      BY <2>1 DEF Shapes, RunShapes, DoingIs
    <3>2. m.id \in 1 .. now
      BY DEF Shapes, LogFine, Stored
    <3> QED  BY <3>1, <3>2, NowIs
  <2>3. mid'[q].id = mid[q].id
    BY <2>1, <2>2, MidRests
  <2> QED  BY <2>1, <2>3 DEF SeenInTime, GhostsGrow
<1>2. CASE Scans
  BY <1>2 DEF Scans
<1>3. CASE Begins
  <2>1. /\ loop = "ready" /\ loop \in Reading /\ view' = view /\ mid' = mid /\ late' = late \cup Missed
        /\ loop' = "asking" => heard' = heard \cup Texts(view, DOMAIN view)
    BY <1>3 DEF Begins, Reading
  <2>2. ASSUME q \notin late' \cup heard', Kind[q] # "compaction"
        PROVE  \E i \in DOMAIN view : view[i].id = mid[q].id /\ view[i].ready
    BY <2>1, <2>2 DEF Missed, Unseen, GhostsGrow
  <2>3. ASSUME q \notin late' \cup heard', loop' = "asking", Kind[q] # "compaction" PROVE q \in heard'
    <3>1. PICK i \in DOMAIN view : view[i].id = mid[q].id /\ view[i].ready
      BY <2>2, <2>3
    <3>2. view[i] \in Range(view) /\ view \in Seq(Messages) /\ DOMAIN view = 1 .. Len(view)
      BY <3>1 DEF Range, Shapes, RunShapes
    <3>3. view[i].text = {q}
      BY <2>1, <2>3, <3>1, <3>2, ShownTexts
    <3>4. view[i].text \subseteq Texts(view, DOMAIN view)
      BY <3>1, <3>2, TextsAre
    <3> QED  BY <2>1, <2>3, <3>3, <3>4
  <2> QED  BY <2>1, <2>2, <2>3 DEF Range
<1> QED  BY <1>1, <1>2, <1>3, ReadsAre DEF Reading

\* No model is given anything when the run comes to, or stays, before a turn.
LEMMA ReadyHears ==
    ASSUME [Next]_vars, loop' = "ready"
    PROVE  heard' = heard
<1>1. ~Ask /\ ~EndSummary
  BY EndSummaryIs DEF Ask, EndsAs
<1> QED
  BY <1>1
     DEF Next, ClientDraws, Draw, Save, CreateManual, SaveParts, Enter, Scan, Fails, StartSubtask,
         EndSubtask, StartSummary, CompactFirst, Reply, CreateAuto, WriteParts, End, Cancel,
         Restart, vars, ghosts

\* Before a turn the run writes nothing.
LEMMA ReadyRests ==
    ASSUME Shapes, Shapes', Rests, loop' = "ready"
    PROVE  doing = 0 /\ doing' = 0 /\ \A n \in Stored' : Comes(n) => IsUser(n) /\ Requested(n)'
<1>1. doing = 0 /\ doing' = 0
  BY DEF Rests, Shapes, RunShapes, Writing
<1>2. ASSUME NEW n \in Stored', Comes(n) PROVE IsUser(n) /\ Requested(n)'
  <2>1. n.id # 0
    BY DEF Shapes, LogFine, Stored
  <2> QED  BY <1>1, <1>2, <2>1 DEF Comes, Suits
<1> QED  BY <1>1, <1>2

\* Whom no turn has seen no turn has seen after that.
LEMMA UnseenStays ==
    ASSUME Shapes, Shapes', Moves, [Next]_vars, Rests, loop' = "ready", NEW q \in Requests, Unseen(q),
           mid'[q].id = mid[q].id
    PROVE  Unseen(q)'
<1>1. CASE Kind[q] # "compaction"
  BY <1>1, ReadyHears DEF Unseen
<1>2. CASE Kind[q] = "compaction"
  <2>1. \A a \in Stored : IsUser(a) \/ a.id < mid[q].id
    BY <1>2 DEF Unseen, Stored, Range
  <2>2. \A b \in Stored' : IsUser(b) \/ b.id < mid'[q].id
    BY <2>1, ReadyRests DEF Moves, LogStep, Kept, IsUser
  <2> QED  BY <1>2, <2>2 DEF Unseen, Stored, Range
<1> QED  BY <1>1, <1>2

\* Who stores a message before a turn was seen by none.
LEMMA ComesUnseen ==
    ASSUME Shapes, Shapes', OwnStored, Moves, [Next]_vars, Rests, loop' = "ready",
           NEW n \in Stored', Comes(n), NEW q \in Requests, mid'[q].id = n.id
    PROVE  Unseen(q)'
<1>1. Outside(q)
  BY InsideStays DEF Comes, Outside
<1>2. CASE Kind[q] # "compaction"
  BY <1>1, <1>2, ReadyHears DEF OwnStored, Unseen
<1>3. CASE Kind[q] = "compaction"
  <2>1. mid'[q].id = now' /\ now' = now + 1
    BY <1>1, <1>3 DEF OwnStored, Moves, RequestMoves, MidsGrow, Comes, Shapes, LogFine, Stored
  <2>2. \A a \in Stored : a.id < now'
    BY <2>1, NowIs DEF Shapes, LogFine, Stored
  <2>3. \A b \in Stored' : IsUser(b) \/ b.id < mid'[q].id
    BY <2>1, <2>2, ReadyRests DEF Moves, LogStep, Kept
  <2> QED  BY <1>3, <2>3 DEF Unseen, Stored, Range
<1> QED  BY <1>2, <1>3

\* Every step keeps ReadyShows.
LEMMA ReadyShowsRests ==
    ASSUME Shapes, OwnStored, ReadyShows, Moves, Shapes', [Next]_vars
    PROVE  ReadyShows'
<1> SUFFICES ASSUME loop' = "ready", NEW n \in Stored'
             PROVE  \/ \E o \in Range(view') : o.id = n.id
                    \/ \E q \in Requests : mid'[q].id = n.id /\ Unseen(q)'
                    \/ \A m \in Range(view') : n.time <= m.time
  BY DEF ReadyShows
<1>0. \A m \in Stored' : m.time \in Nat
  BY DEF Shapes, LogFine, Stored
<1>1. CASE Scans
  <2>1. view' = FilterCompacted(log) /\ n \in Stored /\ Stored' = Stored
    BY <1>1 DEF Scans, Stored
  <2>2. PICK v : v = FilterCompacted(log)
    OBVIOUS
  <2>3. \A m \in Range(v) : n.time > m.time => \E o \in Range(v) : o.id = n.id
    BY <2>1, <2>2, ScanFits
  <2>4. \A m \in Range(v) : \E o \in Stored : m.time = o.time
    BY <2>2, ScanFits DEF Fits, Shows
  <2>5. \A m \in Range(v) : m.time \in Nat
    BY <1>0, <2>1, <2>4
  <2> QED  BY <1>0, <2>1, <2>2, <2>3, <2>5
<1>2. CASE Rests
  <2>1. loop = "ready" /\ view' = view
    BY <1>2 DEF Rests
  <2>2. ASSUME NEW m \in Stored, Kept(m, n), NEW q \in Requests, mid[q].id = m.id, Unseen(q)
        PROVE  mid'[q].id = n.id /\ Unseen(q)'
    <3>1. mid'[q].id = mid[q].id /\ n.id = m.id
      BY <2>2, RequestedRests DEF Kept
    <3> QED  BY <1>2, <2>2, <3>1, UnseenStays
  <2>3. CASE \E m \in Stored : Kept(m, n)
    <3>1. PICK m \in Stored : Kept(m, n)
      BY <2>3
    <3>2. n.id = m.id /\ n.time = m.time
      BY <3>1 DEF Kept
    <3> QED  BY <2>1, <2>2, <3>1, <3>2 DEF ReadyShows
  <2>4. CASE Comes(n)
    <3>1. PICK q \in Requests : mid'[q].id = n.id
      BY <1>2, <2>4, ReadyRests DEF Requested
    <3> QED  BY <1>2, <2>4, <3>1, ComesUnseen
  <2> QED  BY <2>3, <2>4 DEF Moves, LogStep
<1> QED  BY <1>1, <1>2, ReadsAre DEF Reading, Begins

-----------------------------------------------------------------------------
(* What is between a compaction and a summary of it *)

\* A newer message than c has a tail.
LaterTail(c) == \E d \in Stored : d.tail # 0 /\ d.time > c.time

\* The message of a late request.
Racer(m) == \E q \in late : mid[q].id = m.id

\* A summary has everything before it: what is stored between its compaction and
\* the summary is a racer's, or was never finished, unless a later compaction
\* recorded a tail (whose summary then goes first).
Between == \A s, c, m \in Stored :
    s.kind = "summary" /\ s.parent = c.id /\ c.time < m.time /\ m.time < s.time =>
        LaterTail(c) \/ (IsUser(m) /\ Racer(m)) \/ (~IsUser(m) /\ m.finish = "none")

\* What the run wrote has its time for an id.
LEMMA WrittenIs ==
    ASSUME Shapes, NEW m \in Stored, ~IsUser(m)
    PROVE  ~Requested(m) /\ m.id = m.time
BY DEF Shapes, StoredShapes, Suits

\* A recorded tail stays.
LEMMA LaterTailStays ==
    ASSUME Moves, NEW c \in Stored, NEW n \in Stored', Kept(c, n), LaterTail(c)
    PROVE  LaterTail(n)'
<1>1. PICK d \in Stored : d.tail # 0 /\ d.time > c.time
  BY DEF LaterTail
<1>2. PICK e \in Stored' : Kept(d, e)
  BY DEF Moves, LogStep
<1>3. e.tail # 0 /\ e.time = d.time /\ n.time = c.time
  BY <1>1, <1>2 DEF Kept
<1> QED  BY <1>1, <1>3 DEF LaterTail

\* A racer stays one.
LEMMA RacerStays ==
    ASSUME Shapes, Moves, GhostsGrow, NEW m \in Stored, NEW n, n.id = m.id, Racer(m)
    PROVE  Racer(n)'
<1>1. PICK q \in late : mid[q].id = m.id
  BY DEF Racer
<1>2. q \in Requests /\ q \in late'
  BY DEF Shapes, RunShapes, GhostsGrow
<1>3. mid'[q].id = m.id
  BY <1>1, <1>2, RequestedRests
<1> QED  BY <1>2, <1>3 DEF Racer

\* A stored message before the last user message in the view, but later.
LEMMA InversionHasTail ==
    ASSUME Shapes, ViewFits, loop \in Reading, NEW i \in 1 .. Len(view), i < LastUser(view),
           NEW c \in Stored, c.id = User.id, view[i].time > c.time
    PROVE  LaterTail(c)
<1>1. view \in Seq(Messages) /\ LastUser(view) \in 1 .. Len(view) /\ DOMAIN view = 1 .. Len(view)
  BY UserIsStored DEF Shapes, RunShapes
<1>2. PICK n \in Stored : Shows(User, n)
  BY UserIsStored
<1>3. n = c
  BY <1>2 DEF Shows, Shapes, LogFine, Stored
<1>4. view[i].time > view[LastUser(view)].time
  BY <1>2, <1>3 DEF Shows, User
<1>5. PICK s : Turned(s, view[i], view[LastUser(view)])
  BY <1>1, <1>4 DEF ViewFits, Fits
<1>6. PICK d \in Stored : LastTail(d) /\ User.time < d.time
  BY <1>5 DEF Turned, User
<1>7. d.time > c.time
  BY <1>2, <1>3, <1>6 DEF Shows
<1> QED  BY <1>6, <1>7 DEF LaterTail, LastTail

\* What is seen of a stored message.
LEMMA SeenIs ==
    ASSUME Shapes, ViewFits, loop \in Reading, NEW m \in Stored, NEW i \in 1 .. Len(view), view[i].id = m.id
    PROVE  Shows(view[i], m)
<1>1. view[i] \in Range(view)
  BY DEF Range, Shapes, RunShapes
<1>2. PICK n \in Stored : Shows(view[i], n)
  BY <1>1 DEF ViewFits, Fits
<1>3. n = m
  BY <1>2 DEF Shows, Shapes, LogFine, Stored
<1> QED  BY <1>2, <1>3

\* A message in a view has a place in it.
LEMMA PlaceOf ==
    ASSUME Shapes, NEW o \in Range(view)
    PROVE  \E i \in 1 .. Len(view) : view[i] = o
BY DEF Range, Shapes, RunShapes

\* A new summary answers the last user message of the view.
LEMMA NewSummaryFits ==
    ASSUME Shapes, ViewFits, ReadyShows, Moves, GhostsGrow, NEW s \in Stored', Comes(s), s.kind = "summary",
           NEW c \in Stored, s.parent = c.id, NEW m \in Stored, NEW n \in Stored', Kept(m, n),
           c.time < m.time
    PROVE  LaterTail(c) \/ (IsUser(n) /\ Racer(n)') \/ (~IsUser(n) /\ n.finish = "none")
<1>1. /\ loop = "ready" /\ loop \in Reading /\ TaskKind = "compaction" /\ TaskKind # "none" /\ User.id = c.id
      /\ late' = late \cup Missed /\ mid' = mid
  BY DEF Comes, IsUser, UserKinds, Reading
<1>2. view \in Seq(Messages) /\ LastUser(view) \in 1 .. Len(view) /\ DOMAIN view = 1 .. Len(view) /\ Len(view) \in Nat
  BY <1>1, UserIsStored DEF Shapes, RunShapes
<1>3. n.id = m.id /\ n.kind = m.kind /\ (IsUser(n) <=> IsUser(m))
  BY DEF Kept, IsUser
<1>4. doing = 0 /\ m.id # 0
  BY <1>1 DEF Shapes, RunShapes, Writing, LogFine, Stored
<1>5. n.finish = m.finish
  BY <1>4 DEF Kept, Closes
<1>6. User \in Range(view) /\ User.time = c.time
  <2>1. Shows(view[LastUser(view)], c)
    BY <1>1, <1>2, SeenIs DEF User
  <2> QED  BY <1>1, <2>1, UserIsStored DEF Shows, User
<1>7. ASSUME ~Requested(m) PROVE \E i \in 1 .. Len(view) : view[i].id = m.id
  <2>1. \E o \in Range(view) : o.id = m.id
    BY <1>1, <1>4, <1>6, <1>7 DEF ViewFits, Fits
  <2> QED  BY <2>1, PlaceOf
<1>8. CASE ~IsUser(m) /\ m.finish # "none"
  <2>1. ~Requested(m)
    BY <1>8, WrittenIs
  <2>2. PICK i \in 1 .. Len(view) : view[i].id = m.id
    BY <1>7, <2>1
  <2>3. Shows(view[i], m)
    BY <1>1, <2>2, SeenIs
  <2>4. i <= LastFinished(view)
    BY <1>2, <1>8, <2>3, LastFinishedIs DEF Shows, IsUser
  <2>5. LastFinished(view) < Task(view) /\ Task(view) \in 1 .. Len(view) /\ LastFinished(view) \in Nat
    BY <1>1, <1>2, TaskIs, TaskIsStored, LastFinishedIs DEF TaskKind
  <2>6. Task(view) <= LastUser(view)
    BY <1>1, <1>2, LastUserIs, TaskIsStored
  <2>7. i < LastUser(view)
    BY <1>2, <2>4, <2>5, <2>6
  <2>8. view[i].time > c.time
    <3>1. view[i].time = m.time /\ m.time \in Nat /\ c.time \in Nat
      BY <2>3 DEF Shows, Shapes, LogFine, Stored
    <3> QED  BY <3>1
  <2> QED  BY <1>1, <2>7, <2>8, InversionHasTail
<1>9. CASE IsUser(m) /\ ~Racer(n)'
  <2>1. \E i \in 1 .. Len(view) : view[i].id = m.id
    <3>1. CASE ~Requested(m)
      BY <1>7, <3>1
    <3>2. CASE Requested(m)
      <4>1. PICK q \in Requests : mid[q].id = m.id
        BY <3>2 DEF Requested
      <4>2. q \notin late'
        BY <1>1, <1>3, <1>9, <4>1 DEF Racer
      <4>3. q \notin Missed
        BY <1>1, <4>2
      <4>4. CASE \E i \in DOMAIN view : view[i].id = mid[q].id
        BY <1>2, <4>1, <4>4
      <4>5. CASE ~Unseen(q)
        <5>1. \A p \in Requests : mid[p].id = m.id => p = q
          BY <1>4, <4>1 DEF Shapes, RequestShapes
        <5>2. (\E o \in Range(view) : o.id = m.id) \/ \A o \in Range(view) : m.time <= o.time
          BY <1>1, <4>5, <5>1 DEF ReadyShows
        <5>3. ~(m.time <= User.time)
          BY <1>6 DEF Shapes, LogFine, Stored
        <5> QED  BY <1>6, <5>2, <5>3, PlaceOf
      <4> QED  BY <1>4, <4>1, <4>3, <4>4, <4>5 DEF Missed
    <3> QED  BY <3>1, <3>2
  <2>2. PICK i \in 1 .. Len(view) : view[i].id = m.id
    BY <2>1
  <2>3. Shows(view[i], m)
    BY <1>1, <2>2, SeenIs
  <2>4. view[i].time > c.time
    <3>1. view[i].time = m.time /\ m.time \in Nat /\ c.time \in Nat
      BY <2>3 DEF Shows, Shapes, LogFine, Stored
    <3> QED  BY <3>1
  <2>5. i <= LastUser(view)
    BY <1>2, <1>9, <2>3, LastUserIs DEF Shows, IsUser
  <2>6. i # LastUser(view)
    <3>1. CASE i = LastUser(view)
      <4>1. view[i].time = c.time /\ c.time \in Nat
        BY <1>6, <3>1 DEF User, Shapes, LogFine, Stored
      <4> QED  BY <2>4, <4>1
    <3> QED  BY <3>1
  <2>7. i < LastUser(view)
    BY <1>2, <2>5, <2>6
  <2> QED  BY <1>1, <2>4, <2>7, InversionHasTail
<1> QED  BY <1>3, <1>5, <1>8, <1>9

\* Every step keeps Between.
LEMMA BetweenRests ==
    ASSUME Shapes, ViewFits, OwnStored, ReadyShows, RacersAreLate, Between, Moves, GhostsGrow
    PROVE  Between'
<1> SUFFICES ASSUME NEW s \in Stored', NEW c \in Stored', NEW m \in Stored',
                    s.kind = "summary", s.parent = c.id, c.time < m.time, m.time < s.time
             PROVE  LaterTail(c)' \/ (IsUser(m) /\ Racer(m)') \/ (~IsUser(m) /\ m.finish = "none")
  BY DEF Between
<1>0. now \in Nat /\ \A o \in Stored : o.id \in 1 .. now /\ o.time \in 1 .. now
  BY NowIs DEF Shapes, LogFine, Stored
<1>0a. now' \in Nat /\ \A o \in Stored' : o.id \in 1 .. now' /\ o.time \in 1 .. now'
  BY PromptLoopAssumption DEF Moves, LogFine, Ids, Stored
<1>1. ASSUME NEW t \in Stored, Kept(t, s)
      PROVE  LaterTail(c)' \/ (IsUser(m) /\ Racer(m)') \/ (~IsUser(m) /\ m.finish = "none")
  <2>1. t.kind = "summary" /\ t.parent = c.id /\ t.time = s.time /\ t.id = s.id /\ ~IsUser(t)
    BY <1>1 DEF Kept, IsUser, UserKinds
  <2>2. t.id = t.time /\ ~Requested(t)
    BY <2>1, WrittenIs
  <2>3. PICK d \in Stored : Kept(d, c)
    <3>1. \E o \in Stored : o.id = t.parent
      BY <2>1 DEF Shapes, StoredShapes, Suits
    <3> QED  BY <2>1, <3>1 DEF Moves, LogStep, Comes
  <2>4. d.id = c.id /\ d.time = c.time
    BY <2>3 DEF Kept
  <2>5. ASSUME NEW o \in Stored, Kept(o, m)
        PROVE  LaterTail(c)' \/ (IsUser(m) /\ Racer(m)') \/ (~IsUser(m) /\ m.finish = "none")
    <3>1. o.id = m.id /\ o.time = m.time /\ (IsUser(o) <=> IsUser(m)) /\ (m.finish = o.finish \/ Closes(o, m))
      BY <2>5 DEF Kept, IsUser
    <3>2. LaterTail(d) \/ (IsUser(o) /\ Racer(o)) \/ (~IsUser(o) /\ o.finish = "none")
      BY <2>1, <2>4, <3>1 DEF Between
    <3>3. CASE LaterTail(d)
      BY <2>3, <3>3, LaterTailStays
    <3>4. CASE IsUser(o) /\ Racer(o)
      BY <3>1, <3>4, RacerStays
    <3>5. CASE ~IsUser(o) /\ o.finish = "none"
      <4>1. CASE m.finish = o.finish
        BY <3>1, <3>5, <4>1
      <4>2. CASE Closes(o, m)
        <5>1. o.id = doing /\ doing # 0
          BY <1>0, <4>2 DEF Closes
        <5>2. t.id <= doing
          BY <2>2, <5>1 DEF Shapes, RunShapes
        <5>3. o.id = o.time
          BY <3>5, WrittenIs
        <5>4. o.time < t.time /\ o.time \in Nat /\ t.time \in Nat
          BY <1>0, <2>1, <3>1
        <5> QED  BY <2>2, <5>1, <5>2, <5>3, <5>4
      <4> QED  BY <3>1, <4>1, <4>2
    <3> QED  BY <3>2, <3>3, <3>4, <3>5
  <2>6. CASE Comes(m)
    <3>1. m.time # now' \/ now' # now + 1
      <4>1. m.time < t.time /\ t.time \in 1 .. now
        BY <1>0, <2>1
      <4> QED  BY <1>0, <4>1
    <3>2. PICK q \in Requests : mid[q].id = m.id /\ mid[q].time = m.time
      BY <2>6, <3>1 DEF Comes
    <3>3. IsUser(m)
      BY <2>6, <3>1 DEF Comes
    <3>4. Outside(q)
      BY <2>6, <3>2 DEF Comes, Outside
    <3>5. mid[q].id # 0 /\ mid[q].id < t.id
      <4>1. mid[q].time # 0
        BY <1>0a, <3>2
      <4>2. mid[q].id # 0 /\ mid[q].id <= mid[q].time /\ mid[q].id \in Nat /\ mid[q].time \in Nat
        BY <4>1 DEF Shapes, RequestShapes
      <4>3. mid[q].time < t.id /\ t.id \in Nat
        BY <1>0, <2>1, <2>2, <3>2
      <4> QED  BY <4>2, <4>3
    <3>6. q \in late
      BY <2>1, <3>4, <3>5 DEF RacersAreLate
    <3>7. mid'[q].id = mid[q].id
      BY <3>5 DEF Moves, RequestMoves, MidsGrow
    <3>8. Racer(m)'
      BY <3>2, <3>6, <3>7 DEF Racer, GhostsGrow
    <3> QED  BY <3>3, <3>8
  <2> QED  BY <2>5, <2>6 DEF Moves, LogStep
<1>2. CASE Comes(s)
  <2>1. loop = "ready" /\ loop \in Reading /\ s.parent = User.id /\ late' = late \cup Missed /\ mid' = mid
    BY <1>2 DEF Comes, IsUser, UserKinds, Reading
  <2>2. PICK u \in Stored : Shows(User, u)
    BY <2>1, UserIsStored
  <2>3. u.id = c.id
    BY <2>1, <2>2 DEF Shows
  <2>4. PICK d \in Stored : Kept(d, c)
    BY <2>3 DEF Moves, LogStep, Comes
  <2>5. d.id = c.id /\ d.time = c.time
    BY <2>4 DEF Kept
  <2>6. ASSUME NEW o \in Stored, Kept(o, m)
        PROVE  LaterTail(c)' \/ (IsUser(m) /\ Racer(m)') \/ (~IsUser(m) /\ m.finish = "none")
    <3>1. d.time < o.time /\ s.parent = d.id
      BY <2>5, <2>6 DEF Kept
    <3>2. LaterTail(d) \/ (IsUser(m) /\ Racer(m)') \/ (~IsUser(m) /\ m.finish = "none")
      BY <1>2, <2>6, <3>1, NewSummaryFits
    <3> QED  BY <2>4, <3>2, LaterTailStays
  <2>7. CASE Comes(m)
    <3>1. s.time <= now' /\ s.time \in Nat /\ m.time < now'
      BY <1>0a
    <3>2. PICK q \in Requests : IsUser(m) /\ mid[q].id = m.id
      BY <1>0a, <2>7, <3>1 DEF Comes
    <3>3. Outside(q)
      BY <2>7, <3>2 DEF Comes, Outside
    <3>4. mid[q].id # 0
      BY <1>0a, <3>2
    <3>5. q \in late'
      BY <2>1, <3>3, <3>4, OutsideIsMissed
    <3> QED  BY <2>1, <3>2, <3>5 DEF Racer
  <2> QED  BY <2>6, <2>7 DEF Moves, LogStep
<1> QED  BY <1>1, <1>2 DEF Moves, LogStep

-----------------------------------------------------------------------------
(* Subtasks *)

\* A subtask that was executed is that of a stored message.
RanStored == \A i \in ran : \E x \in Stored : x.id = i

\* The execution of a subtask is in the log, behind the message that asked for it.
Executed == \A x \in Stored : x.id \in ran =>
    \E y \in Stored : y.kind = "task" /\ y.finish # "none" /\ y.time > x.time

\* No two stored messages have one time.
LEMMA SameTime ==
    ASSUME Shapes, NEW m \in Stored, NEW n \in Stored, m.time = n.time
    PROVE  m = n
<1>1. log \in Seq(Messages) /\ Ordered(log) /\ DOMAIN log = 1 .. Len(log) /\ Len(log) \in Nat
  BY DEF Shapes, LogFine
<1>2. PICK i \in 1 .. Len(log), k \in 1 .. Len(log) : m = log[i] /\ n = log[k]
  BY <1>1 DEF Stored, Range
<1>3. m.time \in Nat
  BY DEF Shapes, LogFine, Stored
<1>4. ~(i < k) /\ ~(k < i)
  BY <1>1, <1>2, <1>3 DEF Ordered
<1> QED  BY <1>2, <1>4

\* The subtask whose execution ends is that of an older message.
LEMMA RanGrows ==
    ASSUME Shapes, ViewFits, ViewIsOlder, Shapes', Moves, [Next]_vars, NEW i \in ran' \ ran
    PROVE  /\ \E x \in Stored : x.id = i
           /\ \A x \in Stored' : x.id = i =>
                \E y \in Stored' : y.kind = "task" /\ y.finish # "none" /\ y.time > x.time
<1>1. EndSubtask
  BY DEF Next, ClientDraws, Draw, Save, CreateManual, SaveParts, Enter, Scan, Fails, StartSubtask,
         StartSummary, EndSummary, CompactFirst, Ask, Reply, CreateAuto, WriteParts, End, Cancel,
         Restart, vars, ghosts
<1>2. loop = "subtask" /\ loop \in Reading /\ doing # 0 /\ i = view[Task(view)].id
  BY <1>1, EndSubtaskIs DEF Reading
<1>3. PICK y \in Stored' : y.id = doing /\ y.kind = "task" /\ y.finish = "tool-calls"
  BY <1>1, EndSubtaskStep
<1>4. TaskKind # "none" /\ TaskKind = "subtask"
  BY <1>2 DEF Shapes, RunShapes
<1>5. PICK x \in Stored : Shows(view[Task(view)], x)
  BY <1>2, <1>4, TaskIsStored
<1>6. x.id = i /\ x.time < doing
  BY <1>2, <1>4, <1>5, TaskIsStored DEF Shows, ViewIsOlder
<1>7. y.time = doing
  <2>1. ~IsUser(y) /\ Suits(y)'
    BY <1>3 DEF IsUser, UserKinds, Shapes, StoredShapes
  <2> QED  BY <1>3, <2>1 DEF Suits
<1>8. ASSUME NEW n \in Stored', n.id = i PROVE n.time = x.time
  <2>1. PICK m \in Stored : Kept(m, n)
    BY <1>6, <1>8 DEF Moves, LogStep, Comes
  <2>2. m = x
    BY <1>6, <1>8, <2>1 DEF Kept, Shapes, LogFine, Stored
  <2> QED  BY <2>1, <2>2 DEF Kept
<1>9. x.time \in Nat /\ doing \in Nat
  BY DEF Shapes, LogFine, Stored, RunShapes
<1> QED  BY <1>3, <1>6, <1>7, <1>8, <1>9

\* Every step keeps RanStored and Executed.
LEMMA ExecutedRests ==
    ASSUME Shapes, ViewFits, ViewIsOlder, Shapes', Moves, [Next]_vars, RanStored, Executed
    PROVE  RanStored' /\ Executed'
<1>1. RanStored'
  <2> SUFFICES ASSUME NEW i \in ran' PROVE \E n \in Stored' : n.id = i
    BY DEF RanStored
  <2>1. PICK x \in Stored : x.id = i
    BY RanGrows DEF RanStored
  <2>2. PICK n \in Stored' : Kept(x, n)
    BY DEF Moves, LogStep
  <2> QED  BY <2>1, <2>2 DEF Kept
<1>2. Executed'
  <2> SUFFICES ASSUME NEW n \in Stored', n.id \in ran'
               PROVE  \E y \in Stored' : y.kind = "task" /\ y.finish # "none" /\ y.time > n.time
    BY DEF Executed
  <2>1. CASE n.id \in ran
    <3>1. PICK m \in Stored : Kept(m, n)
      BY <2>1 DEF RanStored, Moves, LogStep, Comes
    <3>2. m.id = n.id /\ m.time = n.time
      BY <3>1 DEF Kept
    <3>3. PICK y \in Stored : y.kind = "task" /\ y.finish # "none" /\ y.time > m.time
      BY <2>1, <3>2 DEF Executed
    <3>4. PICK z \in Stored' : Kept(y, z)
      BY DEF Moves, LogStep
    <3>5. z.kind = "task" /\ z.finish = y.finish /\ z.time = y.time
      BY <3>3, <3>4 DEF Kept, Closes
    <3> QED  BY <3>2, <3>3, <3>5
  <2>2. CASE n.id \notin ran
    BY <2>2, RanGrows
  <2> QED  BY <2>1, <2>2
<1> QED  BY <1>1, <1>2

\* What a view turned was between a compaction and its summary: a racer's message,
\* or one that was never finished.
LEMMA TurnedIs ==
    ASSUME Shapes, Between, NEW s, NEW m \in Stored, NEW x, NEW y, Shows(x, m), Turned(s, x, y),
           m.kind \notin {"summary", "compaction"}
    PROVE  IF IsUser(m) THEN Racer(m) ELSE m.finish = "none"
<1>1. PICK c \in Stored : LastTail(c) /\ s.parent = c.id /\ c.time <= x.time /\ x.time <= s.time
  BY DEF Turned
<1>2. s \in Stored /\ s.kind = "summary" /\ x.time = m.time
  BY DEF Turned, Shows
<1>3. c.kind = "compaction"
  BY <1>1 DEF LastTail, Shapes, LogFine, Stored, HasPart
<1>4. m # c /\ m # s
  BY <1>2, <1>3
<1>5. m.time # c.time /\ m.time # s.time
  BY <1>2, <1>4, SameTime
<1>6. m.time \in Nat /\ c.time \in Nat /\ s.time \in Nat
  BY <1>2 DEF Shapes, LogFine, Stored
<1>7. c.time < m.time /\ m.time < s.time
  BY <1>1, <1>2, <1>5, <1>6
<1>8. ~LaterTail(c)
  <2> SUFFICES ASSUME NEW d \in Stored, d.tail # 0, d.time > c.time PROVE FALSE
    BY DEF LaterTail
  <2>1. d.time <= c.time /\ d.time \in Nat
    BY <1>1 DEF LastTail, Shapes, LogFine, Stored
  <2> QED  BY <1>6, <2>1
<1> QED  BY <1>1, <1>2, <1>7, <1>8 DEF Between

\* The subtask that is executed is one that was not yet.
LEMMA RunsOnce ==
    ASSUME Shapes, ViewFits, Between, Executed
    PROVE  SubtaskRunsOnce
<1> SUFFICES ASSUME loop = "subtask", view[Task(view)].id \in ran PROVE FALSE
  BY DEF SubtaskRunsOnce
<1>1. loop \in Reading /\ TaskKind = "subtask" /\ TaskKind # "none" /\ doing # 0
  BY DEF Shapes, RunShapes, Reading, Writing
<1>2. view \in Seq(Messages) /\ Task(view) \in 1 .. Len(view) /\ DOMAIN view = 1 .. Len(view) /\ Len(view) \in Nat
  BY <1>1, TaskIsStored DEF Shapes, RunShapes
<1>3. PICK x \in Stored : Shows(view[Task(view)], x)
  BY <1>1, TaskIsStored
<1>4. PICK y \in Stored : y.kind = "task" /\ y.finish # "none" /\ y.time > x.time
  BY <1>3 DEF Executed, Shows
<1>5. ~IsUser(y) /\ ~Requested(y)
  <2>1. ~IsUser(y)
    BY <1>4 DEF IsUser, UserKinds
  <2> QED  BY <2>1, WrittenIs
<1>6. y.id # doing
  <2>1. PICK d \in Stored : DoingIs(d)
    BY <1>1 DEF Shapes, RunShapes
  <2>2. d.id = doing /\ d.finish = "none"
    BY <1>1, <2>1 DEF DoingIs
  <2> QED  BY <1>4, <2>2 DEF Shapes, LogFine, Stored
<1>7. PICK i \in 1 .. Len(view) : view[i].id = y.id
  <2>1. view[Task(view)] \in Range(view) /\ y.time > view[Task(view)].time
    BY <1>1, <1>3, <1>4, TaskIsStored DEF Shows
  <2>2. \E o \in Range(view) : o.id = y.id
    BY <1>1, <1>5, <1>6, <2>1 DEF ViewFits, Fits
  <2> QED  BY <2>2, PlaceOf
<1>8. Shows(view[i], y)
  BY <1>1, <1>7, SeenIs
<1>9. i < Task(view)
  <2>1. i <= LastFinished(view)
    BY <1>2, <1>4, <1>5, <1>8, LastFinishedIs DEF Shows, IsUser
  <2>2. LastFinished(view) < Task(view) /\ LastFinished(view) \in Nat
    BY <1>2, TaskIs, LastFinishedIs
  <2> QED  BY <1>2, <2>1, <2>2
<1>10. view[i].time > view[Task(view)].time
  BY <1>3, <1>4, <1>8 DEF Shows
<1>11. PICK s : Turned(s, view[i], view[Task(view)])
  BY <1>1, <1>2, <1>9, <1>10 DEF ViewFits, Fits
<1> QED  BY <1>4, <1>5, <1>8, <1>11, TurnedIs

-----------------------------------------------------------------------------
(* Who was read *)

\* The run wrote a user message after a, which the next turn reads.
HasFollower(a) == \E f \in Stored :
    IsUser(f) /\ f.kind # "compaction" /\ ~Requested(f) /\ f.id > a.id

\* A prompt that was neither read nor retained, and is not late.
Unread(q) == mid[q].id # 0 /\ Kind[q] # "compaction" /\ q \notin heard \cup retained \cup late

\* What would end the loop with an id above that of an unread prompt is a summary,
\* and a turn follows it.
Answered == \A q \in Requests, a \in Stored :
    /\ Unread(q)
    /\ ~IsUser(a) /\ a.id > mid[q].id
    /\ a.finish \notin {"none", "tool-calls"}
    => a.kind = "summary" /\ HasFollower(a)

\* A follower stays.
LEMMA FollowerStays ==
    ASSUME Shapes, Moves, NEW a, HasFollower(a), NEW b, b.id = a.id
    PROVE  HasFollower(b)'
<1>1. PICK f \in Stored : IsUser(f) /\ f.kind # "compaction" /\ ~Requested(f) /\ f.id > a.id
  BY DEF HasFollower
<1>2. PICK g \in Stored' : Kept(f, g)
  BY DEF Moves, LogStep
<1>3. g.id = f.id /\ g.kind = f.kind
  BY <1>2 DEF Kept
<1>4. ~Requested(g)'
  <2>1. ~Requested(f)'
    BY <1>1, RequestedRests
  <2> QED  BY <1>3, <2>1 DEF Requested
<1> QED  BY <1>1, <1>3, <1>4 DEF HasFollower, IsUser

\* A summary that is finished has read who was there before it, or a turn follows.
LEMMA SummaryReads ==
    ASSUME Shapes, ViewFits, SeenInTime, GhostsGrow, EndSummary,
           loop' = "break" => late' = late \cup {q \in Requests : mid[q].id # 0},
           NEW q \in Requests, mid[q].id # 0, mid[q].id < doing, Kind[q] # "compaction",
           q \notin heard' \cup retained' \cup late',
           NEW a, a.id = doing
    PROVE  HasFollower(a)'
<1>1. loop = "summarizing" /\ loop \in Reading /\ doing # 0
  BY EndSummaryIs DEF Reading, Shapes, RunShapes, Writing
<1>2. PICK tail, r : EndsAs(tail, r)
  BY EndSummaryIs
<1>3. loop' # "break"
  OBVIOUS
<1>4. r = "stop"
  BY <1>2, <1>3 DEF EndsAs
<1>5. doing <= now /\ doing \in Nat /\ now \in Nat
  <2>1. PICK m \in Stored : m.id = doing
    BY <1>1 DEF Shapes, RunShapes, DoingIs
  <2>2. m.id \in 1 .. now
    BY DEF Shapes, LogFine, Stored
  <2> QED  BY <2>1, <2>2, NowIs
<1>6. CASE view[Task(view)].auto
  <2>1. loop' = "parts"
    BY <1>2, <1>4, <1>6 DEF EndsAs
  <2>2. PICK m \in Stored' : ~Requested(m)' /\ IsUser(m) /\ m.kind # "compaction" /\ m.id = now + 1
    BY <2>1, EndSummaryStep
  <2>3. m.id > a.id
    BY <1>5, <2>2
  <2> QED  BY <2>2, <2>3 DEF HasFollower
<1>7. CASE ~view[Task(view)].auto
  <2>1. ~view[Task(view)].overflow
    <3>1. TaskKind # "none"
      BY <1>1 DEF Shapes, RunShapes
    <3>2. PICK n \in Stored : Shows(view[Task(view)], n)
      BY <1>1, <3>1, TaskIsStored
    <3>3. n.overflow => n.auto
      BY DEF Shapes, LogFine, Stored
    <3> QED  BY <1>7, <3>2, <3>3 DEF Shows
  <2>2. q \notin late \cup heard
    BY DEF GhostsGrow
  <2>3. PICK m \in Range(view) : m.id = mid[q].id /\ m.ready
    BY <1>1, <2>2 DEF SeenInTime
  <2>4. m.text = {q} /\ m.kind # "compaction"
    BY <1>1, <2>3, ShownTexts
  <2>5. PICK i \in 1 .. Len(view) : view[i] = m
    BY PlaceOf
  <2>6. PICK h : h = History
    OBVIOUS
  <2>7. h \in Seq(Messages) /\ i \in 1 .. Len(h) /\ h[i] = m
    <3>1. ~Replayed /\ view[i].kind # "compaction"
      BY <2>1, <2>4, <2>5 DEF Replayed
    <3> QED  BY <1>1, <2>5, <2>6, <3>1, HistoryShows
  <2>8. DOMAIN h = 1 .. Len(h) /\ Collapsed(h, tail) \in SUBSET (1 .. Len(h))
    BY <2>7 DEF Collapsed, Visible
  <2>9. /\ heard' = heard \cup Texts(h, Collapsed(h, tail))
        /\ retained' = retained \cup Texts(h, DOMAIN h \ Collapsed(h, tail))
    BY <1>2, <1>4, <1>7, <2>6 DEF EndsAs
  <2>10. CASE i \in Collapsed(h, tail)
    <3>1. h[i].text \subseteq Texts(h, Collapsed(h, tail))
      BY <2>3, <2>7, <2>8, <2>10, TextsAre
    <3> QED  BY <2>4, <2>7, <2>9, <3>1
  <2>11. CASE i \in DOMAIN h \ Collapsed(h, tail)
    <3>1. DOMAIN h \ Collapsed(h, tail) \in SUBSET (1 .. Len(h))
      BY <2>8
    <3>2. h[i].text \subseteq Texts(h, DOMAIN h \ Collapsed(h, tail))
      BY <2>3, <2>7, <2>11, <3>1, TextsAre
    <3> QED  BY <2>4, <2>7, <2>9, <3>2
  <2> QED  BY <2>7, <2>8, <2>10, <2>11
<1> QED  BY <1>6, <1>7

\* Every step keeps Answered.
LEMMA AnsweredRests ==
    ASSUME Shapes, ViewFits, SeenInTime, Answered, Moves, GhostsGrow
    PROVE  Answered'
<1> SUFFICES ASSUME NEW q \in Requests, NEW b \in Stored', Unread(q)', ~IsUser(b), b.id > mid'[q].id,
                    b.finish \notin {"none", "tool-calls"}
             PROVE  b.kind = "summary" /\ HasFollower(b)'
  BY DEF Answered
<1>0. now \in Nat /\ \A m \in Stored : m.id \in 1 .. now
  BY NowIs DEF Shapes, LogFine, Stored
<1>1. PICK a \in Stored : Kept(a, b)
  BY DEF Moves, LogStep, Comes
<1>2. /\ b.id = a.id /\ b.kind = a.kind /\ ~IsUser(a)
      /\ b.finish = a.finish \/ Closes(a, b)
  BY <1>1 DEF Kept, IsUser
<1>3. mid'[q].id < a.id
  <2>1. mid'[q].id \in Nat
    BY DEF Moves, RequestMoves, RequestShapes
  <2> QED  BY <1>0, <1>2, <2>1
<1>4. mid'[q].id = mid[q].id
  BY <1>0, <1>3, MidRests
<1>5. Unread(q)
  BY <1>4 DEF Unread, GhostsGrow
<1>6. CASE b.finish = a.finish
  <2>1. a.id > mid[q].id
    BY <1>2, <1>4
  <2>2. a.kind = "summary" /\ HasFollower(a)
    BY <1>2, <1>5, <1>6, <2>1 DEF Answered
  <2> QED  BY <1>2, <2>2, FollowerStays
<1>7. CASE Closes(a, b)
  <2>1. a.id = doing /\ doing # 0
    BY <1>0, <1>7 DEF Closes
  <2>2. CASE loop = "asking"
    <3>1. q \in heard \cup late
      BY <1>3, <1>4, <1>5, <2>1, <2>2 DEF SeenInTime, Unread, Reading
    <3> QED  BY <1>5, <3>1 DEF Unread
  <2>3. CASE EndSummary /\ (loop' = "break" => late' = late \cup {p \in Requests : mid[p].id # 0})
    <3>1. mid[q].id # 0 /\ mid[q].id < doing /\ Kind[q] # "compaction" /\ q \notin heard' \cup retained' \cup late'
      BY <1>3, <1>4, <1>5, <2>1 DEF Unread
    <3>2. HasFollower(b)'
      BY <1>2, <2>1, <2>3, <3>1, SummaryReads
    <3>3. a.kind = "summary"
      <4>1. PICK d \in Stored : DoingIs(d)
        BY <2>1 DEF Shapes, RunShapes
      <4>2. d = a
        BY <2>1, <4>1 DEF DoingIs, Shapes, LogFine, Stored
      <4>3. loop = "summarizing"
        BY <2>3, EndSummaryIs
      <4> QED  BY <4>1, <4>2, <4>3 DEF DoingIs
    <3> QED  BY <1>2, <3>2, <3>3
  <2> QED  BY <1>7, <2>2, <2>3 DEF Closes
<1> QED  BY <1>2, <1>6, <1>7

-----------------------------------------------------------------------------
(* Whom the end of a run leaves unread *)

\* What OnlyRacersAreUnheard says of a request.
Settled(q) == q \in heard \cup retained \/ \E u \in late : mid[u].time >= mid[q].time

\* When the loop has found its exit, those who wait for it were read, or overtaken.
ExitsTell == loop = "exit" =>
    \A q \in Requests : pc[q] = "waiting" /\ Kind[q] # "compaction" => Settled(q)

\* So it was for those whom an exit answered.
AnsweredAreSettled == \A q \in Requests :
    result[q] = "exit" => mid[q].time # 0 /\ (Kind[q] # "compaction" => Settled(q))

\* A late request is its own racer.
LEMMA LateIsSettled ==
    ASSUME RequestShapes, NEW q \in late, late \subseteq Requests
    PROVE  Settled(q)
<1>1. mid[q].time \in Nat
  BY DEF RequestShapes
<1>2. mid[q].time >= mid[q].time
  BY <1>1
<1> QED  BY <1>2 DEF Settled

\* Who is settled stays so.
LEMMA SettledStays ==
    ASSUME Shapes, Moves, GhostsGrow, NEW q \in Requests, mid[q].time # 0, Settled(q)
    PROVE  Settled(q)'
<1>1. \A p \in Requests : mid[p].time # 0 => mid'[p].time = mid[p].time
  BY DEF Shapes, RequestShapes, Moves, RequestMoves, MidsGrow
<1>2. CASE q \in heard \cup retained
  BY <1>2 DEF Settled, GhostsGrow
<1>3. ASSUME NEW u \in late, mid[u].time >= mid[q].time PROVE Settled(q)'
  <2>1. u \in Requests /\ u \in late'
    BY DEF Shapes, RunShapes, GhostsGrow
  <2>2. mid[u].time # 0
    BY <1>3, <2>1 DEF Shapes, RequestShapes
  <2>3. mid'[u].time = mid[u].time /\ mid'[q].time = mid[q].time
    BY <1>1, <2>1, <2>2
  <2> QED  BY <1>3, <2>1, <2>3 DEF Settled
<1> QED  BY <1>2, <1>3 DEF Settled

\* A user message that is behind what ends the loop in time, but whose id is not, is
\* a racer's, and overtakes whoever was stored before it.
LEMMA Overtakes ==
    ASSUME Shapes, RacersAreLate, NEW a \in Stored, ~IsUser(a), NEW w \in Stored, IsUser(w),
           w.id < a.id, w.time > a.id, NEW q \in Requests, w.time >= mid[q].time
    PROVE  Settled(q)
<1>1. Requested(w)
  <2>1. w.id # w.time
    BY DEF Shapes, LogFine, Stored
  <2> QED  BY <2>1 DEF Shapes, StoredShapes, Suits
<1>2. PICK u \in Requests : mid[u].id = w.id
  BY <1>1 DEF Requested
<1>3. mid[u].time = w.time /\ w.id # 0
  <2>1. mid[u].time = w.time
    BY <1>2, OwnMessage
  <2>2. w.id # 0
    BY DEF Shapes, LogFine, Stored
  <2> QED  BY <2>1, <2>2
<1>4. u \in late
  BY <1>2, <1>3 DEF RacersAreLate
<1> QED  BY <1>3, <1>4 DEF Settled

\* What a scan ends the loop with has whoever waits behind it.
LEMMA ExitSettles ==
    ASSUME Shapes, Between, RacersAreLate, Answered, loop = "scan",
           NEW v, v = FilterCompacted(log), LastUser(v) # 0, Exits(v),
           NEW q \in Requests, pc[q] = "waiting", Kind[q] # "compaction"
    PROVE  Settled(q)
<1> SUFFICES ASSUME ~Settled(q) PROVE FALSE
  OBVIOUS
<1>0. v \in Seq(Messages) /\ Len(v) \in Nat /\ DOMAIN v = 1 .. Len(v)
  BY ScanPlaces DEF Shapes, LogFine
<1>1. /\ Fits(v)
      /\ \A n \in Stored, m \in Range(v) : n.time > m.time => \E o \in Range(v) : o.id = n.id
  BY ScanFits
<1>2. late \subseteq Requests /\ q \notin heard \cup retained \cup late
  BY LateIsSettled DEF Settled, Shapes, RunShapes
<1> DEFINE at == LastAssistant(v)
           to == LastUser(v)
<1>3. at \in 1 .. Len(v) /\ to \in 1 .. Len(v) /\ ~IsUser(v[at]) /\ IsUser(v[to])
      /\ v[at].finish \notin {"none", "tool-calls"} /\ v[to].id < v[at].id
      /\ \A j \in 1 .. Len(v) : IsUser(v[j]) => j <= to
  BY <1>0, LastAssistantIs, LastUserIs DEF Exits
<1> HIDE DEF at, to
<1>4. \A i \in 1 .. Len(v) : v[i] \in Range(v)
  BY <1>0 DEF Range
<1>5. PICK a \in Stored : Shows(v[at], a)
  BY <1>1, <1>3, <1>4 DEF Fits
<1>6. PICK w \in Stored : Shows(v[to], w)
  BY <1>1, <1>3, <1>4 DEF Fits
<1>7. ~IsUser(a) /\ IsUser(w) /\ a.finish \notin {"none", "tool-calls"} /\ w.id < a.id
      /\ a.id = v[at].id /\ w.id = v[to].id /\ a.time = v[at].time /\ w.time = v[to].time
  BY <1>3, <1>5, <1>6 DEF Shows, IsUser
<1>8. a.id = a.time /\ ~Requested(a)
  BY <1>7, WrittenIs
<1>9. \A m \in Stored : m.id \in Nat /\ m.time \in Nat /\ m.id # 0 /\ m.time # 0
  BY DEF Shapes, LogFine, Stored
<1>10. PICK x \in Stored : x.id = mid[q].id
  BY DEF Shapes, RequestShapes
<1>11. x.time = mid[q].time /\ x.kind = Kind[q] /\ IsUser(x)
  BY <1>10, OwnMessage
<1>12. mid[q].id # 0 /\ mid[q].id <= mid[q].time /\ mid[q].id \in Nat /\ mid[q].time \in Nat
  BY <1>9, <1>10, <1>11 DEF Shapes, RequestShapes
<1>13. Unread(q)
  BY <1>2, <1>12 DEF Unread
\* A user message f behind a in time whose id is above a's, and that nobody late stored,
\* is not the last one in the view, so that one overtakes it.
<1>14. ASSUME NEW f \in Stored, IsUser(f), f.kind # "compaction", ~Racer(f), f.id > a.id, f.time > a.time
       PROVE  w.time > f.time
  <2>1. PICK k \in 1 .. Len(v) : v[k].id = f.id
    <3>1. \E o \in Range(v) : o.id = f.id
      BY <1>1, <1>3, <1>4, <1>7, <1>14
    <3> QED  BY <1>0, <3>1 DEF Range
  <2>2. Shows(v[k], f)
    <3>1. PICK n \in Stored : Shows(v[k], n)
      BY <1>1, <1>4 DEF Fits
    <3>2. n = f
      BY <2>1, <3>1 DEF Shows, Shapes, LogFine, Stored
    <3> QED  BY <3>1, <3>2
  <2>3. k <= to
    BY <1>3, <1>14, <2>2 DEF Shows, IsUser
  <2>4. w.id < f.id
    BY <1>7, <1>9, <1>14
  <2>5. k # to
    BY <1>7, <1>9, <2>1, <2>4
  <2>6. k < to
    BY <1>3, <2>3, <2>5
  <2>7. w.time # f.time
    BY <1>9, <2>4, SameTime
  <2>8. CASE w.time < f.time
    <3>1. v[k].time > v[to].time
      BY <1>7, <2>2, <2>8 DEF Shows
    <3>2. PICK s : Turned(s, v[k], v[to])
      BY <1>0, <1>1, <1>3, <2>6, <3>1 DEF Fits
    <3>3. f.kind \notin {"summary", "compaction"}
      BY <1>14 DEF IsUser, UserKinds
    <3> QED  BY <1>14, <2>2, <3>2, <3>3, TurnedIs
  <2> QED  BY <1>9, <2>7, <2>8
<1>15. CASE a.id > mid[q].id
  <2>1. HasFollower(a)
    BY <1>7, <1>13, <1>15 DEF Answered
  <2>2. PICK f \in Stored : IsUser(f) /\ f.kind # "compaction" /\ ~Requested(f) /\ f.id > a.id
    BY <2>1 DEF HasFollower
  <2>3. f.id = f.time
    BY <2>2 DEF Shapes, StoredShapes, Suits
  <2>4. ~Racer(f)
    BY <1>2, <2>2 DEF Racer, Requested
  <2>5. w.time > f.time
    <3>1. f.time > a.time
      BY <1>8, <2>2, <2>3
    <3> QED  BY <1>14, <2>2, <2>4, <3>1
  <2>6. w.time > a.id
    BY <1>9, <2>2, <2>3, <2>5
  <2>7. mid[q].time <= a.id
    BY <1>2, <1>7, <1>9, <1>12, <1>15 DEF RacersAreLate
  <2>8. w.time >= mid[q].time
    BY <1>9, <1>12, <2>6, <2>7
  <2> QED  BY <1>7, <2>6, <2>8, Overtakes
<1>16. CASE a.id < mid[q].id
  <2>1. x.id > a.id /\ x.time > a.time /\ x.time > a.id
    BY <1>8, <1>9, <1>10, <1>11, <1>12, <1>16
  <2>2. ~Racer(x)
    <3> SUFFICES ASSUME NEW u \in late, mid[u].id = mid[q].id PROVE FALSE
      BY <1>10 DEF Racer
    <3>1. u = q
      BY <1>2, <1>12 DEF Shapes, RequestShapes
    <3> QED  BY <1>2, <3>1
  <2>3. w.time > x.time
    BY <1>11, <1>14, <2>1, <2>2
  <2>4. w.time > a.id /\ w.time >= mid[q].time
    BY <1>9, <1>11, <2>1, <2>3
  <2> QED  BY <1>7, <2>4, Overtakes
<1>17. a.id # mid[q].id
  BY <1>8 DEF Requested
<1> QED  BY <1>9, <1>12, <1>15, <1>16, <1>17

\* Only a scan finds the exit.
LEMMA ExitIsFound ==
    ASSUME [Next]_vars, loop' = "exit", loop # "exit"
    PROVE  /\ loop = "scan" /\ pc' = pc
           /\ LastUser(FilterCompacted(log)) # 0 /\ Exits(FilterCompacted(log))
<1>1. Scan
  <2>1. CASE \E q \in Requests : ClientDraws(q) \/ Draw(q) \/ Save(q) \/ CreateManual(q) \/ SaveParts(q) \/ Enter(q)
    BY <2>1 DEF ClientDraws, Draw, Save, CreateManual, SaveParts, Enter, loopVars
  <2>2. CASE EndSubtask \/ EndSummary
    BY <2>2, EndSummaryIs DEF EndSubtask, EndsAs
  <2> QED
    BY <2>1, <2>2
       DEF Next, Fails, StartSubtask, StartSummary, CompactFirst, Ask, Reply, CreateAuto,
           WriteParts, End, Cancel, Restart, Settle, vars, loopVars
<1> QED  BY <1>1 DEF Scan, reqVars

\* Whoever waits when the loop is at an end and did not before has just joined.
LEMMA WhoJoins ==
    ASSUME Shapes, [Next]_vars, NEW q \in Requests, pc'[q] = "waiting", pc[q] # "waiting"
    PROVE  loop \in Ends => q \in late'
<1>1. PICK p \in Requests : Enter(p)
  <2>1. CASE UNCHANGED pc
    BY <2>1
  <2>2. CASE \E p \in Requests : Draw(p) \/ Save(p) \/ CreateManual(p) \/ SaveParts(p)
    BY <2>2 DEF Draw, Save, CreateManual, SaveParts, Goto, Shapes, RequestShapes
  <2>3. CASE End \/ Cancel \/ Restart
    BY <2>3 DEF End, Cancel, Restart, Settle
  <2> QED
    BY <2>1, <2>2, <2>3
       DEF Next, ClientDraws, Scan, Fails, StartSubtask, EndSubtask, StartSummary, EndSummary,
           CompactFirst, Ask, Reply, CreateAuto, WriteParts, vars, reqVars
<1>2. p = q
  BY <1>1 DEF Enter, Goto, Shapes, RequestShapes
<1> QED  BY <1>1, <1>2 DEF Enter

\* Every step keeps ExitsTell.
LEMMA ExitsTellRests ==
    ASSUME Shapes, Between, RacersAreLate, Answered, ExitsTell, Moves, GhostsGrow, Shapes', [Next]_vars
    PROVE  ExitsTell'
<1> SUFFICES ASSUME loop' = "exit", NEW q \in Requests, pc'[q] = "waiting", Kind[q] # "compaction"
             PROVE  Settled(q)'
  BY DEF ExitsTell
<1>1. ASSUME pc[q] = "waiting", Settled(q) PROVE Settled(q)'
  BY <1>1, OfRequest, SettledStays
<1>2. CASE loop = "exit" /\ pc[q] = "waiting"
  BY <1>1, <1>2 DEF ExitsTell
<1>3. CASE loop = "exit" /\ pc[q] # "waiting"
  <2>1. q \in late'
    BY <1>3, WhoJoins DEF Ends
  <2>2. mid'[q].time \in Nat
    BY DEF Shapes, RequestShapes
  <2> QED  BY <2>1, <2>2 DEF Settled
<1>4. CASE loop # "exit"
  <2>1. /\ loop = "scan" /\ pc[q] = "waiting"
        /\ LastUser(FilterCompacted(log)) # 0 /\ Exits(FilterCompacted(log))
    BY <1>4, ExitIsFound
  <2>2. Settled(q)
    BY <2>1, ExitSettles
  <2> QED  BY <1>1, <2>1, <2>2
<1> QED  BY <1>2, <1>3, <1>4

\* Every step keeps AnsweredAreSettled.
LEMMA AnsweredAreSettledRests ==
    ASSUME Shapes, ExitsTell, AnsweredAreSettled, Moves, GhostsGrow, [Next]_vars
    PROVE  AnsweredAreSettled'
<1> SUFFICES ASSUME NEW q \in Requests, result'[q] = "exit"
             PROVE  mid'[q].time # 0 /\ (Kind[q] # "compaction" => Settled(q)')
  BY DEF AnsweredAreSettled
<1>1. ASSUME mid[q].time # 0 PROVE mid'[q].time # 0
  BY <1>1 DEF Shapes, RequestShapes, Moves, RequestMoves, MidsGrow
<1>2. CASE result[q] = "exit"
  BY <1>1, <1>2, SettledStays DEF AnsweredAreSettled
<1>3. CASE result[q] # "exit"
  <2>1. End /\ loop = "exit" /\ pc[q] = "waiting"
    <3>1. CASE UNCHANGED result
      BY <1>3, <3>1
    <3>2. CASE Cancel \/ Restart
      BY <1>3, <3>2 DEF Cancel, Restart, Settle
    <3>3. CASE End
      BY <1>3, <3>3 DEF End, Settle
    <3> QED
      BY <3>1, <3>2, <3>3
         DEF Next, ClientDraws, Draw, Save, CreateManual, SaveParts, Enter, Scan, Fails,
             StartSubtask, EndSubtask, StartSummary, EndSummary, CompactFirst, Ask, Reply,
             CreateAuto, WriteParts, vars, reqVars
  <2>2. mid[q].time # 0
    BY <2>1, OfRequest
  <2>3. Kind[q] # "compaction" => Settled(q)
    BY <2>1 DEF ExitsTell
  <2> QED  BY <1>1, <2>2, <2>3, SettledStays
<1> QED  BY <1>2, <1>3

-----------------------------------------------------------------------------
(* The invariant of the loop *)

\* The invariant of the loop: the shapes, what the view of a turn shows of the log,
\* who is late and whose messages are stored, what is between a compaction and its
\* summary, what executed subtasks leave in the log, and whom an exit may leave unread.
LoopInv ==
    /\ Shapes
    /\ ViewFits
    /\ ViewIsOlder
    /\ OwnStored
    /\ ReadyShows
    /\ RacersAreLate
    /\ SeenInTime
    /\ Between
    /\ RanStored
    /\ Executed
    /\ Answered
    /\ ExitsTell
    /\ AnsweredAreSettled

\* The invariant holds at first.
LEMMA LoopBegins == Init => LoopInv
<1> SUFFICES ASSUME Init PROVE LoopInv
  OBVIOUS
<1>1. log = <<>> /\ Stored = {} /\ Range(log) = {} /\ log \in Seq(Messages) /\ DOMAIN log = {}
  BY DEF Init, Stored, Range
<1>2. LogFine(log, now)
  BY <1>1, PromptLoopAssumption DEF LogFine, Init, Ordered, Ids
<1>3. RequestShapes
  BY DEF RequestShapes, Init, Results
<1>4. StoredShapes
  BY <1>1 DEF StoredShapes
<1>5. view \in Seq(Messages) /\ view = <<>> /\ loop = "off" /\ doing = 0
  BY DEF Init
<1>6. loop \in Loops /\ loop \notin Reading /\ loop \notin Writing
  BY <1>5 DEF Loops, Reading, Writing
<1>7. RunShapes
  BY <1>5, <1>6 DEF RunShapes, Init, Reading, Writing
<1>8. Shapes
  BY <1>2, <1>3, <1>4, <1>7 DEF Shapes
<1>9. ViewFits /\ ViewIsOlder /\ SeenInTime /\ ReadyShows
  BY <1>6 DEF ViewFits, ViewIsOlder, SeenInTime, ReadyShows, Reading
<1>10. RacersAreLate /\ Between /\ Executed /\ Answered
  BY <1>1 DEF RacersAreLate, Between, Executed, Answered
<1>10a. OwnStored
  BY <1>1 DEF OwnStored, Init
<1>11. RanStored /\ ExitsTell /\ AnsweredAreSettled
  BY <1>5 DEF RanStored, ExitsTell, AnsweredAreSettled, Init
<1> QED  BY <1>8, <1>9, <1>10, <1>10a, <1>11 DEF LoopInv

\* Every step keeps the invariant, conjunct by conjunct.
LEMMA LoopGoesOn == LoopInv /\ [Next]_vars => LoopInv'
<1> SUFFICES ASSUME LoopInv, [Next]_vars PROVE LoopInv'
  OBVIOUS
<1>1. /\ Shapes /\ ViewFits /\ ViewIsOlder /\ OwnStored /\ ReadyShows /\ RacersAreLate
      /\ SeenInTime /\ Between /\ RanStored /\ Executed /\ Answered /\ ExitsTell /\ AnsweredAreSettled
  BY DEF LoopInv
<1>2. Shapes' /\ Moves /\ GhostsGrow
  BY <1>1, ShapesRest, GhostsDoGrow
<1>3. ViewFits' /\ ViewIsOlder'
  BY <1>1, <1>2, ViewFitsRests, ViewIsOlderRests
<1>4. OwnStored' /\ ReadyShows' /\ RacersAreLate' /\ SeenInTime'
  BY <1>1, <1>2, OwnStoredRests, ReadyShowsRests, RacersAreLateRests, SeenInTimeRests
<1>5. Between' /\ RanStored' /\ Executed'
  BY <1>1, <1>2, BetweenRests, ExecutedRests
<1>6. Answered'
  BY <1>1, <1>2, AnsweredRests
<1>7. ExitsTell' /\ AnsweredAreSettled'
  BY <1>1, <1>2, ExitsTellRests, AnsweredAreSettledRests
<1> QED  BY <1>2, <1>3, <1>4, <1>5, <1>6, <1>7 DEF LoopInv

\* The invariant of the loop holds in every reachable state.
THEOREM LoopInvHolds == Spec => []LoopInv
BY LoopBegins, LoopGoesOn, PTL DEF Spec

\* A scan of a log that is not empty finds a user message: the cut is at the start of
\* the log or keeps the compaction it was made at, and reordering loses no place but
\* those before the tail.
LEMMA ScanDoesFindUser ==
    ASSUME Shapes
    PROVE  ScanFindsUser
<1> SUFFICES ASSUME log # <<>> PROVE LastUser(FilterCompacted(log)) # 0
  BY DEF ScanFindsUser
<1>1. log \in Seq(Messages) /\ DOMAIN log = 1 .. Len(log)
  BY DEF Shapes, LogFine
<1>2. Range(log) # {}
  <2>1. Len(log) \in Nat /\ Len(log) # 0
    BY <1>1
  <2>2. 1 \in DOMAIN log
    BY <1>1, <2>1
  <2> QED  BY <2>2 DEF Range
<1>3. PICK j \in 1 .. Len(log) : IsUser(log[j])
  <2>1. \E m \in Range(log) : IsUser(m)
    BY <1>2 DEF Shapes, LogFine
  <2> QED  BY <1>1, <2>1 DEF Range
<1>4. PICK v : v = FilterCompacted(log)
  OBVIOUS
<1>5. v \in Seq(Messages) /\ \E i \in 1 .. Len(v) : IsUser(v[i])
  BY <1>1, <1>3, <1>4, ScanPlaces
<1>6. LastUser(v) # 0
  BY <1>5, LastUserIs
<1> QED  BY <1>4, <1>6

\* The shapes are the types of the module.
LEMMA TypesFollow ==
    ASSUME Shapes
    PROVE  LoopTypeOK
<1>1. now \in Ids /\ now \in Nat /\ MaxId \in Nat /\ now <= MaxId
  BY PromptLoopAssumption DEF Shapes, LogFine, Ids
<1>2. log \in Seq(Messages) /\ Ordered(log) /\ DOMAIN log = 1 .. Len(log)
  BY DEF Shapes, LogFine
<1>3. \A i \in DOMAIN log : log[i] \in Stored
  BY DEF Stored, Range
<1>4. \A i \in DOMAIN log : log[i].id \in 1 .. now /\ log[i].time \in 1 .. now
  BY <1>3 DEF Shapes, LogFine, Stored
<1>5. ASSUME NEW i \in DOMAIN log, NEW j \in DOMAIN log, i < j
      PROVE  log[i].time < log[j].time /\ log[i].id # log[j].id
  <2>1. log[i].time < log[j].time
    BY <1>2, <1>5 DEF Ordered
  <2>2. log[i].time \in Nat
    BY <1>4
  <2>3. log[i] # log[j]
    BY <2>1, <2>2
  <2> QED  BY <1>3, <2>1, <2>3 DEF Shapes, LogFine, Stored
<1>6. mid \in [Requests -> [id : Ids, time : Ids]]
  <2>1. mid \in [Requests -> [id : Nat, time : Nat]]
    BY DEF Shapes, RequestShapes
  <2>2. \A q \in Requests : mid[q].id <= now /\ mid[q].time <= now
    BY DEF Shapes, RequestShapes
  <2>3. \A q \in Requests : mid[q].id \in Ids /\ mid[q].time \in Ids
    BY <1>1, <2>1, <2>2 DEF Ids
  <2>4. \A q \in Requests : mid[q] \in [id : Ids, time : Ids]
    BY <2>1, <2>3
  <2> QED  BY <2>1, <2>4
<1>7. doing # 0 => IndexOf(log, doing) # 0
  BY DoingIsStored
<1>8. /\ pc \in [Requests -> {"new", "drawn", "saved", "stored", "waiting", "answered"}]
      /\ result \in [Requests -> Results] /\ loop \in Loops
      /\ heard \cup late \subseteq Requests /\ retained \subseteq Requests /\ folded \cup skipped \cup ran \subseteq Ids
  BY DEF Shapes, RequestShapes, RunShapes
<1> QED  BY <1>1, <1>4, <1>5, <1>6, <1>7, <1>8 DEF LoopTypeOK

\* The contract of the loop: the log keeps its types and the order of time, and
\* however compactions cut and reorder it, the scan at the top of runLoop does not
\* throw "No user message found in stream".
THEOREM LoopIsKept == Spec => []LoopContract
<1>1. LoopInv => LoopContract
  BY TypesFollow, ScanDoesFindUser DEF LoopInv, LoopContract
<1> QED  BY <1>1, LoopInvHolds, PTL

\* Of the prompts whose run ended by the exit of runLoop, only those that raced a turn,
\* or that a manual compaction left in its tail, were not read by a model.
THEOREM PromptsAreSettled == Spec => []OnlyRacersAreUnheard
<1>1. LoopInv => OnlyRacersAreUnheard
  BY DEF LoopInv, AnsweredAreSettled, Settled, OnlyRacersAreUnheard
<1> QED  BY <1>1, LoopInvHolds, PTL

\* handleSubtask never executes the subtask of a stored message again, whatever was
\* cancelled, restarted, compacted or reordered in between.
THEOREM SubtasksRunOnce == Spec => []SubtaskRunsOnce
<1>1. LoopInv => SubtaskRunsOnce
  BY RunsOnce DEF LoopInv
<1> QED  BY <1>1, LoopInvHolds, PTL

-----------------------------------------------------------------------------
(* What a scan leaves out *)

\* A compaction that a later summary completed: the walk of filterCompacted stops
\* at the newest one.
Complete(c) ==
    /\ HasPart(c, "compaction")
    /\ \E s \in Stored : IsSummary(s) /\ s.parent = c.id /\ s.time > c.time

\* The newest of them.
Newest(b) == b \in Stored /\ Complete(b) /\ \A d \in Stored : Complete(d) => d.time <= b.time

\* The message is older than the newest one, or than the tail that one retains.
Cut(m) == \E b \in Stored :
    /\ Newest(b)
    /\ IF b.tail = 0 THEN m.time < b.time
       ELSE \E t \in Stored : t.id = b.tail /\ t.time <= b.time /\ m.time < t.time

\* A compaction recorded a tail, and no summary completed it.
TailBroke == \E c, s \in Stored :
    /\ c.kind = "compaction" /\ c.tail # 0
    /\ s.kind = "summary" /\ ~IsSummary(s) /\ s.parent = c.id /\ s.id # doing

\* A tail begins between a compaction and a summary of it.
TailTurned == \E c, s, t, d \in Stored :
    /\ c.kind = "compaction" /\ s.kind = "summary" /\ s.parent = c.id
    /\ c.time < t.time /\ t.time < s.time /\ d.tail = t.id

\* What Disturbed says, of the stored messages.
Upset == TailBroke \/ TailTurned \/ \E q \in late : Kind[q] = "compaction"

\* Who recorded a tail was answered by a summary that is not being written.
Tails == \A c \in Stored : c.tail # 0 =>
    \E s \in Stored : s.kind = "summary" /\ s.parent = c.id /\ s.time > c.time /\ s.id # doing

\* Where a walk ends, when there is a boundary.
LEMMA OldestAt ==
    ASSUME NEW s \in Seq(Messages), Boundaries(s) # {}
    PROVE  \E b \in Boundaries(s) :
              /\ \A x \in Boundaries(s) : x <= b
              /\ s[b].tail = 0 => Oldest(s) = b
              /\ s[b].tail # 0 =>
                    \/ Oldest(s) = 1 /\ \A j \in 1 .. b : s[j].id # s[b].tail
                    \/ /\ Oldest(s) \in 1 .. b /\ s[Oldest(s)].id = s[b].tail
                       /\ \A j \in 1 .. b : s[j].id = s[b].tail => j <= Oldest(s)
<1> DEFINE b == Max(Boundaries(s))
           T == {j \in 1 .. b : s[j].id = s[b].tail}
           t == IF T # {} THEN Max(T) ELSE 0
<1>0. Len(s) \in Nat
  OBVIOUS
<1>1. Boundaries(s) \in SUBSET (1 .. Len(s))
  BY DEF Boundaries
<1>2. Boundaries(s) \in SUBSET Nat /\ \A x \in Boundaries(s) : x <= Len(s)
  BY <1>0, <1>1
<1>3. b \in Boundaries(s) /\ \A x \in Boundaries(s) : b >= x
  BY <1>0, <1>2, MaxIs
<1>4. Oldest(s) = IF s[b].tail = 0 THEN b ELSE IF t = 0 THEN 1 ELSE t
  BY DEF Oldest, SelectLastInSubSeq
<1> HIDE DEF b
<1>5. b \in Nat /\ T \in SUBSET (0 .. b)
  BY <1>2, <1>3
<1>6. /\ t \in 0 .. b
      /\ T = {} => t = 0
      /\ T # {} => t \in T /\ \A j \in T : t >= j
  <2> HIDE DEF T
  <2> QED  BY <1>5, LastPlace
<1> HIDE DEF t
<1>7. CASE T = {}
  <2>1. t = 0 /\ \A j \in 1 .. b : s[j].id # s[b].tail
    BY <1>6, <1>7
  <2> QED  BY <1>2, <1>3, <1>4, <2>1
<1>8. CASE T # {}
  <2>1. t \in 1 .. b /\ s[t].id = s[b].tail /\ \A j \in 1 .. b : s[j].id = s[b].tail => j <= t
    BY <1>5, <1>6, <1>8
  <2>2. t # 0
    BY <2>1
  <2> QED  BY <1>2, <1>3, <1>4, <2>1, <2>2
<1> QED  BY <1>7, <1>8

\* The order of the places of a log is that of the times.
LEMMA PlacesAreTimes ==
    ASSUME Shapes
    PROVE  /\ log \in Seq(Messages) /\ DOMAIN log = 1 .. Len(log) /\ Len(log) \in Nat
           /\ \A j \in 1 .. Len(log) : log[j] \in Stored /\ log[j].time \in Nat
           /\ \A m \in Stored : \E j \in 1 .. Len(log) : log[j] = m
           /\ \A j, k \in 1 .. Len(log) : log[j].time < log[k].time <=> j < k
<1>1. log \in Seq(Messages) /\ Ordered(log) /\ DOMAIN log = 1 .. Len(log) /\ Len(log) \in Nat
  BY DEF Shapes, LogFine
<1>2. \A j \in 1 .. Len(log) : log[j] \in Stored
  BY <1>1 DEF Stored, Range
<1>3. \A j \in 1 .. Len(log) : log[j].time \in Nat
  BY <1>2 DEF Shapes, LogFine, Stored
<1>4. \A m \in Stored : \E j \in 1 .. Len(log) : log[j] = m
  BY <1>1 DEF Stored, Range
<1>5. \A j, k \in 1 .. Len(log) : j < k => log[j].time < log[k].time
  BY <1>1 DEF Ordered
<1>6. \A j, k \in 1 .. Len(log) : log[j].time < log[k].time <=> j < k
  BY <1>3, <1>5
<1> QED  BY <1>1, <1>2, <1>3, <1>4, <1>6

\* The boundaries are the places of the completed compactions.
LEMMA BoundariesAre ==
    ASSUME Shapes
    PROVE  \A j \in 1 .. Len(log) : j \in Boundaries(log) <=> Complete(log[j])
<1>1. /\ DOMAIN log = 1 .. Len(log) /\ Len(log) \in Nat
      /\ \A j \in 1 .. Len(log) : log[j] \in Stored
      /\ \A m \in Stored : \E j \in 1 .. Len(log) : log[j] = m
      /\ \A j, k \in 1 .. Len(log) : log[j].time < log[k].time <=> j < k
  BY PlacesAreTimes
<1> SUFFICES ASSUME NEW j \in 1 .. Len(log) PROVE j \in Boundaries(log) <=> Complete(log[j])
  OBVIOUS
<1>2. j \in Boundaries(log) <=>
        HasPart(log[j], "compaction") /\ \E k \in j + 1 .. Len(log) : IsSummary(log[k]) /\ log[k].parent = log[j].id
  BY <1>1 DEF Boundaries
<1>3. ASSUME NEW k \in j + 1 .. Len(log) PROVE log[k] \in Stored /\ log[k].time > log[j].time
  <2>1. k \in 1 .. Len(log) /\ j < k
    BY <1>1
  <2> QED  BY <1>1, <2>1
<1>4. ASSUME NEW s \in Stored, s.time > log[j].time PROVE \E k \in j + 1 .. Len(log) : log[k] = s
  <2>1. PICK k \in 1 .. Len(log) : log[k] = s
    BY <1>1
  <2>2. j < k
    BY <1>1, <1>4, <2>1
  <2> QED  BY <1>1, <2>1, <2>2
<1> QED  BY <1>2, <1>3, <1>4 DEF Complete

\* A scan shows stored messages as they are.
LEMMA ScanShows ==
    ASSUME Shapes, NEW v, v = FilterCompacted(log)
    PROVE  Range(v) \subseteq Stored
<1>1. log \in Seq(Messages) /\ \A j \in 1 .. Len(log) : log[j] \in Stored
  BY PlacesAreTimes
<1>2. v \in Seq(Messages)
  BY <1>1, ScanPlaces
<1>3. PICK lo, P : Places(v, log, lo, P)
  BY <1>1, ScanPlaces
<1>4. \A i \in 1 .. Len(v) : P[i] \in 1 .. Len(log) /\ v[i] = log[P[i]]
  BY <1>1, <1>3 DEF Places
<1> QED  BY <1>1, <1>2, <1>4 DEF Range

\* What a scan leaves out was cut off, unless a tail is broken: what Reorder would
\* drop before a tail is what the walk did not reach.
LEMMA LacksIs ==
    ASSUME Shapes, Tails, ~TailBroke, NEW v, v = FilterCompacted(log), NEW m \in Stored,
           \A x \in Range(v) : x.id # m.id
    PROVE  Cut(m)
<1>0. /\ log \in Seq(Messages) /\ DOMAIN log = 1 .. Len(log) /\ Len(log) \in Nat
      /\ \A j \in 1 .. Len(log) : log[j] \in Stored /\ log[j].time \in Nat
      /\ \A j, k \in 1 .. Len(log) : log[j].time < log[k].time <=> j < k
  BY PlacesAreTimes
<1>1. PICK p \in 1 .. Len(log) : log[p] = m
  BY PlacesAreTimes
<1>2. log # <<>>
  BY <1>0, <1>1
<1> DEFINE o == Oldest(log)
           u == SubSeq(log, o, Len(log))
<1>3. o \in 1 .. Len(log)
  BY <1>0, <1>2, OldestIs
<1>4. v = Reorder(u)
  BY DEF FilterCompacted
<1>5. /\ u \in Seq(Messages) /\ Len(u) = Len(log) - o + 1
      /\ \A j \in 1 .. Len(log) - o + 1 : u[j] = log[o + j - 1]
  <2>1. o \in 1 .. Len(log) + 1
    BY <1>0, <1>3
  <2> HIDE DEF o
  <2> QED  BY <1>0, <2>1, RestOf
<1>6. ASSUME Boundaries(log) # {}
      PROVE  \E b \in 1 .. Len(log) :
                /\ Newest(log[b]) /\ HasPart(log[b], "compaction") /\ o <= b
                /\ \A j \in 1 .. Len(log) : Complete(log[j]) => j <= b
                /\ log[b].tail = 0 => o = b
                /\ log[b].tail # 0 => o = 1 \/ log[o].id = log[b].tail
                /\ log[b].tail # 0 => \A j \in 1 .. b : log[j].id = log[b].tail => j <= o
  <2>1. PICK b \in Boundaries(log) :
              /\ \A x \in Boundaries(log) : x <= b
              /\ log[b].tail = 0 => o = b
              /\ log[b].tail # 0 =>
                    \/ o = 1 /\ \A j \in 1 .. b : log[j].id # log[b].tail
                    \/ /\ o \in 1 .. b /\ log[o].id = log[b].tail
                       /\ \A j \in 1 .. b : log[j].id = log[b].tail => j <= o
    BY <1>0, <1>6, OldestAt
  <2> HIDE DEF o
  <2>2. b \in 1 .. Len(log)
    BY <1>0 DEF Boundaries
  <2>3. Complete(log[b]) /\ HasPart(log[b], "compaction")
    BY <2>2, BoundariesAre DEF Complete
  <2>4. \A j \in 1 .. Len(log) : Complete(log[j]) => j <= b
    BY <2>1, BoundariesAre
  <2>5. ASSUME NEW d \in Stored, Complete(d) PROVE d.time <= log[b].time
    <3>1. PICK j \in 1 .. Len(log) : log[j] = d
      BY PlacesAreTimes
    <3>2. ~(b < j)
      BY <1>0, <2>2, <2>4, <2>5, <3>1
    <3>3. ~(log[b].time < log[j].time)
      BY <1>0, <2>2, <3>2
    <3> QED  BY <1>0, <2>2, <3>1, <3>3
  <2>6. Newest(log[b])
    BY <1>0, <2>2, <2>3, <2>5 DEF Newest
  <2>7. o <= b
    BY <1>0, <2>1, <2>2
  <2> QED  BY <2>1, <2>2, <2>3, <2>4, <2>6, <2>7
<1>7. ASSUME Boundaries(log) = {} PROVE o = 1
  BY <1>7 DEF Oldest
<1> HIDE DEF o, u
<1>8. CASE p < o
  <2>1. Boundaries(log) # {} /\ o # 1
    BY <1>1, <1>3, <1>7, <1>8
  <2>2. PICK b \in 1 .. Len(log) :
                /\ Newest(log[b]) /\ o <= b
                /\ log[b].tail = 0 => o = b
                /\ log[b].tail # 0 => o = 1 \/ log[o].id = log[b].tail
    BY <1>6, <2>1
  <2>3. m.time < log[o].time
    BY <1>0, <1>1, <1>3, <1>8
  <2>4. log[o].time <= log[b].time
    <3>1. ~(log[b].time < log[o].time)
      BY <1>0, <1>3, <2>2
    <3> QED  BY <1>0, <1>3, <3>1
  <2>5. log[b] \in Stored /\ log[o] \in Stored
    BY <1>0, <1>3
  <2> QED  BY <2>1, <2>2, <2>3, <2>4, <2>5 DEF Cut
<1>9. CASE o <= p
  <2> DEFINE k == p - o + 1
  <2>1. k \in 1 .. Len(u) /\ u[k] = m
    <3>1. k \in 1 .. Len(log) - o + 1 /\ o + k - 1 = p
      BY <1>0, <1>1, <1>3, <1>9
    <3> HIDE DEF k
    <3> QED  BY <1>1, <1>5, <3>1
  <2> HIDE DEF k
  <2>2. Reorder(u) # u
    <3>1. v = u => m \in Range(v)
      BY <1>5, <2>1 DEF Range
    <3> QED  BY <1>4, <3>1
  <2>3. PICK t \in 1 .. Len(u), c \in 1 .. Len(u), s \in 1 .. Len(u) : Moved(u, t, c, s)
    BY <1>5, <2>2, ReorderIs
  <2>4. t < c /\ c < s /\ HasTail(u[c]) /\ u[t].id = u[c].tail /\ \A j \in 1 .. Len(u) : HasTail(u[j]) => j <= c
    BY <2>3 DEF Moved
  <2>5. ~(t <= k)
    <3> SUFFICES ASSUME t <= k PROVE FALSE
      OBVIOUS
    <3>1. PICK n \in Nat : n = Len(u)
      BY <1>5
    <3>2. t \in 1 .. n /\ c \in 1 .. n /\ s \in 1 .. n /\ t < c /\ c < s /\ k \in t .. n
      BY <2>1, <2>4, <3>1
    <3>3. \E i \in 1 .. n - t + 1 : From(t, c, s, i) = k
      BY ONLY <3>2, n \in Nat, FromReaches
    <3>4. v \in Seq(Messages)
      BY <1>4, <1>5, <2>3, MovedIs
    <3>5. Len(v) = Len(u) - t + 1
      BY <1>4, <1>5, <2>3, MovedIs
    <3>6. \A i \in 1 .. Len(v) : v[i] = u[From(t, c, s, i)]
      BY <1>4, <1>5, <2>3, MovedIs
    <3>7. PICK i \in 1 .. Len(v) : v[i] = m
      BY <2>1, <3>1, <3>3, <3>5, <3>6
    <3> QED  BY <3>4, <3>7 DEF Range
  <2>6. PICK e : e = o + c - 1
    OBVIOUS
  <2>7. e \in 1 .. Len(log) /\ log[e] = u[c] /\ o + t - 1 \in 1 .. Len(log) /\ log[o + t - 1] = u[t]
    BY <1>0, <1>3, <1>5, <2>3, <2>6
  <2>8. log[e] \in Stored /\ log[e].tail # 0 /\ HasPart(log[e], "compaction")
    BY <1>0, <2>4, <2>7 DEF HasTail
  <2>9. PICK r \in Stored : r.kind = "summary" /\ r.parent = log[e].id /\ r.time > log[e].time /\ r.id # doing
    BY <2>8 DEF Tails
  <2>10. IsSummary(r)
    BY <2>8, <2>9 DEF TailBroke, HasPart
  <2>11. Complete(log[e])
    BY <2>8, <2>9, <2>10 DEF Complete
  <2>12. Boundaries(log) # {}
    BY <2>7, <2>11, BoundariesAre
  <2>13. PICK b \in 1 .. Len(log) :
                /\ HasPart(log[b], "compaction") /\ o <= b
                /\ \A j \in 1 .. Len(log) : Complete(log[j]) => j <= b
                /\ log[b].tail = 0 => o = b
                /\ log[b].tail # 0 => \A j \in 1 .. b : log[j].id = log[b].tail => j <= o
    BY <1>6, <2>12
  <2>14. e <= b
    BY <2>7, <2>11, <2>13
  <2>15. log[b].tail # 0
    <3> SUFFICES ASSUME log[b].tail = 0 PROVE FALSE
      OBVIOUS
    <3>1. o + c - 1 <= o
      BY <2>6, <2>13, <2>14
    <3> QED  BY <1>3, <2>3, <2>4, <3>1
  <2>16. b - o + 1 \in 1 .. Len(u) /\ u[b - o + 1] = log[b]
    <3>1. b - o + 1 \in 1 .. Len(log) - o + 1 /\ o + (b - o + 1) - 1 = b
      BY <1>0, <1>3, <2>13
    <3> QED  BY <1>5, <3>1
  <2>17. b - o + 1 <= c
    BY <2>4, <2>13, <2>15, <2>16 DEF HasTail
  <2>18. b = e
    BY <1>3, <2>3, <2>6, <2>14, <2>17
  <2>19. o + t - 1 \in 1 .. b
    BY <1>3, <2>3, <2>4, <2>6, <2>18
  <2>20. log[o + t - 1].id = log[b].tail
    BY <2>4, <2>7, <2>18
  <2>21. o + t - 1 <= o
    BY <2>13, <2>15, <2>19, <2>20
  <2> QED  BY <1>3, <2>1, <2>3, <2>5, <2>21
<1> QED  BY <1>0, <1>1, <1>3, <1>8, <1>9

-----------------------------------------------------------------------------
(* What a step does to summaries, compactions and tails *)

\* A summary comes after the message it answers.
Follows == \A s, c \in Stored : s.kind = "summary" /\ s.parent = c.id => c.time < s.time

\* A tail begins with a stored message.
TailsPoint == \A c \in Stored : c.tail # 0 => \E t \in Stored : t.id = c.tail

\* The summary that is being written answers the last user message of the view.
Parent == loop = "summarizing" => \A d \in Stored : d.id = doing => d.parent = User.id

\* A compaction whose parts are not stored when a later message was begun is late.
UnreadyIsLate == \A q \in Requests, m, a \in Stored :
    /\ Kind[q] = "compaction" /\ m.id = mid[q].id /\ ~m.ready
    /\ ~IsUser(a) /\ a.id > m.id
    => q \in late

\* The run begins a new message or none.
LEMMA DoingMoves ==
    ASSUME Shapes, [Next]_vars
    PROVE  doing' = doing \/ doing' = 0 \/ (doing' = now' /\ now' = now + 1)
<1>1. CASE \E q \in Requests : ClientDraws(q) \/ Draw(q) \/ Save(q) \/ CreateManual(q) \/ SaveParts(q) \/ Enter(q)
  BY <1>1 DEF ClientDraws, Draw, Save, CreateManual, SaveParts, Enter, loopVars
<1>2. CASE EndSubtask
  BY <1>2 DEF EndSubtask, Tick
<1>3. CASE EndSummary
  <2>1. PICK tail, r : r \in {"stop", "too long", "error"} /\ EndsAs(tail, r)
    BY <1>3, EndSummaryIs
  <2> QED  BY <2>1, TaskIsStored DEF EndsAs, Tick
<1>4. CASE Reply
  BY <1>4 DEF Reply
<1> QED
  BY <1>1, <1>2, <1>3, <1>4
     DEF Next, Scan, Fails, StartSubtask, StartSummary, CompactFirst, Ask, CreateAuto, WriteParts,
         Write, Tick, End, Cancel, Restart, Settle, vars, loopVars

\* What the run is not writing it does not take up again.
LEMMA NotTakenUp ==
    ASSUME Shapes, [Next]_vars, NEW m \in Stored, m.id # doing
    PROVE  m.id # doing'
<1>1. m.id \in Nat /\ m.id # 0 /\ m.id <= now /\ now \in Nat
  BY NowIs DEF Shapes, LogFine, Stored
<1> QED  BY <1>1, DoingMoves

\* What was folded stays so.
LEMMA FoldedGrows ==
    ASSUME [Next]_vars
    PROVE  folded \subseteq folded' /\ skipped \subseteq skipped'
<1>1. CASE EndSummary
  BY <1>1, EndSummaryIs DEF EndsAs
<1> QED
  BY <1>1
     DEF Next, ClientDraws, Draw, Save, CreateManual, SaveParts, Enter, Scan, Fails, StartSubtask,
         EndSubtask, StartSummary, CompactFirst, Ask, Reply, CreateAuto, WriteParts, End, Cancel,
         Restart, vars, ghosts

\* A summary counts from the step that completes it on.
LEMMA SummaryFrom ==
    ASSUME Shapes, NEW m \in Stored, NEW n, Kept(m, n)
    PROVE  /\ IsSummary(m) => IsSummary(n)
           /\ IsSummary(n) /\ ~IsSummary(m) => m.id = doing /\ EndSummary /\ loop' # loop
<1>1. IsSummary(m) => IsSummary(n)
  BY DEF IsSummary, Kept, Closes
<1>2. ASSUME IsSummary(n), ~IsSummary(m) PROVE m.id = doing /\ EndSummary /\ loop' # loop
  <2>1. m.kind = "summary" /\ n.finish # "none" /\ ~n.error
    BY <1>2 DEF IsSummary, Kept
  <2>2. Closes(m, n)
    <3>1. CASE n.finish = m.finish
      <4>1. n.error = m.error
        BY <2>1, <3>1 DEF Kept
      <4> QED  BY <1>2, <2>1, <3>1, <4>1 DEF IsSummary
    <3> QED  BY <3>1 DEF Kept
  <2>3. m.id = doing /\ doing # 0 /\ loop' # loop
    BY <2>2 DEF Closes, Shapes, LogFine, Stored
  <2>4. PICK d \in Stored : DoingIs(d)
    BY <2>3 DEF Shapes, RunShapes
  <2>5. d = m
    BY <2>3, <2>4 DEF DoingIs, Shapes, LogFine, Stored
  <2>6. loop \notin {"subtask", "asking"}
    BY <2>1, <2>4, <2>5 DEF DoingIs
  <2> QED  BY <2>2, <2>3, <2>6 DEF Closes
<1> QED  BY <1>1, <1>2

\* When a summary is written, no finished summary answers the same message: the task
\* would be behind that one in the view.
LEMMA Once ==
    ASSUME Shapes, ViewFits, Follows, Between, loop = "summarizing",
           NEW a \in Stored, a.kind = "summary", a.finish # "none", a.parent = User.id
    PROVE  FALSE
<1>1. loop \in Reading /\ TaskKind # "none" /\ doing # 0
  BY DEF Reading, Shapes, RunShapes, Writing
<1>2. view \in Seq(Messages) /\ LastUser(view) \in 1 .. Len(view) /\ DOMAIN view = 1 .. Len(view) /\ Len(view) \in Nat
  BY <1>1, UserIsStored DEF Shapes, RunShapes
<1>3. PICK u \in Stored : Shows(User, u)
  BY <1>1, UserIsStored
<1>4. u.time < a.time /\ User.time = u.time /\ User.id = u.id
  BY <1>3 DEF Follows, Shows
<1>5. \A m \in Stored : m.time \in Nat
  BY DEF Shapes, LogFine, Stored
<1>6. ~IsUser(a)
  BY DEF IsUser, UserKinds
<1>7. ~Requested(a)
  BY <1>6, WrittenIs
<1>8. a.id # doing
  <2>1. PICK d \in Stored : DoingIs(d)
    BY <1>1 DEF Shapes, RunShapes
  <2>2. a.id = doing => d = a
    BY <2>1 DEF DoingIs, Shapes, LogFine, Stored
  <2> QED  BY <1>1, <2>1, <2>2 DEF DoingIs
<1>9. User \in Range(view)
  BY <1>2 DEF User, Range
<1>10. PICK o \in Range(view) : o.id = a.id
  BY <1>1, <1>4, <1>5, <1>7, <1>8, <1>9 DEF ViewFits, Fits
<1>11. PICK i \in 1 .. Len(view) : view[i] = o
  BY PlaceOf
<1>12. Shows(view[i], a)
  BY <1>1, <1>10, <1>11, SeenIs
<1>13. i < LastUser(view)
  <2>1. i <= LastFinished(view)
    BY <1>2, <1>6, <1>12, LastFinishedIs DEF Shows, IsUser
  <2>2. LastFinished(view) < Task(view) /\ Task(view) \in 1 .. Len(view) /\ LastFinished(view) \in Nat
    BY <1>1, <1>2, TaskIs, TaskIsStored, LastFinishedIs DEF TaskKind
  <2>3. Task(view) <= LastUser(view)
    BY <1>1, <1>2, LastUserIs, TaskIsStored
  <2> QED  BY <1>2, <2>1, <2>2, <2>3
<1>14. view[i].time = a.time /\ view[LastUser(view)].time = u.time
  BY <1>4, <1>12 DEF Shows, User
<1>15. PICK s \in Stored : Turned(s, view[i], view[LastUser(view)])
  BY <1>1, <1>2, <1>4, <1>5, <1>13, <1>14 DEF ViewFits, Fits
<1>16. PICK c \in Stored : /\ LastTail(c) /\ s.parent = c.id
                           /\ c.time <= a.time /\ a.time <= s.time /\ u.time < c.time
  BY <1>14, <1>15 DEF Turned
<1>17. s.kind = "summary"
  BY <1>15 DEF Turned
<1>18. c.kind = "compaction"
  BY <1>16 DEF LastTail, Shapes, LogFine, Stored, HasPart
<1>19. a # c /\ a # s
  <2>1. a # c
    BY <1>18
  <2>2. a = s => c = u
    BY <1>4, <1>16 DEF Shapes, LogFine, Stored
  <2> QED  BY <1>5, <1>16, <2>1, <2>2
<1>20. c.time < a.time /\ a.time < s.time
  BY <1>5, <1>16, <1>19, SameTime
<1>21. ~LaterTail(c)
  <2> SUFFICES ASSUME NEW d \in Stored, d.tail # 0, d.time > c.time PROVE FALSE
    BY DEF LaterTail
  <2>1. d.time <= c.time
    BY <1>16 DEF LastTail
  <2> QED  BY <1>5, <2>1
<1> QED  BY <1>6, <1>16, <1>17, <1>20, <1>21 DEF Between

\* A broken tail stays broken.
LEMMA TailBrokeStays ==
    ASSUME Shapes, Moves, [Next]_vars, TailBroke
    PROVE  TailBroke'
<1>1. PICK c \in Stored, s \in Stored : /\ c.kind = "compaction" /\ c.tail # 0
                                        /\ s.kind = "summary" /\ ~IsSummary(s) /\ s.parent = c.id /\ s.id # doing
  BY DEF TailBroke
<1>2. PICK d \in Stored' : Kept(c, d)
  BY DEF Moves, LogStep
<1>3. PICK t \in Stored' : Kept(s, t)
  BY DEF Moves, LogStep
<1>4. d.kind = "compaction" /\ d.tail # 0
  BY <1>1, <1>2 DEF Kept
<1>5. t.kind = "summary" /\ t.parent = d.id
  BY <1>1, <1>2, <1>3 DEF Kept
<1>6. ~IsSummary(t)
  BY <1>1, <1>3, SummaryFrom
<1>7. t.id # doing'
  <2>1. s.id # doing'
    BY <1>1, NotTakenUp
  <2> QED  BY <1>3, <2>1 DEF Kept
<1> QED  BY <1>4, <1>5, <1>6, <1>7 DEF TailBroke

\* A tail that is recorded over another breaks that one.
LEMMA TailStays ==
    ASSUME Shapes, ViewFits, Follows, Between, Tails, ~TailBroke,
           NEW m \in Stored, m.tail # 0, NEW n, Kept(m, n)
    PROVE  n.tail = m.tail
<1> SUFFICES ASSUME EndSummary, m.id = User.id PROVE FALSE
  BY DEF Kept
<1>1. loop = "summarizing"
  BY EndSummaryIs
<1>2. PICK s \in Stored : s.kind = "summary" /\ s.parent = m.id /\ s.id # doing
  BY DEF Tails
<1>3. m.kind = "compaction"
  BY DEF Shapes, LogFine, Stored, HasPart
<1>4. s.finish = "none"
  BY <1>1, <1>2, Once
<1>5. ~IsSummary(s)
  BY <1>4 DEF IsSummary
<1> QED  BY <1>2, <1>3, <1>5 DEF TailBroke

\* What excuses a gap in the context does not go away.
LEMMA UpsetStays ==
    ASSUME Shapes, ViewFits, Follows, Between, Tails, Moves, GhostsGrow, [Next]_vars, Upset
    PROVE  Upset'
<1>1. CASE \E q \in late : Kind[q] = "compaction"
  BY <1>1 DEF Upset, GhostsGrow
<1>2. CASE TailBroke
  BY <1>2, TailBrokeStays DEF Upset
<1>3. CASE TailTurned /\ ~TailBroke
  <2>1. PICK c \in Stored, s \in Stored, t \in Stored, d \in Stored :
           /\ c.kind = "compaction" /\ s.kind = "summary" /\ s.parent = c.id
           /\ c.time < t.time /\ t.time < s.time /\ d.tail = t.id
    BY <1>3 DEF TailTurned
  <2>2. \A m \in Stored : \E n \in Stored' : Kept(m, n)
    BY DEF Moves, LogStep
  <2>3. PICK c2 \in Stored', s2 \in Stored', t2 \in Stored', d2 \in Stored' :
           Kept(c, c2) /\ Kept(s, s2) /\ Kept(t, t2) /\ Kept(d, d2)
    BY <2>2
  <2>4. d.tail # 0
    BY <2>1 DEF Shapes, LogFine, Stored
  <2>5. d2.tail = d.tail
    BY <1>3, <2>3, <2>4, TailStays
  <2>6. /\ c2.kind = "compaction" /\ s2.kind = "summary" /\ s2.parent = c2.id
        /\ c2.time < t2.time /\ t2.time < s2.time /\ d2.tail = t2.id
    BY <2>1, <2>3, <2>5 DEF Kept
  <2> QED  BY <2>6 DEF Upset, TailTurned
<1> QED  BY <1>1, <1>2, <1>3 DEF Upset

\* A message that comes is not yet answered, and has no tail.
LEMMA ComingIsIncomplete ==
    ASSUME Shapes, Moves, NEW n \in Stored', Comes(n)
    PROVE  ~Complete(n)' /\ n.tail = 0
<1> SUFFICES ASSUME NEW t \in Stored', IsSummary(t), t.parent = n.id PROVE FALSE
  BY DEF Complete, Comes
<1>1. PICK s \in Stored : Kept(s, t)
  BY DEF Moves, LogStep, Comes, IsSummary
<1>2. s.kind = "summary" /\ s.parent = n.id
  BY <1>1 DEF Kept, IsSummary
<1> QED  BY <1>2 DEF Comes, Shapes, StoredShapes, Suits

\* A completed compaction stays completed.
LEMMA CompleteAfter ==
    ASSUME Shapes, Moves, NEW c \in Stored, NEW n \in Stored', Kept(c, n), Complete(c)
    PROVE  Complete(n)'
<1>1. PICK s \in Stored : IsSummary(s) /\ s.parent = c.id /\ s.time > c.time
  BY DEF Complete
<1>2. PICK t \in Stored' : Kept(s, t)
  BY DEF Moves, LogStep
<1>3. IsSummary(t)
  BY <1>1, <1>2, SummaryFrom
<1>4. t.parent = n.id /\ t.time > n.time
  BY <1>1, <1>2 DEF Kept
<1>5. HasPart(n, "compaction")
  BY DEF Complete, HasPart, Kept
<1> QED  BY <1>3, <1>4, <1>5 DEF Complete

\* A compaction was completed before the step, unless the step ended its summary or
\* stored its parts too late.
LEMMA CompleteBefore ==
    ASSUME Shapes, Parent, UnreadyIsLate, Moves, GhostsGrow, ~Upset',
           NEW c \in Stored, NEW n \in Stored', Kept(c, n), Complete(n)', ~(EndSummary /\ c.id = User.id)
    PROVE  Complete(c)
<1>0. \A m \in Stored : m.time \in Nat /\ m.id \in Nat /\ m.id # 0
  BY DEF Shapes, LogFine, Stored
<1>1. PICK t \in Stored' : IsSummary(t) /\ t.parent = n.id /\ t.time > n.time
  BY DEF Complete
<1>2. PICK s \in Stored : Kept(s, t)
  BY <1>1 DEF Moves, LogStep, Comes, IsSummary
<1>3. s.kind = "summary" /\ s.parent = c.id /\ s.time > c.time
  BY <1>1, <1>2 DEF Kept, IsSummary
<1>4. IsSummary(s)
  <2> SUFFICES ASSUME ~IsSummary(s) PROVE FALSE
    OBVIOUS
  <2>1. s.id = doing /\ EndSummary
    BY <1>1, <1>2, SummaryFrom
  <2>2. s.parent = User.id
    BY <2>1, EndSummaryIs DEF Parent
  <2> QED  BY <1>3, <2>1, <2>2
<1>5. ~IsUser(s) /\ ~Requested(s) /\ s.id = s.time
  BY <1>3, WrittenIs DEF IsUser, UserKinds
<1>6. c.kind = "compaction"
  BY DEF Complete, HasPart, Kept
<1>7. c.ready
  <2> SUFFICES ASSUME ~c.ready PROVE FALSE
    OBVIOUS
  <2>1. n.ready
    BY DEF Complete, HasPart
  <2>2. CASE Requested(c)
    <3>1. PICK q \in Requests : mid[q].id = c.id
      BY <2>2 DEF Requested
    <3>2. Kind[q] = "compaction" /\ c.time = mid[q].time
      BY <1>6, <3>1, OwnMessage
    <3>3. mid[q].id <= mid[q].time
      <4>1. mid[q].time # 0
        BY <3>2 DEF Shapes, LogFine, Stored
      <4> QED  BY <4>1 DEF Shapes, RequestShapes
    <3>4. s.id > c.id
      BY <1>0, <1>3, <1>5, <3>1, <3>2, <3>3
    <3>5. q \in late
      BY <1>5, <3>1, <3>2, <3>4 DEF UnreadyIsLate
    <3> QED  BY <3>2, <3>5 DEF Upset, GhostsGrow
  <2>3. CASE ~Requested(c)
    <3>1. c.id = doing /\ doing # 0
      BY <1>0, <2>1, <2>3 DEF Kept
    <3>2. s.id <= doing
      BY <1>5, <3>1 DEF Shapes, RunShapes
    <3>3. c.id = c.time
      BY <2>3 DEF Shapes, StoredShapes, Suits
    <3> QED  BY <1>0, <1>3, <1>5, <3>1, <3>2, <3>3
  <2> QED  BY <2>2, <2>3
<1> QED  BY <1>3, <1>4, <1>6, <1>7 DEF Complete, HasPart

\* The newest boundary after a step was that before.
LEMMA NewestBefore ==
    ASSUME Shapes, Parent, UnreadyIsLate, Moves, GhostsGrow, ~Upset',
           NEW b \in Stored, NEW n \in Stored', Kept(b, n), Newest(n)', ~(EndSummary /\ b.id = User.id)
    PROVE  Newest(b)
<1>1. Complete(b)
  BY CompleteBefore DEF Newest
<1>2. ASSUME NEW d \in Stored, Complete(d) PROVE d.time <= b.time
  <2>1. PICK e \in Stored' : Kept(d, e)
    BY DEF Moves, LogStep
  <2>2. Complete(e)'
    BY <1>2, <2>1, CompleteAfter
  <2>3. e.time <= n.time
    BY <2>2 DEF Newest
  <2> QED  BY <2>1, <2>3 DEF Kept
<1> QED  BY <1>1, <1>2 DEF Newest

\* It stays the newest as long as no summary ends.
LEMMA NewestAfter ==
    ASSUME Shapes, Parent, UnreadyIsLate, Moves, GhostsGrow, ~Upset', ~EndSummary,
           NEW b \in Stored, NEW n \in Stored', Kept(b, n), Newest(b)
    PROVE  Newest(n)'
<1>1. Complete(n)'
  BY CompleteAfter DEF Newest
<1>2. ASSUME NEW e \in Stored', Complete(e)' PROVE e.time <= n.time
  <2>1. PICK d \in Stored : Kept(d, e)
    BY <1>2, ComingIsIncomplete DEF Moves, LogStep
  <2>2. Complete(d)
    BY <1>2, <2>1, CompleteBefore
  <2>3. d.time <= b.time
    BY <2>2 DEF Newest
  <2> QED  BY <2>1, <2>3 DEF Kept
<1> QED  BY <1>1, <1>2 DEF Newest

\* What is cut off after a step was so before, or the step completed the compaction
\* that the summary answers.
LEMMA CutBefore ==
    ASSUME Shapes, Parent, UnreadyIsLate, TailsPoint, Moves, GhostsGrow, ~Upset',
           NEW m \in Stored, NEW n \in Stored', Kept(m, n), NEW d \in Stored', Newest(d)', d.id # User.id \/ ~EndSummary,
           IF d.tail = 0 THEN n.time < d.time
           ELSE \E t \in Stored' : t.id = d.tail /\ t.time <= d.time /\ n.time < t.time
    PROVE  Cut(m)
<1>1. PICK b \in Stored : Kept(b, d)
  BY ComingIsIncomplete DEF Moves, LogStep, Newest
<1>2. b.id = d.id /\ b.time = d.time /\ n.time = m.time
  BY <1>1 DEF Kept
<1>3. Newest(b)
  BY <1>1, <1>2, NewestBefore
<1>4. d.tail = b.tail
  BY <1>1, <1>2 DEF Kept
<1>5. CASE b.tail = 0
  BY <1>2, <1>3, <1>4, <1>5 DEF Cut
<1>6. CASE b.tail # 0
  <2>1. PICK t \in Stored' : t.id = d.tail /\ t.time <= d.time /\ n.time < t.time
    BY <1>4, <1>6
  <2>2. PICK o \in Stored : o.id = b.tail
    BY <1>6 DEF TailsPoint
  <2>3. PICK p \in Stored' : Kept(o, p)
    BY DEF Moves, LogStep
  <2>4. p = t
    BY <1>4, <2>1, <2>2, <2>3 DEF Kept, Moves, LogFine, Stored
  <2>5. o.time <= b.time /\ m.time < o.time
    BY <1>2, <2>1, <2>3, <2>4 DEF Kept
  <2> QED  BY <1>3, <1>6, <2>2, <2>5 DEF Cut
<1> QED  BY <1>5, <1>6

\* What is cut off stays so as long as no summary ends.
LEMMA CutAfter ==
    ASSUME Shapes, Parent, UnreadyIsLate, Moves, GhostsGrow, ~Upset', ~EndSummary,
           NEW m \in Stored, NEW n \in Stored', Kept(m, n), Cut(m)
    PROVE  Cut(n)'
<1>1. PICK b \in Stored :
         /\ Newest(b)
         /\ IF b.tail = 0 THEN m.time < b.time
            ELSE \E t \in Stored : t.id = b.tail /\ t.time <= b.time /\ m.time < t.time
  BY DEF Cut
<1>2. PICK d \in Stored' : Kept(b, d)
  BY DEF Moves, LogStep
<1>3. Newest(d)'
  BY <1>1, <1>2, NewestAfter
<1>4. d.tail = b.tail /\ d.time = b.time /\ n.time = m.time
  BY <1>2 DEF Kept
<1>5. CASE b.tail = 0
  BY <1>1, <1>3, <1>4, <1>5 DEF Cut
<1>6. CASE b.tail # 0
  <2>1. PICK t \in Stored : t.id = b.tail /\ t.time <= b.time /\ m.time < t.time
    BY <1>1, <1>6
  <2>2. PICK o \in Stored' : Kept(t, o)
    BY DEF Moves, LogStep
  <2>3. o.id = d.tail /\ o.time <= d.time /\ n.time < o.time
    BY <1>4, <2>1, <2>2 DEF Kept
  <2> QED  BY <1>3, <1>4, <1>6, <2>3 DEF Cut
<1> QED  BY <1>5, <1>6

\* Whatever was folded or stored again, or is no text, or that of racers; or replies
\* after a replayed message.
Told(m) ==
    \/ m.id \in folded \cup skipped
    \/ \E o \in Stored : o.of = m.id
    \/ m.kind \in {"compaction", "summary"}
    \/ m.text # {} /\ m.text \subseteq late

\* Nothing is cut off untold.
CutIsTold == Upset \/ \A m \in Stored : Cut(m) => Told(m)

\* What was told stays told.
LEMMA ToldStays ==
    ASSUME GhostsGrow, Moves, [Next]_vars, NEW m \in Stored, NEW n, Kept(m, n), Told(m)
    PROVE  Told(n)'
<1>1. CASE \E o \in Stored : o.of = m.id
  <2>1. PICK o \in Stored : o.of = m.id
    BY <1>1
  <2>2. PICK p \in Stored' : Kept(o, p)
    BY DEF Moves, LogStep
  <2> QED  BY <2>1, <2>2 DEF Told, Kept
<1>2. CASE ~\E o \in Stored : o.of = m.id
  BY <1>2, FoldedGrows DEF Told, Kept, GhostsGrow
<1> QED  BY <1>1, <1>2

\* A replay stores the message again, and passes over the replies after it.
LEMMA ReplayIsTold ==
    ASSUME Shapes, ViewFits, loop = "summarizing", EndSummary, NEW tail, EndsAs(tail, "stop"), Replayed,
           NEW i \in 1 .. Len(view), ReplayAt(view, User.id) <= i,
           User.kind = "compaction", view[i].kind # "compaction"
    PROVE  view[i].id \in skipped' \/ \E o \in Stored' : o.of = view[i].id
<1>1. loop \in Reading /\ view \in Seq(Messages) /\ Len(view) \in Nat /\ DOMAIN view = 1 .. Len(view)
  BY DEF Reading, Shapes, RunShapes
<1>2. PICK r : r = ReplayAt(view, User.id)
  OBVIOUS
<1>3. r \in 1 .. Len(view) /\ r <= i
  BY <1>1, <1>2, ReplayIs DEF Replayed
<1>4. CASE r = i
  <2>1. view[Task(view)].auto
    <3>1. TaskKind # "none"
      BY DEF Shapes, RunShapes
    <3>2. PICK n \in Stored : Shows(view[Task(view)], n)
      BY <1>1, <3>1, TaskIsStored
    <3>3. n.overflow => n.auto
      BY DEF Shapes, LogFine, Stored
    <3> QED  BY <3>2, <3>3 DEF Shows, Replayed
  <2>2. loop' = "parts"
    BY <2>1 DEF EndsAs
  <2>3. PICK m : m = Again
    OBVIOUS
  <2>4. m \in Stored'
    BY <2>2, <2>3, EndSummaryStep
  <2>5. m.of = view[i].id
    <3>1. m = [Copy(i) EXCEPT !.id = now', !.time = now']
      BY <1>2, <1>4, <2>3 DEF Again
    <3>2. CASE view[i].ready
      <4>1. Copy(i) = [Blank EXCEPT !.of = view[i].id, !.kind = view[i].kind, !.text = view[i].text]
        BY <1>3, <3>2 DEF Copy
      <4> QED  BY <3>1, <4>1 DEF Blank
    <3>3. CASE ~view[i].ready
      <4>1. Copy(i) = [Blank EXCEPT !.of = view[i].id]
        BY <1>3, <3>3 DEF Copy
      <4> QED  BY <3>1, <4>1 DEF Blank
    <3> QED  BY <3>2, <3>3
  <2> QED  BY <2>4, <2>5
<1>5. CASE r < i
  <2>1. ~IsUser(view[i])
    <3> SUFFICES ASSUME IsUser(view[i]) PROVE FALSE
      OBVIOUS
    <3>1. PICK u : u = LastUser(view)
      OBVIOUS
    <3>2. u \in 1 .. Len(view) /\ i <= u /\ view[u].id = User.id /\ view[u].kind = "compaction"
      BY <1>1, <3>1, UserIsStored, LastUserIs DEF User
    <3>3. IndexOf(view, User.id) = u
      BY <1>1, <3>2, IndexOfIs DEF ViewFits, Fits
    <3>4. IsTurn(view[i])
      BY DEF IsTurn, HasPart
    <3>5. i < u
      BY <3>2
    <3>6. i <= r
      BY <1>1, <1>2, <3>3, <3>4, <3>5, <3>2, ReplayIsLast DEF Replayed
    <3> QED  BY <1>3, <1>5, <3>6
  <2>2. view[i].id \in Passed
    BY <1>1, <1>2, <1>3, <1>5, <2>1 DEF Passed
  <2> QED  BY <2>2 DEF EndsAs
<1> QED  BY <1>3, <1>4, <1>5

\* A message that comes and is cut off at once is a racer's.
LEMMA ComesTold ==
    ASSUME Shapes, Shapes', RacersAreLate, Moves, GhostsGrow, NEW n \in Stored', Comes(n), Cut(n)'
    PROVE  Told(n)'
<1>0. /\ now \in Nat /\ \A o \in Stored : o.id \in 1 .. now /\ o.time \in 1 .. now
      /\ \A o \in Stored' : o.id \in Nat /\ o.id # 0 /\ o.time \in Nat /\ o.time # 0
  BY NowIs DEF Shapes, LogFine, Stored
<1>1. PICK d \in Stored' : /\ Newest(d)'
                           /\ IF d.tail = 0 THEN n.time < d.time
                              ELSE \E t \in Stored' : t.id = d.tail /\ t.time <= d.time /\ n.time < t.time
  BY DEF Cut
<1>2. n.time < d.time
  BY <1>0, <1>1
<1>3. PICK t \in Stored' : IsSummary(t) /\ t.parent = d.id /\ t.time > d.time
  BY <1>1 DEF Newest, Complete
<1>4. PICK s \in Stored : Kept(s, t)
  BY <1>3 DEF Moves, LogStep, Comes, IsSummary
<1>5. s.kind = "summary" /\ s.time = t.time
  BY <1>3, <1>4 DEF Kept, IsSummary
<1>6. ~IsUser(s) /\ s.id = s.time
  BY <1>5, WrittenIs DEF IsUser, UserKinds
<1>7. n.time < s.id /\ s.id <= now
  BY <1>0, <1>2, <1>3, <1>5, <1>6
<1>8. PICK q \in Requests : mid[q].id = n.id /\ mid[q].time = n.time
  BY <1>0, <1>7 DEF Comes
<1>9. mid[q].id # 0 /\ mid[q].id <= mid[q].time
  BY <1>0, <1>8 DEF Shapes, RequestShapes
<1>10. Outside(q)
  BY <1>8 DEF Comes, Outside
<1>11. mid[q].id < s.id
  BY <1>0, <1>7, <1>8, <1>9
<1>12. q \in late'
  BY <1>6, <1>9, <1>10, <1>11 DEF RacersAreLate, GhostsGrow
<1>13. mid'[q].id = n.id
  BY <1>8, <1>9 DEF Moves, RequestMoves, MidsGrow
<1>14. n.kind = Kind[q] /\ n.text = IF Kind[q] = "compaction" THEN {} ELSE {q}
  BY <1>13 DEF Comes, Suits
<1> QED  BY <1>12, <1>14 DEF Told

-----------------------------------------------------------------------------
(* What a turn and a summary are begun without *)

\* A compaction that the view has without its parts, though they are stored now, is late,
\* or would be if a turn was begun.
UnreadyShown == loop \in {"ready", "summarizing"} => \A m \in Range(view), n \in Stored :
    m.id = n.id /\ m.kind = "compaction" /\ ~m.ready /\ n.ready =>
        \E q \in Requests : mid[q].id = n.id /\ (q \in late \/ (loop = "ready" /\ Unseen(q)))

\* What a turn may begin without was cut off, or comes from somebody no turn has seen.
ReadyCuts == loop = "ready" => \/ Upset
    \/ \A n \in Stored : \/ \E o \in Range(view) : o.id = n.id
                         \/ \E q \in Requests : mid[q].id = n.id /\ Unseen(q)
                         \/ Cut(n)

\* A summary is made without what is newer, late or was cut off.
SummaryShows == loop = "summarizing" => \/ Upset
    \/ \A n \in Stored : (\E o \in Range(view) : o.id = n.id) \/ n.time >= doing \/ Racer(n) \/ Cut(n)

\* A turn that begins misses a request that it has without its parts.
LEMMA UnreadyIsMissed ==
    ASSUME Shapes, ViewFits, loop \in Reading, NEW m \in Range(view), ~m.ready,
           NEW q \in Requests, mid[q].id = m.id, Unseen(q)
    PROVE  q \in Missed
<1>1. view \in Seq(Messages) /\ DOMAIN view = 1 .. Len(view)
  BY DEF Shapes, RunShapes
<1>2. PICK k \in DOMAIN view : view[k] = m
  BY DEF Range
<1>3. \A i \in DOMAIN view : view[i].id = m.id => i = k
  BY <1>2 DEF ViewFits, Fits
<1>4. m.id # 0
  BY DEF ViewFits, Fits, Shows, Shapes, LogFine, Stored
<1> QED  BY <1>2, <1>3, <1>4 DEF Missed

\* A compaction that some turn was begun after is late if its parts are not stored.
LEMMA SeenIsLate ==
    ASSUME Shapes, UnreadyIsLate, NEW p \in Stored, ~p.ready, NEW q \in Requests, Kind[q] = "compaction",
           mid[q].id = p.id, ~Unseen(q)
    PROVE  q \in late
<1>1. PICK a \in Stored : ~IsUser(a) /\ ~(a.id < p.id)
  BY DEF Unseen, Stored, Range
<1>2. IsUser(p)
  BY OwnMessage
<1>3. a.id # p.id
  BY <1>1, <1>2 DEF Shapes, LogFine, Stored
<1>4. a.id \in Nat /\ p.id \in Nat
  BY DEF Shapes, LogFine, Stored
<1> QED  BY <1>1, <1>3, <1>4 DEF UnreadyIsLate

\* Every step keeps UnreadyIsLate.
LEMMA UnreadyIsLateRests ==
    ASSUME Shapes, ViewFits, OwnStored, UnreadyIsLate, Moves, GhostsGrow
    PROVE  UnreadyIsLate'
<1> SUFFICES ASSUME NEW q \in Requests, NEW n \in Stored', NEW b \in Stored', Kind[q] = "compaction",
                    n.id = mid'[q].id, ~n.ready, ~IsUser(b), b.id > n.id
             PROVE  q \in late'
  BY DEF UnreadyIsLate
<1>0. now \in Nat /\ \A m \in Stored : m.id \in 1 .. now
  BY NowIs DEF Shapes, LogFine, Stored
<1>0a. n.id \in Nat /\ n.id # 0
  BY DEF Moves, LogFine, Stored
<1>1. ASSUME Comes(n), mid[q].id = mid'[q].id PROVE FALSE
  <2>1. ~Outside(q)
    BY <1>0a, <1>1 DEF OwnStored
  <2> QED  BY <1>1, <2>1 DEF Outside, Comes
<1>2. ASSUME NEW m \in Stored, Kept(m, n) PROVE mid[q].id = m.id /\ ~m.ready /\ m.id = n.id
  <2>1. m.id = n.id /\ ~m.ready
    BY <1>2 DEF Kept
  <2> QED  BY <2>1, RequestedRests
<1>3. ASSUME NEW a \in Stored, Kept(a, b) PROVE q \in late'
  <2>1. ~IsUser(a) /\ a.id = b.id
    BY <1>3 DEF Kept, IsUser
  <2>2. mid'[q].id = mid[q].id
    BY <1>0, <2>1, MidRests
  <2>3. PICK m \in Stored : Kept(m, n)
    BY <1>1, <2>2 DEF Moves, LogStep
  <2>4. q \in late
    BY <1>2, <2>1, <2>3 DEF UnreadyIsLate
  <2> QED  BY <2>4 DEF GhostsGrow
<1>4. CASE Comes(b)
  <2>1. loop = "ready" /\ loop \in Reading /\ late' = late \cup Missed /\ mid' = mid
    BY <1>4 DEF Comes, Reading
  <2>2. PICK m \in Stored : Kept(m, n)
    BY <1>1, <2>1 DEF Moves, LogStep
  <2>3. mid[q].id = m.id /\ ~m.ready
    BY <1>2, <2>2
  <2>4. CASE Unseen(q)
    <3>1. ASSUME NEW i \in DOMAIN view, view[i].id = mid[q].id, view[i].ready PROVE FALSE
      <4>1. i \in 1 .. Len(view)
        BY DEF Shapes, RunShapes
      <4>2. Shows(view[i], m)
        BY <2>1, <2>3, <3>1, <4>1, SeenIs
      <4> QED  BY <2>3, <3>1, <4>2 DEF Shows
    <3>2. q \in Missed
      BY <1>0, <2>3, <2>4, <3>1 DEF Missed
    <3> QED  BY <2>1, <3>2
  <2>5. CASE ~Unseen(q)
    BY <2>1, <2>3, <2>5, SeenIsLate
  <2> QED  BY <2>4, <2>5
<1> QED  BY <1>3, <1>4 DEF Moves, LogStep

\* What a view shows of the message n had its parts after the view was taken.
LEMMA UnreadyShownKept ==
    ASSUME Shapes, ViewFits, ViewIsOlder, UnreadyIsLate, UnreadyShown, loop \in {"ready", "summarizing"},
           NEW m \in Range(view), NEW p \in Stored, m.id = p.id, m.kind = "compaction", ~m.ready,
           p.ready \/ Requested(p) \/ p.id = doing
    PROVE  \E q \in Requests : mid[q].id = p.id /\ (q \in late \/ (loop = "ready" /\ Unseen(q)))
<1>1. loop \in Reading
  BY DEF Reading
<1>2. Shows(m, p)
  <2>1. PICK o \in Stored : Shows(m, o)
    BY <1>1 DEF ViewFits, Fits
  <2>2. o = p
    BY <2>1 DEF Shows, Shapes, LogFine, Stored
  <2> QED  BY <2>1, <2>2
<1>3. CASE p.ready
  BY <1>3 DEF UnreadyShown
<1>4. CASE ~p.ready /\ Requested(p)
  <2>1. PICK q \in Requests : mid[q].id = p.id
    BY <1>4 DEF Requested
  <2>2. Kind[q] = "compaction" /\ p.time = mid[q].time
    BY <1>2, <2>1, OwnMessage DEF Shows
  <2>3. CASE Unseen(q) /\ loop = "ready"
    BY <2>1, <2>3
  <2>4. CASE ~Unseen(q)
    BY <1>4, <2>1, <2>2, <2>4, SeenIsLate
  <2>5. CASE loop = "summarizing"
    <3>1. doing # 0 /\ doing \in Nat
      BY <2>5 DEF Shapes, RunShapes, Writing
    <3>2. PICK d \in Stored : DoingIs(d)
      BY <3>1 DEF Shapes, RunShapes
    <3>3. ~IsUser(d) /\ d.id = doing
      BY <2>5, <3>2 DEF DoingIs, IsUser, UserKinds
    <3>4. p.time < doing
      BY <1>1, <1>2, <3>1 DEF ViewIsOlder, Shows
    <3>5. p.id <= p.time /\ p.id \in Nat /\ p.time \in Nat
      <4>1. p.time # 0 /\ p.time \in Nat /\ p.id \in Nat
        BY DEF Shapes, LogFine, Stored
      <4> QED  BY <2>1, <2>2, <4>1 DEF Shapes, RequestShapes
    <3>6. d.id > p.id
      BY <3>1, <3>3, <3>4, <3>5
    <3>7. q \in late
      BY <1>4, <2>1, <2>2, <3>3, <3>6 DEF UnreadyIsLate
    <3> QED  BY <2>1, <3>7
  <2> QED  BY <2>3, <2>4, <2>5
<1>5. CASE ~p.ready /\ ~Requested(p)
  <2>1. p.id = doing /\ doing # 0
    BY <1>5 DEF Shapes, LogFine, Stored
  <2>2. PICK d \in Stored : DoingIs(d)
    BY <2>1 DEF Shapes, RunShapes
  <2>3. d = p
    BY <2>1, <2>2 DEF DoingIs, Shapes, LogFine, Stored
  <2>4. loop = "summarizing"
    BY <2>1 DEF Shapes, RunShapes, Writing
  <2>5. p.kind = "summary"
    BY <2>2, <2>3, <2>4 DEF DoingIs
  <2> QED  BY <1>2, <2>5 DEF Shows
<1> QED  BY <1>3, <1>4, <1>5

\* Every step keeps UnreadyShown.
LEMMA UnreadyShownRests ==
    ASSUME Shapes, ViewFits, ViewIsOlder, UnreadyIsLate, UnreadyShown, Moves, GhostsGrow, Shapes', [Next]_vars
    PROVE  UnreadyShown'
<1> SUFFICES ASSUME loop' \in {"ready", "summarizing"}, NEW m \in Range(view'), NEW n \in Stored',
                    m.id = n.id, m.kind = "compaction", ~m.ready, n.ready
             PROVE  \E q \in Requests : mid'[q].id = n.id /\ (q \in late' \/ (loop' = "ready" /\ Unseen(q)'))
  BY DEF UnreadyShown
<1>1. CASE Scans
  <2>1. PICK v : v = FilterCompacted(log)
    OBVIOUS
  <2>2. m \in Stored
    BY <1>1, <2>1, ScanShows DEF Scans
  <2>3. n \in Stored
    BY <1>1 DEF Scans, Stored
  <2>4. m = n
    BY <2>2, <2>3 DEF Shapes, LogFine, Stored
  <2> QED  BY <2>4
<1>2. CASE Rests \/ Begins
  <2>1. view' = view /\ loop \in {"ready", "summarizing"} /\ loop \in Reading
    BY <1>2 DEF Rests, Begins, Reading
  <2>2. PICK p \in Stored : Shows(m, p)
    BY <2>1 DEF ViewFits, Fits
  <2>3. p.id = n.id /\ m.id = p.id
    BY <2>2 DEF Shows
  <2>4. Kept(p, n)
    <3>1. PICK o \in Stored : Kept(o, n)
      BY <2>3 DEF Moves, LogStep, Comes
    <3>2. o = p
      BY <2>3, <3>1 DEF Kept, Shapes, LogFine, Stored
    <3> QED  BY <3>1, <3>2
  <2>5. p.ready \/ Requested(p) \/ p.id = doing
    BY <2>4 DEF Kept
  <2>6. PICK q \in Requests : mid[q].id = p.id /\ (q \in late \/ (loop = "ready" /\ Unseen(q)))
    BY <2>1, <2>3, <2>5, UnreadyShownKept
  <2>7. mid'[q].id = n.id /\ mid'[q].id = mid[q].id
    BY <2>3, <2>6, RequestedRests
  <2>8. CASE q \in late
    BY <2>7, <2>8 DEF GhostsGrow
  <2>9. CASE loop = "ready" /\ Unseen(q)
    <3>1. CASE Rests
      <4>1. Unseen(q)'
        BY <2>7, <2>9, <3>1, UnseenStays DEF Rests
      <4> QED  BY <2>7, <2>9, <3>1, <4>1 DEF Rests
    <3>2. CASE Begins
      <4>1. q \in Missed
        BY <2>1, <2>3, <2>6, <2>9, UnreadyIsMissed
      <4> QED  BY <2>7, <3>2, <4>1 DEF Begins
    <3> QED  BY <1>2, <3>1, <3>2
  <2> QED  BY <2>6, <2>8, <2>9
<1> QED  BY <1>1, <1>2, ReadsAre DEF Reading

\* Every step keeps ReadyCuts.
LEMMA ReadyCutsRests ==
    ASSUME Shapes, ViewFits, OwnStored, Follows, Between, Tails, Parent, UnreadyIsLate, ReadyCuts,
           Moves, GhostsGrow, Shapes', [Next]_vars
    PROVE  ReadyCuts'
<1> SUFFICES ASSUME loop' = "ready", ~Upset', NEW n \in Stored'
             PROVE  \/ \E o \in Range(view') : o.id = n.id
                    \/ \E q \in Requests : mid'[q].id = n.id /\ Unseen(q)'
                    \/ Cut(n)'
  BY DEF ReadyCuts
<1>0. ~Upset
  BY UpsetStays
<1>1. CASE Scans
  <2>1. PICK v : v = FilterCompacted(log)
    OBVIOUS
  <2>2. n \in Stored /\ log' = log /\ view' = v
    BY <1>1, <2>1 DEF Scans, Stored
  <2>3. (\E o \in Range(v) : o.id = n.id) \/ Cut(n)
    BY <1>0, <2>1, <2>2, LacksIs DEF Upset
  <2>4. Cut(n) <=> Cut(n)'
    BY <2>2 DEF Cut, Newest, Complete, Stored
  <2> QED  BY <2>2, <2>3, <2>4
<1>2. CASE Rests
  <2>1. loop = "ready" /\ view' = view
    BY <1>2 DEF Rests
  <2>2. ~EndSummary
    BY <2>1, EndSummaryIs
  <2>3. ASSUME NEW m \in Stored, Kept(m, n), NEW q \in Requests, mid[q].id = m.id, Unseen(q)
        PROVE  mid'[q].id = n.id /\ Unseen(q)'
    <3>1. mid'[q].id = mid[q].id /\ n.id = m.id
      BY <2>3, RequestedRests DEF Kept
    <3> QED  BY <1>2, <2>3, <3>1, UnseenStays
  <2>4. ASSUME NEW m \in Stored, Kept(m, n), Cut(m) PROVE Cut(n)'
    BY <2>2, <2>4, CutAfter
  <2>5. CASE \E m \in Stored : Kept(m, n)
    <3>1. PICK m \in Stored : Kept(m, n)
      BY <2>5
    <3>2. n.id = m.id
      BY <3>1 DEF Kept
    <3> QED  BY <1>0, <2>1, <2>3, <2>4, <3>1, <3>2 DEF ReadyCuts
  <2>6. CASE Comes(n)
    <3>1. PICK q \in Requests : mid'[q].id = n.id
      BY <1>2, <2>6, ReadyRests DEF Requested
    <3> QED  BY <1>2, <2>6, <3>1, ComesUnseen
  <2> QED  BY <2>5, <2>6 DEF Moves, LogStep
<1> QED  BY <1>1, <1>2, ReadsAre DEF Reading, Begins

\* Every step keeps SummaryShows.
LEMMA SummaryShowsRests ==
    ASSUME Shapes, ViewFits, OwnStored, RacersAreLate, Follows, Between, Tails, Parent, UnreadyIsLate,
           ReadyCuts, SummaryShows, Moves, GhostsGrow, Shapes', [Next]_vars
    PROVE  SummaryShows'
<1> SUFFICES ASSUME loop' = "summarizing", ~Upset', NEW n \in Stored'
             PROVE  (\E o \in Range(view') : o.id = n.id) \/ n.time >= doing' \/ Racer(n)' \/ Cut(n)'
  BY DEF SummaryShows
<1>0. ~Upset
  BY UpsetStays
<1>0a. ~EndSummary
  BY EndSummaryIs DEF EndsAs
<1>0b. n.id \in Nat /\ n.id # 0 /\ n.time \in Nat /\ n.time # 0
  BY DEF Shapes, LogFine, Stored
<1>0c. now \in Nat /\ now' \in Nat /\ \A m \in Stored : m.id \in 1 .. now
  BY NowIs, PromptLoopAssumption DEF Shapes, LogFine, Stored, Moves, Ids
<1>1. CASE Rests
  <2>1. loop = "summarizing" /\ view' = view /\ doing' = doing /\ doing # 0 /\ doing \in Nat
    BY <1>1 DEF Rests, Shapes, RunShapes, Writing
  <2>2. PICK d \in Stored : DoingIs(d)
    BY <2>1 DEF Shapes, RunShapes
  <2>3. d.id = doing /\ ~IsUser(d)
    BY <2>1, <2>2 DEF DoingIs, IsUser, UserKinds
  <2>4. CASE \E m \in Stored : Kept(m, n)
    <3>1. PICK m \in Stored : Kept(m, n)
      BY <2>4
    <3>2. n.id = m.id /\ n.time = m.time
      BY <3>1 DEF Kept
    <3>3. Cut(m) => Cut(n)'
      BY <1>0a, <3>1, CutAfter
    <3>4. Racer(m) => Racer(n)'
      BY <3>2, RacerStays
    <3> QED  BY <1>0, <2>1, <3>2, <3>3, <3>4 DEF SummaryShows
  <2>5. CASE Comes(n) /\ ~(n.time >= doing)
    <3>1. n.time # now' \/ now' # now + 1
      BY <1>0c, <2>1, <2>3, <2>5
    <3>2. PICK q \in Requests : mid[q].id = n.id /\ mid[q].time = n.time
      BY <2>5, <3>1 DEF Comes
    <3>3. mid[q].id # 0 /\ mid[q].id <= mid[q].time
      BY <1>0b, <3>2 DEF Shapes, RequestShapes
    <3>4. mid[q].id < d.id
      BY <1>0b, <2>1, <2>3, <2>5, <3>2, <3>3
    <3>5. Outside(q)
      BY <2>5, <3>2 DEF Comes, Outside
    <3>6. q \in late'
      BY <2>3, <3>3, <3>4, <3>5 DEF RacersAreLate, GhostsGrow
    <3>7. mid'[q].id = mid[q].id
      BY <3>3 DEF Moves, RequestMoves, MidsGrow
    <3> QED  BY <3>2, <3>6, <3>7 DEF Racer
  <2> QED  BY <2>1, <2>4, <2>5 DEF Moves, LogStep
<1>2. CASE Begins
  <2>1. /\ loop = "ready" /\ loop \in Reading /\ view' = view /\ doing' = now' /\ mid' = mid
        /\ late' = late \cup Missed
    BY <1>2 DEF Begins, Reading
  <2>2. CASE \E m \in Stored : Kept(m, n)
    <3>1. PICK m \in Stored : Kept(m, n)
      BY <2>2
    <3>2. n.id = m.id
      BY <3>1 DEF Kept
    <3>3. Cut(m) => Cut(n)'
      BY <1>0a, <3>1, CutAfter
    <3>4. ASSUME NEW q \in Requests, mid[q].id = m.id, Unseen(q), \A o \in Range(view) : o.id # m.id
          PROVE  Racer(n)'
      <4>1. \A i \in DOMAIN view : view[i].id # m.id
        BY <3>4 DEF Range
      <4>2. q \in Missed
        BY <1>0b, <3>2, <3>4, <4>1 DEF Missed
      <4> QED  BY <2>1, <3>2, <3>4, <4>2 DEF Racer
    <3> QED  BY <1>0, <2>1, <3>1, <3>2, <3>3, <3>4 DEF ReadyCuts
  <2>3. CASE Comes(n)
    <3>1. CASE n.time = now'
      BY <1>0c, <2>1, <3>1
    <3>2. CASE n.time # now'
      <4>1. PICK q \in Requests : mid[q].id = n.id
        BY <2>3, <3>2 DEF Comes
      <4>2. Outside(q)
        BY <2>3, <4>1 DEF Comes, Outside
      <4>3. q \in Missed
        BY <1>0b, <2>1, <4>1, <4>2, OutsideIsMissed
      <4> QED  BY <2>1, <4>1, <4>3 DEF Racer
    <3> QED  BY <3>1, <3>2
  <2> QED  BY <2>2, <2>3 DEF Moves, LogStep
<1> QED  BY <1>1, <1>2, ReadsAre DEF Reading, Scans

-----------------------------------------------------------------------------
(* What the end of a summary leaves *)

\* A summary ends with a tail and an outcome.
EndsWith(tail, r) ==
    tail \in TailStarts(History, TailTurns) /\ r \in {"stop", "too long", "error"} /\ EndsAs(tail, r)

\* What was stored has the tail that was recorded, and the summary an error unless it
\* was made.
LEMMA EndSummaryLeaves ==
    ASSUME NEW tail, NEW r, NEW o \in Stored, NEW p \in Stored', Shapes, ViewFits, EndSummary,
           EndsWith(tail, r), Kept(o, p)
    PROVE  /\ p.tail = Recorded(tail, r, o)
           /\ p.id = doing /\ ~p.error => r = "stop"
<1>1. loop = "summarizing" /\ loop \in Reading /\ mid' = mid
  BY EndSummaryIs DEF Reading
<1>2. tail \in Nat
  BY <1>1, HistoryShows, TailIs DEF EndsWith
<1>2a. r \in {"stop", "too long", "error"} /\ EndsAs(tail, r)
  BY DEF EndsWith
<1>3. PICK l : l = Summed(tail, r)
  OBVIOUS
<1>4. LogFine(l, now) /\ Records(l, tail, r)
  BY <1>2, <1>2a, <1>3, ClosedIs
<1>5. p \in Range(l)
  <2>1. CASE loop' # "parts"
    BY <1>2a, <1>3, <2>1 DEF EndsAs, Summed, Stored
  <2>2. CASE loop' = "parts"
    <3>1. Tick /\ log' = Insert(l, Again)
      BY <1>2a, <1>3, <2>2 DEF EndsAs, Summed
    <3>2. PICK m : m = Again
      OBVIOUS
    <3>3. now' \in Nat /\ now' = now + 1 /\ now \in Nat
      BY <3>1, NowIs
    <3>4. /\ m \in Messages /\ m.id = now' /\ m.time = now' /\ m.overflow = FALSE /\ m.tail = 0
          /\ IsUser(m)
      BY <1>1, <3>2, <3>3, AgainIs
    <3>5. Stored' = Range(l) \cup {m}
      <4>1. log' = Insert(l, m) /\ m.kind # "summary"
        BY <3>1, <3>2, <3>4 DEF IsUser, UserKinds
      <4> QED  BY <1>1, <1>4, <3>1, <3>4, <4>1, RunAdds
    <3>6. o.id <= now /\ o.id \in Nat /\ p.id = o.id
      <4>1. o.id \in 1 .. now
        BY DEF Shapes, LogFine, Stored
      <4>2. p.id = o.id
        BY DEF Kept
      <4>3. o.id <= now /\ o.id \in Nat
        BY ONLY <3>3, <4>1
      <4> QED  BY <4>2, <4>3
    <3>7. p # m
      BY <3>3, <3>4, <3>6
    <3> QED  BY <3>5, <3>7
  <2> QED  BY <2>1, <2>2
<1>6. PICK m \in Stored : p.id = m.id /\ p.tail = Recorded(tail, r, m) /\ (p.id = doing /\ ~p.error => r = "stop")
  BY <1>4, <1>5 DEF Records
<1>7. m = o
  BY <1>6 DEF Kept, Shapes, LogFine, Stored
<1> QED  BY <1>6, <1>7

\* A recorded tail begins with a visible message of what is summarised.
LEMMA TailStartIs ==
    ASSUME NEW h, NEW tail, tail \in TailStarts(h, TailTurns), tail # 0
    PROVE  \E k \in Visible(h) : h[k].id = tail
BY DEF TailStarts

\* After the end of a summary the run writes no message that was stored before.
LEMMA EndsWriting ==
    ASSUME Shapes, ViewFits, EndSummary, NEW m \in Stored
    PROVE  m.id # doing'
<1>0. m.id \in Nat /\ m.id # 0 /\ m.id <= now /\ now \in Nat
  BY NowIs DEF Shapes, LogFine, Stored
<1>1. PICK tail, r : r \in {"stop", "too long", "error"} /\ EndsAs(tail, r)
  BY EndSummaryIs
<1>2. doing' = 0 \/ (doing' = now' /\ now' = now + 1)
  BY <1>1, NowIs DEF EndsAs
<1> QED  BY <1>0, <1>2

\* Every step keeps Follows.
LEMMA FollowsRests ==
    ASSUME Shapes, ViewFits, Follows, Moves
    PROVE  Follows'
<1> SUFFICES ASSUME NEW t \in Stored', NEW n \in Stored', t.kind = "summary", t.parent = n.id
             PROVE  n.time < t.time
  BY DEF Follows
<1>1. ASSUME NEW c \in Stored, c.id = n.id PROVE Kept(c, n)
  <2>1. PICK o \in Stored : Kept(o, n)
    BY <1>1 DEF Moves, LogStep, Comes
  <2>2. o = c
    BY <1>1, <2>1 DEF Kept, Shapes, LogFine, Stored
  <2> QED  BY <2>1, <2>2
<1>2. CASE \E s \in Stored : Kept(s, t)
  <2>1. PICK s \in Stored : Kept(s, t)
    BY <1>2
  <2>2. s.kind = "summary" /\ s.parent = n.id /\ s.time = t.time
    BY <2>1 DEF Kept
  <2>3. PICK c \in Stored : c.id = n.id
    BY <2>2 DEF Shapes, StoredShapes, Suits
  <2>4. c.time < s.time
    BY <2>2, <2>3 DEF Follows
  <2> QED  BY <1>1, <2>2, <2>3, <2>4 DEF Kept
<1>3. CASE Comes(t)
  <2>1. ~IsUser(t)
    BY DEF IsUser, UserKinds
  <2>2. loop = "ready" /\ t.time = now' /\ now' = now + 1 /\ t.parent = User.id
    BY <1>3, <2>1 DEF Comes
  <2>3. PICK c \in Stored : Shows(User, c)
    BY <2>2, UserIsStored DEF Reading
  <2>4. Kept(c, n)
    BY <1>1, <2>2, <2>3 DEF Shows
  <2>5. c.time <= now /\ c.time \in Nat /\ now \in Nat
    BY NowIs DEF Shapes, LogFine, Stored
  <2> QED  BY <2>2, <2>4, <2>5 DEF Kept
<1> QED  BY <1>2, <1>3 DEF Moves, LogStep

\* Every step keeps Tails.
LEMMA TailsRests ==
    ASSUME Shapes, ViewFits, Follows, Tails, Parent, Moves, [Next]_vars
    PROVE  Tails'
<1> SUFFICES ASSUME NEW n \in Stored', n.tail # 0
             PROVE  \E t \in Stored' : t.kind = "summary" /\ t.parent = n.id /\ t.time > n.time /\ t.id # doing'
  BY DEF Tails
<1>1. PICK c \in Stored : Kept(c, n)
  BY DEF Moves, LogStep, Comes
<1>2. \E s \in Stored : s.kind = "summary" /\ s.parent = c.id /\ s.time > c.time /\ s.id # doing'
  <2>1. CASE c.tail # 0
    <3>1. PICK s \in Stored : s.kind = "summary" /\ s.parent = c.id /\ s.time > c.time /\ s.id # doing
      BY <2>1 DEF Tails
    <3> QED  BY <3>1, NotTakenUp
  <2>2. CASE c.tail = 0
    <3>1. EndSummary /\ c.id = User.id
      BY <1>1, <2>2 DEF Kept
    <3>2. loop = "summarizing"
      BY <3>1, EndSummaryIs
    <3>3. PICK d \in Stored : DoingIs(d)
      BY <3>2 DEF Shapes, RunShapes, Writing
    <3>4. d.kind = "summary" /\ d.parent = c.id
      BY <3>1, <3>2, <3>3 DEF DoingIs, Parent
    <3>5. c.time < d.time
      BY <3>4 DEF Follows
    <3>6. c.time \in Nat /\ d.time \in Nat
      BY DEF Shapes, LogFine, Stored
    <3>7. d.id # doing'
      BY <3>1, EndsWriting
    <3> QED  BY <3>4, <3>5, <3>6, <3>7
  <2> QED  BY <2>1, <2>2
<1>3. PICK s \in Stored : s.kind = "summary" /\ s.parent = c.id /\ s.time > c.time /\ s.id # doing'
  BY <1>2
<1>4. PICK t \in Stored' : Kept(s, t)
  BY DEF Moves, LogStep
<1> QED  BY <1>1, <1>3, <1>4 DEF Kept

\* Every step keeps TailsPoint.
LEMMA TailsPointRests ==
    ASSUME Shapes, ViewFits, TailsPoint, Moves
    PROVE  TailsPoint'
<1> SUFFICES ASSUME NEW n \in Stored', n.tail # 0 PROVE \E t \in Stored' : t.id = n.tail
  BY DEF TailsPoint
<1>1. PICK c \in Stored : Kept(c, n)
  BY DEF Moves, LogStep, Comes
<1>2. \E o \in Stored : o.id = n.tail
  <2>1. CASE n.tail = c.tail
    BY <2>1 DEF TailsPoint
  <2>2. CASE n.tail # c.tail
    <3>1. EndSummary
      BY <1>1, <2>2 DEF Kept
    <3>2. loop = "summarizing" /\ loop \in Reading
      BY <3>1, EndSummaryIs DEF Reading
    <3>3. PICK tail, r : EndsWith(tail, r)
      BY <3>1, EndSummaryIs DEF EndsWith
    <3>4. n.tail = Recorded(tail, r, c)
      BY <1>1, <3>1, <3>3, EndSummaryLeaves
    <3>5. n.tail = tail /\ tail # 0
      BY <2>2, <3>4 DEF Recorded
    <3>6. PICK k : k \in Visible(History) /\ History[k].id = tail
      BY <3>3, <3>5, TailStartIs DEF EndsWith
    <3>7. k \in 1 .. Len(History) /\ Len(History) <= Len(view) /\ Len(History) \in Nat /\ Len(view) \in Nat
      <4>1. k \in DOMAIN History
        BY <3>6 DEF Visible
      <4>2. History \in Seq(Messages) /\ Len(History) <= Len(view)
        BY <3>2, HistoryShows
      <4>3. view \in Seq(Messages)
        BY DEF Shapes, RunShapes
      <4> QED  BY <4>1, <4>2, <4>3
    <3>8. view[k].id = tail /\ k \in 1 .. Len(view)
      <4>1. History[k] = view[k]
        BY <3>2, <3>7, HistoryShows
      <4> QED  BY <3>6, <3>7, <4>1
    <3>9. view[k] \in Range(view)
      <4>1. view \in Seq(Messages)
        BY DEF Shapes, RunShapes
      <4> QED  BY <3>8, <4>1 DEF Range
    <3> QED  BY <3>2, <3>5, <3>8, <3>9 DEF ViewFits, Fits, Shows
  <2> QED  BY <2>1, <2>2
<1> QED  BY <1>2 DEF Moves, LogStep, Kept

\* Every step keeps Parent.
LEMMA ParentRests ==
    ASSUME Shapes, ViewFits, Parent, Moves, Shapes', [Next]_vars
    PROVE  Parent'
<1> SUFFICES ASSUME loop' = "summarizing", NEW n \in Stored', n.id = doing' PROVE n.parent = User'.id
  BY DEF Parent
<1>1. CASE Rests
  <2>1. loop = "summarizing" /\ doing' = doing /\ User' = User
    BY <1>1 DEF Rests, User
  <2>2. PICK d \in Stored : DoingIs(d)
    BY <2>1 DEF Shapes, RunShapes, Writing
  <2>3. PICK o \in Stored : Kept(o, n)
    BY <2>1, <2>2 DEF Moves, LogStep, Comes, DoingIs
  <2> QED  BY <2>1, <2>3 DEF Kept, Parent
<1>2. CASE Begins
  <2>1. User' = User /\ doing' = now' /\ now' = now + 1 /\ now \in Nat
    BY <1>2, NowIs DEF Begins, User
  <2>2. Comes(n)
    <3>1. ASSUME NEW o \in Stored, Kept(o, n) PROVE FALSE
      <4>1. n.id <= now /\ n.id \in Nat
        BY <3>1 DEF Kept, Shapes, LogFine, Stored
      <4> QED  BY <2>1, <4>1
    <3> QED  BY <3>1 DEF Moves, LogStep
  <2>3. n.kind = "summary"
    <3>1. doing' # 0
      BY DEF Shapes, RunShapes, Writing
    <3>2. PICK d \in Stored' : DoingIs(d)'
      BY <3>1 DEF Shapes, RunShapes
    <3>3. d = n
      BY <3>2 DEF DoingIs, Moves, LogFine, Stored
    <3> QED  BY <3>2, <3>3 DEF DoingIs
  <2> QED  BY <2>1, <2>2, <2>3 DEF Comes
<1> QED  BY <1>1, <1>2, ReadsAre DEF Reading, Scans

-----------------------------------------------------------------------------
(* What a completed compaction cuts off *)

\* What is no compaction and no summary is visible in what is summarised.
LEMMA NoPrior ==
    ASSUME Shapes, ViewFits, loop = "summarizing", NEW i \in 1 .. Len(History),
           view[i].kind \notin {"compaction", "summary"}
    PROVE  i \in Visible(History)
<1>1. PICK h : h = History
  OBVIOUS
<1>2. h \in Seq(Messages) /\ Len(h) <= Len(view) /\ view \in Seq(Messages) /\ Fits(view)
  BY <1>1, HistoryShows DEF Shapes, RunShapes, ViewFits, Reading
<1>3. \A j \in 1 .. Len(h) : h[j] = view[j]
  BY <1>1, HistoryShows
<1>4. DOMAIN h = 1 .. Len(h) /\ DOMAIN view = 1 .. Len(view) /\ Len(h) \in Nat /\ Len(view) \in Nat
  BY <1>2
<1>5. \A j, k \in 1 .. Len(h) : h[j].id = h[k].id => j = k
  <2>1. \A j \in 1 .. Len(h) : j \in 1 .. Len(view)
    BY <1>2, <1>4
  <2> QED  BY <1>2, <1>3, <1>4, <2>1 DEF Fits
<1>6. i \in 1 .. Len(h) /\ h[i].kind \notin {"compaction", "summary"}
  BY <1>1, <1>3
<1>7. ASSUME NEW j, j \in Priors(h) PROVE h[i].id \notin {h[j].id, h[j].parent}
  <2>1. j \in 1 .. Len(h) /\ IsSummary(h[j])
    BY <1>4, <1>7 DEF Priors
  <2>2. PICK x \in 1 .. Len(h) : HasPart(h[x], "compaction") /\ h[x].id = h[j].parent
    BY <1>4, <1>7 DEF Priors
  <2>3. i # j /\ i # x
    BY <1>6, <2>1, <2>2 DEF IsSummary, HasPart
  <2> QED  BY <1>5, <1>6, <2>1, <2>2, <2>3
<1> QED  BY <1>1, <1>4, <1>6, <1>7 DEF Visible

\* The place where a recorded tail begins.
LEMMA TailPlace ==
    ASSUME Shapes, ViewFits, loop = "summarizing", NEW tail, tail \in TailStarts(History, TailTurns), tail # 0
    PROVE  /\ IndexOf(History, tail) \in 1 .. Len(History)
           /\ IndexOf(History, tail) \in Visible(History)
           /\ view[IndexOf(History, tail)].id = tail
<1>1. PICK h : h = History
  OBVIOUS
<1>2. h \in Seq(Messages) /\ Len(h) <= Len(view) /\ view \in Seq(Messages) /\ Fits(view)
  BY <1>1, HistoryShows DEF Shapes, RunShapes, ViewFits, Reading
<1>3. \A j \in 1 .. Len(h) : h[j] = view[j]
  BY <1>1, HistoryShows
<1>4. DOMAIN h = 1 .. Len(h) /\ DOMAIN view = 1 .. Len(view) /\ Len(h) \in Nat /\ Len(view) \in Nat
  BY <1>2
<1>5. \A j, k \in 1 .. Len(h) : h[j].id = h[k].id => j = k
  <2>1. \A j \in 1 .. Len(h) : j \in 1 .. Len(view)
    BY <1>2, <1>4
  <2> QED  BY <1>2, <1>3, <1>4, <2>1 DEF Fits
<1>6. PICK k : k \in Visible(h) /\ h[k].id = tail
  BY <1>1, TailStartIs
<1>7. k \in 1 .. Len(h)
  BY <1>4, <1>6 DEF Visible
<1>8. IndexOf(h, tail) = k
  BY <1>2, <1>5, <1>6, <1>7, IndexOfIs
<1> QED  BY <1>1, <1>3, <1>6, <1>7, <1>8

\* A visible message that a summary leaves in its tail is not older than what the tail
\* begins with, unless that came while an earlier compaction was summarised.
LEMMA BehindTail ==
    ASSUME Shapes, ViewFits, ViewIsOlder, Moves, ~TailBroke, ~TailTurned', loop = "summarizing",
           NEW tail, tail \in TailStarts(History, TailTurns), tail # 0,
           NEW b \in Stored', b.tail = tail, NEW t \in Stored', t.id = tail,
           NEW i \in 1 .. Len(History), ~(i < IndexOf(History, tail)), view[i].time < t.time
    PROVE  FALSE
<1>1. PICK h : h = History
  OBVIOUS
<1>2. h \in Seq(Messages) /\ Len(h) <= Len(view) /\ view \in Seq(Messages) /\ Fits(view) /\ loop \in Reading
  BY <1>1, HistoryShows DEF Shapes, RunShapes, ViewFits, Reading
<1>3. \A j \in 1 .. Len(h) : h[j] = view[j]
  BY <1>1, HistoryShows
<1>4. /\ DOMAIN h = 1 .. Len(h) /\ DOMAIN view = 1 .. Len(view) /\ Len(h) \in Nat /\ Len(view) \in Nat
      /\ \A j \in 1 .. Len(h) : j \in 1 .. Len(view)
  BY <1>2
<1>5. PICK k : k = IndexOf(h, tail)
  OBVIOUS
<1>6. k \in 1 .. Len(h) /\ k \in Visible(h) /\ view[k].id = tail
  BY <1>1, <1>5, TailPlace
<1>7. PICK o \in Stored : Shows(view[k], o)
  <2>1. view[k] \in Range(view)
    BY <1>4, <1>6 DEF Range
  <2> QED  BY <1>2, <2>1 DEF Fits
<1>8. Kept(o, t)
  <2>1. PICK p \in Stored' : Kept(o, p)
    BY DEF Moves, LogStep
  <2>2. p = t
    BY <1>6, <1>7, <2>1 DEF Shows, Kept, Moves, LogFine, Stored
  <2> QED  BY <2>1, <2>2
<1>9. view[k].time = o.time /\ o.time = t.time /\ o.id = tail
  BY <1>6, <1>7, <1>8 DEF Shows, Kept
<1>10. \A m \in Stored : m.time \in Nat /\ m.id \in Nat
  BY DEF Shapes, LogFine, Stored
<1>11. i \in 1 .. Len(h) /\ i \in 1 .. Len(view) /\ k \in 1 .. Len(view) /\ ~(i < k)
  BY <1>1, <1>4, <1>5, <1>6
<1>12. PICK w \in Stored : Shows(view[i], w)
  <2>1. view[i] \in Range(view)
    BY <1>4, <1>11 DEF Range
  <2> QED  BY <1>2, <2>1 DEF Fits
<1>13. view[k].time > view[i].time
  BY <1>9, <1>10, <1>12 DEF Shows
<1>14. k < i
  <2>1. k # i
    BY <1>9, <1>10, <1>12, <1>13 DEF Shows
  <2> QED  BY <1>4, <1>6, <1>11, <2>1
<1>15. PICK s \in Stored : /\ Turned(s, view[k], view[i])
                           /\ \E x, y \in 1 .. Len(view) : x < i /\ y < i /\ view[x].id = s.id /\ view[y].id = s.parent
  <2>1. \A a, z \in DOMAIN view : a < z /\ view[a].time > view[z].time => \E s \in Stored :
           /\ Turned(s, view[a], view[z])
           /\ \E x, y \in DOMAIN view : x < z /\ y < z /\ view[x].id = s.id /\ view[y].id = s.parent
    BY <1>2 DEF Fits
  <2>2. k \in DOMAIN view /\ i \in DOMAIN view
    BY <1>4, <1>11
  <2>3. \E s \in Stored :
           /\ Turned(s, view[k], view[i])
           /\ \E x, y \in DOMAIN view : x < i /\ y < i /\ view[x].id = s.id /\ view[y].id = s.parent
    BY <1>13, <1>14, <2>1, <2>2
  <2> QED  BY <1>4, <2>3
<1>16. PICK c \in Stored : LastTail(c) /\ s.parent = c.id /\ c.time <= o.time /\ o.time <= s.time
  BY <1>9, <1>15 DEF Turned
<1>17. s.kind = "summary" /\ c.tail # 0 /\ HasPart(c, "compaction")
  BY <1>15, <1>16 DEF Turned, LastTail, Shapes, LogFine, Stored
<1>18. PICK x \in 1 .. Len(view), y \in 1 .. Len(view) :
          x < i /\ y < i /\ view[x].id = s.id /\ view[y].id = s.parent
  BY <1>15
<1>19. Shows(view[x], s) /\ Shows(view[y], c)
  BY <1>2, <1>16, <1>18, SeenIs
<1>20. s.id # doing
  <2>1. doing # 0 /\ doing \in Nat
    BY DEF Shapes, RunShapes, Writing
  <2>2. view[x] \in Range(view)
    BY <1>4, <1>18 DEF Range
  <2>3. s.time < doing
    BY <1>2, <1>19, <2>1, <2>2 DEF ViewIsOlder, Shows
  <2>4. s.id = s.time
    BY <1>17, WrittenIs DEF IsUser, UserKinds
  <2> QED  BY <1>10, <2>1, <2>3, <2>4
<1>21. IsSummary(s)
  BY <1>16, <1>17, <1>20 DEF TailBroke, HasPart
<1>22. x \in 1 .. Len(h) /\ y \in 1 .. Len(h) /\ h[x] = view[x] /\ h[y] = view[y]
  <2>1. x \in 1 .. Len(h) /\ y \in 1 .. Len(h)
    BY <1>4, <1>11, <1>18
  <2> QED  BY <1>3, <2>1
<1>23. IsSummary(h[x]) /\ HasPart(h[y], "compaction") /\ h[y].id = h[x].parent
  <2>1. IsSummary(view[x])
    BY <1>19, <1>21 DEF IsSummary, Shows
  <2>2. HasPart(view[y], "compaction")
    BY <1>17, <1>19 DEF HasPart, Shows
  <2>3. view[y].id = view[x].parent
    BY <1>16, <1>19 DEF Shows
  <2> QED  BY <1>22, <2>1, <2>2, <2>3
<1>24. x \in Priors(h)
  BY <1>4, <1>22, <1>23 DEF Priors
<1>25. h[k].id \notin {h[x].id, h[x].parent}
  BY <1>6, <1>24 DEF Visible
<1>26. o # s /\ o # c
  <2>1. h[k].id = o.id
    BY <1>3, <1>6, <1>9
  <2>2. h[x].id = s.id /\ h[x].parent = c.id
    BY <1>16, <1>19, <1>22 DEF Shows
  <2> QED  BY <1>25, <2>1, <2>2
<1>27. c.time < o.time /\ o.time < s.time
  BY <1>10, <1>16, <1>26, SameTime
<1>28. PICK c2 \in Stored', s2 \in Stored' : Kept(c, c2) /\ Kept(s, s2)
  BY DEF Moves, LogStep
<1>29. /\ c2.kind = "compaction" /\ s2.kind = "summary" /\ s2.parent = c2.id
       /\ c2.time < t.time /\ t.time < s2.time
  BY <1>9, <1>16, <1>17, <1>27, <1>28 DEF Kept, HasPart
<1> QED  BY <1>29 DEF TailTurned

\* What a summary cuts off when it is completed was made part of it.
LEMMA EndCutIsTold ==
    ASSUME Shapes, ViewFits, ViewIsOlder, Follows, Between, Tails, Parent, UnreadyIsLate, UnreadyShown,
           SummaryShows, CutIsTold, Moves, GhostsGrow, [Next]_vars, EndSummary, ~Upset, ~Upset',
           NEW b \in Stored, NEW b2 \in Stored', Kept(b, b2), b.id = User.id, Newest(b2)',
           NEW m \in Stored, NEW n \in Stored', Kept(m, n),
           IF b2.tail = 0 THEN n.time < b2.time
           ELSE \E t \in Stored' : t.id = b2.tail /\ t.time <= b2.time /\ n.time < t.time
    PROVE  Told(n)'
<1>0. \A x \in Stored : x.time \in Nat /\ x.id \in Nat /\ x.id # 0
  BY DEF Shapes, LogFine, Stored
<1>1. loop = "summarizing" /\ loop \in Reading /\ doing # 0 /\ doing \in Nat
  BY EndSummaryIs DEF Reading, Shapes, RunShapes, Writing
<1>2. PICK tail, r : EndsWith(tail, r)
  BY EndSummaryIs DEF EndsWith
<1>3. User \in Range(view) /\ Shows(User, b)
  <2>1. User \in Range(view) /\ \E o \in Stored : Shows(User, o)
    BY <1>1, UserIsStored
  <2> QED  BY <2>1 DEF Shows, Shapes, LogFine, Stored
<1>4. HasPart(b2, "compaction") /\ \E s2 \in Stored' : IsSummary(s2) /\ s2.parent = b2.id
  BY DEF Newest, Complete
<1>5. b.kind = "compaction" /\ User.kind = "compaction"
  BY <1>3, <1>4 DEF HasPart, Kept, Shows
<1>6. r = "stop"
  <2>1. PICK s2 \in Stored' : IsSummary(s2) /\ s2.parent = b2.id
    BY <1>4
  <2>2. PICK s \in Stored : Kept(s, s2)
    BY <2>1 DEF Moves, LogStep, Comes, IsSummary
  <2>3. s.kind = "summary" /\ s.parent = User.id
    BY <2>1, <2>2 DEF Kept, IsSummary
  <2>4. s.finish = "none"
    BY <1>1, <2>3, Once
  <2>5. ~IsSummary(s)
    BY <2>4 DEF IsSummary
  <2>6. s.id = doing
    BY <2>1, <2>2, <2>5, SummaryFrom
  <2>7. s2.id = doing /\ ~s2.error
    BY <2>1, <2>2, <2>6 DEF Kept, IsSummary
  <2> QED  BY <1>2, <2>2, <2>7, EndSummaryLeaves
<1>7. User.ready
  <2> SUFFICES ASSUME ~User.ready PROVE FALSE
    OBVIOUS
  <2>1. b.ready \/ Requested(b) \/ b.id = doing
    BY <1>4 DEF HasPart, Kept
  <2>2. PICK q \in Requests : mid[q].id = b.id /\ q \in late
    BY <1>1, <1>3, <1>5, <2>1, UnreadyShownKept DEF Shows
  <2>3. Kind[q] = "compaction"
    BY <1>5, <2>2, OwnMessage
  <2> QED  BY <2>2, <2>3 DEF Upset
<1>8. b.tail = 0
  <2> SUFFICES ASSUME b.tail # 0 PROVE FALSE
    OBVIOUS
  <2>1. PICK s \in Stored : s.kind = "summary" /\ s.parent = b.id /\ s.id # doing
    BY DEF Tails
  <2>2. s.finish = "none"
    BY <1>1, <2>1, Once
  <2>3. ~IsSummary(s)
    BY <2>2 DEF IsSummary
  <2> QED  BY <1>5, <2>1, <2>3 DEF Upset, TailBroke
<1>9. b2.tail = tail
  <2>1. b2.tail = Recorded(tail, r, b)
    BY <1>2, EndSummaryLeaves
  <2>2. HasPart(User, "compaction")
    BY <1>5, <1>7 DEF HasPart
  <2> QED  BY <1>6, <1>8, <2>1, <2>2 DEF Recorded
<1>10. m.time < doing
  <2>1. User.time < doing /\ User.time = b.time
    BY <1>1, <1>3 DEF ViewIsOlder, Shows
  <2>2. n.time < b2.time
    <3>1. \A t \in Stored' : t.time \in Nat
      BY DEF Moves, LogFine, Stored
    <3> QED  BY <3>1
  <2>3. n.time = m.time /\ b2.time = b.time
    BY DEF Kept
  <2> QED  BY <1>0, <1>1, <2>1, <2>2, <2>3
<1>11. (\E o \in Range(view) : o.id = m.id) \/ Racer(m) \/ Cut(m)
  BY <1>0, <1>1, <1>10 DEF SummaryShows
<1>12. CASE Cut(m)
  <2>1. Told(m)
    BY <1>12 DEF CutIsTold
  <2> QED  BY <2>1, ToldStays
<1>13. CASE Racer(m)
  <2>1. PICK q \in late : mid[q].id = m.id
    BY <1>13 DEF Racer
  <2>2. q \in Requests
    BY <2>1 DEF Shapes, RunShapes
  <2>3. m.kind = Kind[q] /\ m.text = IF Kind[q] = "compaction" THEN {} ELSE {q}
    BY <2>1, <2>2, OwnMessage
  <2>4. Told(m)
    BY <2>1, <2>3 DEF Told
  <2> QED  BY <2>4, ToldStays
<1>14. CASE \E o \in Range(view) : o.id = m.id
  <2>1. PICK o \in Range(view) : o.id = m.id
    BY <1>14
  <2>2. PICK i \in 1 .. Len(view) : view[i] = o
    BY PlaceOf
  <2>3. Shows(view[i], m)
    BY <1>1, <2>1, <2>2, SeenIs
  <2>4. view[i].id = n.id /\ view[i].kind = n.kind /\ view[i].time = n.time
    BY <2>3 DEF Shows, Kept
  <2>5. CASE view[i].kind \in {"compaction", "summary"}
    BY <2>4, <2>5 DEF Told
  <2>6. CASE view[i].kind \notin {"compaction", "summary"}
    <3>1. \A j \in Collapsed(History, tail) : History[j].id \in folded'
      BY <1>2, <1>6 DEF EndsWith, EndsAs
    <3>2. i \in 1 .. Len(History) \/ (Replayed /\ ReplayAt(view, User.id) <= i)
      BY <1>1, <2>6, HistoryShows
    <3>3. CASE Replayed /\ ReplayAt(view, User.id) <= i
      <4>1. view[i].id \in skipped' \/ \E o2 \in Stored' : o2.of = view[i].id
        BY <1>1, <1>2, <1>5, <1>6, <2>6, <3>3, ReplayIsTold DEF EndsWith
      <4> QED  BY <2>4, <4>1 DEF Told
    <3>4. CASE i \in 1 .. Len(History)
      <4>1. i \in Visible(History) /\ History[i].id = n.id
        BY <1>1, <2>4, <2>6, <3>4, NoPrior, HistoryShows
      <4>2. CASE tail = 0 \/ i < IndexOf(History, tail)
        <5>1. i \in Collapsed(History, tail)
          BY <4>1, <4>2 DEF Collapsed
        <5> QED  BY <3>1, <4>1, <5>1 DEF Told
      <4>3. CASE tail # 0 /\ ~(i < IndexOf(History, tail))
        <5>1. PICK t \in Stored' : t.id = tail /\ n.time < t.time
          BY <1>9, <4>3
        <5>2. ~TailBroke /\ ~TailTurned'
          BY DEF Upset
        <5>3. tail \in TailStarts(History, TailTurns)
          BY <1>2 DEF EndsWith
        <5> QED  BY <1>1, <1>9, <2>4, <3>4, <4>3, <5>1, <5>2, <5>3, BehindTail
      <4> QED  BY <4>2, <4>3
    <3> QED  BY <3>2, <3>3, <3>4
  <2> QED  BY <2>5, <2>6
<1> QED  BY <1>11, <1>12, <1>13, <1>14

\* Every step keeps CutIsTold.
LEMMA CutIsToldRests ==
    ASSUME Shapes, ViewFits, ViewIsOlder, RacersAreLate, Follows, Between, Tails, TailsPoint, Parent,
           UnreadyIsLate, UnreadyShown, SummaryShows, CutIsTold, Moves, GhostsGrow, Shapes', [Next]_vars
    PROVE  CutIsTold'
<1> SUFFICES ASSUME ~Upset', NEW n \in Stored', Cut(n)' PROVE Told(n)'
  BY DEF CutIsTold
<1>0. ~Upset
  BY UpsetStays
<1>1. CASE Comes(n)
  BY <1>1, ComesTold
<1>2. CASE \E m \in Stored : Kept(m, n)
  <2>1. PICK m \in Stored : Kept(m, n)
    BY <1>2
  <2>2. PICK d \in Stored' : /\ Newest(d)'
                             /\ IF d.tail = 0 THEN n.time < d.time
                                ELSE \E t \in Stored' : t.id = d.tail /\ t.time <= d.time /\ n.time < t.time
    BY DEF Cut
  <2>3. CASE d.id # User.id \/ ~EndSummary
    <3>1. Cut(m)
      BY <2>1, <2>2, <2>3, CutBefore
    <3>2. Told(m)
      BY <1>0, <3>1 DEF CutIsTold
    <3> QED  BY <2>1, <3>2, ToldStays
  <2>4. CASE d.id = User.id /\ EndSummary
    <3>1. PICK b \in Stored : Kept(b, d)
      BY <2>2, ComingIsIncomplete DEF Moves, LogStep, Newest
    <3>2. b.id = User.id
      BY <2>4, <3>1 DEF Kept
    <3> QED  BY <1>0, <2>1, <2>2, <2>4, <3>1, <3>2, EndCutIsTold
  <2> QED  BY <2>3, <2>4
<1> QED  BY <1>1, <1>2 DEF Moves, LogStep

-----------------------------------------------------------------------------
(* What was said stays in the context until it is folded *)

\* The second invariant of the loop: what completed compactions and their tails are,
\* what the summary that is being written was made without, and that whatever is cut
\* off was folded before.
FoldInv ==
    /\ Follows
    /\ Tails
    /\ TailsPoint
    /\ Parent
    /\ UnreadyIsLate
    /\ UnreadyShown
    /\ ReadyCuts
    /\ SummaryShows
    /\ CutIsTold

\* It holds at first.
LEMMA FoldBegins == Init => FoldInv
<1> SUFFICES ASSUME Init PROVE FoldInv
  OBVIOUS
<1>1. Stored = {} /\ loop = "off"
  BY DEF Init, Stored, Range
<1>2. Follows /\ Tails /\ TailsPoint
  BY <1>1 DEF Follows, Tails, TailsPoint
<1>3. UnreadyIsLate /\ CutIsTold
  BY <1>1 DEF UnreadyIsLate, CutIsTold
<1>4. Parent /\ UnreadyShown /\ ReadyCuts /\ SummaryShows
  BY <1>1 DEF Parent, UnreadyShown, ReadyCuts, SummaryShows
<1> QED  BY <1>2, <1>3, <1>4 DEF FoldInv

\* Every step keeps it, conjunct by conjunct.
LEMMA FoldGoesOn == LoopInv /\ FoldInv /\ [Next]_vars => FoldInv'
<1> SUFFICES ASSUME LoopInv, FoldInv, [Next]_vars PROVE FoldInv'
  OBVIOUS
<1>1. Shapes /\ ViewFits /\ ViewIsOlder /\ OwnStored /\ RacersAreLate /\ Between
  BY DEF LoopInv
<1>2. /\ Follows /\ Tails /\ TailsPoint /\ Parent /\ UnreadyIsLate
      /\ UnreadyShown /\ ReadyCuts /\ SummaryShows /\ CutIsTold
  BY DEF FoldInv
<1>3. Shapes' /\ Moves /\ GhostsGrow
  BY <1>1, ShapesRest, GhostsDoGrow
<1>4. Follows' /\ Tails'
  BY <1>1, <1>2, <1>3, FollowsRests, TailsRests
<1>5. TailsPoint' /\ Parent'
  BY <1>1, <1>2, <1>3, TailsPointRests, ParentRests
<1>6. UnreadyIsLate' /\ UnreadyShown'
  BY <1>1, <1>2, <1>3, UnreadyIsLateRests, UnreadyShownRests
<1>7. ReadyCuts' /\ SummaryShows'
  BY <1>1, <1>2, <1>3, ReadyCutsRests, SummaryShowsRests
<1>8. CutIsTold'
  BY <1>1, <1>2, <1>3, CutIsToldRests
<1> QED  BY <1>4, <1>5, <1>6, <1>7, <1>8 DEF FoldInv

\* Both invariants hold in every reachable state: at its end a summary was made from all
\* that the scans of filterCompacted leave out from then on, but for racers and for what
\* followed a message that was replayed.
THEOREM FoldInvHolds == Spec => [](LoopInv /\ FoldInv)
<1>1. Init => LoopInv /\ FoldInv
  BY LoopBegins, FoldBegins
<1>2. (LoopInv /\ FoldInv) /\ [Next]_vars => (LoopInv /\ FoldInv)'
  BY LoopGoesOn, FoldGoesOn
<1> QED  BY <1>1, <1>2, PTL DEF Spec

\* What excuses a gap among the stored messages excuses it in the log.
LEMMA UpsetIsDisturbed ==
    ASSUME Shapes, Upset
    PROVE  Disturbed
<1>1. /\ DOMAIN log = 1 .. Len(log)
      /\ \A m \in Stored : \E j \in 1 .. Len(log) : log[j] = m
      /\ \A j, k \in 1 .. Len(log) : log[j].time < log[k].time <=> j < k
  BY PlacesAreTimes
<1>2. CASE TailBroke
  <2>1. PICK c \in Stored, s \in Stored : /\ c.kind = "compaction" /\ c.tail # 0
                                          /\ s.kind = "summary" /\ ~IsSummary(s) /\ s.parent = c.id /\ s.id # doing
    BY <1>2 DEF TailBroke
  <2>2. PICK i \in DOMAIN log, j \in DOMAIN log : log[i] = c /\ log[j] = s
    BY <1>1
  <2> QED  BY <2>1, <2>2 DEF Disturbed, BrokenTail
<1>3. CASE TailTurned
  <2>1. PICK c \in Stored, s \in Stored, t \in Stored, d \in Stored :
           /\ c.kind = "compaction" /\ s.kind = "summary" /\ s.parent = c.id
           /\ c.time < t.time /\ t.time < s.time /\ d.tail = t.id
    BY <1>3 DEF TailTurned
  <2>2. PICK i \in DOMAIN log, j \in DOMAIN log, k \in DOMAIN log, x \in DOMAIN log :
           log[i] = c /\ log[j] = s /\ log[k] = t /\ log[x] = d
    BY <1>1
  <2>3. i < k /\ k < j
    BY <1>1, <2>1, <2>2
  <2> QED  BY <2>1, <2>2, <2>3 DEF Disturbed, TailInFront
<1>4. CASE \E q \in late : Kind[q] = "compaction"
  BY <1>4 DEF Disturbed
<1> QED  BY <1>2, <1>3, <1>4 DEF Upset

\* What a scan does not find was folded or stored again, or its request raced a turn.
LEMMA FoldedIs ==
    ASSUME Shapes, Tails, CutIsTold
    PROVE  ContextIsFolded
<1> SUFFICES ASSUME ~Disturbed, NEW i \in DOMAIN log, IndexOf(FilterCompacted(log), log[i].id) = 0
             PROVE  \/ log[i].kind \in {"compaction", "summary"}
                    \/ log[i].id \in folded \cup skipped
                    \/ \E j \in DOMAIN log : log[j].of = log[i].id /\ (log[j].ready \/ log[j].id = doing)
                    \/ log[i].text # {} /\ log[i].text \subseteq late
  BY DEF ContextIsFolded
<1>1. ~Upset
  BY UpsetIsDisturbed
<1>2. PICK v : v = FilterCompacted(log)
  OBVIOUS
<1>3. log \in Seq(Messages) /\ log[i] \in Stored
  BY PlacesAreTimes
<1>4. v \in Seq(Messages)
  BY <1>2, <1>3, ScanPlaces
<1>5. \A x \in Range(v) : x.id # log[i].id
  <2>1. IndexOf(v, log[i].id) = 0
    BY <1>2
  <2>2. \A j \in 1 .. Len(v) : v[j].id # log[i].id
    BY <1>4, <2>1, IndexOfIs
  <2> QED  BY <1>4, <2>2 DEF Range
<1>6. Cut(log[i])
  BY <1>1, <1>2, <1>3, <1>5, LacksIs DEF Upset
<1>7. CASE \E o \in Stored : o.of = log[i].id
  <2>1. PICK j \in DOMAIN log : log[j].of = log[i].id
    BY <1>7, PlacesAreTimes
  <2>2. log[i].id # 0
    BY <1>3 DEF Shapes, LogFine, Stored
  <2> QED  BY <2>1, <2>2 DEF Disturbed, Partless
<1>8. CASE ~\E o \in Stored : o.of = log[i].id
  BY <1>1, <1>3, <1>6, <1>8 DEF CutIsTold, Told
<1> QED  BY <1>7, <1>8

\* No message leaves what filterCompacted gives the model before a summary was made from
\* it that SessionCompaction.process completed, or it was stored again, unless its request
\* raced a turn or it answers a message that was replayed: for every number of requests,
\* compactions, retained tails, overflows, cancels and restarts.
THEOREM ContextStaysFolded == Spec => []ContextIsFolded
<1>1. LoopInv /\ FoldInv => ContextIsFolded
  BY FoldedIs DEF LoopInv, FoldInv
<1> QED  BY <1>1, FoldInvHolds, PTL
=============================================================================
