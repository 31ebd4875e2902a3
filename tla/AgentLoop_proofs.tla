-------------------------- MODULE AgentLoop_proofs --------------------------
(***************************************************************************)
(* Proofs about the agent's turns, for any limit of the history, any       *)
(* number of tool rounds and any responses: the typing, that the history   *)
(* stays whole, that a refused history is not refused for ever, that only  *)
(* a turn out of rounds leaves one, and that no reply is lost in silence.  *)
(***************************************************************************)
EXTENDS SttTurn_proofs, FiniteSetTheorems, WellFoundedInduction

Phases == {"idle", "asking", "executing", "replying", "speaking", "over"}

\* AgentTypeOK in two parts, as the transcription's.
AgentFlags == words \in BOOLEAN /\ offered \in BOOLEAN

AgentPlaces ==
    /\ history \in Seq(Message)
    /\ phase \in Phases
    /\ round \in 0..MaxToolRounds
    /\ response \in Response
    /\ voice \in {"none", "first", "fallback"}
    /\ queued \in {"nothing", "first", "all"}
    /\ outcome \in {"none", "failed", "silent", "mute", "spoken"}
    /\ refused \in Nat

\* A transcript is not transcribed and answered at once, and it begins a turn.
Begun ==
    /\ stt # "none" => phase = "idle"
    /\ phase \in {"asking", "executing"} => history # <<>>

\* A history of whole exchanges, the last of each perhaps without its results.
Whole(h) ==
    /\ h # <<>> => h[1].kind = "user"
    /\ \A i \in DOMAIN h : h[i].kind = "tool" =>
           h[i - 1].kind = "assistant" /\ h[i - 1].calls = h[i].calls
    /\ \A i \in DOMAIN h : ~Answered(h, i) /\ i < Len(h) => h[i + 1].kind = "user"

\* What is being executed are the calls of the last message, and every call
\* before them has its result.
Executing ==
    phase = "executing" =>
        /\ round # MaxToolRounds
        /\ history[Len(history)] = AssistantTurn(response)
        /\ \A i \in DOMAIN history : i < Len(history) => Answered(history, i)

\* A turn adds one user's turn to the limit until it is trimmed.
Limited ==
    MaxHistoryTurns > 0 =>
        Cardinality(UserTurns(history)) <=
            MaxHistoryTurns + (IF phase \in {"idle", "over"} THEN 0 ELSE 1)

\* Every refusal has left a user's turn behind the calls it was refused for.
After(h, i) == {j \in UserTurns(h) : j > i}

Refusals ==
    /\ MaxHistoryTurns > 0 => refused <= MaxHistoryTurns
    /\ phase \in {"executing", "replying", "speaking"} => refused = 0
    /\ phase \in {"idle", "asking", "over"} =>
           \A i \in DOMAIN history : ~Answered(history, i) =>
               Cardinality(After(history, i)) >= refused + (IF phase = "asking" THEN 1 ELSE 0)

\* A reply that was given is kept until it is spoken.
Offered ==
    /\ phase \in {"idle", "asking", "executing"} => ~offered
    /\ phase = "replying" /\ ~words => ~offered /\ ~response.text
    /\ phase = "over" /\ outcome = "silent" => ~offered /\ ~response.text

AgentInv ==
    AgentFlags /\ AgentPlaces /\ Begun /\ Whole(history) /\ Executing /\ Limited /\ Refusals /\ Offered

-----------------------------------------------------------------------------
\* Finite sets of positions

\* A set of natural numbers has a least element: its initial segment is the
\* smallest.
LEMMA Smallest ==
    ASSUME NEW T \in SUBSET Nat, T # {}
    PROVE  \E x \in T : \A y \in T : x <= y
<1> DEFINE F == {0..i : i \in T}
<1> DEFINE R == StrictSubsetOrdering(Nat)
<1>1. IsWellFoundedOn(R, FiniteSubsetsOf(Nat))
  BY FS_StrictSubsetOrderingWellFounded
<1>2. F \subseteq FiniteSubsetsOf(Nat)
  <2> SUFFICES ASSUME NEW i \in T PROVE 0..i \in SUBSET Nat /\ IsFiniteSet(0..i)
    BY DEF FiniteSubsetsOf
  <2> QED
    BY FS_Interval
<1>3. F # {}
  OBVIOUS
<1>4. \E X \in F : \A Y \in F : ~(<<Y, X>> \in R)
  <2> HIDE DEF F, R
  <2> QED
    BY <1>1, <1>2, <1>3, WFMin
<1>5. PICK x \in T : \A y \in T : ~(<<0..y, 0..x>> \in R)
  BY <1>4
<1>6. ASSUME NEW y \in T PROVE x <= y
  <2> SUFFICES ASSUME y < x PROVE FALSE
    OBVIOUS
  <2>1. 0..y \subseteq 0..x /\ x \in 0..x /\ x \notin 0..y
    OBVIOUS
  <2>2. 0..y \in SUBSET Nat /\ 0..x \in SUBSET Nat
    OBVIOUS
  <2>3. <<0..y, 0..x>> \in R
    BY <2>1, <2>2 DEF StrictSubsetOrdering
  <2> QED
    BY <1>5, <2>3
<1> QED
  BY <1>6

LEMMA Largest ==
    ASSUME NEW n \in Nat, NEW T \in SUBSET (0..n), T # {}
    PROVE  \E x \in T : \A y \in T : y <= x
<1> DEFINE U == {n - i : i \in T}
<1>1. U \in SUBSET Nat
  <2>1. ASSUME NEW i \in T PROVE n - i \in Nat
    <3>1. i \in 0..n
      OBVIOUS
    <3> QED
      BY <3>1
  <2> QED
    BY <2>1
<1>2. U # {}
  OBVIOUS
<1>3. PICK u \in U : \A v \in U : u <= v
  <2> HIDE DEF U
  <2> QED
    BY <1>1, <1>2, Smallest
<1>4. PICK x \in T : u = n - x
  OBVIOUS
<1>5. ASSUME NEW y \in T PROVE y <= x
  <2>1. n - y \in U
    OBVIOUS
  <2>2. n - x <= n - y
    BY <1>3, <1>4, <2>1
  <2>3. x \in 0..n /\ y \in 0..n
    OBVIOUS
  <2> QED
    BY <2>2, <2>3
<1> QED
  BY <1>5

\* The elements of S from i on.
From(S, i) == {j \in S : j >= i}

\* Of more than k positions, one has k at it or behind it.
LEMMA CutExists ==
    ASSUME NEW n \in Nat, NEW S \in SUBSET (1..n), NEW k \in Nat, k > 0, Cardinality(S) > k
    PROVE  \E i \in S : Cardinality(From(S, i)) = k
<1> DEFINE T == {i \in S : Cardinality(From(S, i)) >= k}
<1>0. S \subseteq 1..n /\ S \subseteq Nat
  OBVIOUS
<1>1. IsFiniteSet(S)
  <2>1. IsFiniteSet(1..n)
    BY FS_Interval
  <2> QED
    BY <2>1, FS_Subset
<1>2. ASSUME NEW i PROVE IsFiniteSet(From(S, i)) /\ Cardinality(From(S, i)) \in Nat
  <2>1. From(S, i) \in SUBSET S
    BY DEF From
  <2> QED
    BY <1>1, <2>1, FS_Subset, FS_CardinalityType
<1>3. Cardinality(S) \in Nat /\ S # {}
  BY <1>1, FS_CardinalityType, FS_EmptySet
<1>4. T # {}
  <2>1. PICK x \in S : \A y \in S : x <= y
    BY <1>0, <1>3, Smallest
  <2>2. \A y \in S : y >= x
    BY <1>0, <2>1
  <2>3. From(S, x) = S
    BY <2>2 DEF From
  <2>4. Cardinality(From(S, x)) >= k
    BY <1>3, <2>3
  <2> QED
    BY <2>4
<1>5. PICK x \in T : \A y \in T : y <= x
  <2>1. T \subseteq S
    OBVIOUS
  <2>2. S \subseteq 0..n
    <3>1. ASSUME NEW i \in S PROVE i \in 0..n
      BY <1>0
    <3> QED
      BY <3>1
  <2>3. T \in SUBSET (0..n)
    <3> HIDE DEF T
    <3> QED
      BY <2>1, <2>2
  <2> HIDE DEF T
  <2> QED
    BY <1>4, <2>3, Largest
<1>6. x \in S /\ x \in Nat /\ Cardinality(From(S, x)) >= k
  BY <1>0
<1>7. ASSUME Cardinality(From(S, x)) > k PROVE FALSE
  <2> DEFINE B == From(S, x) \ {x}
  <2>1. IsFiniteSet(B) /\ Cardinality(B) = Cardinality(From(S, x)) - 1
    <3>1. x \in From(S, x)
      BY <1>6 DEF From
    <3>2. IsFiniteSet(From(S, x))
      BY <1>2
    <3> QED
      BY <3>1, <3>2, FS_RemoveElement
  <2>2. Cardinality(B) >= k /\ Cardinality(B) # 0
    BY <1>2, <1>7, <2>1
  <2>3. B # {}
    BY <2>1, <2>2, FS_EmptySet
  <2>4. B \in SUBSET Nat
    BY <1>0 DEF From
  <2>5. PICK m \in B : \A y \in B : m <= y
    <3> HIDE DEF B
    <3> QED
      BY <2>3, <2>4, Smallest
  <2>6. m \in S /\ m \in Nat /\ m >= x /\ m # x
    BY <1>0 DEF From
  <2>7. ASSUME NEW y \in S PROVE y >= m <=> y \in B
    <3>1. y \in Nat
      BY <1>0
    <3>2. y \in B <=> y >= x /\ y # x
      BY DEF From
    <3>3. CASE y \in B
      BY <2>5, <2>6, <3>1, <3>3
    <3>4. CASE y \notin B
      BY <1>6, <2>6, <3>1, <3>2, <3>4
    <3> QED
      BY <3>3, <3>4
  <2>8. B \subseteq S
    BY DEF From
  <2>9. From(S, m) = B
    <3> HIDE DEF B
    <3> QED
      BY <2>7, <2>8 DEF From
  <2>10. m \in T
    BY <2>2, <2>6, <2>9
  <2> QED
    BY <1>5, <1>6, <2>6, <2>10
<1> QED
  BY <1>2, <1>6, <1>7

\* Positions that are all moved by the same distance are as many.
LEMMA Moved ==
    ASSUME NEW S \in SUBSET Nat, IsFiniteSet(S), NEW d \in Nat
    PROVE  Cardinality({i - d : i \in S}) = Cardinality(S)
<1> DEFINE T == {i - d : i \in S}
<1> DEFINE f == [i \in S |-> i - d]
<1>1. f \in [S -> T]
  OBVIOUS
<1>2. \A i, j \in S : f[i] = f[j] => i = j
  OBVIOUS
<1>3. \A t \in T : \E i \in S : f[i] = t
  OBVIOUS
<1>4. f \in Bijection(S, T)
  <2> HIDE DEF f, T
  <2> QED
    BY <1>1, <1>2, <1>3 DEF Bijection, Injection, Surjection, IsInjective
<1>5. ExistsBijection(S, T)
  BY <1>4 DEF ExistsBijection
<1> QED
  BY <1>5, FS_Bijection

-----------------------------------------------------------------------------
\* Histories

LEMMA PositionsFinite ==
    ASSUME NEW h \in Seq(Message)
    PROVE  /\ UserTurns(h) \in SUBSET (1..Len(h)) /\ UserTurns(h) \in SUBSET Nat
           /\ IsFiniteSet(UserTurns(h)) /\ Cardinality(UserTurns(h)) \in Nat
           /\ \A i : /\ IsFiniteSet(After(h, i)) /\ Cardinality(After(h, i)) \in Nat
                     /\ After(h, i) \in SUBSET Nat
<1>1. UserTurns(h) \subseteq 1..Len(h) /\ 1..Len(h) \subseteq Nat
  BY LenProperties DEF UserTurns
<1>2. IsFiniteSet(UserTurns(h))
  <2>1. IsFiniteSet(1..Len(h))
    BY FS_Interval, LenProperties
  <2> QED
    BY <1>1, <2>1, FS_Subset
<1>3. ASSUME NEW i PROVE IsFiniteSet(After(h, i)) /\ After(h, i) \in SUBSET Nat
  <2>1. After(h, i) \in SUBSET UserTurns(h)
    BY DEF After
  <2> QED
    BY <1>1, <1>2, <2>1, FS_Subset
<1> QED
  BY <1>1, <1>2, <1>3, FS_CardinalityType

\* g is the history h with a message more: the calls before the last message are
\* answered as before, and those of the last one by what has been appended.
Extended(g, h, m) ==
    /\ g \in Seq(Message) /\ g # <<>> /\ Len(g) = Len(h) + 1 /\ g[Len(h) + 1] = m
    /\ DOMAIN g = 1..(Len(h) + 1) /\ DOMAIN h = 1..Len(h) /\ Len(h) \in Nat
    /\ \A i \in 1..Len(h) : g[i] = h[i]
    /\ \A i \in 1..Len(h) : i < Len(h) => (Answered(g, i) <=> Answered(h, i))
    /\ m.kind = "user" => \A i \in 1..Len(h) : Answered(g, i) <=> Answered(h, i)

LEMMA Appended ==
    ASSUME NEW h \in Seq(Message), NEW m \in Message
    PROVE  Extended(Append(h, m), h, m)
<1> DEFINE g == Append(h, m)
<1>1. /\ g \in Seq(Message) /\ Len(g) = Len(h) + 1 /\ g[Len(h) + 1] = m /\ Len(h) \in Nat
      /\ \A i \in 1..Len(h) : g[i] = h[i]
  BY AppendProperties, LenProperties
<1> HIDE DEF g
<1>2. g # <<>> /\ DOMAIN g = 1..(Len(h) + 1) /\ DOMAIN h = 1..Len(h)
  BY <1>1, EmptySeq, LenProperties
<1>3. ASSUME NEW i \in 1..Len(h), i < Len(h) PROVE Answered(g, i) <=> Answered(h, i)
  <2>1. i + 1 \in 1..Len(h) /\ i < Len(g) /\ i \in Nat
    BY <1>1, <1>3
  <2>2. g[i] = h[i] /\ g[i + 1] = h[i + 1]
    BY <1>1, <2>1
  <2> QED
    BY <1>3, <2>1, <2>2 DEF Answered
<1>4. ASSUME NEW i \in 1..Len(h), m.kind = "user" PROVE Answered(g, i) <=> Answered(h, i)
  <2>1. CASE i < Len(h)
    BY <1>3, <2>1
  <2>2. CASE ~(i < Len(h))
    <3>1. i = Len(h) /\ i + 1 = Len(g)
      BY <1>1, <2>2
    <3>2. g[i] = h[i] /\ g[i + 1] = m
      BY <1>1, <3>1
    <3> QED
      BY <1>4, <2>2, <3>1, <3>2 DEF Answered
  <2> QED
    BY <2>1, <2>2
<1>5. Extended(g, h, m)
  BY <1>1, <1>2, <1>3, <1>4 DEF Extended
<1> QED
  BY <1>5 DEF g

\* A user's turn more is one behind every message; another message is none.
LEMMA AppendedCount ==
    ASSUME NEW h \in Seq(Message), NEW m \in Message, NEW g, Extended(g, h, m)
    PROVE  /\ m.kind = "user" => /\ Cardinality(UserTurns(g)) = Cardinality(UserTurns(h)) + 1
                                 /\ \A i \in 1..Len(h) :
                                        Cardinality(After(g, i)) = Cardinality(After(h, i)) + 1
           /\ m.kind # "user" => UserTurns(g) = UserTurns(h)
<1> DEFINE n == Len(h) + 1
<1>0. g \in Seq(Message) /\ g[n] = m /\ \A i \in 1..Len(h) : g[i] = h[i]
  BY DEF Extended
<1>1. DOMAIN g = 1..n /\ DOMAIN h = 1..Len(h) /\ Len(h) \in Nat
  BY DEF Extended
<1>2. ASSUME NEW i PROVE i \in UserTurns(g) <=>
                             i \in UserTurns(h) \/ (i = n /\ m.kind = "user")
  <2>1. i \in 1..n <=> i \in 1..Len(h) \/ i = n
    BY <1>1
  <2>2. n \notin 1..Len(h)
    BY <1>1
  <2> QED
    BY <1>0, <1>1, <2>1, <2>2 DEF UserTurns
<1>3. n \notin UserTurns(h)
  BY <1>1 DEF UserTurns
<1>4. CASE m.kind = "user"
  <2>1. UserTurns(g) = UserTurns(h) \cup {n}
    BY <1>2, <1>4
  <2>2. Cardinality(UserTurns(g)) = Cardinality(UserTurns(h)) + 1
    BY <1>3, <2>1, PositionsFinite, FS_AddElement
  <2>3. ASSUME NEW i \in 1..Len(h)
        PROVE  Cardinality(After(g, i)) = Cardinality(After(h, i)) + 1
    <3>1. n > i
      BY <1>1
    <3>2. After(g, i) = After(h, i) \cup {n}
      BY <2>1, <3>1 DEF After
    <3>3. n \notin After(h, i)
      BY <1>3 DEF After
    <3> QED
      BY <3>2, <3>3, PositionsFinite, FS_AddElement
  <2> QED
    BY <1>4, <2>2, <2>3
<1>5. CASE m.kind # "user"
  <2>1. UserTurns(g) = UserTurns(h)
    BY <1>2, <1>5
  <2> QED
    BY <1>5, <2>1
<1> QED
  BY <1>4, <1>5

\* The end of a history from position c on.
LEMMA Suffix ==
    ASSUME NEW h \in Seq(Message), NEW c \in 1..Len(h), NEW g, g = SubSeq(h, c, Len(h))
    PROVE  /\ g \in Seq(Message) /\ Len(g) = Len(h) - c + 1
           /\ \A i \in 1..Len(g) : g[i] = h[i + c - 1]
           /\ Cardinality(UserTurns(g)) = Cardinality(From(UserTurns(h), c))
           /\ \A i \in 1..Len(g) :
                  /\ Answered(g, i) <=> Answered(h, i + c - 1)
                  /\ Cardinality(After(g, i)) = Cardinality(After(h, i + c - 1))
<1> DEFINE n == Len(h)
<1>1. n \in Nat /\ c \in Nat /\ c >= 1 /\ c <= n
  BY LenProperties
<1>2. \A i \in c..n : h[i] \in Message
  <2>1. \A i \in c..n : i \in 1..n
    BY <1>1
  <2> QED
    BY <2>1, ElementOfSeq
<1>3. /\ g \in Seq(Message) /\ Len(g) = n - c + 1
      /\ \A i \in 1..(n - c + 1) : g[i] = h[c + i - 1]
  <2> HIDE DEF n
  <2>1. c \in Int /\ n \in Int
    BY <1>1
  <2> QED
    BY <1>1, <1>2, <2>1, SubSeqProperties DEF n
<1>4. \A i \in 1..Len(g) : g[i] = h[i + c - 1]
  <2>1. \A i \in 1..(n - c + 1) : c + i - 1 = i + c - 1
    BY <1>1
  <2> QED
    BY <1>3, <2>1
<1>5. DOMAIN g = 1..(n - c + 1) /\ DOMAIN h = 1..n
  BY <1>3, LenProperties
<1>6. ASSUME NEW i \in Nat PROVE i \in UserTurns(g) <=> i + (c - 1) \in From(UserTurns(h), c)
  <2>1. i \in 1..(n - c + 1) <=> i + (c - 1) \in 1..n /\ i + (c - 1) >= c
    BY <1>1
  <2>2. i \in 1..(n - c + 1) => g[i] = h[i + (c - 1)]
    BY <1>3, <1>1
  <2> QED
    BY <1>5, <2>1, <2>2 DEF UserTurns, From
<1> DEFINE d == c - 1
<1>7. d \in Nat /\ UserTurns(h) \subseteq Nat /\ UserTurns(g) \subseteq Nat
  <2>1. d \in Nat
    BY <1>1
  <2>2. UserTurns(h) \subseteq Nat /\ UserTurns(g) \subseteq Nat
    BY <1>3, PositionsFinite
  <2> QED
    BY <2>1, <2>2
<1>8. Cardinality(UserTurns(g)) = Cardinality(From(UserTurns(h), c))
  <2> DEFINE F == From(UserTurns(h), c)
  <2>1. F \subseteq UserTurns(h) /\ \A j \in F : j >= c
    BY DEF From
  <2>2. F \in SUBSET Nat /\ IsFiniteSet(F)
    <3> HIDE DEF F
    <3> QED
      BY <1>7, <2>1, PositionsFinite, FS_Subset
  <2>3. UserTurns(g) = {j - d : j \in F}
    <3>1. ASSUME NEW i \in UserTurns(g) PROVE i \in {j - d : j \in F}
      <4>1. i \in Nat /\ i = (i + d) - d
        BY <1>7
      <4>2. i + d \in F
        BY <1>6, <4>1
      <4> HIDE DEF F, d
      <4> QED
        BY <4>1, <4>2
    <3>2. ASSUME NEW j \in F PROVE j - d \in UserTurns(g)
      <4>1. j - d \in Nat /\ (j - d) + d = j
        BY <1>1, <2>1, <2>2
      <4> QED
        BY <1>6, <4>1
    <3> HIDE DEF F, d
    <3> QED
      BY <3>1, <3>2
  <2> HIDE DEF F, d
  <2> QED
    BY <1>7, <2>2, <2>3, Moved DEF F
<1>9. ASSUME NEW i \in 1..Len(g)
      PROVE  /\ Answered(g, i) <=> Answered(h, i + c - 1)
             /\ Cardinality(After(g, i)) = Cardinality(After(h, i + c - 1))
  <2>1. i \in Nat /\ i >= 1 /\ i <= n - c + 1 /\ i + d \in 1..n /\ i + d = i + c - 1
    BY <1>1, <1>3
  <2>2. Answered(g, i) <=> Answered(h, i + d)
    <3>1. g[i] = h[i + d] /\ (i < Len(g) <=> i + d < n)
      BY <1>1, <1>3, <1>4, <2>1
    <3>2. i < Len(g) => g[i + 1] = h[i + d + 1]
      <4>1. SUFFICES ASSUME i < Len(g) PROVE g[i + 1] = h[i + d + 1]
        OBVIOUS
      <4>2. i + 1 \in 1..Len(g) /\ (i + 1) + c - 1 = i + d + 1
        BY <1>1, <1>3, <2>1, <4>1
      <4> QED
        BY <1>4, <4>2
    <3> QED
      BY <3>1, <3>2 DEF Answered
  <2> DEFINE A == After(h, i + d)
  <2>3. A \subseteq UserTurns(h) /\ IsFiniteSet(A) /\ A \in SUBSET Nat
    BY PositionsFinite DEF After
  <2>4. After(g, i) = {j - d : j \in A}
    <3>1. ASSUME NEW k \in After(g, i) PROVE k \in {j - d : j \in A}
      <4>1. k \in UserTurns(g) /\ k \in Nat /\ k > i
        BY <1>7 DEF After
      <4>2. k + d \in UserTurns(h)
        BY <1>6, <4>1 DEF From
      <4>3. k + d > i + d /\ k = (k + d) - d
        BY <1>7, <2>1, <4>1
      <4>4. k + d \in A
        BY <4>2, <4>3 DEF After
      <4> HIDE DEF A, d
      <4> QED
        BY <4>3, <4>4
    <3>2. ASSUME NEW j \in A PROVE j - d \in After(g, i)
      <4>1. j \in UserTurns(h) /\ j \in Nat /\ j > i + d
        BY <1>7 DEF After
      <4>2. j - d \in Nat /\ (j - d) + d = j /\ j - d > i /\ j >= c
        BY <1>1, <2>1, <4>1
      <4>3. j - d \in UserTurns(g)
        BY <1>6, <4>1, <4>2 DEF From
      <4> QED
        BY <4>2, <4>3 DEF After
    <3> HIDE DEF A, d
    <3> QED
      BY <3>1, <3>2
  <2>5. Cardinality(After(g, i)) = Cardinality(A)
    <3> HIDE DEF A, d
    <3> QED
      BY <1>7, <2>3, <2>4, Moved
  <2> QED
    BY <2>1, <2>2, <2>5
<1> QED
  BY <1>3, <1>4, <1>8, <1>9

\* Trimming keeps the limit and whole exchanges, and what follows a message.
\* What trimming does: nothing, or a cut at the user's turn that begins the last
\* MaxHistoryTurns exchanges.
LEMMA TrimmedCut ==
    ASSUME NEW h \in Seq(Message), NEW g, g = Trimmed(h)
    PROVE  \/ g = h /\ (MaxHistoryTurns > 0 => Cardinality(UserTurns(h)) <= MaxHistoryTurns)
           \/ \E c \in UserTurns(h) :
                  /\ g = SubSeq(h, c, Len(h))
                  /\ Cardinality(From(UserTurns(h), c)) = MaxHistoryTurns
<1>1. CASE Cardinality(UserTurns(h)) <= MaxHistoryTurns \/ MaxHistoryTurns = 0
  <2>1. g = h
    BY <1>1 DEF Trimmed
  <2>2. MaxHistoryTurns > 0 => Cardinality(UserTurns(h)) <= MaxHistoryTurns
    BY <1>1, AgentAssumption
  <2> QED
    BY <2>1, <2>2
<1>2. CASE ~(Cardinality(UserTurns(h)) <= MaxHistoryTurns \/ MaxHistoryTurns = 0)
  <2> DEFINE Cut(i) == Cardinality({j \in UserTurns(h) : j >= i}) = MaxHistoryTurns
  <2> DEFINE c == CHOOSE i \in UserTurns(h) : Cut(i)
  <2>1. g = SubSeq(h, c, Len(h))
    BY <1>2 DEF Trimmed
  <2>2. c \in UserTurns(h) /\ Cardinality(From(UserTurns(h), c)) = MaxHistoryTurns
    <3>1. Len(h) \in Nat /\ MaxHistoryTurns \in Nat /\ MaxHistoryTurns > 0
      BY <1>2, LenProperties, AgentAssumption
    <3>2. Cardinality(UserTurns(h)) > MaxHistoryTurns
      BY <1>2, <3>1, PositionsFinite
    <3>3. \E i \in UserTurns(h) : Cardinality(From(UserTurns(h), i)) = MaxHistoryTurns
      BY <3>1, <3>2, PositionsFinite, CutExists
    <3>4. \E i \in UserTurns(h) : Cut(i)
      BY <3>3 DEF From
    <3>5. c \in UserTurns(h) /\ Cut(c)
      <4> HIDE DEF Cut
      <4> QED
        BY <3>4
    <3> QED
      BY <3>5 DEF From
  <2> HIDE DEF c
  <2> QED
    BY <2>1, <2>2
<1> QED
  BY <1>1, <1>2

LEMMA TrimmedIs ==
    ASSUME NEW h \in Seq(Message), Whole(h), NEW g, g = Trimmed(h)
    PROVE  /\ g \in Seq(Message) /\ Whole(g)
           /\ MaxHistoryTurns > 0 => Cardinality(UserTurns(g)) <= MaxHistoryTurns
           /\ \A i \in DOMAIN g : ~Answered(g, i) =>
                  \E j \in DOMAIN h :
                      ~Answered(h, j) /\ Cardinality(After(g, i)) = Cardinality(After(h, j))
<1>1. CASE g = h /\ (MaxHistoryTurns > 0 => Cardinality(UserTurns(h)) <= MaxHistoryTurns)
  BY <1>1
<1>2. CASE \E c \in UserTurns(h) :
               /\ g = SubSeq(h, c, Len(h))
               /\ Cardinality(From(UserTurns(h), c)) = MaxHistoryTurns
  <2>1. PICK c \in UserTurns(h) : /\ g = SubSeq(h, c, Len(h))
                                 /\ Cardinality(From(UserTurns(h), c)) = MaxHistoryTurns
    BY <1>2
  <2>2. Cardinality(From(UserTurns(h), c)) = MaxHistoryTurns
    BY <2>1
  <2>3. c \in 1..Len(h) /\ Len(h) \in Nat /\ h[c].kind = "user"
    BY <2>2, PositionsFinite, LenProperties DEF UserTurns
  <2>4. /\ g \in Seq(Message) /\ Len(g) = Len(h) - c + 1
        /\ \A i \in 1..Len(g) : g[i] = h[i + c - 1]
        /\ Cardinality(UserTurns(g)) = MaxHistoryTurns
        /\ \A i \in 1..Len(g) :
               /\ Answered(g, i) <=> Answered(h, i + c - 1)
               /\ Cardinality(After(g, i)) = Cardinality(After(h, i + c - 1))
    BY <2>1, <2>2, <2>3, Suffix
  <2>5. DOMAIN g = 1..Len(g) /\ DOMAIN h = 1..Len(h)
    BY <2>4, LenProperties
  <2>6. \A i \in 1..Len(g) : i + c - 1 \in 1..Len(h)
    BY <2>3, <2>4
  <2>7. Whole(g)
    <3>1. g[1] = h[c]
      BY <2>3, <2>4
    <3>2. ASSUME NEW i \in 1..Len(g), g[i].kind = "tool"
          PROVE  g[i - 1].kind = "assistant" /\ g[i - 1].calls = g[i].calls
      <4>1. i # 1
        BY <2>3, <3>1, <3>2
      <4>2. i - 1 \in 1..Len(g) /\ (i - 1) + c - 1 = (i + c - 1) - 1
        BY <2>3, <2>4, <4>1
      <4>3. h[i + c - 1].kind = "tool"
        BY <2>4, <3>2
      <4> QED
        BY <2>4, <2>5, <2>6, <4>2, <4>3 DEF Whole
    <3>3. ASSUME NEW i \in 1..Len(g), ~Answered(g, i), i < Len(g)
          PROVE  g[i + 1].kind = "user"
      <4>1. i + 1 \in 1..Len(g) /\ (i + 1) + c - 1 = (i + c - 1) + 1 /\ i + c - 1 < Len(h)
        BY <2>3, <2>4, <3>3
      <4>2. ~Answered(h, i + c - 1)
        BY <2>4, <3>3
      <4>3. h[(i + c - 1) + 1].kind = "user"
        BY <2>5, <2>6, <4>1, <4>2 DEF Whole
      <4> QED
        BY <2>4, <4>1, <4>3
    <3> QED
      BY <2>3, <2>5, <3>1, <3>2, <3>3 DEF Whole
  <2>8. ASSUME NEW i \in DOMAIN g, ~Answered(g, i)
        PROVE  \E j \in DOMAIN h :
                   ~Answered(h, j) /\ Cardinality(After(g, i)) = Cardinality(After(h, j))
    BY <2>4, <2>5, <2>6, <2>8
  <2>9. MaxHistoryTurns <= MaxHistoryTurns
    BY AgentAssumption
  <2> QED
    BY <2>4, <2>7, <2>8, <2>9
<1> QED
  BY <1>1, <1>2, TrimmedCut

-----------------------------------------------------------------------------
\* The steps

\* What a step is to the agent.
LEMMA StepIs ==
    ASSUME [Next]_vars
    PROVE  \/ UNCHANGED agentVars
           \/ Handles \/ Leaves \/ Restarts
           \/ \E r \in Responses : Responds(r)
           \/ RequestFails \/ RequestRefused \/ Executes \/ ExecutesInVain
           \/ Silent \/ Synthesizes \/ VoiceFallsBack \/ VoiceFails
           \/ FirstPartQueued \/ ReplyQueued
BY DEF Next, Wakes, Answers, Rearms, Returned, AgentStep, Rounds, Reply, vars

LEMMA InitAgent == Init => AgentInv
<1> SUFFICES ASSUME Init PROVE AgentInv
  OBVIOUS
<1> USE DEF Init, AgentInit
<1>1. history = <<>> /\ phase = "idle" /\ round = 0 /\ refused = 0
  OBVIOUS
<1>2. AgentFlags
  BY DEF AgentFlags
<1>3. AgentPlaces
  BY <1>1, EmptySeq, AgentAssumption DEF AgentPlaces, Phases, NoResponse, Response
<1>4. DOMAIN history = {} /\ UserTurns(history) = {}
  BY <1>1 DEF UserTurns
<1>5. Begun /\ Executing /\ Offered
  BY <1>1 DEF Begun, Executing, Offered, SttInit, Idle
<1>6. Whole(history)
  BY <1>1, <1>4 DEF Whole
<1>7. Cardinality(UserTurns(history)) = 0
  BY <1>4, FS_EmptySet
<1>8. Limited /\ Refusals
  BY <1>1, <1>4, <1>7, AgentAssumption DEF Limited, Refusals
<1> QED
  BY <1>2, <1>3, <1>5, <1>6, <1>8 DEF AgentInv

LEMMA FlagsStep == ASSUME AgentInv, [Next]_vars PROVE AgentFlags'
<1> USE DEF AgentInv, AgentFlags
<1>1. ASSUME NEW r \in Responses, Responds(r) PROVE AgentFlags'
  <2>1. r.text \in BOOLEAN
    BY AgentAssumption DEF Response
  <2> QED
    BY <1>1, <2>1 DEF Responds
<1>2. CASE Executes
  <2>1. Words(response) \in BOOLEAN /\ Offers(response) \in BOOLEAN
    BY DEF Words, Offers
  <2> QED
    BY <1>2, <2>1 DEF Executes
<1>3. CASE UNCHANGED agentVars
  BY <1>3 DEF agentVars
<1>4. CASE Handles \/ Leaves \/ Restarts \/ RequestFails \/ RequestRefused \/ ExecutesInVain
  BY <1>4 DEF Handles, Leaves, Restarts, RequestFails, RequestRefused, ExecutesInVain
<1>5. CASE Silent \/ Synthesizes \/ VoiceFallsBack \/ VoiceFails \/ FirstPartQueued \/ ReplyQueued
  BY <1>5 DEF Silent, Synthesizes, VoiceFallsBack, VoiceFails, FirstPartQueued, ReplyQueued
<1> QED
  BY <1>1, <1>2, <1>3, <1>4, <1>5, StepIs

\* A transcription that has not begun takes no step.
LEMMA TranscribesBusy == ASSUME IInv, SttStep PROVE stt # "none"
<1> SUFFICES ASSUME stt = "none" PROVE FALSE
  OBVIOUS
<1>1. ~recording /\ sender = "none"
  BY DEF IInv, Tasks, Places
<1>2. CASE Feeding
  BY <1>1, <1>2 DEF Feeding, Feeds, Closes, NobodySpeaks, Abandons
<1>3. CASE Sending
  BY <1>1, <1>3 DEF Sending, SenderPulls, SenderSends, SenderEnds
<1>4. CASE Answering
  BY <1>4 DEF Answering, Connects, ConnectFails, TimesOut, ReceiverFails, Hears, HearsUnknown,
              FluxEndsTurn, NovaDone, SocketDrops, Returns, DrainPulls, DrainEnds, PostAnswers,
              PostFails, Receiving, Streaming
<1> QED
  BY <1>2, <1>3, <1>4 DEF SttStep

LEMMA BegunStep == ASSUME IInv, AgentInv, [Next]_vars PROVE (stt # "none" => phase = "idle")'
<1> USE DEF AgentInv, Begun
<1>1. CASE AgentStep /\ UNCHANGED sttVars
  BY <1>1 DEF AgentStep, Rounds, Reply, sttVars, Responds, RequestFails, RequestRefused, Executes,
              ExecutesInVain, Silent, Synthesizes, VoiceFallsBack, VoiceFails, FirstPartQueued,
              ReplyQueued
<1>2. CASE SttStep /\ UNCHANGED agentVars
  BY <1>2, TranscribesBusy DEF agentVars
<1>3. CASE Wakes \/ Answers \/ Rearms \/ Restarts
  BY <1>3 DEF Wakes, Answers, Rearms, Restarts, ResultTaken, Over, agentVars
<1>4. CASE Returned
  BY <1>4 DEF Returned, Leaves, sttVars
<1>5. CASE UNCHANGED vars
  BY <1>5 DEF vars, sttVars, agentVars
<1> QED
  BY <1>1, <1>2, <1>3, <1>4, <1>5 DEF Next

\* The first call of express is the one whose words are read.
LEMMA OffersIs == ASSUME NEW r \in Response, Offers(r) PROVE Words(r) /\ ~NeedsFollowUp(r)
<1> DEFINE First(i) == r.calls[i].name = "express" /\ \A j \in 1..(i - 1) : r.calls[j].name # "express"
<1>1. ~NeedsFollowUp(r)
  BY DEF Offers, NeedsFollowUp
<1>2. CASE r.text
  BY <1>1, <1>2 DEF Words
<1>3. ASSUME NEW i \in DOMAIN r.calls, First(i), r.calls[i].spoken PROVE Words(r)
  <2> DEFINE k == CHOOSE k \in DOMAIN r.calls : First(k)
  <2>1. k \in DOMAIN r.calls /\ First(k)
    <3> HIDE DEF First
    <3> QED
      BY <1>3
  <2>2. DOMAIN r.calls \subseteq Nat /\ \A j \in DOMAIN r.calls : j >= 1
    <3>1. r.calls \in Seq(Call)
      BY DEF Response
    <3>2. DOMAIN r.calls = 1..Len(r.calls) /\ Len(r.calls) \in Nat
      BY <3>1, LenProperties
    <3> QED
      BY <3>2
  <2> HIDE DEF k
  <2>3. k \in Nat /\ i \in Nat /\ k >= 1 /\ i >= 1
    BY <1>3, <2>1, <2>2
  <2>4. ~(k < i)
    <3>1. SUFFICES ASSUME k < i PROVE FALSE
      OBVIOUS
    <3>2. k \in 1..(i - 1)
      BY <2>3, <3>1
    <3> QED
      BY <1>3, <2>1, <3>2
  <2>5. ~(i < k)
    <3>1. SUFFICES ASSUME i < k PROVE FALSE
      OBVIOUS
    <3>2. i \in 1..(k - 1)
      BY <2>3, <3>1
    <3> QED
      BY <1>3, <2>1, <3>2
  <2>6. i = k
    BY <2>3, <2>4, <2>5
  <2>7. Expression(r) = r.calls[i]
    BY <2>6 DEF Expression, k
  <2>8. Expresses(r)
    BY <1>3 DEF Expresses
  <2> QED
    BY <1>3, <2>7, <2>8 DEF Words
<1> QED
  BY <1>1, <1>2, <1>3 DEF Offers

LEMMA OfferedStep == ASSUME AgentInv, [Next]_vars PROVE Offered'
<1> USE DEF AgentInv, Offered, Ends
<1>1. ASSUME NEW r \in Responses, Responds(r) PROVE Offered'
  BY <1>1 DEF Responds
<1>2. CASE Executes
  <2>1. response \in Response
    BY DEF AgentPlaces
  <2>2. ~offered
    BY <1>2 DEF Executes
  <2>3. CASE Words(response) /\ ~NeedsFollowUp(response)
    BY <1>2, <2>3 DEF Executes
  <2>4. CASE ~(Words(response) /\ ~NeedsFollowUp(response))
    <3>1. ~Offers(response)
      BY <2>1, <2>4, OffersIs
    <3> QED
      BY <1>2, <2>2, <2>4, <3>1 DEF Executes
  <2> QED
    BY <2>3, <2>4
<1>3. CASE UNCHANGED agentVars
  BY <1>3 DEF agentVars
<1>4. CASE Handles \/ Restarts \/ RequestFails \/ RequestRefused \/ ExecutesInVain
  BY <1>4 DEF Handles, Restarts, RequestFails, RequestRefused, ExecutesInVain
<1>5. CASE Leaves
  BY <1>5 DEF Leaves
<1>6. CASE Silent \/ Synthesizes \/ VoiceFallsBack \/ VoiceFails \/ FirstPartQueued \/ ReplyQueued
  BY <1>6 DEF Silent, Synthesizes, VoiceFallsBack, VoiceFails, FirstPartQueued, ReplyQueued
<1> QED
  BY <1>1, <1>2, <1>3, <1>4, <1>5, <1>6, StepIs

LEMMA MessagesAre ==
    /\ UserTurn \in Message
    /\ \A r \in Response : /\ AssistantTurn(r) \in Message /\ ToolTurn(r) \in Message
                           /\ Len(r.calls) \in Nat
<1>1. ASSUME NEW r \in Response PROVE Len(r.calls) \in Nat
  <2>1. r.calls \in Seq(Call)
    BY DEF Response
  <2> QED
    BY <2>1, LenProperties
<1> QED
  BY <1>1 DEF UserTurn, AssistantTurn, ToolTurn, Message

\* A turn that ends is trimmed.
LEMMA TurnTrimmed ==
    ASSUME NEW h \in Seq(Message), Whole(h), history' = Trimmed(h), phase' = "over",
           refused' \in Nat, MaxHistoryTurns > 0 => refused' <= MaxHistoryTurns,
           \A i \in DOMAIN h : ~Answered(h, i) => Cardinality(After(h, i)) >= refused'
    PROVE  history' \in Seq(Message) /\ Whole(history') /\ Executing' /\ Limited' /\ Refusals'
<1>1. /\ history' \in Seq(Message) /\ Whole(history')
      /\ MaxHistoryTurns > 0 => Cardinality(UserTurns(history')) <= MaxHistoryTurns
      /\ \A i \in DOMAIN history' : ~Answered(history', i) =>
             \E j \in DOMAIN h :
                 ~Answered(h, j) /\ Cardinality(After(history', i)) = Cardinality(After(h, j))
  BY TrimmedIs
<1>2. Executing'
  BY DEF Executing
<1>3. Limited'
  <2>1. Cardinality(UserTurns(history')) \in Nat /\ MaxHistoryTurns \in Nat
    BY <1>1, PositionsFinite, AgentAssumption
  <2> QED
    BY <1>1, <2>1 DEF Limited
<1>4. Refusals'
  <2>1. ASSUME NEW i \in DOMAIN history', ~Answered(history', i)
        PROVE  Cardinality(After(history', i)) >= refused' + 0
    <3>1. PICK j \in DOMAIN h :
              ~Answered(h, j) /\ Cardinality(After(history', i)) = Cardinality(After(h, j))
      BY <1>1, <2>1
    <3> QED
      BY <3>1
  <2> QED
    BY <2>1 DEF Refusals
<1> QED
  BY <1>1, <1>2, <1>3, <1>4

HistoryInv == Whole(history) /\ Executing /\ Limited /\ Refusals

\* A transcript is appended.
LEMMA HandlesKeeps ==
    ASSUME AgentInv, Handles PROVE history' \in Seq(Message) /\ HistoryInv' /\ history' # <<>>
<1> USE DEF AgentInv, AgentPlaces, HistoryInv
<1> DEFINE h == history
<1> DEFINE g == Append(h, UserTurn)
<1>1. phase = "idle" /\ phase' = "asking" /\ history' = g /\ refused' = refused
  BY DEF Handles
<1>2. UserTurn \in Message /\ UserTurn.kind = "user"
  BY MessagesAre DEF UserTurn
<1>3. h \in Seq(Message) /\ refused \in Nat /\ MaxHistoryTurns \in Nat
  BY AgentAssumption
<1>0. Extended(g, h, UserTurn)
  BY <1>2, <1>3, Appended
<1> HIDE DEF g
<1>4. /\ g \in Seq(Message) /\ g # <<>> /\ Len(g) = Len(h) + 1 /\ g[Len(h) + 1] = UserTurn
      /\ DOMAIN g = 1..(Len(h) + 1) /\ DOMAIN h = 1..Len(h) /\ Len(h) \in Nat
      /\ \A i \in 1..Len(h) : g[i] = h[i]
      /\ \A i \in 1..Len(h) : Answered(g, i) <=> Answered(h, i)
  BY <1>0, <1>2 DEF Extended
<1>5. /\ Cardinality(UserTurns(g)) = Cardinality(UserTurns(h)) + 1
      /\ \A i \in 1..Len(h) : Cardinality(After(g, i)) = Cardinality(After(h, i)) + 1
  BY <1>0, <1>2, <1>3, AppendedCount
<1>6. /\ Cardinality(UserTurns(h)) \in Nat
      /\ \A i \in 1..Len(h) : Cardinality(After(h, i)) \in Nat
  BY <1>3, PositionsFinite
<1>7. Answered(g, Len(g))
  BY <1>2, <1>4 DEF Answered
<1>8. Whole(g)
  <2>1. g[1].kind = "user"
    <3>1. CASE h = <<>>
      BY <1>2, <1>4, <3>1
    <3>2. CASE h # <<>>
      <4>1. Len(h) \in Nat \ {0}
        BY <1>3, <3>2, EmptySeq
      <4>2. 1 \in 1..Len(h)
        BY <4>1
      <4> QED
        BY <1>4, <3>2, <4>2 DEF Whole
    <3> QED
      BY <3>1, <3>2
  <2>2. ASSUME NEW i \in 1..(Len(h) + 1), g[i].kind = "tool"
        PROVE  g[i - 1].kind = "assistant" /\ g[i - 1].calls = g[i].calls
    <3>1. i \in 1..Len(h) /\ h[i].kind = "tool"
      BY <1>2, <1>4, <2>2
    <3>2. i # 1
      BY <1>2, <2>1, <2>2
    <3>3. i - 1 \in 1..Len(h)
      BY <3>1, <3>2, <1>4
    <3> QED
      BY <1>4, <3>1, <3>3 DEF Whole
  <2>3. ASSUME NEW i \in 1..(Len(h) + 1), ~Answered(g, i), i < Len(g)
        PROVE  g[i + 1].kind = "user"
    <3>1. i \in 1..Len(h) /\ ~Answered(h, i)
      BY <1>4, <2>3
    <3>2. CASE i < Len(h)
      <4>1. i + 1 \in 1..Len(h)
        BY <1>4, <3>1, <3>2
      <4> QED
        BY <1>4, <3>1, <3>2, <4>1 DEF Whole
    <3>3. CASE ~(i < Len(h))
      <4>1. i + 1 = Len(g)
        BY <1>4, <3>1, <3>3
      <4> QED
        BY <1>2, <1>4, <4>1
    <3> QED
      BY <3>2, <3>3
  <2> QED
    BY <1>4, <2>1, <2>2, <2>3 DEF Whole
<1>9. Executing'
  BY <1>1 DEF Executing
<1>10. Limited'
  <2>1. MaxHistoryTurns > 0 => Cardinality(UserTurns(h)) <= MaxHistoryTurns
    BY <1>1, <1>3, <1>6 DEF Limited
  <2>2. MaxHistoryTurns > 0 => Cardinality(UserTurns(g)) <= MaxHistoryTurns + 1
    BY <1>3, <1>5, <1>6, <2>1
  <2> QED
    BY <1>1, <2>2 DEF Limited
<1>11. Refusals'
  <2>1. ASSUME NEW i \in 1..(Len(h) + 1), ~Answered(g, i)
        PROVE  Cardinality(After(g, i)) >= refused + 1
    <3>1. i # Len(g)
      BY <1>7, <2>1
    <3>2. i \in 1..Len(h)
      BY <1>4, <3>1
    <3>3. Cardinality(After(h, i)) >= refused + 0
      BY <1>1, <1>4, <2>1, <3>2 DEF Refusals
    <3> QED
      BY <1>3, <1>5, <1>6, <3>2, <3>3
  <2>2. MaxHistoryTurns > 0 => refused' <= MaxHistoryTurns
    BY <1>1 DEF Refusals
  <2>3. \A i \in DOMAIN history' : ~Answered(history', i) =>
            Cardinality(After(history', i)) >= refused' + 1
    BY <1>1, <1>4, <2>1
  <2> QED
    BY <1>1, <2>2, <2>3 DEF Refusals
<1> QED
  BY <1>1, <1>4, <1>8, <1>9, <1>10, <1>11

\* An accepted history has no calls at its end, and so none that a message more
\* would leave without results.
LEMMA AcceptedStays ==
    ASSUME NEW h \in Seq(Message), NEW m \in Message, NEW g, Extended(g, h, m),
           \A i \in 1..Len(h) : Answered(h, i), NEW i \in 1..Len(h)
    PROVE  Answered(g, i)
<1>1. Len(h) \in Nat /\ g[i] = h[i] /\ (i < Len(h) => (Answered(g, i) <=> Answered(h, i)))
  BY DEF Extended
<1>2. CASE i < Len(h)
  BY <1>1, <1>2
<1>3. CASE ~(i < Len(h))
  <2>1. ~(h[i].kind = "assistant" /\ h[i].calls > 0)
    BY <1>3 DEF Answered
  <2> QED
    BY <1>1, <2>1 DEF Answered
<1> QED
  BY <1>2, <1>3

\* A response is appended to a history that was accepted.
LEMMA RespondsKeeps ==
    ASSUME AgentInv, NEW r \in Responses, Responds(r)
    PROVE  history' \in Seq(Message) /\ HistoryInv' /\ history' # <<>>
<1> USE DEF AgentInv, AgentPlaces, HistoryInv
<1> DEFINE h == history
<1> DEFINE m == AssistantTurn(r)
<1> DEFINE g == Append(h, m)
<1>1. /\ phase = "asking" /\ phase' \in {"replying", "executing"}
      /\ phase' = "executing" => round # MaxToolRounds
      /\ history' = g /\ refused' = 0 /\ round' = round /\ response' = r
      /\ Accepted(h)
  BY DEF Responds, OutOfRounds
<1>2. r \in Response /\ m \in Message /\ m.kind = "assistant"
  BY MessagesAre, AgentAssumption DEF AssistantTurn
<1>3. h \in Seq(Message) /\ h # <<>> /\ MaxHistoryTurns \in Nat
  BY <1>1, AgentAssumption DEF Begun
<1> HIDE DEF m
<1>0. Extended(g, h, m)
  BY <1>2, <1>3, Appended
<1> HIDE DEF g
<1>4. /\ g \in Seq(Message) /\ g # <<>> /\ Len(g) = Len(h) + 1 /\ g[Len(h) + 1] = m
      /\ DOMAIN g = 1..(Len(h) + 1) /\ DOMAIN h = 1..Len(h) /\ Len(h) \in Nat
      /\ \A i \in 1..Len(h) : g[i] = h[i]
      /\ \A i \in 1..Len(h) : i < Len(h) => (Answered(g, i) <=> Answered(h, i))
  BY <1>0, <1>2 DEF Extended
<1>5. UserTurns(g) = UserTurns(h)
  BY <1>0, <1>2, <1>3, AppendedCount
<1>6. \A i \in 1..Len(h) : Answered(h, i)
  BY <1>1, <1>4 DEF Accepted
<1>7. ASSUME NEW i \in 1..Len(h) PROVE Answered(g, i)
  BY <1>0, <1>2, <1>3, <1>6, AcceptedStays
<1>8. Whole(g)
  <2>1. g[1].kind = "user"
    <3>1. Len(h) \in Nat \ {0}
      BY <1>3, EmptySeq
    <3>2. 1 \in 1..Len(h)
      BY <3>1
    <3> QED
      BY <1>3, <1>4, <3>2 DEF Whole
  <2>2. ASSUME NEW i \in 1..(Len(h) + 1), g[i].kind = "tool"
        PROVE  g[i - 1].kind = "assistant" /\ g[i - 1].calls = g[i].calls
    <3>1. i \in 1..Len(h) /\ h[i].kind = "tool"
      BY <1>2, <1>4, <2>2
    <3>2. i # 1
      BY <2>1, <2>2
    <3>3. i - 1 \in 1..Len(h)
      BY <3>1, <3>2, <1>4
    <3> QED
      BY <1>4, <3>1, <3>3 DEF Whole
  <2>3. \A i \in 1..(Len(h) + 1) : i < Len(g) => Answered(g, i)
    <3>1. \A i \in 1..(Len(h) + 1) : i < Len(g) => i \in 1..Len(h)
      BY <1>4
    <3> QED
      BY <1>7, <3>1
  <2> QED
    BY <1>4, <2>1, <2>2, <2>3 DEF Whole
<1>9. Executing'
  <2>1. \A i \in DOMAIN history' : i < Len(history') => Answered(history', i)
    <3>1. \A i \in 1..(Len(h) + 1) : i < Len(g) => i \in 1..Len(h)
      BY <1>4
    <3> QED
      BY <1>1, <1>4, <1>7, <3>1
  <2>2. history'[Len(history')] = AssistantTurn(response')
    BY <1>1, <1>4 DEF m
  <2> QED
    BY <1>1, <2>1, <2>2 DEF Executing, AssistantTurn
<1>10. Limited'
  BY <1>1, <1>5 DEF Limited
<1>11. Refusals'
  BY <1>1, <1>3 DEF Refusals
<1> QED
  BY <1>1, <1>4, <1>8, <1>9, <1>10, <1>11

\* The calls that are executed are answered, all of them.
LEMMA ResultsAnswer ==
    ASSUME AgentInv, phase = "executing", NEW g, g = Append(history, ToolTurn(response))
    PROVE  /\ g \in Seq(Message) /\ g # <<>> /\ Whole(g)
           /\ \A i \in DOMAIN g : Answered(g, i)
           /\ UserTurns(g) = UserTurns(history)
<1> USE DEF AgentInv, AgentPlaces
<1> DEFINE h == history
<1> DEFINE m == ToolTurn(response)
<1>1. /\ h \in Seq(Message) /\ h # <<>> /\ h[Len(h)] = AssistantTurn(response)
      /\ \A i \in DOMAIN h : i < Len(h) => Answered(h, i)
  BY DEF Executing, Begun
<1>2. /\ m \in Message /\ m.kind = "tool" /\ m.calls = h[Len(h)].calls
      /\ h[Len(h)].kind = "assistant"
  BY <1>1, MessagesAre DEF ToolTurn, AssistantTurn
<1>0. Extended(g, h, m)
  BY <1>1, <1>2, Appended
<1> HIDE DEF m
<1>3. /\ g \in Seq(Message) /\ g # <<>> /\ Len(g) = Len(h) + 1 /\ g[Len(h) + 1] = m
      /\ DOMAIN g = 1..(Len(h) + 1) /\ DOMAIN h = 1..Len(h) /\ Len(h) \in Nat
      /\ \A i \in 1..Len(h) : g[i] = h[i]
      /\ \A i \in 1..Len(h) : i < Len(h) => (Answered(g, i) <=> Answered(h, i))
  BY <1>0 DEF Extended
<1>4. UserTurns(g) = UserTurns(h)
  BY <1>0, <1>1, <1>2, AppendedCount
<1>5. Len(h) >= 1
  BY <1>1, EmptySeq
<1>6. ASSUME NEW i \in 1..(Len(h) + 1) PROVE Answered(g, i)
  <2>1. CASE i < Len(h)
    BY <1>1, <1>3, <2>1
  <2>2. CASE i = Len(h)
    <3>1. g[i] = h[Len(h)] /\ g[i + 1] = m /\ i < Len(g)
      BY <1>3, <1>5, <2>2
    <3> QED
      BY <1>2, <3>1 DEF Answered
  <2>3. CASE i = Len(h) + 1
    BY <1>2, <1>3, <2>3 DEF Answered
  <2>4. Len(h) \in Nat
    BY <1>3
  <2>5. i < Len(h) \/ i = Len(h) \/ i = Len(h) + 1
    BY <2>4
  <2> QED
    BY <2>1, <2>2, <2>3, <2>5
<1>7. Whole(g)
  <2>1. g[1].kind = "user"
    <3>1. 1 \in 1..Len(h)
      BY <1>3, <1>5
    <3> QED
      BY <1>1, <1>3, <3>1 DEF Whole
  <2>2. ASSUME NEW i \in 1..(Len(h) + 1), g[i].kind = "tool"
        PROVE  g[i - 1].kind = "assistant" /\ g[i - 1].calls = g[i].calls
    <3>1. i # 1
      BY <2>1, <2>2
    <3>2. i - 1 \in 1..Len(h) /\ g[i - 1] = h[i - 1]
      BY <1>3, <3>1
    <3>3. CASE i \in 1..Len(h)
      BY <1>3, <2>2, <3>2, <3>3 DEF Whole
    <3>4. CASE i = Len(h) + 1
      BY <1>2, <1>3, <3>2, <3>4
    <3>5. i \in 1..Len(h) \/ i = Len(h) + 1
      BY <1>3
    <3> QED
      BY <3>3, <3>4, <3>5
  <2> QED
    BY <1>3, <1>6, <2>1, <2>2 DEF Whole
<1> QED
  BY <1>3, <1>4, <1>6, <1>7

LEMMA ExecutesKeeps ==
    ASSUME AgentInv, Executes PROVE history' \in Seq(Message) /\ HistoryInv' /\ history' # <<>>
<1> USE DEF AgentInv, AgentPlaces, HistoryInv
<1>1. /\ phase = "executing" /\ phase' \in {"replying", "asking"} /\ refused' = refused
      /\ history' = Append(history, ToolTurn(response))
  BY DEF Executes
<1>2. /\ history' \in Seq(Message) /\ history' # <<>> /\ Whole(history')
      /\ \A i \in DOMAIN history' : Answered(history', i)
      /\ UserTurns(history') = UserTurns(history)
  BY <1>1, ResultsAnswer
<1>3. Executing'
  BY <1>1 DEF Executing
<1>4. Limited'
  BY <1>1, <1>2 DEF Limited
<1>5. refused = 0
  BY <1>1 DEF Refusals
<1>6. Refusals'
  BY <1>1, <1>2, <1>5, AgentAssumption DEF Refusals
<1> QED
  BY <1>2, <1>3, <1>4, <1>6

LEMMA ExecutesInVainKeeps ==
    ASSUME AgentInv, ExecutesInVain PROVE history' \in Seq(Message) /\ HistoryInv'
<1> USE DEF AgentInv, AgentPlaces, HistoryInv
<1> DEFINE h == Append(history, ToolTurn(response))
<1>1. /\ phase = "executing" /\ phase' = "over" /\ refused' = refused /\ history' = Trimmed(h)
  BY DEF ExecutesInVain, Ends, TrimmedOnFailure
<1>2. h \in Seq(Message) /\ Whole(h) /\ \A i \in DOMAIN h : Answered(h, i)
  BY <1>1, ResultsAnswer
<1>3. refused = 0
  BY <1>1 DEF Refusals
<1>4. refused' \in Nat /\ (MaxHistoryTurns > 0 => refused' <= MaxHistoryTurns)
  BY <1>1, <1>3, AgentAssumption
<1> HIDE DEF h
<1> QED
  BY <1>1, <1>2, <1>4, TurnTrimmed

\* A turn that fails with its request keeps what follows the calls.
LEMMA RequestFailsKeeps ==
    ASSUME AgentInv, RequestFails PROVE history' \in Seq(Message) /\ HistoryInv'
<1> USE DEF AgentInv, AgentPlaces, HistoryInv
<1>1. phase = "asking" /\ phase' = "over" /\ refused' = refused /\ history' = Trimmed(history)
  BY DEF RequestFails, Ends, TrimmedOnFailure
<1>2. ASSUME NEW i \in DOMAIN history, ~Answered(history, i)
      PROVE  Cardinality(After(history, i)) >= refused'
  <2>1. Cardinality(After(history, i)) >= refused + 1
    BY <1>1, <1>2 DEF Refusals
  <2> QED
    BY <1>1, <2>1, PositionsFinite
<1>3. refused' \in Nat /\ (MaxHistoryTurns > 0 => refused' <= MaxHistoryTurns)
  BY <1>1 DEF Refusals
<1> QED
  BY <1>1, <1>2, <1>3, TurnTrimmed

\* A refused history has more user's turns behind the calls it is refused for than
\* it was refused, and one before them; the limit allows one more than itself.
LEMMA RequestRefusedKeeps ==
    ASSUME AgentInv, RequestRefused PROVE history' \in Seq(Message) /\ HistoryInv'
<1> USE DEF AgentInv, AgentPlaces, HistoryInv
<1>1. /\ phase = "asking" /\ phase' = "over" /\ refused' = refused + 1
      /\ history' = Trimmed(history) /\ ~Accepted(history)
  BY DEF RequestRefused, Ends, TrimmedOnFailure
<1>2. ASSUME NEW i \in DOMAIN history, ~Answered(history, i)
      PROVE  Cardinality(After(history, i)) >= refused'
  BY <1>1, <1>2 DEF Refusals
<1>3. MaxHistoryTurns \in Nat /\ refused \in Nat /\ refused' \in Nat
  BY <1>1, AgentAssumption
<1>4. ASSUME MaxHistoryTurns > 0 PROVE refused' <= MaxHistoryTurns
  <2> DEFINE U == UserTurns(history)
  <2>1. PICK i \in DOMAIN history : ~Answered(history, i)
    BY <1>1 DEF Accepted
  <2> DEFINE A == After(history, i)
  <2>2. Cardinality(A) >= refused'
    BY <1>2, <2>1
  <2>3. /\ IsFiniteSet(U) /\ IsFiniteSet(A)
        /\ Cardinality(U) \in Nat /\ Cardinality(A) \in Nat
    BY PositionsFinite
  <2>4. DOMAIN history = 1..Len(history) /\ Len(history) \in Nat
    BY LenProperties
  <2>5. 1 \in U /\ 1 \notin A
    <3>1. 1 \in DOMAIN history /\ ~(1 > i)
      BY <2>4
    <3>2. history[1].kind = "user"
      BY <1>1 DEF Begun, Whole
    <3> QED
      BY <3>1, <3>2 DEF UserTurns, After
  <2>6. A \cup {1} \in SUBSET U
    BY <2>5 DEF After
  <2>7. Cardinality(A \cup {1}) = Cardinality(A) + 1
    <3> HIDE DEF A, U
    <3> QED
      BY <2>3, <2>5, FS_AddElement
  <2>8. Cardinality(A \cup {1}) <= Cardinality(U)
    <3> HIDE DEF A, U
    <3> QED
      BY <2>3, <2>6, FS_Subset
  <2>9. Cardinality(U) <= MaxHistoryTurns + 1
    BY <1>1, <1>4 DEF Limited
  <2> HIDE DEF A, U
  <2> QED
    BY <1>3, <2>2, <2>3, <2>7, <2>8, <2>9
<1> QED
  BY <1>1, <1>2, <1>3, <1>4, TurnTrimmed

\* A reply that is done with, whatever it came to.
LEMMA ReplyEndsKeeps ==
    ASSUME AgentInv, Silent \/ VoiceFails \/ ReplyQueued
    PROVE  history' \in Seq(Message) /\ HistoryInv'
<1> USE DEF AgentInv, AgentPlaces, HistoryInv
<1>1. /\ phase \in {"replying", "speaking"} /\ phase' = "over" /\ refused' = refused
      /\ history' = Trimmed(history)
  BY DEF Silent, VoiceFails, ReplyQueued, Ends
<1>2. refused = 0
  BY <1>1 DEF Refusals
<1>3. ASSUME NEW i \in DOMAIN history, ~Answered(history, i)
      PROVE  Cardinality(After(history, i)) >= refused'
  <2>1. Cardinality(After(history, i)) \in Nat
    BY PositionsFinite
  <2> QED
    BY <1>1, <1>2, <2>1
<1>4. refused' \in Nat /\ (MaxHistoryTurns > 0 => refused' <= MaxHistoryTurns)
  BY <1>1, <1>2, AgentAssumption
<1> QED
  BY <1>1, <1>3, <1>4, TurnTrimmed

\* A step that leaves the history alone and begins nothing.
LEMMA HistoryStays ==
    ASSUME AgentInv, UNCHANGED <<history, refused>>,
           \/ UNCHANGED <<phase, round, response>>
           \/ phase = "over" /\ phase' = "idle"
           \/ phase = "replying" /\ phase' = "speaking"
    PROVE  history' \in Seq(Message) /\ HistoryInv'
<1> USE DEF AgentInv, AgentPlaces, HistoryInv
<1>1. Whole(history')
  OBVIOUS
<1>2. Executing'
  BY DEF Executing
<1>3. Limited'
  BY DEF Limited
<1>4. Refusals'
  <2>1. CASE UNCHANGED <<phase, round, response>>
    BY <2>1 DEF Refusals
  <2>2. CASE phase = "over" /\ phase' = "idle"
    BY <2>2 DEF Refusals
  <2>3. CASE phase = "replying" /\ phase' = "speaking"
    BY <2>3 DEF Refusals
  <2> QED
    BY <2>1, <2>2, <2>3
<1> QED
  BY <1>1, <1>2, <1>3, <1>4

\* The process starts again while the agent is idle: there is no history.
LEMMA RestartsKeeps ==
    ASSUME AgentInv, Restarts PROVE history' \in Seq(Message) /\ HistoryInv'
<1> USE DEF AgentInv, AgentPlaces, HistoryInv
<1>1. history' = <<>> /\ refused' = 0 /\ phase = "idle" /\ phase' = "idle"
  BY DEF Restarts, Begun
<1>2. DOMAIN history' = {} /\ UserTurns(history') = {}
  BY <1>1 DEF UserTurns
<1>3. Whole(history') /\ history' \in Seq(Message)
  BY <1>1, <1>2, EmptySeq DEF Whole
<1>4. Executing'
  BY <1>1 DEF Executing
<1>5. Cardinality(UserTurns(history')) = 0
  BY <1>2, FS_EmptySet
<1>6. Limited' /\ Refusals'
  BY <1>1, <1>2, <1>5, AgentAssumption DEF Limited, Refusals
<1> QED
  BY <1>3, <1>4, <1>6

LEMMA HistoryStep == ASSUME AgentInv, [Next]_vars PROVE history' \in Seq(Message) /\ HistoryInv'
<1>1. CASE UNCHANGED agentVars
  BY <1>1, HistoryStays DEF agentVars
<1>2. CASE Leaves
  BY <1>2, HistoryStays DEF Leaves
<1>3. CASE Synthesizes
  BY <1>3, HistoryStays DEF Synthesizes
<1>4. CASE VoiceFallsBack \/ FirstPartQueued
  BY <1>4, HistoryStays DEF VoiceFallsBack, FirstPartQueued
<1> QED
  BY <1>1, <1>2, <1>3, <1>4, StepIs, HandlesKeeps, RestartsKeeps, RespondsKeeps, RequestFailsKeeps,
     RequestRefusedKeeps, ExecutesKeeps, ExecutesInVainKeeps, ReplyEndsKeeps

LEMMA BegunHistoryStep ==
    ASSUME AgentInv, [Next]_vars PROVE (phase \in {"asking", "executing"} => history # <<>>)'
<1> USE DEF AgentInv, Begun
<1>1. CASE Handles
  BY <1>1, HandlesKeeps
<1>2. ASSUME NEW r \in Responses, Responds(r) PROVE history' # <<>>
  BY <1>2, RespondsKeeps
<1>3. CASE Executes
  BY <1>3, ExecutesKeeps
<1>4. CASE UNCHANGED agentVars \/ Leaves
  BY <1>4 DEF agentVars, Leaves
<1>5. CASE Restarts
  BY <1>5 DEF Restarts
<1>6. CASE \/ RequestFails \/ RequestRefused \/ ExecutesInVain
           \/ Silent \/ Synthesizes \/ VoiceFallsBack \/ VoiceFails \/ FirstPartQueued \/ ReplyQueued
  BY <1>6 DEF Ends, RequestFails, RequestRefused, ExecutesInVain, Silent, Synthesizes,
              VoiceFallsBack, VoiceFails, FirstPartQueued, ReplyQueued
<1> QED
  BY <1>1, <1>2, <1>3, <1>4, <1>5, <1>6, StepIs

LEMMA PlacesStep == ASSUME AgentInv, [Next]_vars PROVE AgentPlaces'
<1> USE DEF AgentInv, AgentPlaces, Phases
<1>0. history' \in Seq(Message)
  BY HistoryStep
<1>1. ASSUME NEW r \in Responses, Responds(r) PROVE AgentPlaces'
  BY <1>0, <1>1, AgentAssumption DEF Responds
<1>2. CASE Executes
  <2>1. phase = "executing" => round # MaxToolRounds
    BY DEF Executing
  <2> QED
    BY <1>0, <1>2, <2>1, AgentAssumption DEF Executes
<1>3. CASE UNCHANGED agentVars
  BY <1>3 DEF agentVars
<1>4. CASE Handles
  BY <1>0, <1>4 DEF Handles
<1>5. CASE Leaves
  BY <1>0, <1>5, EmptySeq, AgentAssumption DEF Leaves, NoResponse, Response
<1>6. CASE Restarts
  BY <1>0, <1>6 DEF Restarts
<1>7. CASE RequestFails \/ ExecutesInVain
  BY <1>0, <1>7 DEF RequestFails, ExecutesInVain, Ends
<1>8. CASE RequestRefused
  BY <1>0, <1>8 DEF RequestRefused, Ends
<1>9. CASE Silent \/ Synthesizes \/ VoiceFallsBack
  BY <1>0, <1>9 DEF Silent, Synthesizes, VoiceFallsBack, Ends
<1>10. CASE VoiceFails \/ FirstPartQueued \/ ReplyQueued
  BY <1>0, <1>10 DEF VoiceFails, FirstPartQueued, ReplyQueued, Ends
<1> QED
  BY <1>1, <1>2, <1>3, <1>4, <1>5, <1>6, <1>7, <1>8, <1>9, <1>10, StepIs

-----------------------------------------------------------------------------
\* The theorems

\* The inductive invariant, on that of the transcription.
THEOREM AgentInvariance == Spec => [](IInv /\ AgentInv)
<1>1. Init => AgentInv
  BY InitAgent
<1>2. IInv /\ AgentInv /\ [Next]_vars => AgentInv'
  <2> SUFFICES ASSUME IInv, AgentInv, [Next]_vars PROVE AgentInv'
    OBVIOUS
  <2>1. HistoryInv' /\ AgentPlaces' /\ AgentFlags' /\ Offered'
    BY HistoryStep, PlacesStep, FlagsStep, OfferedStep
  <2>2. Begun'
    BY BegunStep, BegunHistoryStep DEF Begun
  <2> QED
    BY <2>1, <2>2 DEF AgentInv, HistoryInv
<1> QED
  BY <1>1, <1>2, Invariance, PTL DEF Spec

\* Every variable of a turn keeps its type, whatever the services answer.
THEOREM TypeCorrect == Spec => []TypeOK
<1>1. AgentInv => AgentTypeOK
  BY DEF AgentInv, AgentFlags, AgentPlaces, Phases, AgentTypeOK
<1> QED
  BY AgentInvariance, SttTypeCorrect, <1>1, PTL DEF TypeOK

\* Trimming and failing leave whole exchanges, within the limit (agent.py,
\* _trim() and the handlers of handle()).
THEOREM HistoryStaysWhole == Spec => []HistoryIsWhole
<1>1. AgentInv => HistoryIsWhole
  <2> SUFFICES ASSUME AgentInv PROVE HistoryIsWhole
    OBVIOUS
  <2>1. Whole(history)
    BY DEF AgentInv
  <2>2. phase \in {"over", "idle"} /\ MaxHistoryTurns > 0 =>
            Cardinality(UserTurns(history)) <= MaxHistoryTurns
    <3>1. history \in Seq(Message)
      BY DEF AgentInv, AgentPlaces
    <3>2. Cardinality(UserTurns(history)) \in Nat
      BY <3>1, PositionsFinite
    <3> QED
      BY <3>2, AgentAssumption DEF AgentInv, Limited
  <2> QED
    BY <2>1, <2>2 DEF Whole, HistoryIsWhole
<1> QED
  BY AgentInvariance, <1>1, PTL

\* What the provider refuses is trimmed away after at most as many turns as the
\* history holds (agent.py, _trim() after a failed turn).
THEOREM RefusalsAreBounded == Spec => []RefusedOnlySoOften
<1>1. AgentInv => RefusedOnlySoOften
  BY DEF AgentInv, Refusals, RefusedOnlySoOften
<1> QED
  BY AgentInvariance, <1>1, PTL

\* A turn whose responses gave a reply is not silent (agent.py, _run_rounds()).
THEOREM NoReplyIsLost == Spec => []SilentOnlyIfWordless
<1>1. AgentInv => SilentOnlyIfWordless
  BY DEF AgentInv, Offered, SilentOnlyIfWordless
<1> QED
  BY AgentInvariance, <1>1, PTL
-----------------------------------------------------------------------------
\* What the provider refuses

\* The last user's turn of h is d messages before its end.
TurnBegan(h, d) ==
    /\ Len(h) - d \in DOMAIN h /\ h[Len(h) - d].kind = "user"
    /\ \A k \in DOMAIN h : k > Len(h) - d => h[k].kind # "user"

\* Message i of h is the last response of a turn that had all its rounds: each of
\* the earlier ones is there with the results of its calls.
Depth == 2 * MaxToolRounds + 1
Exhausted(h, i) ==
    /\ i - Depth \in DOMAIN h /\ h[i - Depth].kind = "user"
    /\ \A k \in DOMAIN h : i - Depth < k /\ k <= i => h[k].kind # "user"

\* The rounds of a turn are counted in its messages.
Counted ==
    /\ phase = "idle" => round = 0
    /\ phase = "asking" => TurnBegan(history, 2 * round)
    /\ phase = "executing" => TurnBegan(history, 2 * round + 1)

\* Calls without results are those being executed, or those a turn ran out of
\* rounds with.
Unanswered(h) == \A i \in DOMAIN h : ~Answered(h, i) => Exhausted(h, i)
Poisoned ==
    \A i \in DOMAIN history : ~Answered(history, i) =>
        (phase = "executing" /\ i = Len(history)) \/ Exhausted(history, i)

LEMMA DepthIs == Depth \in Nat /\ Depth = 2 * MaxToolRounds + 1 /\ MaxToolRounds \in Nat
  BY AgentAssumption DEF Depth

\* A message more leaves the exhausted turns exhausted.
LEMMA ExhaustedStays ==
    ASSUME NEW h \in Seq(Message), NEW m \in Message, NEW g, Extended(g, h, m),
           NEW i \in 1..Len(h), Exhausted(h, i)
    PROVE  Exhausted(g, i)
<1>1. /\ DOMAIN g = 1..(Len(h) + 1) /\ DOMAIN h = 1..Len(h) /\ Len(h) \in Nat
      /\ \A k \in 1..Len(h) : g[k] = h[k]
  BY DEF Extended
<1>2. i - Depth \in 1..Len(h) /\ g[i - Depth].kind = "user"
  BY <1>1 DEF Exhausted
<1>3. ASSUME NEW k \in DOMAIN g, i - Depth < k, k <= i PROVE g[k].kind # "user"
  <2>1. k \in 1..Len(h)
    BY <1>1, <1>3
  <2> QED
    BY <1>1, <1>3, <2>1 DEF Exhausted
<1> QED
  BY <1>1, <1>2, <1>3 DEF Exhausted

\* A message that is not the user's is one more since the user's.
LEMMA TurnGoesOn ==
    ASSUME NEW h \in Seq(Message), NEW m \in Message, NEW g, Extended(g, h, m),
           m.kind # "user", NEW d \in Nat, TurnBegan(h, d)
    PROVE  TurnBegan(g, d + 1)
<1>1. /\ DOMAIN g = 1..(Len(h) + 1) /\ DOMAIN h = 1..Len(h) /\ Len(h) \in Nat
      /\ Len(g) = Len(h) + 1 /\ g[Len(h) + 1] = m
      /\ \A k \in 1..Len(h) : g[k] = h[k]
  BY DEF Extended
<1>2. Len(g) - (d + 1) = Len(h) - d
  BY <1>1
<1>3. Len(h) - d \in 1..Len(h) /\ g[Len(h) - d].kind = "user"
  BY <1>1 DEF TurnBegan
<1>4. ASSUME NEW k \in DOMAIN g, k > Len(h) - d PROVE g[k].kind # "user"
  <2>1. CASE k = Len(h) + 1
    BY <1>1, <2>1
  <2>2. CASE k \in 1..Len(h)
    BY <1>1, <1>4, <2>2 DEF TurnBegan
  <2> QED
    BY <1>1, <2>1, <2>2
<1> QED
  BY <1>1, <1>2, <1>3, <1>4 DEF TurnBegan

\* A response that is appended out of rounds exhausts its turn.
LEMMA LastResponse ==
    ASSUME NEW g \in Seq(Message), g # <<>>, TurnBegan(g, Depth)
    PROVE  Exhausted(g, Len(g))
<1>1. Len(g) \in Nat
  BY LenProperties
<1> QED
  BY <1>1, DepthIs DEF TurnBegan, Exhausted

\* The cut is at a user's turn, and so never within an exhausted one.
LEMMA UnansweredTrimmed ==
    ASSUME NEW h \in Seq(Message), Unanswered(h), NEW g, g = Trimmed(h)
    PROVE  Unanswered(g)
<1>1. CASE g = h
  BY <1>1
<1>2. ASSUME NEW c \in UserTurns(h), g = SubSeq(h, c, Len(h)) PROVE Unanswered(g)
  <2>1. c \in 1..Len(h) /\ Len(h) \in Nat /\ h[c].kind = "user" /\ DOMAIN h = 1..Len(h)
    BY PositionsFinite, LenProperties DEF UserTurns
  <2>2. /\ g \in Seq(Message) /\ Len(g) = Len(h) - c + 1
        /\ \A i \in 1..Len(g) : g[i] = h[i + c - 1]
        /\ \A i \in 1..Len(g) : Answered(g, i) <=> Answered(h, i + c - 1)
    BY <1>2, <2>1, Suffix
  <2>3. DOMAIN g = 1..Len(g)
    BY <2>2, LenProperties
  <2>4. SUFFICES ASSUME NEW i \in 1..Len(g), ~Answered(g, i) PROVE Exhausted(g, i)
    BY <2>3 DEF Unanswered
  <2> DEFINE j == i + c - 1
  <2>5. j \in 1..Len(h) /\ ~Answered(h, j)
    BY <2>1, <2>2, <2>4
  <2>6. Exhausted(h, j)
    BY <2>1, <2>5 DEF Unanswered
  <2>7. j - Depth \in 1..Len(h) /\ h[j - Depth].kind = "user"
    BY <2>1, <2>6 DEF Exhausted
  <2>8. c <= j - Depth
    <3>1. ~(j - Depth < c /\ c <= j)
      BY <2>1, <2>6 DEF Exhausted
    <3>2. c <= j
      BY <2>1, <2>4
    <3> HIDE DEF j
    <3>3. j \in Int /\ c \in Int /\ Depth \in Int
      BY <2>1, <2>5, DepthIs
    <3> QED
      BY <3>1, <3>2, <3>3
  <2>9. i - Depth \in 1..Len(g) /\ (i - Depth) + c - 1 = j - Depth
    <3>1. i \in Int /\ i <= Len(g) /\ c \in Int /\ Len(g) \in Int /\ Depth \in Nat
      BY <2>1, <2>2, <2>4, DepthIs
    <3>2. c <= (i + c - 1) - Depth
      BY <2>8
    <3> QED
      BY <3>1, <3>2
  <2>10. g[i - Depth].kind = "user"
    BY <2>2, <2>7, <2>9
  <2>11. ASSUME NEW k \in 1..Len(g), i - Depth < k, k <= i PROVE g[k].kind # "user"
    <3>1. k + c - 1 \in 1..Len(h) /\ j - Depth < k + c - 1 /\ k + c - 1 <= j
      BY <2>1, <2>2, <2>4, <2>11, DepthIs
    <3>2. h[k + c - 1].kind # "user"
      BY <2>1, <2>6, <3>1 DEF Exhausted
    <3> QED
      BY <2>2, <3>2
  <2> QED
    BY <2>3, <2>9, <2>10, <2>11 DEF Exhausted
<1> QED
  BY <1>1, <1>2, TrimmedCut

LEMMA HandlesCounts ==
    ASSUME AgentInv, Counted, Poisoned, Handles PROVE Counted' /\ Poisoned'
<1> DEFINE h == history
<1> DEFINE g == Append(h, UserTurn)
<1>1. /\ phase = "idle" /\ phase' = "asking" /\ history' = g /\ round' = round
      /\ h \in Seq(Message)
  BY DEF Handles, AgentInv, AgentPlaces
<1>2. UserTurn \in Message /\ UserTurn.kind = "user"
  BY MessagesAre DEF UserTurn
<1>3. Extended(g, h, UserTurn)
  BY <1>1, <1>2, Appended
<1> HIDE DEF g
<1>4. /\ Len(h) \in Nat /\ Len(g) = Len(h) + 1 /\ g[Len(h) + 1] = UserTurn
      /\ DOMAIN g = 1..(Len(h) + 1) /\ DOMAIN h = 1..Len(h)
      /\ \A i \in 1..Len(h) : Answered(g, i) <=> Answered(h, i)
  BY <1>2, <1>3 DEF Extended
<1>5. TurnBegan(g, 0)
  BY <1>2, <1>4 DEF TurnBegan
<1>6. round = 0
  BY <1>1 DEF Counted
<1>7. Counted'
  BY <1>1, <1>5, <1>6 DEF Counted
<1>8. ASSUME NEW i \in DOMAIN g, ~Answered(g, i) PROVE Exhausted(g, i)
  <2>1. i # Len(h) + 1
    BY <1>2, <1>4, <1>8 DEF Answered
  <2>2. i \in 1..Len(h) /\ ~Answered(h, i)
    BY <1>4, <1>8, <2>1
  <2>3. Exhausted(h, i)
    BY <1>1, <1>4, <2>2 DEF Poisoned
  <2> QED
    BY <1>1, <1>2, <1>3, <2>2, <2>3, ExhaustedStays
<1> QED
  BY <1>1, <1>7, <1>8 DEF Poisoned

\* Only the response of the last round leaves calls that nobody executes.
LEMMA RespondsCounts ==
    ASSUME AgentInv, Counted, Poisoned, NEW r \in Responses, Responds(r)
    PROVE  Counted' /\ Poisoned'
<1> DEFINE h == history
<1> DEFINE m == AssistantTurn(r)
<1> DEFINE g == Append(h, m)
<1>1. /\ phase = "asking" /\ history' = g /\ round' = round /\ Accepted(h)
      /\ \/ phase' = "executing"
         \/ phase' = "replying" /\ (r.calls = <<>> \/ round = MaxToolRounds)
      /\ h \in Seq(Message) /\ round \in 0..MaxToolRounds
  BY DEF Responds, OutOfRounds, AgentInv, AgentPlaces
<1>2. m \in Message /\ m.kind = "assistant" /\ m.calls = Len(r.calls)
  BY MessagesAre, AgentAssumption DEF AssistantTurn
<1> HIDE DEF m
<1>3. Extended(g, h, m)
  BY <1>1, <1>2, Appended
<1> HIDE DEF g
<1>4. /\ Len(h) \in Nat /\ Len(g) = Len(h) + 1 /\ g[Len(h) + 1] = m
      /\ g \in Seq(Message) /\ g # <<>>
      /\ DOMAIN g = 1..(Len(h) + 1) /\ DOMAIN h = 1..Len(h)
  BY <1>3 DEF Extended
<1>5. TurnBegan(g, 2 * round + 1)
  <2>1. TurnBegan(h, 2 * round) /\ 2 * round \in Nat
    BY <1>1, DepthIs DEF Counted
  <2> QED
    BY <1>1, <1>2, <1>3, <2>1, TurnGoesOn
<1>6. Counted'
  BY <1>1, <1>5 DEF Counted
<1>7. ASSUME NEW i \in DOMAIN g, ~Answered(g, i)
      PROVE  (phase' = "executing" /\ i = Len(g)) \/ Exhausted(g, i)
  <2>1. i = Len(g)
    <3>1. \A k \in 1..Len(h) : Answered(h, k)
      BY <1>1, <1>4 DEF Accepted
    <3>2. i \notin 1..Len(h)
      BY <1>1, <1>2, <1>3, <1>7, <3>1, AcceptedStays
    <3> QED
      BY <1>4, <3>2
  <2>2. r.calls # <<>>
    BY <1>2, <1>4, <1>7, <2>1 DEF Answered
  <2>3. CASE round = MaxToolRounds
    <3>1. TurnBegan(g, Depth)
      BY <1>5, <2>3 DEF Depth
    <3> QED
      BY <1>4, <2>1, <3>1, LastResponse
  <2> QED
    BY <1>1, <2>1, <2>2, <2>3
<1> QED
  BY <1>1, <1>6, <1>7 DEF Poisoned

LEMMA ExecutesCounts ==
    ASSUME AgentInv, Counted, Executes PROVE Counted' /\ Poisoned'
<1> DEFINE h == history
<1> DEFINE m == ToolTurn(response)
<1> DEFINE g == Append(h, m)
<1>1. /\ phase = "executing" /\ history' = g
      /\ phase' = "replying" \/ (phase' = "asking" /\ round' = round + 1)
      /\ h \in Seq(Message) /\ round \in 0..MaxToolRounds
  BY DEF Executes, AgentInv, AgentPlaces
<1>2. m \in Message /\ m.kind = "tool"
  BY MessagesAre DEF ToolTurn, AgentInv, AgentPlaces
<1>3. \A i \in DOMAIN g : Answered(g, i)
  BY <1>1, ResultsAnswer
<1> HIDE DEF m
<1>4. Extended(g, h, m)
  BY <1>1, <1>2, Appended
<1> HIDE DEF g
<1>5. TurnBegan(g, 2 * (round + 1))
  <2>1. TurnBegan(h, 2 * round + 1) /\ 2 * round + 1 \in Nat
    BY <1>1, DepthIs DEF Counted
  <2>2. TurnBegan(g, (2 * round + 1) + 1)
    BY <1>1, <1>2, <1>4, <2>1, TurnGoesOn
  <2>3. (2 * round + 1) + 1 = 2 * (round + 1)
    BY <1>1, DepthIs
  <2> QED
    BY <2>2, <2>3
<1> QED
  BY <1>1, <1>3, <1>5 DEF Counted, Poisoned

\* However a turn ends, it leaves what it was trimmed to.
LEMMA EndsCounted ==
    ASSUME AgentInv, Poisoned,
           \/ RequestFails \/ RequestRefused \/ ExecutesInVain
           \/ Silent \/ VoiceFails \/ ReplyQueued
    PROVE  Counted' /\ Poisoned'
<1>1. phase' = "over"
  BY DEF RequestFails, RequestRefused, ExecutesInVain, Silent, VoiceFails, ReplyQueued, Ends
<1>2. Unanswered(history')
  <2>1. CASE ExecutesInVain
    <3> DEFINE g == Append(history, ToolTurn(response))
    <3>1. phase = "executing" /\ history' = Trimmed(g)
      BY <2>1 DEF ExecutesInVain, TrimmedOnFailure
    <3>2. g \in Seq(Message) /\ \A i \in DOMAIN g : Answered(g, i)
      BY <3>1, ResultsAnswer
    <3> HIDE DEF g
    <3>3. Unanswered(g)
      BY <3>2 DEF Unanswered
    <3> QED
      BY <3>1, <3>2, <3>3, UnansweredTrimmed
  <2>2. CASE RequestFails \/ RequestRefused \/ Silent \/ VoiceFails \/ ReplyQueued
    <3>1. phase # "executing" /\ history' = Trimmed(history)
      BY <2>2 DEF RequestFails, RequestRefused, Silent, VoiceFails, ReplyQueued, TrimmedOnFailure
    <3>2. history \in Seq(Message) /\ Unanswered(history)
      BY <3>1 DEF AgentInv, AgentPlaces, Poisoned, Unanswered
    <3> QED
      BY <3>1, <3>2, UnansweredTrimmed
  <2> QED
    BY <2>1, <2>2
<1> QED
  BY <1>1, <1>2 DEF Counted, Poisoned, Unanswered

LEMMA CountedStays ==
    ASSUME Counted, Poisoned, history' = history,
           \/ UNCHANGED <<phase, round>>
           \/ phase = "over" /\ phase' = "idle" /\ round' = 0
           \/ phase' = "speaking" /\ phase # "executing"
    PROVE  Counted' /\ Poisoned'
<1>1. CASE UNCHANGED <<phase, round>>
  BY <1>1 DEF Counted, Poisoned
<1>2. CASE phase = "over" /\ phase' = "idle" /\ round' = 0
  BY <1>2 DEF Counted, Poisoned
<1>3. CASE phase' = "speaking" /\ phase # "executing"
  BY <1>3 DEF Counted, Poisoned
<1> QED
  BY <1>1, <1>2, <1>3

LEMMA CountedStep == ASSUME AgentInv, Counted, Poisoned, [Next]_vars PROVE Counted' /\ Poisoned'
<1>1. CASE UNCHANGED agentVars
  BY <1>1, CountedStays DEF agentVars
<1>2. CASE Leaves \/ Synthesizes \/ VoiceFallsBack \/ FirstPartQueued
  BY <1>2, CountedStays DEF Leaves, Synthesizes, VoiceFallsBack, FirstPartQueued
<1>3. CASE Restarts
  <2>1. history' = <<>> /\ phase' = phase /\ round' = round /\ phase = "idle"
    BY <1>3 DEF Restarts, AgentInv, Begun
  <2>2. DOMAIN history' = {}
    BY <2>1
  <2> QED
    BY <2>1, <2>2 DEF Counted, Poisoned
<1> QED
  BY <1>1, <1>2, <1>3, StepIs, HandlesCounts, RespondsCounts, ExecutesCounts, EndsCounted

\* A history that the provider refuses comes of nothing but a turn that had all its
\* rounds and asked for a tool once more: the calls without results are that turn's
\* last message, 2 * MaxToolRounds + 1 after its transcript, and however other turns
\* fail or are trimmed they leave none (_run_rounds(), "max_tool_rounds reached").
OnlyExhaustionPoisons ==
    phase = "idle" => \A i \in DOMAIN history : ~Answered(history, i) => Exhausted(history, i)
THEOREM PoisonIsExhaustion == Spec => []OnlyExhaustionPoisons
<1>1. Init => Counted /\ Poisoned
  BY DEF Init, AgentInit, Counted, Poisoned
<1>2. AgentInv /\ Counted /\ Poisoned /\ [Next]_vars => (Counted /\ Poisoned)'
  BY CountedStep
<1>3. Poisoned => OnlyExhaustionPoisons
  BY DEF Poisoned, OnlyExhaustionPoisons
<1> QED
  BY <1>1, <1>2, <1>3, AgentInvariance, PTL DEF Spec

=============================================================================
