-------------------------- MODULE AgentLoopProofs --------------------------
(***************************************************************************)
(* Theorems of the parts of compaction, and of AgentLoop: of the cuts, for *)
(* every list of turns; of the settings and a conversation that is cut     *)
(* with them, for any patches and resets; of the loop, for any number of   *)
(* invocations, any setting and any failures.                              *)
(*                                                                         *)
(* Types needs more than TypeOK: an append takes MAX(turn_index) of the    *)
(* rows, which is a number because the rows' indexes stay below nextId,    *)
(* and takes the head of a queue that is never empty then.                 *)
(***************************************************************************)
EXTENDS AgentLoop, Compaction, FiniteSetTheorems, SequenceTheorems, WellFoundedInduction, TLAPS

(***************************************************************************)
(* The cuts.                                                               *)
(***************************************************************************)
\* SELECT MAX(...) of a bounded set of numbers is one of them and above all
\* others.
LEMMA MaxOfBounded ==
  ASSUME NEW S \in SUBSET Nat, S # {}, NEW b \in Nat, \A x \in S : x < b
  PROVE  Max(S) \in S /\ \A y \in S : y <= Max(S)
<1> DEFINE Bounds == {n \in Nat : \A x \in S : x <= n}
           LessThan == {ss \in Nat \X Nat : ss[1] < ss[2]}
<1>1. b \in Bounds
  BY SMT
<1>2. OpToRel(<, Nat) = LessThan
  BY DEF OpToRel
<1>3. PICK m \in Bounds : \A n \in Bounds : <<n, m>> \notin LessThan
  BY <1>1, <1>2, NatLessThanWellFounded, WFMin
<1>4. \A n \in Bounds : m <= n
  <2>1. ASSUME NEW n \in Bounds, n < m PROVE FALSE
    <3>1. <<n, m>> \in Nat \X Nat /\ <<n, m>>[1] < <<n, m>>[2]
      BY <2>1
    <3>2. <<n, m>> \in LessThan
      BY <3>1, Zenon
    <3>3. QED
      BY <1>3, <3>2
  <2>2. QED
    BY <2>1, SMT
<1>5. m \in S
  <2>1. SUFFICES ASSUME m \notin S PROVE FALSE
    OBVIOUS
  <2>2. PICK x \in S : TRUE
    OBVIOUS
  <2>3. \A y \in S : y <= m - 1
    BY <2>1, SMT
  <2>4. m - 1 \in Bounds
    BY <2>2, <2>3, SMT
  <2>5. QED
    BY <1>4, <2>4, SMT
<1>6. \A y \in S : m >= y
  BY SMT
<1>7. \E x \in S : \A y \in S : x >= y
  BY <1>5, <1>6
<1>8. Max(S) \in S /\ \A y \in S : Max(S) >= y
  BY <1>7 DEF Max
<1>9. QED
  BY <1>8, SMT

\* A set of numbers has a smallest one.
LEMMA SmallestOfNonempty ==
  ASSUME NEW S \in SUBSET Nat, S # {}
  PROVE  \E m \in S : \A n \in S : m <= n
<1> DEFINE LessThan == {ss \in Nat \X Nat : ss[1] < ss[2]}
<1>1. OpToRel(<, Nat) = LessThan
  BY DEF OpToRel
<1>2. PICK m \in S : \A n \in S : <<n, m>> \notin LessThan
  BY <1>1, NatLessThanWellFounded, WFMin
<1>3. ASSUME NEW n \in S PROVE m <= n
  <2>1. m \in Nat /\ n \in Nat
    OBVIOUS
  <2>2. ASSUME n < m PROVE FALSE
    <3>1. <<n, m>> \in Nat \X Nat /\ <<n, m>>[1] < <<n, m>>[2]
      BY <2>1, <2>2
    <3>2. <<n, m>> \in LessThan
      BY <3>1, Zenon
    <3>3. QED
      BY <1>2, <3>2
  <2>3. QED
    BY <2>1, <2>2, SMT
<1>4. QED
  BY <1>3

\* A conversation as the store holds it: finitely many turns, each with an
\* identity of its own.
Conversation(T) ==
  /\ IsFiniteSet(T)
  /\ \A t \in T : t.id \in Nat /\ t.idx \in Nat
  /\ \A t, u \in T : t.id = u.id => t = u

LEMMA BeforeIsTotalOrder ==
  ASSUME NEW T, Conversation(T), NEW t \in T, NEW u \in T, NEW v \in T
  PROVE  /\ t = u \/ Before(t, u) \/ Before(u, t)
         /\ ~(Before(t, u) /\ Before(u, t)) /\ ~Before(t, t)
         /\ Before(t, u) /\ Before(u, v) => Before(t, v)
<1>1. t.id \in Nat /\ u.id \in Nat /\ v.id \in Nat /\ t.idx \in Nat /\ u.idx \in Nat /\ v.idx \in Nat
  BY DEF Conversation
<1>2. t.id = u.id => t = u
  BY DEF Conversation
<1>3. QED
  BY <1>1, <1>2, SMT DEF Before

\* How many of D come before t: fewer the earlier t is, and never all.
LEMMA EarlierCounts ==
  ASSUME NEW T, Conversation(T), NEW D \in SUBSET T, NEW t \in D
  PROVE  /\ Cardinality(Earlier(t, D)) \in Nat /\ Cardinality(D) \in Nat
         /\ Cardinality(Earlier(t, D)) < Cardinality(D)
         /\ \A v \in Earlier(t, D) : /\ Cardinality(Earlier(v, D)) \in Nat
                                     /\ Cardinality(Earlier(v, D)) < Cardinality(Earlier(t, D))
<1>1. IsFiniteSet(D) /\ \A v \in D : IsFiniteSet(Earlier(v, D))
  BY FS_Subset DEF Conversation, Earlier
<1>2. \A v \in D : v \notin Earlier(v, D) /\ Earlier(v, D) \subseteq D
  BY BeforeIsTotalOrder DEF Earlier
<1>3. ASSUME NEW v \in Earlier(t, D)
      PROVE  /\ v \in D /\ Earlier(v, D) \subseteq Earlier(t, D) /\ v \notin Earlier(v, D)
  BY BeforeIsTotalOrder DEF Earlier
<1>4. ASSUME NEW A, NEW B, IsFiniteSet(B), A \subseteq B, NEW b \in B, b \notin A
      PROVE  Cardinality(A) \in Nat /\ Cardinality(B) \in Nat /\ Cardinality(A) < Cardinality(B)
  <2>1. A # B
    BY <1>4
  <2>2. QED
    BY <1>4, <2>1, FS_Subset, FS_CardinalityType
<1>5. QED
  BY <1>1, <1>2, <1>3, <1>4

(***************************************************************************)
(* The loop of the truncator.  Its function is what its equation says once *)
(* there is one that satisfies it, which is built round by round; and what *)
(* holds of T and is kept by a round holds of what the loop leaves.        *)
(***************************************************************************)
Round(K, P, w, s) == IF Enough(K, P, w, s) THEN K ELSE OneLess(K, P)
Rounds(T, P, w, s, m) ==
  {f \in [0 .. m -> SUBSET T] : f[0] = T /\ \A i \in 1 .. m : f[i] = Round(f[i - 1], P, w, s)}

LEMMA RoundsExist ==
  ASSUME NEW T, NEW P, NEW w, NEW s, NEW last \in Nat
  PROVE  Rounds(T, P, w, s, last) # {}
<1> DEFINE Bad == {m \in 0 .. last : Rounds(T, P, w, s, m) = {}}
<1>1. Bad \in SUBSET Nat
  OBVIOUS
<1>2. SUFFICES ASSUME Bad # {} PROVE FALSE
  OBVIOUS
<1>3. PICK m \in Bad : \A n \in Bad : m <= n
  BY <1>1, <1>2, SmallestOfNonempty
<1>4. m \in 0 .. last /\ Rounds(T, P, w, s, m) = {}
  BY <1>3
<1>5. CASE m = 0
  <2>1. [i \in 0 .. 0 |-> T] \in Rounds(T, P, w, s, 0)
    BY DEF Rounds
  <2>2. QED
    BY <1>4, <1>5, <2>1
<1>6. CASE m > 0
  <2>1. m \in Nat /\ m - 1 \in 0 .. last /\ m - 1 \in Nat /\ ~(m <= m - 1)
    BY <1>4, <1>6
  <2>2. m - 1 \notin Bad
    <3> HIDE DEF Bad
    <3>1. QED
      BY <1>3, <2>1
  <2>3. PICK f : f \in Rounds(T, P, w, s, m - 1)
    BY <2>1, <2>2
  <2>4. f[m - 1] \in SUBSET T /\ Round(f[m - 1], P, w, s) \in SUBSET T
    <3>1. f[m - 1] \in SUBSET T
      BY <2>1, <2>3 DEF Rounds
    <3>2. QED
      BY <3>1 DEF Round, OneLess
  <2>5. PICK g : g = [i \in 0 .. m |-> IF i = m THEN Round(f[m - 1], P, w, s) ELSE f[i]]
    OBVIOUS
  <2>6. \A i \in 0 .. m - 1 : g[i] = f[i]
    BY <2>1, <2>5
  <2>7. g[m] = Round(f[m - 1], P, w, s) /\ g[0] = T
    BY <2>1, <1>6, <2>3, <2>5 DEF Rounds
  <2>8. g \in [0 .. m -> SUBSET T]
    BY <2>1, <2>3, <2>4, <2>5 DEF Rounds
  <2>9. ASSUME NEW i \in 1 .. m PROVE g[i] = Round(g[i - 1], P, w, s)
    <3>1. CASE i = m
      <4>1. m - 1 \in 0 .. m - 1
        BY <2>1
      <4>2. QED
        BY <2>6, <2>7, <3>1, <4>1
    <3>2. CASE i # m
      <4>1. i \in 1 .. m - 1 /\ i \in 0 .. m - 1 /\ i - 1 \in 0 .. m - 1
        BY <2>1, <3>2
      <4>2. f[i] = Round(f[i - 1], P, w, s)
        BY <2>3, <4>1 DEF Rounds
      <4>3. QED
        BY <2>6, <4>1, <4>2
    <3>3. QED
      BY <3>1, <3>2
  <2>10. g \in Rounds(T, P, w, s, m)
    BY <2>7, <2>8, <2>9 DEF Rounds
  <2>11. QED
    BY <1>4, <2>10
<1>7. QED
  BY <1>4, <1>5, <1>6

LEMMA TruncateKeptIs ==
  ASSUME NEW T, NEW P, NEW w, NEW s, Cardinality(T) \in Nat
  PROVE  \E f \in Rounds(T, P, w, s, Cardinality(T)) : TruncateKept(T, P, w, s) = f[Cardinality(T)]
<1> DEFINE n == Cardinality(T)
           Solves(f) == f = [k \in 0 .. n |->
                               IF k = 0 THEN T
                               ELSE LET K == f[k - 1]
                                    IN  IF Enough(K, P, w, s) THEN K ELSE OneLess(K, P)]
           kept == CHOOSE f : Solves(f)
<1>1. TruncateKept(T, P, w, s) = kept[n]
  BY DEF TruncateKept
<1>2. PICK f : f \in Rounds(T, P, w, s, n)
  BY RoundsExist
<1>3. Solves(f)
  <2>1. f \in [0 .. n -> SUBSET T] /\ f[0] = T
    BY <1>2 DEF Rounds
  <2>2. ASSUME NEW k \in 0 .. n, k # 0
        PROVE  f[k] = IF Enough(f[k - 1], P, w, s) THEN f[k - 1] ELSE OneLess(f[k - 1], P)
    <3>1. k \in 1 .. n
      BY <2>2
    <3>2. f[k] = Round(f[k - 1], P, w, s)
      BY <1>2, <3>1 DEF Rounds
    <3>3. QED
      BY <3>2 DEF Round
  <2>3. QED
    BY <2>1, <2>2
<1>4. Solves(kept)
  BY <1>3
<1> HIDE DEF kept
<1>5. kept = [k \in 0 .. n |-> IF k = 0 THEN T ELSE Round(kept[k - 1], P, w, s)]
  BY <1>4 DEF Round
<1> HIDE DEF Solves
<1>6. kept[0] = T /\ \A i \in 1 .. n : kept[i] = Round(kept[i - 1], P, w, s)
  BY <1>5
<1>7. \A i \in 0 .. n : kept[i] \in SUBSET T
  <2> DEFINE Bad == {i \in 0 .. n : kept[i] \notin SUBSET T}
  <2>1. SUFFICES ASSUME Bad # {} PROVE FALSE
    OBVIOUS
  <2>2. Bad \in SUBSET Nat
    OBVIOUS
  <2>3. PICK i \in Bad : \A j \in Bad : i <= j
    BY <2>1, <2>2, SmallestOfNonempty
  <2>4. i \in 0 .. n /\ kept[i] \notin SUBSET T
    BY <2>3
  <2>5. i \in 1 .. n /\ i - 1 \in 0 .. n /\ ~(i <= i - 1)
    BY <1>6, <2>4
  <2>6. i - 1 \notin Bad
    <3> HIDE DEF Bad
    <3>1. QED
      BY <2>3, <2>5
  <2>7. kept[i - 1] \in SUBSET T
    BY <2>5, <2>6
  <2>8. Round(kept[i - 1], P, w, s) \in SUBSET T
    BY <2>7 DEF Round, OneLess
  <2>9. QED
    BY <1>6, <2>4, <2>5, <2>8
<1>8. kept \in Rounds(T, P, w, s, n)
  <2>1. kept \in [0 .. n -> SUBSET T]
    BY <1>5, <1>7
  <2>2. QED
    BY <1>6, <2>1 DEF Rounds
<1>9. QED
  BY <1>1, <1>8

\* What the truncation must keep it keeps.
LEMMA RoundsKeepProtected ==
  ASSUME NEW T, IsFiniteSet(T), NEW P \in SUBSET T, NEW w, NEW s
  PROVE  P \subseteq TruncateKept(T, P, w, s) /\ TruncateKept(T, P, w, s) \subseteq T
<1> DEFINE n == Cardinality(T)
<1>1. n \in Nat
  BY FS_CardinalityType
<1>2. PICK f \in Rounds(T, P, w, s, n) : TruncateKept(T, P, w, s) = f[n]
  BY <1>1, TruncateKeptIs
<1> HIDE DEF n
<1> DEFINE Bad == {i \in 0 .. n : ~(P \subseteq f[i])}
<1>3. Bad = {}
  <2>1. SUFFICES ASSUME Bad # {} PROVE FALSE
    OBVIOUS
  <2>2. Bad \in SUBSET Nat
    BY <1>1
  <2>3. PICK i \in Bad : \A j \in Bad : i <= j
    BY <2>1, <2>2, SmallestOfNonempty
  <2>4. i \in 0 .. n /\ ~(P \subseteq f[i])
    BY <2>3
  <2>5. i \in 1 .. n /\ i - 1 \in 0 .. n /\ ~(i <= i - 1)
    BY <1>1, <1>2, <2>4 DEF Rounds
  <2>6. i - 1 \notin Bad
    <3> HIDE DEF Bad
    <3>1. QED
      BY <2>3, <2>5
  <2>7. P \subseteq f[i - 1]
    BY <2>5, <2>6
  <2>8. f[i] = Round(f[i - 1], P, w, s)
    BY <1>2, <2>5 DEF Rounds
  <2>9. P \subseteq Round(f[i - 1], P, w, s)
    BY <2>7 DEF Round, OneLess
  <2>10. QED
    BY <2>4, <2>8, <2>9
<1>4. n \in 0 .. n
  BY <1>1
<1>5. P \subseteq f[n] /\ f[n] \subseteq T
  BY <1>2, <1>3, <1>4 DEF Rounds
<1>6. QED
  BY <1>2, <1>5

\* Of the turns K the loop has kept, after any number of rounds: those it dropped are
\* the oldest it may drop, and the newest of them was dropped because it had to be.
Shrunk(T, P, w, s, K) ==
  /\ P \subseteq K /\ K \subseteq T
  /\ \A t \in T \ K, v \in T \ P : Before(v, t) => v \notin K
  /\ \A t \in T \ K : Later(t, T \ K) = {} => ~Enough(K \cup {t}, P, w, s)

\* A round that does not stop drops one turn, the oldest that is not protected.
LEMMA OneLessIs ==
  ASSUME NEW T, Conversation(T), NEW K \in SUBSET T, NEW P \in SUBSET K, K # P
  PROVE  \E o \in K \ P : Earlier(o, K \ P) = {} /\ OneLess(K, P) = K \ {o}
<1> DEFINE D == K \ P
           Counts == {Cardinality(Earlier(t, D)) : t \in D}
<1>1. D \subseteq T /\ D # {}
  OBVIOUS
<1>2. \A t \in D : /\ Cardinality(Earlier(t, D)) \in Nat
                   /\ \A v \in Earlier(t, D) : Cardinality(Earlier(v, D)) < Cardinality(Earlier(t, D))
  BY <1>1, EarlierCounts
<1>3. Counts \in SUBSET Nat /\ Counts # {}
  BY <1>1, <1>2
<1>4. PICK c \in Counts : \A d \in Counts : c <= d
  BY <1>3, SmallestOfNonempty
<1>5. PICK o \in D : c = Cardinality(Earlier(o, D))
  BY <1>4
<1>6. Earlier(o, D) = {}
  <2>1. SUFFICES ASSUME NEW v \in Earlier(o, D) PROVE FALSE
    OBVIOUS
  <2>2. v \in D
    BY <2>1 DEF Earlier
  <2>3. /\ Cardinality(Earlier(v, D)) \in Nat /\ Cardinality(Earlier(o, D)) \in Nat
        /\ Cardinality(Earlier(v, D)) < Cardinality(Earlier(o, D))
    BY <1>2, <2>1, <2>2
  <2>4. c <= Cardinality(Earlier(v, D))
    BY <1>4, <2>2
  <2>5. QED
    BY <1>5, <2>3, <2>4
<1>7. ASSUME NEW t \in D, t # o PROVE Earlier(t, D) # {}
  <2>1. o \in T /\ t \in T /\ t \notin Earlier(o, D)
    BY <1>1, <1>6
  <2>2. Before(o, t)
    BY <1>7, <2>1, BeforeIsTotalOrder DEF Earlier
  <2>3. QED
    BY <2>2 DEF Earlier
<1>8. OneLess(K, P) = K \ {o}
  BY <1>6, <1>7 DEF OneLess
<1>9. QED
  BY <1>6, <1>8

LEMMA RoundShrinks ==
  ASSUME NEW T, Conversation(T), NEW P, NEW w, NEW s, NEW K, Shrunk(T, P, w, s, K),
         ~Enough(K, P, w, s)
  PROVE  /\ Shrunk(T, P, w, s, OneLess(K, P))
         /\ Cardinality(K) \in Nat /\ Cardinality(OneLess(K, P)) = Cardinality(K) - 1
<1>1. K \in SUBSET T /\ P \in SUBSET K
  BY DEF Shrunk
<1>3. IsFiniteSet(K) /\ Cardinality(K) \in Nat
  BY <1>1, FS_Subset, FS_CardinalityType DEF Conversation
<1>k. K # P
  BY <1>3 DEF Enough
<1>2. PICK o \in K \ P : Earlier(o, K \ P) = {} /\ OneLess(K, P) = K \ {o}
  BY <1>1, <1>k, OneLessIs
<1>4. Cardinality(K \ {o}) = Cardinality(K) - 1
  BY <1>2, <1>3, FS_RemoveElement
<1>5. ASSUME NEW t \in T \ (K \ {o}), NEW v \in T \ P, Before(v, t) PROVE v \notin K \ {o}
  <2>1. CASE t = o
    BY <1>2, <1>5, <2>1 DEF Earlier
  <2>2. CASE t # o
    BY <1>5, <2>2 DEF Shrunk
  <2>3. QED
    BY <2>1, <2>2
<1>6. ASSUME NEW t \in T \ (K \ {o}), Later(t, T \ (K \ {o})) = {}
      PROVE  ~Enough((K \ {o}) \cup {t}, P, w, s)
  <2>1. o \in T /\ o \in T \ P /\ o \in T \ (K \ {o}) /\ o \in K
    BY <1>1, <1>2
  <2>2. t = o
    <3>1. SUFFICES ASSUME t # o PROVE FALSE
      OBVIOUS
    <3>2. t \in T \ K /\ t \in T
      BY <1>6, <3>1
    <3>3. ~Before(o, t)
      BY <2>1, <3>2 DEF Shrunk
    <3>4. Before(t, o)
      BY <2>1, <3>1, <3>2, <3>3, BeforeIsTotalOrder
    <3>5. QED
      BY <1>6, <2>1, <3>4 DEF Later
  <2>3. (K \ {o}) \cup {t} = K
    BY <2>1, <2>2
  <2>4. QED
    BY <2>3
<1>7. P \subseteq K \ {o} /\ K \ {o} \subseteq T
  BY <1>1, <1>2
<1>8. Shrunk(T, P, w, s, K \ {o})
  BY <1>5, <1>6, <1>7 DEF Shrunk
<1>9. QED
  BY <1>2, <1>3, <1>4, <1>8

\* The loop ends, with what it had to drop and no more.
LEMMA TruncationStops ==
  ASSUME NEW T, Conversation(T), NEW P \in SUBSET T, NEW w, NEW s
  PROVE  /\ Shrunk(T, P, w, s, TruncateKept(T, P, w, s))
         /\ Enough(TruncateKept(T, P, w, s), P, w, s)
<1> DEFINE n == Cardinality(T)
<1>1. n \in Nat
  BY FS_CardinalityType DEF Conversation
<1>2. PICK f \in Rounds(T, P, w, s, n) : TruncateKept(T, P, w, s) = f[n]
  BY <1>1, TruncateKeptIs
<1>3. f[0] = T /\ \A i \in 1 .. n : f[i] = Round(f[i - 1], P, w, s)
  BY <1>2 DEF Rounds
<1> DEFINE Good(i) == /\ Shrunk(T, P, w, s, f[i])
                      /\ Enough(f[i], P, w, s) \/ Cardinality(f[i]) = n - i
           Bad == {i \in 0 .. n : ~Good(i)}
<1>4. Good(0)
  <2>1. Shrunk(T, P, w, s, T)
    BY DEF Shrunk
  <2>2. QED
    BY <1>1, <1>3, <2>1
<1>5. ASSUME NEW i \in 1 .. n, Good(i - 1) PROVE Good(i)
  <2>1. f[i] = Round(f[i - 1], P, w, s)
    BY <1>3
  <2>2. CASE Enough(f[i - 1], P, w, s)
    BY <1>5, <2>1, <2>2 DEF Round
  <2>3. CASE ~Enough(f[i - 1], P, w, s)
    <3>1. f[i] = OneLess(f[i - 1], P) /\ Shrunk(T, P, w, s, f[i - 1])
      BY <1>5, <2>1, <2>3 DEF Round
    <3>2. /\ Shrunk(T, P, w, s, f[i])
          /\ Cardinality(f[i - 1]) \in Nat /\ Cardinality(f[i]) = Cardinality(f[i - 1]) - 1
      BY <2>3, <3>1, RoundShrinks
    <3>3. Cardinality(f[i - 1]) = n - (i - 1)
      BY <1>5, <2>3
    <3>4. Cardinality(f[i]) = n - i
      BY <1>1, <3>2, <3>3
    <3>5. QED
      BY <3>2, <3>4
  <2>4. QED
    BY <2>2, <2>3
<1> HIDE DEF Good
<1>6. Bad = {}
  <2>1. SUFFICES ASSUME Bad # {} PROVE FALSE
    OBVIOUS
  <2>2. Bad \in SUBSET Nat
    BY <1>1
  <2>3. PICK i \in Bad : \A j \in Bad : i <= j
    BY <2>1, <2>2, SmallestOfNonempty
  <2>4. i \in 0 .. n /\ ~Good(i)
    BY <2>3
  <2>5. i \in 1 .. n /\ i - 1 \in 0 .. n /\ ~(i <= i - 1)
    BY <1>1, <1>4, <2>4
  <2>6. i - 1 \notin Bad
    <3> HIDE DEF Bad
    <3>1. QED
      BY <2>3, <2>5
  <2>7. QED
    BY <1>5, <2>4, <2>5, <2>6
<1>7. Good(n)
  <2>1. n \in 0 .. n
    BY <1>1
  <2>2. QED
    BY <1>6, <2>1
<1>8. Enough(f[n], P, w, s)
  <2>1. SUFFICES ASSUME Cardinality(f[n]) = n - n PROVE Enough(f[n], P, w, s)
    BY <1>7 DEF Good
  <2>2. Cardinality(f[n]) = 0 /\ Cardinality(P) \in Nat
    <3>1. IsFiniteSet(P)
      BY FS_Subset DEF Conversation
    <3>2. QED
      BY <1>1, <2>1, <3>1, FS_CardinalityType
  <2>3. QED
    BY <2>2 DEF Enough
<1>9. QED
  BY <1>2, <1>7, <1>8 DEF Good

LEMMA CutsAreTurns ==
  ASSUME NEW T, NEW n, NEW w, NEW s
  PROVE  SplitForCompaction(T, n) \subseteq T /\ TruncateDropped(T, n, w, s) \subseteq T
BY DEF SplitForCompaction, TruncateDropped

\* What a truncation must keep it keeps, the turns it shares an index with too.
LEMMA TruncationKeepsProtected ==
  ASSUME NEW T, IsFiniteSet(T), NEW n, NEW w, NEW s, NEW t \in TruncateProtected(T, n)
  PROVE  t \notin TruncateDropped(T, n, w, s)
<1>1. TruncateProtected(T, n) \subseteq T
  BY DEF TruncateProtected, System, Recent
<1>2. t \in TruncateKept(T, TruncateProtected(T, n), w, s)
  BY <1>1, RoundsKeepProtected
<1>3. QED
  BY <1>2 DEF TruncateDropped

\* Neither cut takes one of the n most recent turns.
THEOREM RecentTurnsKept ==
  ASSUME NEW T, IsFiniteSet(T), NEW n, NEW w, NEW s, NEW t \in Recent(T, n)
  PROVE  t \notin SplitForCompaction(T, n) /\ t \notin TruncateDropped(T, n, w, s)
<1>1. t \in TruncateProtected(T, n)
  BY DEF TruncateProtected
<1>2. QED
  BY <1>1, TruncationKeepsProtected DEF SplitForCompaction

\* Recency is inherited: a turn after a recent one is recent.
LEMMA LaterIsRecent ==
  ASSUME NEW T, Conversation(T), NEW n \in Int, NEW t \in Recent(T, n), NEW u \in Later(t, T)
  PROVE  u \in Recent(T, n)
<1>1. t \in T /\ u \in T /\ Before(t, u) /\ Cardinality(Later(t, T)) < n
  BY DEF Recent, Later
<1>2. Later(u, T) \subseteq Later(t, T)
  BY <1>1, BeforeIsTotalOrder DEF Later
<1>3. IsFiniteSet(Later(t, T))
  BY FS_Subset DEF Conversation, Later
<1>4. /\ Cardinality(Later(u, T)) <= Cardinality(Later(t, T))
      /\ Cardinality(Later(u, T)) \in Nat /\ Cardinality(Later(t, T)) \in Nat
  BY <1>2, <1>3, FS_Subset, FS_CardinalityType
<1>5. QED
  BY <1>1, <1>4, SMT DEF Recent

(***************************************************************************)
(* Neither cut separates a tool_result among the protected turns from the  *)
(* tool_use right before it, in any conversation and for any setting       *)
(* (T020 in compaction/engine.rs and compaction/truncator.rs).             *)
(***************************************************************************)
THEOREM PairsStayTogetherAlways ==
  ASSUME NEW T, Conversation(T), NEW n \in Int, NEW w, NEW s,
         NEW r \in Recent(T, n), r.role = "tool_result",
         NEW u \in T, u.role = "tool_use", Precedes(u, r, T)
  PROVE  u \notin SplitForCompaction(T, n) /\ u \notin TruncateDropped(T, n, w, s)
<1> DEFINE old       == (T \ Recent(T, n)) \ System(T)
           protected == (T \ old) \ System(T)
<1>1. r \in T /\ Before(u, r) /\ Earlier(r, T) \cap Later(u, T) = {}
  BY DEF Precedes, Earlier, Recent
<1>2. ASSUME u \in old PROVE Later(u, old) = {}
  <2>1. SUFFICES ASSUME NEW v \in old, Before(u, v) PROVE FALSE
    BY DEF Later
  <2>2. v \in T /\ v \notin Recent(T, n) /\ v # r
    BY DEF Recent
  <2>3. ~Before(v, r)
    BY <1>1, <2>1, <2>2 DEF Earlier, Later
  <2>4. v \in Later(r, T)
    BY <1>1, <2>2, <2>3, BeforeIsTotalOrder DEF Later
  <2>5. QED
    BY <2>2, <2>4, LaterIsRecent
<1>3. ASSUME u \in old PROVE r \in protected /\ Earlier(r, protected) = {}
  <2>1. r \in protected
    BY <1>1 DEF System
  <2>2. SUFFICES ASSUME NEW v \in protected, Before(v, r) PROVE FALSE
    BY <2>1 DEF Earlier
  <2>3. v \in T /\ v # u /\ v \in Recent(T, n)
    BY <1>3
  <2>4. ~Before(u, v)
    BY <1>1, <2>2, <2>3 DEF Earlier, Later
  <2>5. u \in Later(v, T)
    BY <2>3, <2>4, BeforeIsTotalOrder DEF Later
  <2>6. QED
    BY <1>3, <2>3, <2>5, LaterIsRecent
<1>4. u \notin SplitForCompaction(T, n)
  BY <1>2, <1>3 DEF SplitForCompaction
<1>5. u \in TruncateProtected(T, n)
  BY DEF TruncateProtected
<1>6. QED
  BY <1>4, <1>5, TruncationKeepsProtected DEF Conversation

\* A conversation whose turns were appended one after another: no system turns, and the
\* index orders them as the identity does.
Appended(T) ==
  /\ Conversation(T)
  /\ \A t \in T : t.role # "system"
  /\ \A t, u \in T : t.id < u.id => t.idx < u.idx

\* With a turn, a cut takes all that are before it.
TakesOldest(C, T) == \A t \in C, v \in T : Before(v, t) => v \in C

LEMMA SplitTakesOldest ==
  ASSUME NEW T, Appended(T), NEW n \in Nat
  PROVE  TakesOldest(SplitForCompaction(T, n), T)
<1> DEFINE old == (T \ Recent(T, n)) \ System(T)
<1>1. SUFFICES ASSUME NEW t \in SplitForCompaction(T, n), NEW v \in T, Before(v, t)
               PROVE  v \in SplitForCompaction(T, n)
  BY DEF TakesOldest
<1>2. t \in old /\ t \in T
  BY DEF SplitForCompaction
<1>3. v \notin Recent(T, n)
  <2>1. t \in Later(v, T)
    BY <1>1, <1>2 DEF Later
  <2>2. QED
    BY <1>2, <2>1, LaterIsRecent DEF Appended
<1>4. v \in old
  BY <1>3 DEF System, Appended
<1>5. t \in Later(v, old)
  BY <1>1, <1>2 DEF Later
<1>6. QED
  BY <1>4, <1>5 DEF SplitForCompaction

LEMMA ProtectedAreLast ==
  ASSUME NEW T, Appended(T), NEW n \in Nat, NEW v \in TruncateProtected(T, n), NEW t \in T, Before(v, t)
  PROVE  t \in TruncateProtected(T, n)
<1>1. v \in T /\ System(T) = {}
  BY DEF TruncateProtected, System, Recent, Appended
<1>2. CASE v \in Recent(T, n)
  BY <1>2, LaterIsRecent DEF Later, Appended, TruncateProtected
<1>3. ASSUME NEW r \in Recent(T, n), Precedes(v, r, T) PROVE t \in Recent(T, n)
  <2>1. r \in T /\ t \notin Earlier(r, T)
    BY <1>3 DEF Precedes, Later, Recent
  <2>2. t = r \/ Before(r, t)
    BY <2>1, BeforeIsTotalOrder DEF Earlier, Appended
  <2>3. QED
    BY <1>3, <2>1, <2>2, LaterIsRecent DEF Later, Appended
<1>4. QED
  BY <1>1, <1>2, <1>3 DEF TruncateProtected

\* Where no two turns share an index, those that go are those the loop dropped.
LEMMA DroppedIs ==
  ASSUME NEW T, Conversation(T), \A t, u \in T : t.idx = u.idx => t = u, NEW n, NEW w, NEW s
  PROVE  /\ TruncateDropped(T, n, w, s) = T \ TruncateKept(T, TruncateProtected(T, n), w, s)
         /\ Shrunk(T, TruncateProtected(T, n), w, s, TruncateKept(T, TruncateProtected(T, n), w, s))
         /\ Enough(TruncateKept(T, TruncateProtected(T, n), w, s), TruncateProtected(T, n), w, s)
<1> DEFINE P == TruncateProtected(T, n)
           K == TruncateKept(T, P, w, s)
<1>1. P \subseteq T
  BY DEF TruncateProtected, System, Recent
<1> HIDE DEF P
<1>2. Shrunk(T, P, w, s, K) /\ Enough(K, P, w, s)
  BY <1>1, TruncationStops
<1>3. K \subseteq T
  BY <1>2 DEF Shrunk
<1>4. TruncateDropped(T, n, w, s) = {t \in T : \A u \in K : u.idx # t.idx}
  BY DEF TruncateDropped, P
<1> HIDE DEF K
<1>5. {t \in T : \A u \in K : u.idx # t.idx} = T \ K
  BY <1>3
<1>6. QED
  BY <1>2, <1>4, <1>5 DEF P, K

LEMMA AppendedIndexes ==
  ASSUME NEW T, Appended(T)
  PROVE  \A t, u \in T : t.idx = u.idx => t = u
<1> SUFFICES ASSUME NEW t \in T, NEW u \in T, t.idx = u.idx, t # u PROVE FALSE
  OBVIOUS
<1>1. t.id \in Nat /\ u.id \in Nat /\ t.idx \in Nat /\ u.idx \in Nat /\ t.id # u.id
  BY DEF Appended, Conversation
<1>2. t.id < u.id \/ u.id < t.id
  BY <1>1
<1>3. t.idx < u.idx \/ u.idx < t.idx
  BY <1>2 DEF Appended
<1>4. QED
  BY <1>1, <1>3

LEMMA TruncationTakesOldest ==
  ASSUME NEW T, Appended(T), NEW n \in Nat, NEW w, NEW s
  PROVE  TakesOldest(TruncateDropped(T, n, w, s), T)
<1> DEFINE P == TruncateProtected(T, n)
           K == TruncateKept(T, P, w, s)
<1>1. TruncateDropped(T, n, w, s) = T \ K /\ Shrunk(T, P, w, s, K)
  <2>1. Conversation(T) /\ \A t, u \in T : t.idx = u.idx => t = u
    BY AppendedIndexes DEF Appended
  <2>2. QED
    BY <2>1, DroppedIs
<1> SUFFICES ASSUME NEW t \in T \ K, NEW v \in T, Before(v, t) PROVE v \in T \ K
  BY <1>1 DEF TakesOldest
<1> HIDE DEF K
<1>2. t \notin P
  BY <1>1 DEF Shrunk
<1>3. v \notin P
  BY <1>2, ProtectedAreLast DEF P
<1> HIDE DEF P
<1>4. QED
  BY <1>1, <1>3 DEF Shrunk

(***************************************************************************)
(* The loop.                                                               *)
(***************************************************************************)

IndexesBelow ==
  /\ \A t \in turns : t.idx < nextId
  /\ \A i \in Invocations : slot[i] <= nextId
QueueReady == \A i \in Invocations : pc[i] = "append" => queue[i] # << >>
Types == TypeOK /\ IndexesBelow /\ QueueReady

LEMMA NextIndexBound ==
  ASSUME Types
  PROVE  NextIndex(turns) \in Nat /\ NextIndex(turns) <= nextId
<1>1. /\ nextId \in Nat
      /\ \A t \in turns : t.idx \in Nat /\ t.idx < nextId
  BY DEF Types, TypeOK, TurnRecords, IndexesBelow
<1>2. CASE turns = {}
  BY <1>1, <1>2, SMT DEF NextIndex
<1>3. CASE turns # {}
  <2> DEFINE S == {t.idx : t \in turns}
  <2>1. S \in SUBSET Nat /\ S # {} /\ \A x \in S : x < nextId
    BY <1>1, <1>3
  <2> HIDE DEF S
  <2>2. Max(S) \in S /\ Max(S) \in Nat /\ Max(S) < nextId
    BY <2>1, <1>1, MaxOfBounded
  <2>3. NextIndex(turns) = Max(S) + 1
    BY <1>3 DEF NextIndex, S
  <2>4. QED
    BY <2>2, <2>3, <1>1, SMT
<1>4. QED
  BY <1>2, <1>3

LEMMA PairsType ==
  ASSUME NEW n \in Nat, n > 0, NEW text \in {<< >>, <<"assistant">>}
  PROVE  text \o Pairs(n) \in Seq(Roles) /\ text \o Pairs(n) # << >>
<1>1. Pairs(n) \in Seq(Roles) /\ Len(Pairs(n)) = 2 * n
  BY SMT DEF Pairs, Roles
<1>2. text \in Seq(Roles) /\ Len(text) \in Nat
  <2>1. CASE text = << >>
    BY <2>1
  <2>2. CASE text = <<"assistant">>
    BY <2>2, SMT DEF Roles
  <2>3. QED
    BY <2>1, <2>2
<1>3. text \o Pairs(n) \in Seq(Roles) /\ Len(text \o Pairs(n)) = Len(text) + Len(Pairs(n))
  BY <1>1, <1>2
<1>4. QED
  BY <1>1, <1>2, <1>3, SMT

LEMMA InitTypes == Init => Types
BY SMT DEF Init, Types, TypeOK, IndexesBelow, QueueReady, TurnRecords, Summaries, NoSummary,
  NoPlan, NoContext, NoSlot, Labels

(***************************************************************************)
(* Most steps change neither the turns nor what is about to be appended;   *)
(* for those only TypeOK remains to be shown.                              *)
(***************************************************************************)
LEMMA QuietTypes ==
  ASSUME Types, TypeOK', UNCHANGED <<nextId, slot, queue>>, turns' \subseteq turns,
         \A i \in Invocations : pc'[i] = "append" => pc[i] = "append"
  PROVE  Types'
BY DEF Types, IndexesBelow, QueueReady

LEMMA StepTypes == Types /\ [Next]_vars => Types'
<1> SUFFICES ASSUME Types, [Next]_vars PROVE Types'
  OBVIOUS
<1> USE DEF vars, dbVars, compVars, loopVars, Goto
<1>t. TypeOK
  BY DEF Types
<1>l. Labels = {"idle", "append", "check", "history", "chat", "readSummary", "decide", "summarize",
                "archive", "remove", "record", "event", "answered", "noReply", "failed"}
  BY DEF Labels, Compacting, Ended
<1>1. ASSUME NEW i \in Invocations, Start(i) PROVE Types'
  <2>1. <<"user">> \in Seq(Roles) /\ <<"user">> # << >>
    BY SMT DEF Roles
  <2>2. TypeOK'
    BY <1>1, <1>t, <1>l, <2>1 DEF Start, TypeOK
  <2>3. QED
    BY <1>1, <2>1, <2>2 DEF Start, Types, TypeOK, IndexesBelow, QueueReady
<1>2. ASSUME NEW i \in Invocations, ReadIndex(i) PROVE Types'
  BY <1>2, NextIndexBound DEF ReadIndex, Types, TypeOK, IndexesBelow, QueueReady
<1>3. ASSUME NEW i \in Invocations, InsertTurn(i) PROVE Types'
  <2>1. /\ queue[i] \in Seq(Roles) /\ queue[i] # << >>
        /\ slot[i] \in Nat /\ slot[i] <= nextId /\ nextId \in Nat
    BY <1>3 DEF InsertTurn, Types, TypeOK, QueueReady, IndexesBelow
  <2>2. /\ Head(queue[i]) \in Roles /\ Tail(queue[i]) \in Seq(Roles)
        /\ Len(queue[i]) > 1 => Tail(queue[i]) # << >>
    <3>1. /\ Head(queue[i]) \in Roles /\ Tail(queue[i]) \in Seq(Roles)
          /\ Len(Tail(queue[i])) = Len(queue[i]) - 1
      BY <2>1, HeadTailProperties
    <3>2. Len(queue[i]) \in Nat
      BY <2>1, LenProperties
    <3>3. ASSUME Len(queue[i]) > 1 PROVE Tail(queue[i]) # << >>
      <4> DEFINE m == Len(queue[i])
      <4>1. m \in Nat /\ m > 1 /\ Len(Tail(queue[i])) = m - 1
        BY <3>1, <3>2, <3>3
      <4> HIDE DEF m
      <4>2. m - 1 # 0
        BY <4>1, SMT
      <4>3. QED
        BY <4>1, <4>2, EmptySeq
    <3>4. QED
      BY <3>1, <3>3
  <2>3. PICK n \in TurnTokens :
          turns' = turns \cup {[id |-> nextId, idx |-> slot[i], role |-> Head(queue[i]), tok |-> n]}
    BY <1>3 DEF InsertTurn
  <2>4. [id |-> nextId, idx |-> slot[i], role |-> Head(queue[i]), tok |-> n] \in TurnRecords
    BY <2>1, <2>2, SizesAssumption DEF TurnRecords
  <2>5. AfterAppend(i) \in Labels /\ (AfterAppend(i) = "append" => Tail(queue[i]) # << >>)
    BY <2>2, <1>l DEF AfterAppend
  <2>6. TypeOK'
    <3>1. turns' \subseteq TurnRecords /\ nextId' \in Nat
      BY <1>3, <1>t, <2>1, <2>3, <2>4 DEF InsertTurn, TypeOK
    <3>2. /\ queue' \in [Invocations -> Seq(Roles)]
          /\ pc' \in [Invocations -> Labels]
      BY <1>3, <1>t, <2>2, <2>5 DEF InsertTurn, TypeOK
    <3>3. /\ slot' \in [Invocations -> Nat \cup {NoSlot}]
      BY <1>3, <1>t, <2>1 DEF InsertTurn, TypeOK
    <3>4. QED
      BY <1>3, <1>t, <3>1, <3>2, <3>3 DEF InsertTurn, TypeOK
  <2>7. IndexesBelow'
    <3>1. \A t \in turns' : t.idx < nextId + 1
      BY <2>1, <2>3, <1>t DEF Types, IndexesBelow, TypeOK, TurnRecords
    <3>2. \A j \in Invocations : slot'[j] <= nextId + 1
      BY <1>3, <2>1, <1>t, SMT DEF InsertTurn, Types, IndexesBelow, TypeOK, NoSlot
    <3>3. QED
      BY <1>3, <3>1, <3>2 DEF InsertTurn, IndexesBelow
  <2>8. QueueReady'
    BY <1>3, <1>t, <2>5 DEF InsertTurn, Types, TypeOK, QueueReady
  <2>9. QED
    BY <2>6, <2>7, <2>8 DEF Types
<1>4. ASSUME NEW i \in Invocations, ReadTurns(i) PROVE Types'
  <2>1. TypeOK'
    BY <1>4, <1>t, <1>l DEF ReadTurns, TypeOK
  <2>2. QED
    BY <1>4, <1>t, <2>1, QuietTypes DEF ReadTurns, TypeOK
<1>5. ASSUME NEW i \in Invocations, ReadSummary(i) PROVE Types'
  <2>1. TypeOK'
    BY <1>5, <1>t, <1>l DEF ReadSummary, TypeOK
  <2>2. QED
    BY <1>5, <1>t, <2>1, QuietTypes DEF ReadSummary, TypeOK
<1>s. {} \in SUBSET TurnRecords /\ NoSummary \in Summaries
  BY DEF NoSummary, Summaries
<1>d. ASSUME NEW i \in Invocations, DropLocals(i)
      PROVE  /\ snap' \in [Invocations -> SUBSET TurnRecords]
             /\ base' \in [Invocations -> Summaries]
             /\ cut' \in [Invocations -> SUBSET TurnRecords]
             /\ todo' \in [Invocations -> SUBSET TurnRecords]
  BY <1>d, <1>t, <1>s DEF DropLocals, TypeOK
<1>6. ASSUME NEW i \in Invocations, Decide(i) PROVE Types'
  <2>1. SplitForCompaction(snap[i], ProtectedTurns) \in SUBSET TurnRecords
    BY <1>t, CutsAreTurns DEF TypeOK
  <2>2. TypeOK'
    <3>1. pc' \in [Invocations -> Labels]
      BY <1>6, <1>t, <1>l DEF Decide, TypeOK
    <3>2. /\ snap' \in [Invocations -> SUBSET TurnRecords]
          /\ base' \in [Invocations -> Summaries]
          /\ cut' \in [Invocations -> SUBSET TurnRecords]
          /\ todo' \in [Invocations -> SUBSET TurnRecords]
      <4>1. CASE DropLocals(i)
        BY <4>1, <1>d
      <4>2. CASE /\ cut' = [cut EXCEPT ![i] = SplitForCompaction(snap[i], ProtectedTurns)]
                 /\ UNCHANGED <<snap, base, todo>>
        BY <4>2, <1>t, <2>1 DEF TypeOK
      <4>3. QED
        BY <1>6, <4>1, <4>2 DEF Decide
    <3>3. QED
      BY <1>6, <1>t, <3>1, <3>2 DEF Decide, TypeOK
  <2>3. QED
    BY <1>6, <1>t, <2>2, QuietTypes DEF Decide, TypeOK
<1>7. ASSUME NEW i \in Invocations, Summarized(i) PROVE Types'
  <2>1. TypeOK'
    BY <1>7, <1>t, <1>l, SizesAssumption DEF Summarized, TypeOK
  <2>2. QED
    BY <1>7, <1>t, <2>1, QuietTypes DEF Summarized, TypeOK
<1>8. ASSUME NEW i \in Invocations, SummaryFailed(i) PROVE Types'
  <2> DEFINE dropped == TruncateDropped(snap[i], ProtectedTurns, ContextWindow, SummaryCost(base[i]))
  <2>1. dropped \in SUBSET TurnRecords
    BY <1>t, CutsAreTurns DEF TypeOK
  <2> HIDE DEF dropped
  <2>2. TypeOK'
    <3>1. /\ plan' = [plan EXCEPT ![i] = [how |-> "truncation", tok |-> 0]]
          /\ cut'  = [cut EXCEPT ![i] = dropped]
          /\ todo' = [todo EXCEPT ![i] = dropped]
      BY <1>8 DEF SummaryFailed, dropped
    <3>2. QED
      BY <1>8, <1>t, <1>l, <2>1, <3>1 DEF SummaryFailed, TypeOK
  <2>3. QED
    BY <1>8, <1>t, <2>2, QuietTypes DEF SummaryFailed, TypeOK
<1>9. ASSUME NEW i \in Invocations, ArchiveTurn(i) PROVE Types'
  <2>1. TypeOK'
    BY <1>9, <1>t DEF ArchiveTurn, TypeOK
  <2>2. QED
    BY <1>9, <1>t, <2>1, QuietTypes DEF ArchiveTurn, TypeOK
<1>10. ASSUME NEW i \in Invocations, ArchiveDone(i) PROVE Types'
  <2>1. TypeOK'
    BY <1>10, <1>t, <1>l DEF ArchiveDone, TypeOK
  <2>2. QED
    BY <1>10, <1>t, <2>1, QuietTypes DEF ArchiveDone, TypeOK
<1>11. ASSUME NEW i \in Invocations, RemoveTurn(i) PROVE Types'
  <2>1. TypeOK'
    BY <1>11, <1>t DEF RemoveTurn, TypeOK
  <2>2. QED
    BY <1>11, <1>t, <2>1, QuietTypes DEF RemoveTurn, TypeOK
<1>12. ASSUME NEW i \in Invocations, RemoveDone(i) PROVE Types'
  <2>1. TypeOK'
    BY <1>12, <1>t, <1>l DEF RemoveDone, TypeOK
  <2>2. QED
    BY <1>12, <1>t, <2>1, QuietTypes DEF RemoveDone, TypeOK
<1>n. ASSUME NEW i \in Invocations PROVE NewSummary(i) \in Summaries
  BY <1>t DEF NewSummary, Summaries, Ids, TypeOK, TurnRecords
<1>13. ASSUME NEW i \in Invocations, RecordState(i) PROVE Types'
  <2>1. TypeOK'
    BY <1>13, <1>t, <1>l, <1>n DEF RecordState, TypeOK
  <2>2. QED
    BY <1>13, <1>t, <2>1, QuietTypes DEF RecordState, TypeOK
<1>14. ASSUME NEW i \in Invocations, RecordEvent(i) PROVE Types'
  <2>1. NewSummary(i).covers \in SUBSET Nat
    BY <1>n DEF Summaries
  <2>2. TypeOK'
    <3>1. DropLocals(i)
      BY <1>14 DEF RecordEvent
    <3>2. /\ snap' \in [Invocations -> SUBSET TurnRecords]
          /\ base' \in [Invocations -> Summaries]
          /\ cut' \in [Invocations -> SUBSET TurnRecords]
          /\ todo' \in [Invocations -> SUBSET TurnRecords]
      BY <3>1, <1>d
    <3>3. context' \in [Invocations -> [turns : SUBSET Nat, covers : SUBSET Nat]]
      <4> DEFINE c == NewSummary(i).covers
      <4>1. context' = [context EXCEPT ![i].covers = c] /\ c \in SUBSET Nat
        BY <1>14, <2>1 DEF RecordEvent
      <4> HIDE DEF c
      <4>2. context[i] \in [turns : SUBSET Nat, covers : SUBSET Nat]
        BY <1>t DEF TypeOK
      <4>3. [context[i] EXCEPT !.covers = c] \in [turns : SUBSET Nat, covers : SUBSET Nat]
        BY <4>1, <4>2
      <4>4. context' = [context EXCEPT ![i] = [context[i] EXCEPT !.covers = c]]
        BY <4>1, <1>t DEF TypeOK
      <4>5. QED
        BY <4>3, <4>4, <1>t DEF TypeOK
    <3>4. QED
      <4>1. pc' \in [Invocations -> Labels] /\ events' \in Nat
        BY <1>14, <1>t, <1>l DEF RecordEvent, TypeOK
      <4>2. UNCHANGED <<turns, archive, expired, summary, compactions, nextId, faults, plan, queue,
                        slot, calls>>
        BY <1>14 DEF RecordEvent
      <4>3. QED
        BY <1>t, <3>2, <3>3, <4>1, <4>2 DEF TypeOK
  <2>3. QED
    BY <1>14, <1>t, <2>2, QuietTypes DEF RecordEvent, TypeOK
<1>15. ASSUME NEW i \in Invocations, LoadHistory(i) PROVE Types'
  <2>1. Ids(turns) \in SUBSET Nat
    BY <1>t DEF Ids, TypeOK, TurnRecords
  <2>2. TypeOK'
    BY <1>15, <1>t, <1>l, <2>1 DEF LoadHistory, TypeOK
  <2>3. QED
    BY <1>15, <1>t, <2>2, QuietTypes DEF LoadHistory, TypeOK
<1>16. ASSUME NEW i \in Invocations, ChatTools(i) PROVE Types'
  <2>1. PICK n \in 1 .. MaxToolCalls, text \in {<< >>, <<"assistant">>} :
          queue' = [queue EXCEPT ![i] = text \o Pairs(n)]
    BY <1>16 DEF ChatTools
  <2>2. n \in Nat /\ n > 0
    BY BoundsAssumption, SMT
  <2> DEFINE q == text \o Pairs(n)
  <2>3. q \in Seq(Roles) /\ q # << >>
    BY <2>2, PairsType
  <2>4. queue' = [queue EXCEPT ![i] = q]
    BY <2>1
  <2> HIDE DEF q
  <2>5. TypeOK'
    <3>1. queue' \in [Invocations -> Seq(Roles)]
      BY <1>t, <2>3, <2>4 DEF TypeOK
    <3>2. pc' \in [Invocations -> Labels] /\ calls' \in [Invocations -> Nat]
      BY <1>16, <1>t, <1>l DEF ChatTools, CallsLeft, TypeOK
    <3>3. QED
      BY <1>16, <1>t, <3>1, <3>2 DEF ChatTools, TypeOK
  <2>6. QED
    BY <1>16, <1>t, <2>3, <2>4, <2>5 DEF ChatTools, Types, TypeOK, IndexesBelow, QueueReady
<1>17. ASSUME NEW i \in Invocations, ChatAnswer(i) PROVE Types'
  <2>1. <<"assistant">> \in Seq(Roles) /\ <<"assistant">> # << >>
    BY SMT DEF Roles
  <2>2. TypeOK'
    BY <1>17, <1>t, <1>l, <2>1 DEF ChatAnswer, CallsLeft, TypeOK
  <2>3. QED
    BY <1>17, <1>t, <2>1, <2>2 DEF ChatAnswer, Types, TypeOK, IndexesBelow, QueueReady
<1>18. ASSUME NEW i \in Invocations, ChatEmpty(i) PROVE Types'
  <2>1. TypeOK'
    BY <1>18, <1>t, <1>l DEF ChatEmpty, CallsLeft, TypeOK
  <2>2. QED
    BY <1>18, <1>t, <2>1, QuietTypes DEF ChatEmpty, TypeOK
<1>19. ASSUME NEW i \in Invocations, \/ ChatError(i) \/ OutOfIterations(i) \/ ToolFails(i) PROVE Types'
  <2>1. TypeOK'
    BY <1>19, <1>t, <1>l DEF ChatError, OutOfIterations, ToolFails, TypeOK
  <2>2. \A j \in Invocations : pc'[j] = "append" => pc[j] = "append"
    BY <1>19, <1>t DEF ChatError, OutOfIterations, ToolFails, TypeOK
  <2>3. QED
    BY <1>19, <2>1, <2>2, QuietTypes DEF ChatError, OutOfIterations, ToolFails
<1>20. ASSUME NEW i \in Invocations, StatementFails(i) PROVE Types'
  <2>1. TypeOK'
    <3>1. pc' \in [Invocations -> Labels] /\ faults' \in Nat
      <4>1. pc' = [pc EXCEPT ![i] = "history"] \/ pc' = [pc EXCEPT ![i] = "failed"]
        BY <1>20 DEF StatementFails
      <4>2. faults' = faults + 1
        BY <1>20 DEF StatementFails
      <4>3. pc' \in [Invocations -> Labels]
        BY <4>1, <1>t, <1>l DEF TypeOK
      <4>4. faults' \in Nat
        BY <4>2, <1>t DEF TypeOK
      <4>5. QED
        BY <4>3, <4>4
    <3>2. QED
      BY <1>20, <1>t, <1>d, <3>1 DEF StatementFails, TypeOK
  <2>2. QED
    BY <1>20, <1>t, <2>1, QuietTypes DEF StatementFails, TypeOK
<1>21. ASSUME NEW i \in Invocations, ExpireArchive(i) PROVE Types'
  <2>1. TypeOK'
    BY <1>21, <1>t DEF ExpireArchive, TypeOK
  <2>2. QED
    BY <1>21, <2>1, QuietTypes DEF ExpireArchive
<1>22. ASSUME Crash PROVE Types'
  <2>1. TypeOK'
    BY <1>22, <1>t, <1>l, <1>s DEF Crash, TypeOK
  <2>2. QED
    BY <1>22, <1>t, <2>1, QuietTypes DEF Crash, TypeOK
<1>23. CASE UNCHANGED vars
  BY <1>23 DEF Types, TypeOK, IndexesBelow, QueueReady
<1>24. ASSUME NEW i \in Invocations, SummaryUnread(i) PROVE Types'
  <2>1. NoSummary \in Summaries /\ faults + 1 \in Nat
    BY <1>t DEF TypeOK, NoSummary, Summaries
  <2>2. TypeOK'
    BY <1>24, <1>t, <1>l, <2>1 DEF SummaryUnread, TypeOK
  <2>3. QED
    BY <1>24, <1>t, <2>2, QuietTypes DEF SummaryUnread, TypeOK
<1>25. QED
  BY <1>1, <1>2, <1>3, <1>4, <1>5, <1>6, <1>7, <1>8, <1>9, <1>10, <1>11, <1>12, <1>13, <1>14,
     <1>15, <1>16, <1>17, <1>18, <1>19, <1>20, <1>21, <1>22, <1>23, <1>24 DEF Next, Step

(***************************************************************************)
(* Every variable keeps its type.                                          *)
(***************************************************************************)
THEOREM TypeCorrect == Spec => []TypeOK
<1>1. Types => TypeOK
  BY DEF Types
<1>2. QED
  BY InitTypes, StepTypes, <1>1, PTL DEF Spec

(***************************************************************************)
(* Why no turn is lost.  A compaction works on turns it read earlier, so   *)
(* the invariant must say that these were written (LocalsWritten), and     *)
(* that a turn it goes on to delete is in the archive, or has expired      *)
(* there, by the time it gets to the deleting (ArchivedFirst).             *)
(***************************************************************************)
Identities ==
  /\ \A t \in Written : t.id < nextId
  /\ \A t, u \in Written : t.id = u.id => t = u
LocalsWritten ==
  \A i \in Invocations : snap[i] \subseteq Written /\ cut[i] \subseteq Written
ArchivedFirst ==
  \A i \in Invocations :
    /\ pc[i] \in {"archive", "remove"} => todo[i] \subseteq cut[i]
    /\ pc[i] = "archive" => cut[i] \ todo[i] \subseteq ArchivedTurns \cup expired
    /\ pc[i] = "remove"  => cut[i] \subseteq ArchivedTurns \cup expired
IInv == Types /\ Identities /\ LocalsWritten /\ ArchivedFirst

LEMMA InitIInv == Init => IInv
<1> SUFFICES ASSUME Init PROVE IInv
  OBVIOUS
<1>1. Types
  BY InitTypes
<1>2. Written = {}
  BY DEF Init, Written, ArchivedTurns
<1>3. QED
  BY <1>1, <1>2 DEF Init, IInv, Identities, LocalsWritten, ArchivedFirst

\* A step that leaves the rows alone and drops or keeps the locals of every
\* invocation, without entering the two loops of a compaction.
LEMMA QuietIInv ==
  ASSUME IInv, Types', UNCHANGED <<turns, archive, expired, nextId>>,
         \A i \in Invocations :
           /\ snap'[i] \subseteq Written /\ cut'[i] \subseteq Written
           /\ pc'[i] \in {"archive", "remove"} =>
                pc'[i] = pc[i] /\ cut'[i] = cut[i] /\ todo'[i] = todo[i]
  PROVE  IInv'
<1>1. Written' = Written /\ ArchivedTurns' = ArchivedTurns /\ expired' = expired
  BY DEF Written, ArchivedTurns
<1>2. Identities'
  BY <1>1 DEF IInv, Identities
<1>3. LocalsWritten'
  BY <1>1 DEF LocalsWritten
<1>4. ArchivedFirst'
  BY <1>1 DEF IInv, ArchivedFirst
<1>5. QED
  BY <1>2, <1>3, <1>4 DEF IInv

LEMMA NewArchiveRow ==
  ASSUME NEW t, NEW i, archive' = archive \cup {[turn |-> t, run |-> i]}
  PROVE  ArchivedTurns' = ArchivedTurns \cup {t}
<1> DEFINE row == [turn |-> t, run |-> i]
<1>1. row.turn = t
  OBVIOUS
<1> HIDE DEF row
<1>2. archive' = archive \cup {row}
  BY DEF row
<1>3. QED
  BY <1>1, <1>2, Zenon DEF ArchivedTurns

LEMMA StepIInv == IInv /\ [Next]_vars => IInv'
<1> SUFFICES ASSUME IInv, [Next]_vars PROVE IInv'
  OBVIOUS
<1> USE DEF vars, dbVars, compVars, loopVars, Goto
<1>t. TypeOK /\ Types /\ Types'
  BY StepTypes DEF IInv, Types
<1>w. \A i \in Invocations :
        snap[i] \subseteq Written /\ cut[i] \subseteq Written
  BY DEF IInv, LocalsWritten
<1>1. ASSUME NEW i \in Invocations,
             \/ Start(i) \/ ReadIndex(i) \/ ReadSummary(i) \/ SummaryUnread(i) \/ RemoveDone(i) \/ RecordState(i)
             \/ LoadHistory(i) \/ ChatTools(i) \/ ChatAnswer(i) \/ ChatEmpty(i) \/ ChatError(i)
             \/ OutOfIterations(i) \/ ToolFails(i)
      PROVE  IInv'
  <2>1. UNCHANGED <<turns, archive, expired, nextId, snap, cut, todo>>
    BY <1>1 DEF Start, ReadIndex, ReadSummary, SummaryUnread, RemoveDone, RecordState, LoadHistory, ChatTools,
         ChatAnswer, ChatEmpty, ChatError, OutOfIterations, ToolFails
  <2>2. \A j \in Invocations : pc'[j] \in {"archive", "remove"} => pc'[j] = pc[j]
    BY <1>1, <1>t DEF TypeOK, Start, ReadIndex, ReadSummary, SummaryUnread, RemoveDone, RecordState, LoadHistory,
         ChatTools, ChatAnswer, ChatEmpty, ChatError, OutOfIterations, ToolFails
  <2>3. QED
    BY <1>t, <1>w, <2>1, <2>2, QuietIInv
<1>2. ASSUME NEW i \in Invocations, InsertTurn(i) PROVE IInv'
  <2>1. PICK n \in TurnTokens :
          turns' = turns \cup {[id |-> nextId, idx |-> slot[i], role |-> Head(queue[i]), tok |-> n]}
    BY <1>2 DEF InsertTurn
  <2> DEFINE t == [id |-> nextId, idx |-> slot[i], role |-> Head(queue[i]), tok |-> n]
  <2>2. t.id = nextId /\ nextId \in Nat /\ nextId' = nextId + 1
    BY <1>2, <1>t DEF InsertTurn, TypeOK
  <2>3. Written' = Written \cup {t} /\ ArchivedTurns' = ArchivedTurns /\ expired' = expired
    BY <1>2, <2>1 DEF InsertTurn, Written, ArchivedTurns
  <2> HIDE DEF t
  <2>4. \A u \in Written : u.id \in Nat /\ u.id < nextId
    BY <1>t DEF IInv, Identities, Written, ArchivedTurns, TypeOK, TurnRecords
  <2>5. Identities'
    <3>1. \A u \in Written' : u.id < nextId'
      BY <2>2, <2>3, <2>4, SMT
    <3>2. \A u \in Written : u.id # t.id
      BY <2>2, <2>4, SMT
    <3>3. QED
      BY <2>3, <3>1, <3>2 DEF IInv, Identities
  <2>6. LocalsWritten'
    BY <1>2, <1>w, <2>3 DEF InsertTurn, LocalsWritten
  <2>7. \A j \in Invocations : pc'[j] \in {"archive", "remove"} => pc'[j] = pc[j]
    <3>1. AfterAppend(i) \notin {"archive", "remove"}
      BY DEF AfterAppend
    <3>2. QED
      BY <1>2, <1>t, <3>1 DEF InsertTurn, TypeOK
  <2>8. ArchivedFirst'
    BY <1>2, <2>3, <2>7 DEF InsertTurn, IInv, ArchivedFirst
  <2>9. QED
    BY <1>t, <2>5, <2>6, <2>8 DEF IInv
<1>3. ASSUME NEW i \in Invocations, ReadTurns(i) PROVE IInv'
  <2>1. /\ UNCHANGED <<turns, archive, expired, nextId, cut, todo>>
        /\ \A j \in Invocations : snap'[j] \subseteq Written
        /\ \A j \in Invocations : pc'[j] \in {"archive", "remove"} => pc'[j] = pc[j]
    BY <1>3, <1>t, <1>w DEF ReadTurns, TypeOK, Written
  <2>2. QED
    BY <1>t, <1>w, <2>1, QuietIInv
<1>d. ASSUME NEW i \in Invocations, DropLocals(i)
      PROVE  \A j \in Invocations :
               /\ snap'[j] \subseteq Written /\ cut'[j] \subseteq Written
               /\ j # i => cut'[j] = cut[j] /\ todo'[j] = todo[j]
  BY <1>d, <1>t, <1>w DEF DropLocals, TypeOK
<1>4. ASSUME NEW i \in Invocations, Decide(i) PROVE IInv'
  <2>1. UNCHANGED <<turns, archive, expired, nextId>>
    BY <1>4 DEF Decide
  <2>2. \A j \in Invocations : pc'[j] \in {"archive", "remove"} => pc'[j] = pc[j] /\ j # i
    BY <1>4, <1>t DEF Decide, TypeOK
  <2>3. CASE DropLocals(i)
    BY <1>t, <2>1, <2>2, <2>3, <1>d, QuietIInv
  <2>4. CASE /\ cut' = [cut EXCEPT ![i] = SplitForCompaction(snap[i], ProtectedTurns)]
             /\ UNCHANGED <<snap, base, todo>>
    <3>1. SplitForCompaction(snap[i], ProtectedTurns) \subseteq Written
      BY <1>w, CutsAreTurns
    <3>2. \A j \in Invocations :
            snap'[j] \subseteq Written /\ cut'[j] \subseteq Written /\ (j # i => cut'[j] = cut[j])
      BY <1>t, <1>w, <2>4, <3>1 DEF TypeOK
    <3>3. QED
      BY <1>t, <2>1, <2>2, <2>4, <3>2, QuietIInv
  <2>5. QED
    BY <1>4, <2>3, <2>4 DEF Decide
<1>5. ASSUME NEW i \in Invocations, Summarized(i) PROVE IInv'
  <2>1. UNCHANGED <<turns, archive, expired, nextId, snap, cut>>
    BY <1>5 DEF Summarized
  <2>2. todo'[i] = cut'[i] /\ pc'[i] = "archive"
    BY <1>5, <1>t DEF Summarized, TypeOK
  <2>3. \A j \in Invocations \ {i} : pc'[j] = pc[j] /\ todo'[j] = todo[j]
    BY <1>5, <1>t DEF Summarized, TypeOK
  <2>4. Written' = Written /\ ArchivedTurns' = ArchivedTurns
    BY <2>1 DEF Written, ArchivedTurns
  <2>5. ArchivedFirst'
    BY <2>1, <2>2, <2>3, <2>4 DEF IInv, ArchivedFirst
  <2>6. QED
    BY <1>t, <1>w, <2>1, <2>4, <2>5 DEF IInv, Identities, LocalsWritten
<1>6. ASSUME NEW i \in Invocations, SummaryFailed(i) PROVE IInv'
  <2> DEFINE dropped == TruncateDropped(snap[i], ProtectedTurns, ContextWindow, SummaryCost(base[i]))
  <2>1. /\ UNCHANGED <<turns, archive, expired, nextId, snap>>
        /\ cut' = [cut EXCEPT ![i] = dropped] /\ todo' = [todo EXCEPT ![i] = dropped]
        /\ pc' = [pc EXCEPT ![i] = "archive"]
    BY <1>6 DEF SummaryFailed
  <2>2. dropped \subseteq Written
    BY <1>w, CutsAreTurns
  <2> HIDE DEF dropped
  <2>3. Written' = Written /\ ArchivedTurns' = ArchivedTurns
    BY <2>1 DEF Written, ArchivedTurns
  <2>4. \A j \in Invocations : j # i => pc'[j] = pc[j] /\ todo'[j] = todo[j] /\ cut'[j] = cut[j]
    BY <2>1, <1>t DEF TypeOK
  <2>5. todo'[i] = dropped /\ cut'[i] = dropped /\ pc'[i] = "archive"
    BY <2>1, <1>t DEF TypeOK
  <2>6. ArchivedFirst'
    BY <2>1, <2>3, <2>4, <2>5 DEF IInv, ArchivedFirst
  <2>7. LocalsWritten'
    BY <1>w, <2>1, <2>2, <2>3, <2>4, <2>5 DEF LocalsWritten
  <2>8. QED
    BY <1>t, <2>1, <2>3, <2>6, <2>7 DEF IInv, Identities
<1>7. ASSUME NEW i \in Invocations, ArchiveTurn(i) PROVE IInv'
  <2>1. PICK t \in todo[i] : /\ archive' = archive \cup {[turn |-> t, run |-> i]}
                            /\ todo' = [todo EXCEPT ![i] = @ \ {t}]
    BY <1>7 DEF ArchiveTurn
  <2>2. /\ UNCHANGED <<turns, expired, nextId, pc, snap, cut>> /\ pc[i] = "archive"
    BY <1>7 DEF ArchiveTurn
  <2>3. ArchivedTurns' = ArchivedTurns \cup {t}
    BY <2>1, NewArchiveRow
  <2>4. t \in Written /\ todo[i] \subseteq cut[i]
    BY <1>w, <2>2 DEF IInv, ArchivedFirst
  <2>5. Written' = Written
    BY <2>2, <2>3, <2>4 DEF Written
  <2>6. todo'[i] = todo[i] \ {t} /\ \A j \in Invocations \ {i} : todo'[j] = todo[j]
    BY <2>1, <1>t DEF TypeOK
  <2>7. ArchivedFirst'
    BY <2>2, <2>3, <2>6 DEF IInv, ArchivedFirst
  <2>8. QED
    BY <1>t, <1>w, <2>2, <2>5, <2>7 DEF IInv, Identities, LocalsWritten
<1>8. ASSUME NEW i \in Invocations, ArchiveDone(i) PROVE IInv'
  <2>1. UNCHANGED <<turns, archive, expired, nextId, snap, cut>> /\ pc[i] = "archive" /\ todo[i] = {}
    BY <1>8 DEF ArchiveDone
  <2>2. todo'[i] = cut'[i] /\ pc'[i] = "remove"
    BY <1>8, <1>t DEF ArchiveDone, TypeOK
  <2>3. \A j \in Invocations \ {i} : pc'[j] = pc[j] /\ todo'[j] = todo[j]
    BY <1>8, <1>t DEF ArchiveDone, TypeOK
  <2>4. Written' = Written /\ ArchivedTurns' = ArchivedTurns
    BY <2>1 DEF Written, ArchivedTurns
  <2>5. ArchivedFirst'
    BY <2>1, <2>2, <2>3, <2>4 DEF IInv, ArchivedFirst
  <2>6. QED
    BY <1>t, <1>w, <2>1, <2>4, <2>5 DEF IInv, Identities, LocalsWritten
<1>9. ASSUME NEW i \in Invocations, RemoveTurn(i) PROVE IInv'
  <2>1. PICK t \in todo[i] : /\ turns' = {u \in turns : u.id # t.id}
                            /\ todo' = [todo EXCEPT ![i] = @ \ {t}]
    BY <1>9 DEF RemoveTurn
  <2>2. UNCHANGED <<archive, expired, nextId, pc, snap, cut>> /\ pc[i] = "remove"
    BY <1>9 DEF RemoveTurn
  <2>3. ArchivedTurns' = ArchivedTurns
    BY <2>2 DEF ArchivedTurns
  <2>4. t \in ArchivedTurns \cup expired
    BY <2>2 DEF IInv, ArchivedFirst
  <2>5. turns' = turns \ {t}
    BY <2>1, <2>4 DEF IInv, Identities, Written
  <2>6. Written' = Written
    BY <2>2, <2>3, <2>4, <2>5 DEF Written
  <2>7. todo'[i] = todo[i] \ {t} /\ \A j \in Invocations \ {i} : todo'[j] = todo[j]
    BY <2>1, <1>t DEF TypeOK
  <2>8. ArchivedFirst'
    BY <2>2, <2>3, <2>7 DEF IInv, ArchivedFirst
  <2>9. QED
    BY <1>t, <1>w, <2>2, <2>6, <2>8 DEF IInv, Identities, LocalsWritten
<1>10. ASSUME NEW i \in Invocations, RecordEvent(i) PROVE IInv'
  <2>1. UNCHANGED <<turns, archive, expired, nextId>> /\ DropLocals(i)
    BY <1>10 DEF RecordEvent
  <2>2. \A j \in Invocations : pc'[j] \in {"archive", "remove"} => pc'[j] = pc[j] /\ j # i
    BY <1>10, <1>t DEF RecordEvent, TypeOK
  <2>3. QED
    BY <1>t, <1>d, <2>1, <2>2, QuietIInv
<1>11. ASSUME NEW i \in Invocations, StatementFails(i) PROVE IInv'
  <2>1. UNCHANGED <<turns, archive, expired, nextId>> /\ DropLocals(i)
    BY <1>11 DEF StatementFails
  <2>2. \A j \in Invocations : pc'[j] \in {"archive", "remove"} => pc'[j] = pc[j] /\ j # i
    <3>1. pc' = [pc EXCEPT ![i] = "history"] \/ pc' = [pc EXCEPT ![i] = "failed"]
      BY <1>11 DEF StatementFails
    <3>2. QED
      BY <3>1, <1>t DEF TypeOK
  <2>3. QED
    BY <1>t, <1>d, <2>1, <2>2, QuietIInv
<1>12. ASSUME NEW i \in Invocations, ExpireArchive(i) PROVE IInv'
  <2> DEFINE rows == {row \in archive : row.run = i}
  <2>1. /\ UNCHANGED <<turns, nextId, pc, snap, cut, todo>>
        /\ archive' = archive \ rows /\ expired' = expired \cup {row.turn : row \in rows}
    BY <1>12 DEF ExpireArchive
  <2>2. /\ Written' = Written
        /\ ArchivedTurns' \cup expired' = ArchivedTurns \cup expired
    BY <2>1 DEF Written, ArchivedTurns
  <2>3. ArchivedFirst'
    BY <2>1, <2>2 DEF IInv, ArchivedFirst
  <2>4. QED
    BY <1>t, <1>w, <2>1, <2>2, <2>3 DEF IInv, Identities, LocalsWritten
<1>13. ASSUME Crash PROVE IInv'
  <2>1. /\ UNCHANGED <<turns, archive, expired, nextId>>
        /\ \A i \in Invocations : snap'[i] = {} /\ cut'[i] = {}
    BY <1>13 DEF Crash
  <2>2. \A i \in Invocations : pc'[i] \notin {"archive", "remove"}
    BY <1>13 DEF Crash, Running, Ended
  <2>3. QED
    BY <1>t, <2>1, <2>2, QuietIInv
<1>14. CASE UNCHANGED vars
  <2>1. QED
    BY <1>t, <1>w, <1>14, QuietIInv
<1>15. QED
  BY <1>1, <1>2, <1>3, <1>4, <1>5, <1>6, <1>7, <1>8, <1>9, <1>10, <1>11, <1>12, <1>13, <1>14
     DEF Next, Step

\* A step either leaves the set of written turns alone or adds the next turn.
LEMMA StepWrites ==
  ASSUME IInv, [Next]_vars
  PROVE  \/ UNCHANGED nextId /\ Written \subseteq Written'
         \/ \E t : Written' = Written \cup {t} /\ t.id = nextId /\ nextId' = nextId + 1
<1> USE DEF vars, dbVars, compVars, loopVars
<1>1. CASE UNCHANGED <<turns, archive, expired, nextId>>
  BY <1>1 DEF Written, ArchivedTurns
<1>2. ASSUME NEW i \in Invocations, InsertTurn(i)
      PROVE  \E t : Written' = Written \cup {t} /\ t.id = nextId /\ nextId' = nextId + 1
  <2>1. PICK n \in TurnTokens :
          turns' = turns \cup {[id |-> nextId, idx |-> slot[i], role |-> Head(queue[i]), tok |-> n]}
    BY <1>2 DEF InsertTurn
  <2> DEFINE t == [id |-> nextId, idx |-> slot[i], role |-> Head(queue[i]), tok |-> n]
  <2>2. t.id = nextId /\ nextId' = nextId + 1
    BY <1>2 DEF InsertTurn
  <2>3. Written' = Written \cup {t}
    BY <1>2, <2>1 DEF InsertTurn, Written, ArchivedTurns
  <2>4. QED
    BY <2>2, <2>3
<1>3. ASSUME NEW i \in Invocations, ArchiveTurn(i)
      PROVE  UNCHANGED nextId /\ Written \subseteq Written'
  BY <1>3 DEF ArchiveTurn, Written, ArchivedTurns
<1>4. ASSUME NEW i \in Invocations, RemoveTurn(i)
      PROVE  UNCHANGED nextId /\ Written \subseteq Written'
  <2>1. PICK t \in todo[i] : turns' = {u \in turns : u.id # t.id}
    BY <1>4 DEF RemoveTurn
  <2>2. UNCHANGED <<archive, expired, nextId>> /\ t \in ArchivedTurns \cup expired
    BY <1>4 DEF RemoveTurn, IInv, ArchivedFirst
  <2>3. turns \subseteq turns' \cup {t}
    BY <2>1, <2>2 DEF IInv, Identities, Written
  <2>4. QED
    BY <2>2, <2>3 DEF Written, ArchivedTurns
<1>5. ASSUME NEW i \in Invocations, ExpireArchive(i)
      PROVE  UNCHANGED nextId /\ Written \subseteq Written'
  BY <1>5 DEF ExpireArchive, Written, ArchivedTurns
<1>6. QED
  BY <1>1, <1>2, <1>3, <1>4, <1>5
     DEF Next, Step, Start, ReadIndex, ReadTurns, ReadSummary, SummaryUnread, SummaryUnread, Decide, Summarized, SummaryFailed,
         ArchiveDone, RemoveDone, RecordState, RecordEvent, LoadHistory, ChatTools, ChatAnswer,
         ChatEmpty, ChatError, OutOfIterations, ToolFails, StatementFails, Crash

(***************************************************************************)
(* Every row of the conversation that was ever inserted is in it, in the   *)
(* archive, or expired there, whatever interleaves and whatever fails.     *)
(***************************************************************************)
THEOREM NoTurnIsLost == Spec => []NoTurnLost
<1>1. Init => NoTurnLost
  BY SMT DEF Init, NoTurnLost
<1>2. IInv /\ IInv' /\ NoTurnLost /\ [Next]_vars => NoTurnLost'
  <2> SUFFICES ASSUME IInv, NoTurnLost, [Next]_vars PROVE NoTurnLost'
    OBVIOUS
  <2>1. nextId \in Nat
    BY DEF IInv, Types, TypeOK
  <2>2. CASE UNCHANGED nextId /\ Written \subseteq Written'
    BY <2>2 DEF NoTurnLost
  <2>3. ASSUME NEW t, Written' = Written \cup {t}, t.id = nextId, nextId' = nextId + 1
        PROVE  NoTurnLost'
    BY <2>1, <2>3, SMT DEF NoTurnLost
  <2>4. QED
    BY <2>2, <2>3, StepWrites
<1>3. QED
  BY <1>1, <1>2, InitIInv, StepIInv, PTL DEF Spec

\* The ledger's step for each step of the loop that touches rows.
LEMMA StepLedger ==
  ASSUME IInv, [Next]_vars
  PROVE  Ledger!LedgerNext \/ UNCHANGED <<turns, ArchivedTurns, expired>>
<1> USE DEF vars, dbVars, compVars, loopVars
<1>w. Ledger!Written = Written
  BY DEF Ledger!Written, Written
<1>1. CASE UNCHANGED <<turns, archive, expired>>
  BY <1>1 DEF ArchivedTurns
<1>2. ASSUME NEW i \in Invocations, InsertTurn(i) PROVE Ledger!Write
  <2>1. PICK n \in TurnTokens :
          turns' = turns \cup {[id |-> nextId, idx |-> slot[i], role |-> Head(queue[i]), tok |-> n]}
    BY <1>2 DEF InsertTurn
  <2> DEFINE t == [id |-> nextId, idx |-> slot[i], role |-> Head(queue[i]), tok |-> n]
  <2>2. t.id = nextId /\ turns' = turns \cup {t}
    BY <2>1
  <2>3. UNCHANGED <<ArchivedTurns, expired>>
    BY <1>2 DEF InsertTurn, ArchivedTurns
  <2> HIDE DEF t
  <2>4. \A u \in Written : u.id # nextId
    <3>1. nextId \in Nat
      BY DEF IInv, Types, TypeOK
    <3>2. QED
      BY <3>1, SMT DEF IInv, Identities
  <2>5. QED
    BY <1>w, <2>2, <2>3, <2>4 DEF Ledger!Write
<1>3. ASSUME NEW i \in Invocations, ArchiveTurn(i) PROVE Ledger!Copy
  <2>1. PICK t \in todo[i] : archive' = archive \cup {[turn |-> t, run |-> i]}
    BY <1>3 DEF ArchiveTurn
  <2>2. t \in Written
    BY <1>3 DEF ArchiveTurn, IInv, ArchivedFirst, LocalsWritten
  <2>3. ArchivedTurns' = ArchivedTurns \cup {t}
    BY <2>1, NewArchiveRow
  <2>4. UNCHANGED <<turns, expired>>
    BY <1>3 DEF ArchiveTurn
  <2>5. QED
    BY <1>w, <2>2, <2>3, <2>4 DEF Ledger!Copy
<1>4. ASSUME NEW i \in Invocations, RemoveTurn(i) PROVE Ledger!Forget
  <2>1. PICK t \in todo[i] : turns' = {u \in turns : u.id # t.id}
    BY <1>4 DEF RemoveTurn
  <2>2. UNCHANGED <<archive, expired>> /\ t \in ArchivedTurns \cup expired
    BY <1>4 DEF RemoveTurn, IInv, ArchivedFirst
  <2>3. turns' = turns \ {t}
    BY <2>1, <2>2 DEF IInv, Identities, Written
  <2>4. QED
    BY <2>2, <2>3 DEF Ledger!Forget, ArchivedTurns
<1>5. ASSUME NEW i \in Invocations, ExpireArchive(i) PROVE Ledger!Expire
  <2> DEFINE rows == {row \in archive : row.run = i}
             S    == {row.turn : row \in rows}
  <2>1. archive' = archive \ rows /\ expired' = expired \cup S /\ UNCHANGED turns
    BY <1>5 DEF ExpireArchive
  <2>2. S \in SUBSET ArchivedTurns
    BY DEF ArchivedTurns
  <2>3. /\ ArchivedTurns' \subseteq ArchivedTurns
        /\ ArchivedTurns \subseteq ArchivedTurns' \cup expired'
    BY <2>1 DEF ArchivedTurns
  <2>4. QED
    BY <2>1, <2>2, <2>3 DEF Ledger!Expire
<1>6. QED
  BY <1>1, <1>2, <1>3, <1>4, <1>5
     DEF Ledger!LedgerNext, Next, Step, Start, ReadIndex, ReadTurns, ReadSummary, SummaryUnread, Decide,
         Summarized, SummaryFailed, ArchiveDone, RemoveDone, RecordState, RecordEvent, LoadHistory,
         ChatTools, ChatAnswer, ChatEmpty, ChatError, OutOfIterations, ToolFails, StatementFails,
         Crash

(***************************************************************************)
(* The loop and its compaction implement TurnLedger: turns are written     *)
(* once, leave through the archive unchanged, and leave that by expiry.    *)
(***************************************************************************)
THEOREM LoopImplementsLedger == Spec => ImplementsLedger
<1>1. Init => Ledger!LedgerInit
  BY DEF Init, ArchivedTurns, Ledger!LedgerInit
<1>2. IInv /\ [Next]_vars => [Ledger!LedgerNext]_(Ledger!ledgerVars)
  BY StepLedger DEF Ledger!ledgerVars
<1>3. QED
  BY <1>1, <1>2, InitIInv, StepIInv, PTL DEF Spec, ImplementsLedger, Ledger!LedgerSpec

(***************************************************************************)
(* Why recent turns survive decisions made on an older reading.  A turn    *)
(* is settled when as many turns as are protected come after it.  What a   *)
(* snapshot has outside its recent turns is settled and stays so: a later  *)
(* turn that another compaction takes away is settled itself, by turns     *)
(* that come after both.                                                   *)
(***************************************************************************)
Settled(t) == Cardinality(Later(t, turns)) >= ProtectedTurns

OldStaysOld ==
  /\ IsFiniteSet(turns)
  /\ \A i \in Invocations : /\ IsFiniteSet(snap[i])
                            /\ \A t \in snap[i] \ Recent(snap[i], ProtectedTurns) : Settled(t)
                            /\ \A t \in cut[i] : Settled(t)

LEMMA SettledSurvives ==
  ASSUME IInv, IsFiniteSet(turns), NEW t \in Written, Settled(t),
         NEW u, Settled(u), u \in Written, turns' = turns \ {u}
  PROVE  Settled(t)'
<1>1. /\ ProtectedTurns \in Nat /\ IsFiniteSet(turns')
      /\ \A T : T \subseteq turns => IsFiniteSet(T) /\ Cardinality(T) \in Nat
  <2>1. ProtectedTurns \in Nat
    BY ConfigAssumption
  <2>2. QED
    BY <2>1, FS_Subset, FS_CardinalityType
<1>2. IsFiniteSet(Later(t, turns)') /\ Cardinality(Later(t, turns)') \in Nat
  BY <1>1, FS_Subset, FS_CardinalityType DEF Later
<1>3. CASE u \notin Later(t, turns)
  <2>1. Later(t, turns)' = Later(t, turns)
    BY <1>3 DEF Later
  <2>2. QED
    BY <2>1 DEF Settled
<1>4. CASE u \in Later(t, turns)
  <2>1. \A v \in turns : Before(u, v) => Before(t, v) /\ v # u
    <3>1. \A v \in Written : v.id \in Nat /\ v.idx \in Nat
      BY DEF IInv, Types, TypeOK, TurnRecords, Written, ArchivedTurns
    <3>2. Before(t, u)
      BY <1>4 DEF Later
    <3>3. QED
      BY <3>1, <3>2, SMT DEF Before, Written
  <2>2. Later(u, turns) \subseteq Later(t, turns)'
    BY <2>1 DEF Later
  <2>3. Cardinality(Later(u, turns)) <= Cardinality(Later(t, turns)')
    BY <1>2, <2>2, FS_Subset
  <2>4. Cardinality(Later(u, turns)) \in Nat
    BY <1>1 DEF Later
  <2>5. QED
    BY <1>1, <1>2, <2>3, <2>4, SMT DEF Settled
<1>5. QED
  BY <1>3, <1>4

LEMMA SettledGrows ==
  ASSUME IsFiniteSet(turns), NEW t, Settled(t), NEW u, turns' = turns \cup {u}
  PROVE  Settled(t)'
<1>1. IsFiniteSet(turns') /\ ProtectedTurns \in Nat
  BY FS_AddElement, ConfigAssumption
<1>2. /\ Later(t, turns) \subseteq Later(t, turns)' /\ IsFiniteSet(Later(t, turns)')
      /\ IsFiniteSet(Later(t, turns))
  BY <1>1, FS_Subset DEF Later
<1>3. /\ Cardinality(Later(t, turns)) \in Nat /\ Cardinality(Later(t, turns)') \in Nat
      /\ Cardinality(Later(t, turns)) <= Cardinality(Later(t, turns)')
  BY <1>2, FS_Subset, FS_CardinalityType
<1>4. QED
  BY <1>1, <1>3, SMT DEF Settled

\* The turns stay, and no invocation gets turns to take away that were not settled.
LEMMA QuietSettles ==
  ASSUME OldStaysOld, UNCHANGED turns,
         \A j \in Invocations : /\ snap'[j] = snap[j] \/ snap'[j] = {}
                                /\ \A t \in cut'[j] : t \in cut[j] \/ Settled(t)
  PROVE  OldStaysOld'
<1>1. \A t : Settled(t)' <=> Settled(t)
  BY DEF Settled, Later
<1>2. ASSUME NEW j \in Invocations PROVE \A t \in (snap[j] \ Recent(snap[j], ProtectedTurns))' : Settled(t)'
  <2>1. CASE snap'[j] = snap[j]
    <3>1. (snap[j] \ Recent(snap[j], ProtectedTurns))' = snap[j] \ Recent(snap[j], ProtectedTurns)
      BY <2>1 DEF Recent, Later
    <3>2. QED
      BY <1>1, <3>1 DEF OldStaysOld
  <2>2. QED
    BY <2>1 DEF OldStaysOld
<1>3. ASSUME NEW j \in Invocations PROVE \A t \in cut'[j] : Settled(t)'
  BY <1>1 DEF OldStaysOld
<1>4. ASSUME NEW j \in Invocations PROVE IsFiniteSet(snap'[j])
  BY FS_EmptySet DEF OldStaysOld
<1>5. QED
  BY <1>2, <1>3, <1>4 DEF OldStaysOld

LEMMA StepSettles == ASSUME IInv, OldStaysOld, [Next]_vars PROVE OldStaysOld'
<1> USE DEF vars, dbVars, compVars, loopVars, Goto
<1>t. TypeOK
  BY DEF IInv, Types
<1>w. \A i \in Invocations : snap[i] \subseteq Written /\ cut[i] \subseteq Written
  BY DEF IInv, LocalsWritten
<1>1. ASSUME NEW i \in Invocations,
             \/ Start(i) \/ ReadIndex(i) \/ ReadSummary(i) \/ SummaryUnread(i) \/ RemoveDone(i) \/ RecordState(i)
             \/ LoadHistory(i) \/ ChatTools(i) \/ ChatAnswer(i) \/ ChatEmpty(i) \/ ChatError(i)
             \/ OutOfIterations(i) \/ ToolFails(i) \/ Summarized(i) \/ ArchiveTurn(i)
             \/ ArchiveDone(i) \/ ExpireArchive(i)
      PROVE  OldStaysOld'
  <2>1. UNCHANGED <<turns, snap, cut>>
    BY <1>1 DEF Start, ReadIndex, ReadSummary, SummaryUnread, RemoveDone, RecordState, LoadHistory, ChatTools,
         ChatAnswer, ChatEmpty, ChatError, OutOfIterations, ToolFails, Summarized, ArchiveTurn,
         ArchiveDone, ExpireArchive
  <2>2. QED
    BY <2>1, QuietSettles
<1>d. ASSUME NEW i \in Invocations, DropLocals(i)
      PROVE  \A j \in Invocations : /\ snap'[j] = snap[j] \/ snap'[j] = {}
                                    /\ cut'[j] \subseteq cut[j]
  BY <1>d, <1>t DEF DropLocals, TypeOK
<1>2. ASSUME NEW i \in Invocations, RecordEvent(i) \/ StatementFails(i) PROVE OldStaysOld'
  <2>1. UNCHANGED turns /\ DropLocals(i)
    BY <1>2 DEF RecordEvent, StatementFails
  <2>2. QED
    BY <1>d, <2>1, QuietSettles
<1>3. CASE Crash
  <2>1. UNCHANGED turns /\ \A j \in Invocations : snap'[j] = {} /\ cut'[j] = {}
    BY <1>3 DEF Crash
  <2>2. QED
    BY <2>1, QuietSettles
<1>c. ASSUME NEW i \in Invocations, NEW C, C \subseteq snap[i], C \cap Recent(snap[i], ProtectedTurns) = {},
             UNCHANGED <<turns, snap>>, cut' = [cut EXCEPT ![i] = C]
      PROVE  OldStaysOld'
  <2>1. \A t \in C : Settled(t)
    BY <1>c DEF OldStaysOld
  <2>2. \A j \in Invocations : \A t \in cut'[j] : t \in cut[j] \/ Settled(t)
    BY <1>c, <1>t, <2>1 DEF TypeOK
  <2>3. QED
    BY <1>c, <2>2, QuietSettles
<1>4. ASSUME NEW i \in Invocations, Decide(i) PROVE OldStaysOld'
  <2> DEFINE old == SplitForCompaction(snap[i], ProtectedTurns)
  <2>1. UNCHANGED turns
    BY <1>4 DEF Decide
  <2>2. CASE DropLocals(i)
    BY <1>d, <2>1, <2>2, QuietSettles
  <2>3. CASE cut' = [cut EXCEPT ![i] = old] /\ UNCHANGED snap
    <3>1. old \subseteq snap[i] /\ old \cap Recent(snap[i], ProtectedTurns) = {}
      BY CutsAreTurns, RecentTurnsKept DEF OldStaysOld
    <3> HIDE DEF old
    <3>2. QED
      BY <1>c, <2>1, <2>3, <3>1
  <2>4. QED
    BY <1>4, <2>2, <2>3 DEF Decide
<1>5. ASSUME NEW i \in Invocations, SummaryFailed(i) PROVE OldStaysOld'
  <2> DEFINE dropped == TruncateDropped(snap[i], ProtectedTurns, ContextWindow, SummaryCost(base[i]))
  <2>1. UNCHANGED <<turns, snap>> /\ cut' = [cut EXCEPT ![i] = dropped]
    BY <1>5 DEF SummaryFailed
  <2>2. dropped \subseteq snap[i] /\ dropped \cap Recent(snap[i], ProtectedTurns) = {}
    BY CutsAreTurns, RecentTurnsKept DEF OldStaysOld
  <2> HIDE DEF dropped
  <2>3. QED
    BY <1>c, <2>1, <2>2
<1>6. ASSUME NEW i \in Invocations, ReadTurns(i) PROVE OldStaysOld'
  <2>1. UNCHANGED <<turns, cut>> /\ snap' = [snap EXCEPT ![i] = turns]
    BY <1>6 DEF ReadTurns
  <2>2. \A t : Settled(t)' <=> Settled(t)
    BY <2>1 DEF Settled, Later
  <2>3. ASSUME NEW t \in turns \ Recent(turns, ProtectedTurns) PROVE Settled(t)
    <3>1. ~(Cardinality(Later(t, turns)) < ProtectedTurns)
      BY DEF Recent
    <3>2. Cardinality(Later(t, turns)) \in Nat
      BY FS_Subset, FS_CardinalityType DEF OldStaysOld, Later
    <3>3. QED
      BY <3>1, <3>2, ConfigAssumption, SMT DEF Settled
  <2>4. ASSUME NEW j \in Invocations PROVE \A t \in (snap[j] \ Recent(snap[j], ProtectedTurns))' : Settled(t)'
    <3>1. CASE j = i
      <4>1. (snap[j] \ Recent(snap[j], ProtectedTurns))' = turns \ Recent(turns, ProtectedTurns)
        BY <1>t, <2>1, <3>1 DEF TypeOK, Recent, Later
      <4>2. QED
        BY <2>2, <2>3, <4>1
    <3>2. CASE j # i
      <4>1. (snap[j] \ Recent(snap[j], ProtectedTurns))' = snap[j] \ Recent(snap[j], ProtectedTurns)
        BY <1>t, <2>1, <3>2 DEF TypeOK, Recent, Later
      <4>2. QED
        BY <2>2, <4>1 DEF OldStaysOld
    <3>3. QED
      BY <3>1, <3>2
  <2>5. ASSUME NEW j \in Invocations PROVE IsFiniteSet(snap'[j])
    BY <1>t, <2>1 DEF TypeOK, OldStaysOld
  <2>6. QED
    BY <2>1, <2>2, <2>4, <2>5 DEF OldStaysOld
<1>k. ASSUME UNCHANGED <<snap, cut>>, IsFiniteSet(turns'), \A t \in Written : Settled(t) => Settled(t)'
      PROVE  OldStaysOld'
  <2>1. ASSUME NEW j \in Invocations PROVE \A t \in (snap[j] \ Recent(snap[j], ProtectedTurns))' : Settled(t)'
    <3>1. (snap[j] \ Recent(snap[j], ProtectedTurns))' = snap[j] \ Recent(snap[j], ProtectedTurns)
      BY <1>k DEF Recent, Later
    <3>2. QED
      BY <1>k, <1>w, <3>1 DEF OldStaysOld
  <2>2. ASSUME NEW j \in Invocations PROVE \A t \in cut'[j] : Settled(t)'
    BY <1>k, <1>w DEF OldStaysOld
  <2>3. QED
    BY <1>k, <2>1, <2>2 DEF OldStaysOld
<1>7. ASSUME NEW i \in Invocations, InsertTurn(i) PROVE OldStaysOld'
  <2>1. UNCHANGED <<snap, cut>> /\ \E u : turns' = turns \cup {u}
    BY <1>7 DEF InsertTurn
  <2>2. PICK u : turns' = turns \cup {u}
    BY <2>1
  <2>3. IsFiniteSet(turns')
    BY <2>2, FS_AddElement DEF OldStaysOld
  <2>4. \A t \in Written : Settled(t) => Settled(t)'
    BY <2>2, SettledGrows DEF OldStaysOld
  <2>5. QED
    BY <1>k, <2>1, <2>3, <2>4
<1>8. ASSUME NEW i \in Invocations, RemoveTurn(i) PROVE OldStaysOld'
  <2>1. PICK u \in todo[i] : turns' = {v \in turns : v.id # u.id}
    BY <1>8 DEF RemoveTurn
  <2>2. UNCHANGED <<snap, cut>> /\ u \in cut[i]
    BY <1>8 DEF RemoveTurn, IInv, ArchivedFirst
  <2>3. turns' = turns \ {u} /\ u \in Written /\ Settled(u)
    BY <1>w, <2>1, <2>2 DEF IInv, Identities, Written, OldStaysOld
  <2>4. IsFiniteSet(turns')
    BY <2>3, FS_Subset DEF OldStaysOld
  <2>5. \A t \in Written : Settled(t) => Settled(t)'
    BY <2>3, SettledSurvives DEF OldStaysOld
  <2>6. QED
    BY <1>k, <2>2, <2>4, <2>5
<1>9. CASE UNCHANGED vars
  BY <1>9, QuietSettles
<1>10. QED
  BY <1>1, <1>2, <1>3, <1>4, <1>5, <1>6, <1>7, <1>8, <1>9 DEF Next, Step

LEMMA SettledInvariant == Spec => [](IInv /\ OldStaysOld)
<1>1. Init => OldStaysOld
  BY FS_EmptySet DEF Init, OldStaysOld
<1>2. QED
  BY <1>1, InitIInv, StepIInv, StepSettles, PTL DEF Spec

(***************************************************************************)
(* A turn leaves the conversation only while ProtectedTurns later ones are *)
(* in it, though check_and_compact decided on an older reading, other      *)
(* invocations compacted meanwhile and any of them may fail.               *)
(***************************************************************************)
THEOREM RecentTurnsAreKept == Spec => RecentTurnsSurvive
<1>1. ASSUME IInv, OldStaysOld, [Next]_vars, NEW t \in turns \ turns'
      PROVE  t \notin Recent(turns, ProtectedTurns)
  <2>1. \E i \in Invocations : RemoveTurn(i)
    BY <1>1 DEF vars, dbVars, Next, Step, Start, ReadIndex, InsertTurn, ReadTurns, ReadSummary, SummaryUnread, Decide,
         Summarized, SummaryFailed, ArchiveTurn, ArchiveDone, RemoveDone, RecordState, RecordEvent,
         LoadHistory, ChatTools, ChatAnswer, ChatEmpty, ChatError, OutOfIterations, ToolFails,
         StatementFails, ExpireArchive, Crash
  <2>2. PICK i \in Invocations : RemoveTurn(i)
    BY <2>1
  <2>3. PICK u \in todo[i] : turns' = {v \in turns : v.id # u.id}
    BY <2>2 DEF RemoveTurn
  <2>4. u \in cut[i] /\ u \in Written
    BY <1>1, <2>2 DEF RemoveTurn, IInv, ArchivedFirst, LocalsWritten
  <2>5. t = u
    BY <1>1, <2>3, <2>4 DEF IInv, Identities, Written
  <2>6. Cardinality(Later(t, turns)) >= ProtectedTurns /\ Cardinality(Later(t, turns)) \in Nat
    <3>1. Settled(t)
      BY <1>1, <2>4, <2>5 DEF OldStaysOld
    <3>2. Cardinality(Later(t, turns)) \in Nat
      BY <1>1, FS_Subset, FS_CardinalityType DEF OldStaysOld, Later
    <3>3. QED
      BY <3>1, <3>2 DEF Settled
  <2>7. QED
    BY <2>6, ConfigAssumption, SMT DEF Recent
<1>2. IInv /\ OldStaysOld /\ [Next]_vars
        => [\A t \in turns \ turns' : t \notin Recent(turns, ProtectedTurns)]_vars
  BY <1>1
<1>3. QED
  BY <1>2, SettledInvariant, PTL DEF Spec, RecentTurnsSurvive

(***************************************************************************)
(* A conversation whose invocations come one after another.  Then the      *)
(* index orders the turns as they were appended, because the turn with the *)
(* highest index is never taken away; what is left of the conversation is  *)
(* always its end, because cuts take the oldest turns in their order; and  *)
(* the snapshot of the compaction under way is the conversation, but for   *)
(* what that compaction has removed.                                       *)
(***************************************************************************)
OneRuns == \A i, j \in Running : i = j

Ordered == \A t, u \in Written : t.id < u.id => t.idx < u.idx
NoSystem == \A t \in Written : t.role # "system"
NewestStays == Written # {} => \E u \in turns : \A t \in Written : t.idx <= u.idx
EndStays == \A u \in turns, t \in Written : u.id < t.id => t \in turns
Conversational == Ordered /\ NoSystem /\ NewestStays /\ EndStays /\ ToolPairsTogether

\* A tool_result follows its tool_use in the queue, or that was appended last.
InPairs(q) ==
  \A k \in 1 .. Len(q) :
    /\ q[k] # "system"
    /\ q[k] = "tool_result" =>
         IF k = 1 THEN \E u \in turns : u.role = "tool_use" /\ u.id = nextId - 1
         ELSE q[k - 1] = "tool_use"

\* A cut of S takes the oldest turns and keeps the pairs of the recent ones.
SafeCut(C, S) ==
  /\ TakesOldest(C, S)
  /\ \A r \in Recent(S, ProtectedTurns) : r.role = "tool_result" =>
       \A u \in S : u.role = "tool_use" /\ Precedes(u, r, S) => u \notin C

InOrder(i) ==
  /\ pc[i] \notin Ended \cup {"append"} => slot[i] = NoSlot
  /\ pc[i] = "append" =>
       /\ InPairs(queue[i])
       /\ slot[i] # NoSlot => \A t \in Written : t.idx < slot[i]
  /\ pc[i] \in {"readSummary", "decide", "summarize", "archive"} => snap[i] = turns
  /\ pc[i] = "remove" => turns = snap[i] \ (cut[i] \ todo[i])
  /\ pc[i] \in {"summarize", "archive", "remove"} => SafeCut(cut[i], snap[i])

Serial == OneRuns /\ Conversational /\ \A i \in Invocations : InOrder(i)

\* One invocation moves, and is the one that runs or the first to run.
LEMMA OneMoves ==
  ASSUME TypeOK, OneRuns, NEW i \in Invocations, \A j \in Invocations : InOrder(j),
         i \in Running \/ Running = {},
         \A j \in Invocations \ {i} : pc'[j] = pc[j] /\ slot'[j] = slot[j],
         InOrder(i)', Conversational'
  PROVE  Serial'
<1>1. \A j \in Invocations \ {i} : pc[j] \in Ended \cup {"idle"}
  BY DEF OneRuns, Running
<1>2. OneRuns'
  BY <1>1 DEF OneRuns, Running
<1>3. ASSUME NEW j \in Invocations, j # i PROVE InOrder(j)'
  <2>1. pc'[j] \in Ended \cup {"idle"} /\ pc'[j] = pc[j] /\ slot'[j] = slot[j]
    BY <1>1, <1>3
  <2>2. InOrder(j)
    BY <1>3
  <2>3. /\ pc[j] \notin {"append", "readSummary", "decide", "summarize", "archive", "remove"}
        /\ "idle" \notin Ended
    BY <1>1, <1>3 DEF Ended
  <2>4. QED
    BY <2>1, <2>2, <2>3 DEF InOrder
<1>4. QED
  BY <1>2, <1>3 DEF Serial

\* The rows stay as they are but for archive rows of turns that were written.
LEMMA ConversationKept ==
  ASSUME Conversational, UNCHANGED turns, Written' = Written
  PROVE  Conversational'
<1>1. ToolPairsTogether'
  BY DEF Conversational, ToolPairsTogether, Recent, Later
<1>2. QED
  BY <1>1 DEF Conversational, Ordered, NoSystem, NewestStays, EndStays

LEMMA RowsKept ==
  ASSUME UNCHANGED <<turns, archive, expired>>
  PROVE  Written' = Written
BY DEF Written, ArchivedTurns

\* Identity, index and order agree.
LEMMA OrderById ==
  ASSUME IInv, Ordered, NEW t \in Written, NEW u \in Written
  PROVE  /\ t.id \in Nat /\ u.id \in Nat /\ t.idx \in Nat /\ u.idx \in Nat
         /\ Before(t, u) <=> t.id < u.id
         /\ t.id = u.id => t = u
<1>1. t.id \in Nat /\ u.id \in Nat /\ t.idx \in Nat /\ u.idx \in Nat
  BY DEF IInv, Types, TypeOK, TurnRecords, Written, ArchivedTurns
<1>2. (t.id < u.id => t.idx < u.idx) /\ (u.id < t.id => u.idx < t.idx) /\ (t.id = u.id => t = u)
  BY DEF Ordered, IInv, Identities
<1>3. QED
  BY <1>1, <1>2, SMT DEF Before

LEMMA CutsAreSafe ==
  ASSUME IInv, OldStaysOld, Conversational, NEW w, NEW s
  PROVE  /\ SafeCut(SplitForCompaction(turns, ProtectedTurns), turns)
         /\ SafeCut(TruncateDropped(turns, ProtectedTurns, w, s), turns)
<1>1. Appended(turns)
  <2>1. turns \subseteq Written
    BY DEF Written
  <2>2. Conversation(turns)
    BY <2>1, OrderById DEF Conversation, Conversational, OldStaysOld
  <2>3. QED
    BY <2>1, <2>2 DEF Appended, Conversational, Ordered, NoSystem
<1>2. ProtectedTurns \in Nat
  BY ConfigAssumption
<1>3. QED
  BY <1>1, <1>2, SplitTakesOldest, TruncationTakesOldest, PairsStayTogetherAlways DEF SafeCut, Appended

(***************************************************************************)
(* A turn is appended.                                                     *)
(***************************************************************************)
LEMMA InsertIsSerial ==
  ASSUME IInv, OldStaysOld, Serial, NEW i \in Invocations, InsertTurn(i)
  PROVE  Serial'
<1> USE DEF dbVars, compVars, loopVars, Goto
<1>t. TypeOK /\ nextId \in Nat /\ queue[i] \in Seq(Roles) /\ queue[i] # << >>
  BY DEF IInv, Types, TypeOK, QueueReady, InsertTurn
<1> DEFINE q == queue[i]
<1>q. /\ Len(q) \in Nat /\ Len(q) >= 1 /\ Head(q) = q[1] /\ Tail(q) \in Seq(Roles)
      /\ Len(Tail(q)) = Len(q) - 1 /\ \A k \in 1 .. Len(Tail(q)) : Tail(q)[k] = q[k + 1]
  BY <1>t, EmptySeq, LenProperties, HeadTailProperties
<1>1. PICK n \in TurnTokens :
        turns' = turns \cup {[id |-> nextId, idx |-> slot[i], role |-> Head(q), tok |-> n]}
  BY DEF InsertTurn
<1> DEFINE t == [id |-> nextId, idx |-> slot[i], role |-> Head(q), tok |-> n]
<1>2. /\ t.id = nextId /\ t.idx = slot[i] /\ t.role = q[1] /\ turns' = turns \cup {t}
      /\ nextId' = nextId + 1
  BY <1>1, <1>q DEF InsertTurn
<1>3. Written' = Written \cup {t}
  BY <1>2 DEF InsertTurn, Written, ArchivedTurns
<1> HIDE DEF t, q
<1>4. /\ \A u \in Written : u.id \in Nat /\ u.idx \in Nat /\ u.id < nextId /\ u.idx < slot[i]
      /\ InPairs(q) /\ slot[i] \in Nat
  <2>1. \A u \in Written : u.id \in Nat /\ u.idx \in Nat /\ u.id < nextId
    BY DEF IInv, Types, TypeOK, TurnRecords, Written, ArchivedTurns, Identities
  <2>2. slot[i] # NoSlot /\ pc[i] = "append" /\ InOrder(i) /\ slot[i] \in Nat \cup {NoSlot}
    BY <1>t DEF InsertTurn, Serial, TypeOK
  <2>3. QED
    BY <2>1, <2>2 DEF InOrder, q
<1>5. Ordered'
  <2>1. SUFFICES ASSUME NEW u \in Written', NEW v \in Written', u.id < v.id PROVE u.idx < v.idx
    BY DEF Ordered
  <2>2. CASE u \in Written /\ v \in Written
    BY <2>1, <2>2 DEF Serial, Conversational, Ordered
  <2>3. CASE v = t /\ u \in Written
    BY <1>2, <1>4, <2>3
  <2>4. CASE u = t
    BY <1>2, <1>3, <1>4, <1>t, <2>1, <2>4
  <2>5. QED
    BY <1>3, <2>2, <2>3, <2>4
<1>6. NoSystem'
  <2>1. q[1] # "system"
    BY <1>q, <1>4 DEF InPairs
  <2>2. QED
    BY <1>2, <1>3, <2>1 DEF Serial, Conversational, NoSystem
<1>7. NewestStays'
  <2>1. \A u \in Written' : u.idx <= t.idx
    BY <1>2, <1>3, <1>4
  <2>2. t \in turns'
    BY <1>2
  <2>3. QED
    BY <2>1, <2>2 DEF NewestStays
<1>8. EndStays'
  <2>1. SUFFICES ASSUME NEW u \in turns', NEW v \in Written', u.id < v.id PROVE v \in turns'
    BY DEF EndStays
  <2>2. CASE v = t
    BY <1>2, <2>2
  <2>3. CASE v \in Written /\ u = t
    BY <1>2, <1>4, <1>t, <2>1, <2>3
  <2>4. CASE v \in Written /\ u \in turns
    BY <1>2, <2>1, <2>4 DEF Serial, Conversational, EndStays
  <2>5. QED
    BY <1>2, <1>3, <2>2, <2>3, <2>4
<1>9. ToolPairsTogether'
  <2>1. SUFFICES ASSUME NEW r \in Recent(turns', ProtectedTurns), r.role = "tool_result"
                 PROVE  \E u \in turns' : u.role = "tool_use" /\ u.id = r.id - 1
    BY DEF ToolPairsTogether, Recent, Later
  <2>2. CASE r = t
    <3>1. q[1] = "tool_result"
      BY <1>2, <2>1, <2>2
    <3>2. \E u \in turns : u.role = "tool_use" /\ u.id = nextId - 1
      BY <1>q, <1>4, <3>1 DEF InPairs
    <3>3. QED
      BY <1>2, <2>2, <3>2
  <2>3. CASE r \in turns
    <3>1. Later(r, turns) \subseteq Later(r, turns')
      BY <1>2 DEF Later
    <3>2. IsFiniteSet(turns')
      BY <1>2, FS_AddElement DEF OldStaysOld
    <3>3. IsFiniteSet(Later(r, turns'))
      BY <3>2, FS_Subset DEF Later
    <3>4. /\ Cardinality(Later(r, turns)) <= Cardinality(Later(r, turns'))
          /\ Cardinality(Later(r, turns)) \in Nat /\ Cardinality(Later(r, turns')) \in Nat
      BY <3>1, <3>3, FS_Subset, FS_CardinalityType
    <3>5. r \in Recent(turns, ProtectedTurns)
      BY <2>3, <3>4, ConfigAssumption, SMT DEF Recent
    <3>6. QED
      BY <1>2, <2>1, <3>5 DEF Serial, Conversational, ToolPairsTogether
  <2>4. QED
    BY <1>2, <2>2, <2>3 DEF Recent
<1>10. InOrder(i)'
  <2>1. slot'[i] = NoSlot /\ queue'[i] = Tail(q) /\ pc'[i] \in {"append", "check", "chat", "answered"}
    BY <1>t DEF InsertTurn, AfterAppend, TypeOK, q
  <2>r. PICK rest \in Seq(Roles) : rest = Tail(q)
    BY <1>q
  <2>2. InPairs(rest)'
    <3>1. SUFFICES ASSUME NEW k \in 1 .. Len(rest)
                   PROVE  /\ rest[k] # "system"
                          /\ rest[k] = "tool_result" =>
                               IF k = 1 THEN \E u \in turns' : u.role = "tool_use" /\ u.id = nextId' - 1
                               ELSE rest[k - 1] = "tool_use"
      BY DEF InPairs
    <3>2. k \in Nat /\ k + 1 \in 1 .. Len(q) /\ rest[k] = q[k + 1] /\ k + 1 # 1
      BY <1>q, <2>r
    <3>3. q[k + 1] # "system" /\ (q[k + 1] = "tool_result" => q[(k + 1) - 1] = "tool_use")
      BY <1>4, <3>2 DEF InPairs
    <3>4. q[k + 1] = "tool_result" => q[k] = "tool_use"
      BY <3>2, <3>3
    <3>5. CASE k = 1
      <4>1. q[2] = "tool_result" => t \in turns' /\ t.role = "tool_use" /\ t.id = nextId' - 1
        BY <1>2, <1>t, <3>4, <3>5
      <4>2. QED
        BY <3>2, <3>3, <3>5, <4>1
    <3>6. CASE k # 1
      <4>1. k - 1 \in 1 .. Len(rest) /\ (k - 1) + 1 = k
        BY <3>2, <3>6
      <4>2. rest[k - 1] = q[k]
        BY <1>q, <2>r, <4>1
      <4>3. QED
        BY <3>2, <3>3, <3>4, <3>6, <4>2
    <3>7. QED
      BY <3>5, <3>6
  <2>3. InPairs(queue[i])'
    BY <2>1, <2>2, <2>r DEF InPairs
  <2>4. QED
    BY <2>1, <2>3 DEF InOrder, Ended
<1>11. i \in Running /\ \A j \in Invocations \ {i} : pc'[j] = pc[j] /\ slot'[j] = slot[j]
  BY <1>t DEF InsertTurn, Running, Ended, TypeOK
<1>12. QED
  BY <1>t, <1>5, <1>6, <1>7, <1>8, <1>9, <1>10, <1>11, OneMoves DEF Serial, Conversational

(***************************************************************************)
(* A turn is removed.                                                      *)
(***************************************************************************)
LEMMA RemoveIsSerial ==
  ASSUME IInv, OldStaysOld, Serial, NEW i \in Invocations, RemoveTurn(i)
  PROVE  Serial'
<1> USE DEF dbVars, compVars, loopVars
<1>t. TypeOK /\ Conversational /\ Ordered /\ InOrder(i) /\ pc[i] = "remove"
  BY DEF IInv, Types, Serial, Conversational, RemoveTurn
<1>1. PICK x \in todo[i] : /\ Earlier(x, todo[i]) = {} /\ turns' = {u \in turns : u.id # x.id}
                           /\ todo' = [todo EXCEPT ![i] = @ \ {x}]
  BY DEF RemoveTurn
<1>2. /\ UNCHANGED <<archive, expired, nextId, pc, snap, cut, slot, queue>>
      /\ todo[i] \subseteq cut[i] /\ x \in cut[i]
  BY <1>t, <1>1 DEF RemoveTurn, IInv, ArchivedFirst
<1>3. x \in Written /\ x \in ArchivedTurns \cup expired
  BY <1>t, <1>2 DEF IInv, ArchivedFirst, LocalsWritten
<1>4. turns' = turns \ {x} /\ Written' = Written /\ turns \subseteq Written
  <2>1. turns' = turns \ {x}
    BY <1>1, <1>3 DEF IInv, Identities, Written
  <2>2. QED
    BY <1>2, <1>3, <2>1 DEF Written, ArchivedTurns
<1> DEFINE S == snap[i]
           C == cut[i]
<1>5. S \subseteq Written /\ turns = S \ (C \ todo[i]) /\ SafeCut(C, S) /\ todo'[i] = todo[i] \ {x}
  BY <1>t, <1>1 DEF IInv, LocalsWritten, InOrder, TypeOK
<1> HIDE DEF S, C
<1>6. Ordered' /\ NoSystem'
  BY <1>t, <1>4 DEF Conversational, Ordered, NoSystem
<1>7. EndStays'
  <2>1. SUFFICES ASSUME NEW u \in turns', NEW v \in Written', u.id < v.id PROVE v \in turns'
    BY DEF EndStays
  <2>2. v \in turns /\ u \in turns /\ u \in S /\ v \in Written /\ u \in Written
    BY <1>t, <1>4, <1>5, <2>1 DEF Conversational, EndStays
  <2>3. SUFFICES ASSUME v = x PROVE FALSE
    BY <1>4, <2>2
  <2>4. Before(u, x)
    BY <1>t, <2>1, <2>2, <2>3, OrderById
  <2>5. u \in C /\ u \in todo[i]
    BY <1>2, <1>5, <2>2, <2>4 DEF SafeCut, TakesOldest, C
  <2>6. QED
    BY <1>1, <2>4, <2>5 DEF Earlier
<1>8. NewestStays'
  <2>1. SUFFICES ASSUME Written # {} PROVE \E u \in turns' : \A v \in Written : v.idx <= u.idx
    BY <1>4 DEF NewestStays
  <2>2. PICK u \in turns : \A v \in Written : v.idx <= u.idx
    BY <1>t, <2>1 DEF Conversational, NewestStays
  <2>3. CASE u # x
    BY <1>4, <2>2, <2>3
  <2>4. CASE u = x
    <3>1. Later(x, turns) # {}
      <4>1. Settled(x)
        BY <1>2 DEF OldStaysOld
      <4>2. QED
        BY <4>1, FS_EmptySet, ConfigAssumption, SMT DEF Settled
    <3>2. PICK w \in turns : Before(x, w)
      BY <3>1 DEF Later
    <3>3. w # x /\ w \in Written /\ x.idx <= w.idx /\ w.idx \in Nat /\ x.idx \in Nat
      <4>1. w \in Written /\ x.idx \in Nat /\ w.idx \in Nat /\ x.id \in Nat /\ w.id \in Nat
        BY <1>t, <1>3, <1>4, OrderById
      <4>2. QED
        BY <3>2, <4>1, SMT DEF Before
    <3>4. \A v \in Written : v.idx <= w.idx
      <4>1. \A v \in Written : v.idx \in Nat
        BY <1>t, OrderById
      <4>2. QED
        BY <2>2, <2>4, <3>3, <4>1, SMT
    <3>5. QED
      BY <1>4, <3>3, <3>4
  <2>5. QED
    BY <2>3, <2>4
<1>9. ToolPairsTogether'
  <2>1. SUFFICES ASSUME NEW r \in Recent(turns', ProtectedTurns), r.role = "tool_result"
                 PROVE  \E u \in turns' : u.role = "tool_use" /\ u.id = r.id - 1
    BY DEF ToolPairsTogether, Recent, Later
  <2>2. r \in turns' /\ r \in turns /\ r \in S /\ r \in Written
    BY <1>4, <1>5 DEF Recent
  <2>3. Later(r, S) = Later(r, turns')
    <3>1. ASSUME NEW v \in S, Before(r, v) PROVE v \in turns'
      <4>1. v \in Written /\ r.id < v.id
        BY <1>t, <1>5, <2>2, <3>1, OrderById
      <4>2. QED
        BY <1>4, <1>7, <2>2, <4>1 DEF EndStays
    <3>2. turns' \subseteq S
      BY <1>4, <1>5
    <3>3. QED
      BY <3>1, <3>2 DEF Later
  <2>4. Later(r, turns) = Later(r, S)
    <3>1. turns' \subseteq turns /\ turns \subseteq S
      BY <1>4, <1>5
    <3>2. QED
      BY <2>3, <3>1 DEF Later
  <2>5. r \in Recent(S, ProtectedTurns) /\ r \in Recent(turns, ProtectedTurns)
    BY <2>2, <2>3, <2>4 DEF Recent
  <2>6. PICK u \in turns : u.role = "tool_use" /\ u.id = r.id - 1
    BY <1>t, <2>1, <2>5 DEF Conversational, ToolPairsTogether
  <2>7. u \in S /\ u \in Written
    BY <1>4, <1>5
  <2>8. Precedes(u, r, S)
    <3>1. Before(u, r)
      BY <1>t, <2>2, <2>6, <2>7, OrderById
    <3>2. ASSUME NEW v \in S, Before(v, r), Before(u, v) PROVE FALSE
      <4>1. v.id < r.id /\ u.id < v.id /\ v.id \in Nat /\ r.id \in Nat
        BY <1>t, <1>5, <2>2, <2>7, <3>2, OrderById
      <4>2. QED
        BY <2>6, <4>1
    <3>3. QED
      BY <2>7, <3>1, <3>2 DEF Precedes, Earlier, Later
  <2>9. u \notin C
    BY <1>5, <2>1, <2>5, <2>6, <2>7, <2>8 DEF SafeCut
  <2>10. u \in turns'
    BY <1>2, <1>4, <2>9 DEF C
  <2>11. QED
    BY <2>6, <2>10
<1>10. InOrder(i)'
  <2>1. turns' = S \ (C \ todo'[i])
    BY <1>2, <1>4, <1>5 DEF C
  <2>2. SafeCut(cut[i], snap[i])'
    BY <1>2, <1>5 DEF SafeCut, TakesOldest, Recent, Precedes, Earlier, Later, S, C
  <2>3. QED
    BY <1>t, <1>2, <2>1, <2>2 DEF InOrder, S, C
<1>11. i \in Running /\ \A j \in Invocations \ {i} : pc'[j] = pc[j] /\ slot'[j] = slot[j]
  BY <1>t, <1>2 DEF Running, Ended
<1>12. QED
  BY <1>t, <1>6, <1>7, <1>8, <1>9, <1>10, <1>11, OneMoves DEF Serial, Conversational

(***************************************************************************)
(* Everything else leaves the conversation as it is.                       *)
(***************************************************************************)
LEMMA PairsInPairs ==
  ASSUME NEW n \in Nat, n > 0, NEW text \in {<< >>, <<"assistant">>}
  PROVE  InPairs(text \o Pairs(n))
<1> DEFINE q == text \o Pairs(n)
<1>1. /\ Pairs(n) \in Seq(Roles) /\ Len(Pairs(n)) = 2 * n
      /\ \A k \in 1 .. 2 * n : Pairs(n)[k] = IF k % 2 = 1 THEN "tool_use" ELSE "tool_result"
  BY SMT DEF Pairs, Roles
<1>2. \A k \in 1 .. 2 * n : /\ Pairs(n)[k] \in {"tool_use", "tool_result"}
                            /\ Pairs(n)[k] = "tool_result" => k > 1 /\ Pairs(n)[k - 1] = "tool_use"
  <2> TAKE k \in 1 .. 2 * n
  <2>1. k \in Nat /\ k >= 1 /\ (k % 2 # 1 => k > 1 /\ (k - 1) % 2 = 1)
    BY SMT
  <2>2. Pairs(n)[k] = "tool_result" => k % 2 # 1 /\ k - 1 \in 1 .. 2 * n
    BY <1>1, <2>1
  <2>3. QED
    BY <1>1, <2>1, <2>2
<1>3. CASE text = << >>
  <2>1. q = Pairs(n)
    BY <1>1, <1>3
  <2> HIDE DEF q
  <2>2. QED
    BY <1>1, <1>2, <2>1 DEF InPairs, q
<1>4. CASE text = <<"assistant">>
  <2>1. /\ Len(q) = 2 * n + 1 /\ q[1] = "assistant"
        /\ \A k \in 2 .. 2 * n + 1 : q[k] = Pairs(n)[k - 1]
    BY <1>1, <1>4
  <2> HIDE DEF q
  <2>2. SUFFICES ASSUME NEW k \in 1 .. Len(q)
                 PROVE  q[k] # "system" /\ (q[k] = "tool_result" => k # 1 /\ q[k - 1] = "tool_use")
    BY DEF InPairs, q
  <2>3. CASE k = 1
    BY <2>1, <2>3
  <2>4. CASE k # 1
    <3>1. k \in 2 .. 2 * n + 1 /\ k - 1 \in 1 .. 2 * n /\ k \in Nat
      BY <2>1, <2>4
    <3>2. q[k] = Pairs(n)[k - 1] /\ q[k] \in {"tool_use", "tool_result"}
      BY <1>2, <2>1, <3>1
    <3>3. q[k] = "tool_result" => k - 1 > 1 /\ Pairs(n)[(k - 1) - 1] = "tool_use"
      BY <1>2, <3>1, <3>2
    <3>4. k - 1 > 1 => k - 1 \in 2 .. 2 * n + 1
      BY <3>1
    <3>5. q[k] = "tool_result" => q[k - 1] = "tool_use"
      BY <2>1, <3>3, <3>4
    <3>6. QED
      BY <2>4, <3>2, <3>5
  <2>5. QED
    BY <2>3, <2>4
<1>5. QED
  BY <1>3, <1>4

LEMMA QueueIsSerial ==
  ASSUME TypeOK, Serial, NEW i \in Invocations, NEW q, InPairs(q), queue' = [queue EXCEPT ![i] = q],
         pc' = [pc EXCEPT ![i] = "append"], slot' = slot, pc[i] \in {"idle", "chat"},
         UNCHANGED <<turns, archive, expired, nextId>>, i \in Running \/ Running = {}
  PROVE  Serial'
<1>1. Conversational'
  BY RowsKept, ConversationKept DEF Serial
<1>2. slot[i] = NoSlot
  BY DEF Serial, InOrder, Ended
<1>3. queue'[i] = q /\ pc'[i] = "append" /\ \A j \in Invocations \ {i} : pc'[j] = pc[j]
  BY DEF TypeOK
<1>4. InPairs(queue[i])'
  BY <1>3 DEF InPairs
<1>5. InOrder(i)'
  BY <1>2, <1>3, <1>4 DEF InOrder, Ended
<1>6. QED
  BY <1>1, <1>3, <1>5, OneMoves DEF Serial

\* Steps of the running invocation after which there is nothing to say of its locals.
LEMMA LeavesIsSerial ==
  ASSUME TypeOK, Serial, NEW i \in Running, UNCHANGED <<turns, archive, expired, slot>>, NEW l \in Labels,
         pc' = [pc EXCEPT ![i] = l], l \in Ended \cup {"check", "history", "chat", "record", "event"},
         l \notin Ended => slot[i] = NoSlot
  PROVE  Serial'
<1>1. Conversational'
  BY RowsKept, ConversationKept DEF Serial
<1>2. i \in Invocations /\ pc'[i] = l /\ \A j \in Invocations \ {i} : pc'[j] = pc[j]
  BY DEF TypeOK, Running
<1>3. InOrder(i)'
  BY <1>2 DEF InOrder, Ended
<1>4. QED
  BY <1>1, <1>2, <1>3, OneMoves DEF Serial

\* Steps within a compaction.
LEMMA CompactsIsSerial ==
  ASSUME IInv, Serial, NEW i \in Running, UNCHANGED <<turns, expired, slot>>, Written' = Written,
         slot[i] = NoSlot,
         \A j \in Invocations \ {i} : pc'[j] = pc[j],
         pc'[i] \in {"readSummary", "decide", "summarize", "archive", "remove"},
         snap'[i] = turns,
         pc'[i] = "remove" => cut'[i] = todo'[i],
         pc'[i] \in {"summarize", "archive", "remove"} => SafeCut(cut'[i], turns)
  PROVE  Serial'
<1>1. Conversational' /\ TypeOK
  BY ConversationKept DEF Serial, IInv, Types
<1>2. i \in Invocations
  BY DEF Running
<1>3. SafeCut(cut[i], snap[i])' <=> SafeCut(cut'[i], snap'[i])
  BY DEF SafeCut, TakesOldest, Recent, Precedes, Earlier, Later
<1>4. InOrder(i)'
  BY <1>3 DEF InOrder, Ended
<1>5. QED
  BY <1>1, <1>2, <1>4, OneMoves DEF Serial

LEMMA FirstToRun ==
  ASSUME MaxConcurrent = 1, NEW i \in Invocations, Start(i)
  PROVE  Running = {}
<1>1. IsFiniteSet(Running) /\ Cardinality(Running) < 1
  BY ConcurrencyAssumption, FS_Subset DEF Start, Running
<1>2. QED
  BY <1>1, FS_CardinalityType, FS_EmptySet, SMT

LEMMA StepIsSerial ==
  ASSUME MaxConcurrent = 1, IInv, OldStaysOld, Serial, [Next]_vars
  PROVE  Serial'
<1> USE DEF vars, dbVars, compVars, loopVars, Goto
<1>t. TypeOK /\ Conversational /\ \A j \in Invocations : InOrder(j)
  BY DEF IInv, Types, Serial
<1>r. \A i \in Invocations : pc[i] \notin Ended \cup {"idle"} => i \in Running
  BY DEF Running
<1>l. Ended \subseteq Labels /\ {"check", "history", "chat", "record", "event"} \subseteq Labels
      /\ "append" \notin Ended \cup {"idle"}
      /\ Compacting \cap (Ended \cup {"append", "idle"}) = {}
      /\ {"check", "history", "chat"} \cap (Ended \cup {"append", "idle"}) = {}
  BY DEF Labels, Ended, Compacting
<1>1. ASSUME NEW i \in Invocations, Start(i) PROVE Serial'
  <2>1. Running = {}
    BY <1>1, FirstToRun
  <2>2. InPairs(<<"user">>)
    BY DEF InPairs
  <2>3. /\ queue' = [queue EXCEPT ![i] = <<"user">>] /\ pc' = [pc EXCEPT ![i] = "append"] /\ slot' = slot
        /\ pc[i] = "idle" /\ UNCHANGED <<turns, archive, expired, nextId>>
    BY <1>1 DEF Start
  <2>4. QED
    BY <1>t, <2>1, <2>2, <2>3, QueueIsSerial
<1>2. ASSUME NEW i \in Invocations, ReadIndex(i) PROVE Serial'
  <2>1. /\ UNCHANGED <<turns, archive, expired, nextId, pc, queue>> /\ pc[i] = "append"
        /\ slot' = [slot EXCEPT ![i] = NextIndex(turns)]
    BY <1>2 DEF ReadIndex
  <2>2. Conversational' /\ Written' = Written
    BY <1>t, <2>1, RowsKept, ConversationKept
  <2>3. \A t \in Written : t.idx < NextIndex(turns)
    <3>1. SUFFICES ASSUME NEW t \in Written PROVE t.idx < NextIndex(turns)
      OBVIOUS
    <3>2. PICK u \in turns : \A v \in Written : v.idx <= u.idx
      BY <1>t DEF Conversational, NewestStays
    <3>3. /\ nextId \in Nat /\ \A v \in turns : v.idx \in Nat /\ v.idx < nextId
      BY <1>t DEF TypeOK, TurnRecords, IInv, Types, IndexesBelow
    <3> DEFINE S == {v.idx : v \in turns}
    <3>4. S \in SUBSET Nat /\ S # {} /\ (\A n \in S : n < nextId) /\ u.idx \in S
      BY <3>2, <3>3
    <3> HIDE DEF S
    <3>5. Max(S) \in S /\ \A n \in S : n <= Max(S)
      BY <3>3, <3>4, MaxOfBounded
    <3>6. NextIndex(turns) = Max(S) + 1
      BY <3>2 DEF NextIndex, S
    <3>7. u.idx <= Max(S) /\ Max(S) \in Nat /\ u.idx \in Nat
      BY <3>3, <3>4, <3>5
    <3>8. t.idx \in Nat
      BY <1>t, OrderById DEF Conversational
    <3>9. QED
      BY <3>2, <3>6, <3>7, <3>8
  <2>4. slot'[i] = NextIndex(turns) /\ \A j \in Invocations \ {i} : slot'[j] = slot[j]
    BY <1>t, <2>1 DEF TypeOK
  <2>5. InPairs(queue[i])'
    BY <1>t, <2>1 DEF InOrder, InPairs
  <2>6. InOrder(i)'
    BY <2>1, <2>2, <2>3, <2>4, <2>5 DEF InOrder
  <2>7. QED
    BY <1>t, <1>r, <1>l, <2>1, <2>2, <2>4, <2>6, OneMoves DEF Serial
<1>3. ASSUME NEW i \in Invocations, InsertTurn(i) \/ RemoveTurn(i) PROVE Serial'
  BY <1>3, InsertIsSerial, RemoveIsSerial
<1>4. ASSUME NEW i \in Invocations, ReadTurns(i) PROVE Serial'
  <2>1. /\ UNCHANGED <<turns, archive, expired, slot>> /\ pc[i] = "check" /\ snap' = [snap EXCEPT ![i] = turns]
        /\ pc' = [pc EXCEPT ![i] = IF turns = {} THEN "history" ELSE "readSummary"]
    BY <1>4 DEF ReadTurns
  <2>2. i \in Running /\ slot[i] = NoSlot
    BY <1>t, <1>r, <1>l, <2>1 DEF InOrder
  <2>3. CASE turns = {}
    BY <1>t, <1>l, <2>1, <2>2, <2>3, LeavesIsSerial
  <2>4. CASE turns # {}
    <3>1. pc'[i] = "readSummary" /\ snap'[i] = turns /\ \A j \in Invocations \ {i} : pc'[j] = pc[j]
      BY <1>t, <2>1, <2>4 DEF TypeOK
    <3>2. QED
      BY <2>1, <2>2, <3>1, RowsKept, CompactsIsSerial
  <2>5. QED
    BY <2>3, <2>4
<1>5. ASSUME NEW i \in Invocations, ReadSummary(i) \/ SummaryUnread(i) PROVE Serial'
  <2>1. UNCHANGED <<turns, archive, expired, slot, snap>> /\ pc[i] = "readSummary" /\ pc' = [pc EXCEPT ![i] = "decide"]
    BY <1>5 DEF ReadSummary, SummaryUnread
  <2>2. i \in Running /\ slot[i] = NoSlot /\ snap[i] = turns
    BY <1>t, <1>r, <1>l, <2>1 DEF InOrder, Compacting
  <2>3. pc'[i] = "decide" /\ snap'[i] = turns /\ \A j \in Invocations \ {i} : pc'[j] = pc[j]
    BY <1>t, <2>1, <2>2 DEF TypeOK
  <2>4. QED
    BY <2>1, <2>2, <2>3, RowsKept, CompactsIsSerial
<1>6. ASSUME NEW i \in Invocations, Decide(i) PROVE Serial'
  <2> DEFINE old == SplitForCompaction(snap[i], ProtectedTurns)
  <2>1. UNCHANGED <<turns, archive, expired, slot>> /\ pc[i] = "decide"
    BY <1>6 DEF Decide
  <2>2. i \in Running /\ slot[i] = NoSlot /\ snap[i] = turns
    BY <1>t, <1>r, <1>l, <2>1 DEF InOrder, Compacting
  <2>3. CASE pc' = [pc EXCEPT ![i] = "history"]
    BY <1>t, <1>l, <2>1, <2>2, <2>3, LeavesIsSerial
  <2>4. CASE pc' = [pc EXCEPT ![i] = "summarize"] /\ cut' = [cut EXCEPT ![i] = old] /\ UNCHANGED snap
    <3>1. SafeCut(old, turns)
      BY <1>t, <2>2, CutsAreSafe
    <3> HIDE DEF old
    <3>2. pc'[i] = "summarize" /\ cut'[i] = old /\ snap'[i] = turns
          /\ \A j \in Invocations \ {i} : pc'[j] = pc[j]
      BY <1>t, <2>2, <2>4 DEF TypeOK
    <3>3. QED
      BY <2>1, <2>2, <3>1, <3>2, RowsKept, CompactsIsSerial
  <2>5. QED
    BY <1>6, <2>3, <2>4 DEF Decide
<1>7. ASSUME NEW i \in Invocations, Summarized(i) PROVE Serial'
  <2>1. /\ UNCHANGED <<turns, archive, expired, slot, snap, cut>> /\ pc[i] = "summarize"
        /\ pc' = [pc EXCEPT ![i] = "archive"]
    BY <1>7 DEF Summarized
  <2>2. i \in Running /\ slot[i] = NoSlot /\ snap[i] = turns /\ SafeCut(cut[i], turns)
    BY <1>t, <1>r, <1>l, <2>1 DEF InOrder, Compacting
  <2>3. pc'[i] = "archive" /\ snap'[i] = turns /\ cut'[i] = cut[i] /\ \A j \in Invocations \ {i} : pc'[j] = pc[j]
    BY <1>t, <2>1, <2>2 DEF TypeOK
  <2>4. QED
    BY <2>1, <2>2, <2>3, RowsKept, CompactsIsSerial
<1>8. ASSUME NEW i \in Invocations, SummaryFailed(i) PROVE Serial'
  <2> DEFINE dropped == TruncateDropped(snap[i], ProtectedTurns, ContextWindow, SummaryCost(base[i]))
  <2>1. /\ UNCHANGED <<turns, archive, expired, slot, snap>> /\ pc[i] = "summarize"
        /\ pc' = [pc EXCEPT ![i] = "archive"] /\ cut' = [cut EXCEPT ![i] = dropped]
    BY <1>8 DEF SummaryFailed
  <2>2. i \in Running /\ slot[i] = NoSlot /\ snap[i] = turns
    BY <1>t, <1>r, <1>l, <2>1 DEF InOrder, Compacting
  <2>3. SafeCut(dropped, turns)
    BY <1>t, <2>2, CutsAreSafe
  <2> HIDE DEF dropped
  <2>4. pc'[i] = "archive" /\ snap'[i] = turns /\ cut'[i] = dropped
        /\ \A j \in Invocations \ {i} : pc'[j] = pc[j]
    BY <1>t, <2>1, <2>2 DEF TypeOK
  <2>5. QED
    BY <2>1, <2>2, <2>3, <2>4, RowsKept, CompactsIsSerial
<1>9. ASSUME NEW i \in Invocations, ArchiveTurn(i) PROVE Serial'
  <2>1. /\ UNCHANGED <<turns, expired, slot, snap, cut, pc>> /\ pc[i] = "archive"
        /\ \E t \in todo[i] : archive' = archive \cup {[turn |-> t, run |-> i]}
    BY <1>9 DEF ArchiveTurn
  <2>2. i \in Running /\ slot[i] = NoSlot /\ snap[i] = turns /\ SafeCut(cut[i], turns)
    BY <1>t, <1>r, <1>l, <2>1 DEF InOrder, Compacting
  <2>3. PICK t \in todo[i] : archive' = archive \cup {[turn |-> t, run |-> i]}
    BY <2>1
  <2>4. t \in Written /\ ArchivedTurns' = ArchivedTurns \cup {t}
    BY <2>1, <2>3, NewArchiveRow DEF IInv, ArchivedFirst, LocalsWritten
  <2>5. Written' = Written
    BY <2>1, <2>4 DEF Written
  <2>6. QED
    BY <2>1, <2>2, <2>5, CompactsIsSerial
<1>10. ASSUME NEW i \in Invocations, ArchiveDone(i) PROVE Serial'
  <2>1. /\ UNCHANGED <<turns, archive, expired, slot, snap, cut>> /\ pc[i] = "archive"
        /\ pc' = [pc EXCEPT ![i] = "remove"] /\ todo' = [todo EXCEPT ![i] = cut[i]]
    BY <1>10 DEF ArchiveDone
  <2>2. i \in Running /\ slot[i] = NoSlot /\ snap[i] = turns /\ SafeCut(cut[i], turns)
    BY <1>t, <1>r, <1>l, <2>1 DEF InOrder, Compacting
  <2>3. pc'[i] = "remove" /\ snap'[i] = turns /\ cut'[i] = cut[i] /\ todo'[i] = cut'[i]
        /\ \A j \in Invocations \ {i} : pc'[j] = pc[j]
    BY <1>t, <2>1, <2>2 DEF TypeOK
  <2>4. QED
    BY <2>1, <2>2, <2>3, RowsKept, CompactsIsSerial
<1>11. ASSUME NEW i \in Invocations,
              \/ RemoveDone(i) \/ RecordState(i) \/ RecordEvent(i) \/ LoadHistory(i) \/ ChatEmpty(i)
              \/ ChatError(i) \/ OutOfIterations(i) \/ ToolFails(i) \/ StatementFails(i)
       PROVE  Serial'
  <2>1. UNCHANGED <<turns, archive, expired, slot>>
    BY <1>11 DEF RemoveDone, RecordState, RecordEvent, LoadHistory, ChatEmpty, ChatError, OutOfIterations,
         ToolFails, StatementFails
  <2>2. /\ pc[i] \in Compacting \cup {"append", "check", "history", "chat"}
        /\ \E l \in {"record", "event", "history", "chat", "noReply", "failed"} :
             /\ pc' = [pc EXCEPT ![i] = l]
             /\ l \notin Ended => pc[i] # "append"
    BY <1>11 DEF RemoveDone, RecordState, RecordEvent, LoadHistory, ChatEmpty, ChatError, OutOfIterations,
         ToolFails, StatementFails, CallsLeft, Compacting, Ended
  <2>3. PICK l \in {"record", "event", "history", "chat", "noReply", "failed"} :
             pc' = [pc EXCEPT ![i] = l] /\ (l \notin Ended => pc[i] # "append")
    BY <2>2
  <2>4. i \in Running /\ l \in Labels /\ l \in Ended \cup {"check", "history", "chat", "record", "event"}
    BY <1>l, <1>r, <2>2, <2>3 DEF Ended
  <2>5. l \notin Ended => slot[i] = NoSlot
    BY <1>l, <1>t, <2>2, <2>3 DEF InOrder
  <2>6. QED
    BY <1>t, <2>1, <2>3, <2>4, <2>5, LeavesIsSerial
<1>12. ASSUME NEW i \in Invocations, ChatTools(i) PROVE Serial'
  <2>1. \E n \in 1 .. MaxToolCalls, text \in {<< >>, <<"assistant">>} :
          queue' = [queue EXCEPT ![i] = text \o Pairs(n)]
    BY <1>12 DEF ChatTools
  <2>2. PICK n \in 1 .. MaxToolCalls, text \in {<< >>, <<"assistant">>} :
          queue' = [queue EXCEPT ![i] = text \o Pairs(n)]
    BY <2>1
  <2>3. n \in Nat /\ n > 0
    BY BoundsAssumption
  <2>4. InPairs(text \o Pairs(n))
    BY <2>3, PairsInPairs
  <2>5. /\ pc' = [pc EXCEPT ![i] = "append"] /\ pc[i] = "chat" /\ slot' = slot
        /\ UNCHANGED <<turns, archive, expired, nextId>> /\ i \in Running
    BY <1>12, <1>l, <1>r DEF ChatTools, CallsLeft
  <2>6. QED
    BY <1>t, <2>2, <2>4, <2>5, QueueIsSerial
<1>13. ASSUME NEW i \in Invocations, ChatAnswer(i) PROVE Serial'
  <2>1. /\ pc' = [pc EXCEPT ![i] = "append"] /\ pc[i] = "chat" /\ slot' = slot
        /\ UNCHANGED <<turns, archive, expired, nextId>> /\ i \in Running
        /\ queue' = [queue EXCEPT ![i] = <<"assistant">>]
    BY <1>13, <1>l, <1>r DEF ChatAnswer, CallsLeft
  <2>2. InPairs(<<"assistant">>)
    BY DEF InPairs
  <2>3. QED
    BY <1>t, <2>1, <2>2, QueueIsSerial
<1>14. ASSUME NEW i \in Invocations, ExpireArchive(i) PROVE Serial'
  <2> DEFINE rows == {row \in archive : row.run = i}
  <2>1. /\ UNCHANGED <<turns, nextId, pc, snap, cut, todo, slot, queue>>
        /\ archive' = archive \ rows /\ expired' = expired \cup {row.turn : row \in rows}
    BY <1>14 DEF ExpireArchive
  <2>2. Written' = Written
    BY <2>1 DEF Written, ArchivedTurns
  <2>3. Conversational'
    BY <1>t, <2>1, <2>2, ConversationKept
  <2>4. ASSUME NEW j \in Invocations PROVE InOrder(j)'
    <3>1. InOrder(j)
      BY <1>t
    <3>2. InPairs(queue[j])' <=> InPairs(queue[j])
      BY <2>1 DEF InPairs
    <3>3. SafeCut(cut[j], snap[j])' <=> SafeCut(cut[j], snap[j])
      BY <2>1 DEF SafeCut, TakesOldest, Recent, Precedes, Earlier, Later
    <3>4. QED
      BY <2>1, <2>2, <3>1, <3>2, <3>3 DEF InOrder
  <2>5. OneRuns'
    BY <2>1 DEF Serial, OneRuns, Running
  <2>6. QED
    BY <2>3, <2>4, <2>5 DEF Serial
<1>15. CASE Crash
  <2>1. UNCHANGED <<turns, archive, expired, slot>>
        /\ \A j \in Invocations : pc'[j] \in Ended \cup {"idle"} /\ (pc'[j] = "idle" => pc[j] = "idle")
    BY <1>15 DEF Crash, Running, Ended
  <2>2. Conversational'
    BY <1>t, <2>1, RowsKept, ConversationKept
  <2>3. OneRuns'
    BY <2>1 DEF OneRuns, Running
  <2>4. ASSUME NEW j \in Invocations PROVE InOrder(j)'
    <3>1. InOrder(j) /\ (pc'[j] = "idle" => slot'[j] = NoSlot)
      BY <1>t, <2>1 DEF InOrder, Ended
    <3>2. QED
      BY <2>1, <3>1 DEF InOrder, Ended
  <2>5. QED
    BY <2>2, <2>3, <2>4 DEF Serial
<1>16. CASE UNCHANGED vars
  <2>1. Conversational' /\ Written' = Written
    BY <1>t, <1>16, RowsKept, ConversationKept
  <2>2. ASSUME NEW j \in Invocations PROVE InOrder(j)'
    <3>1. InOrder(j)
      BY <1>t
    <3>2. InPairs(queue[j])' <=> InPairs(queue[j])
      BY <1>16 DEF InPairs
    <3>3. SafeCut(cut[j], snap[j])' <=> SafeCut(cut[j], snap[j])
      BY <1>16 DEF SafeCut, TakesOldest, Recent, Precedes, Earlier, Later
    <3>4. QED
      BY <1>16, <2>1, <3>1, <3>2, <3>3 DEF InOrder
  <2>3. OneRuns'
    BY <1>16 DEF Serial, OneRuns, Running
  <2>4. QED
    BY <2>1, <2>2, <2>3 DEF Serial
<1>17. QED
  BY <1>1, <1>2, <1>3, <1>4, <1>5, <1>6, <1>7, <1>8, <1>9, <1>10, <1>11, <1>12, <1>13, <1>14, <1>15, <1>16
     DEF Next, Step

LEMMA SerialInvariant == ASSUME MaxConcurrent = 1 PROVE Spec => []Serial
<1>1. Init => Serial
  <2> SUFFICES ASSUME Init PROVE Serial
    OBVIOUS
  <2>1. Written = {} /\ turns = {} /\ Running = {}
    BY DEF Init, Written, ArchivedTurns, Running
  <2>2. Conversational
    BY <2>1 DEF Conversational, Ordered, NoSystem, NewestStays, EndStays, ToolPairsTogether, Recent
  <2>3. \A j \in Invocations : InOrder(j)
    BY DEF Init, InOrder
  <2>4. QED
    BY <2>1, <2>2, <2>3 DEF Serial, OneRuns
<1>2. IInv /\ OldStaysOld /\ Serial /\ [Next]_vars => Serial'
  BY StepIsSerial
<1>3. QED
  BY <1>1, <1>2, SettledInvariant, PTL DEF Spec

(***************************************************************************)
(* One invocation after another: ConversationTurn::append gives the turns  *)
(* indexes in the order in which they are appended and gives none twice,   *)
(* whatever compactions have taken away and wherever one stopped half way. *)
(***************************************************************************)
THEOREM IndexesFollowAppends == ASSUME MaxConcurrent = 1 PROVE Spec => []IndexFollowsAppend
<1>1. Serial => IndexFollowsAppend
  BY DEF Serial, Conversational, Ordered, IndexFollowsAppend, Written
<1>2. QED
  BY <1>1, SerialInvariant, PTL

(***************************************************************************)
(* One invocation after another: a tool_result among the protected turns   *)
(* has its tool_use, also in the middle of a compaction's deletes and      *)
(* after one that stopped there (T020 in compaction/engine.rs).            *)
(***************************************************************************)
THEOREM ToolPairsStayTogether == ASSUME MaxConcurrent = 1 PROVE Spec => []ToolPairsTogether
<1>1. Serial => ToolPairsTogether
  BY DEF Serial, Conversational
<1>2. QED
  BY <1>1, SerialInvariant, PTL

(***************************************************************************)
(* One invocation after another and no failure so far: where every turn    *)
(* is.  The compaction under way has removed turns that no summary stands  *)
(* for before it records its own; it built that on the summary there is,   *)
(* and the rows it archives are the only ones of its invocation.           *)
(***************************************************************************)
Truncated(t) == \E row \in archive : row.turn = t /\ plan[row.run].how = "truncation"

Accounted(t) ==
  \/ t \in turns \/ t.id \in summary.covers \/ Truncated(t)
  \/ \E i \in Invocations : /\ pc[i] \in {"remove", "record"}
                            /\ plan[i].how = "summarization" /\ t \in cut[i]

Uncompacted(i) ==
  \/ pc[i] \in {"idle", "check", "readSummary", "decide", "summarize"}
  \/ pc[i] = "append" /\ queue[i] = <<"user">>

InAccount(i) ==
  /\ Uncompacted(i) => plan[i].how = "none" /\ \A row \in archive : row.run # i
  /\ pc[i] = "append" /\ queue[i] # <<"user">> =>
       calls[i] # 0 /\ \A k \in 1 .. Len(queue[i]) : queue[i][k] # "user"
  /\ pc[i] \in {"archive", "remove", "record", "event"} => plan[i].how # "none"
  /\ pc[i] \in {"decide", "summarize", "archive", "remove", "record"} => base[i] = summary
  /\ pc[i] = "archive" => \A t \in cut[i] \ todo[i] : [turn |-> t, run |-> i] \in archive
  /\ pc[i] = "remove" => \A t \in cut[i] : [turn |-> t, run |-> i] \in archive
  /\ plan[i].how = "summarization" =>
       /\ pc[i] = "event" => summary.covers = base[i].covers \cup Ids(cut[i])
       /\ pc[i] = "history" => context[i].covers = summary.covers
       /\ pc[i] = "chat" /\ calls[i] = 0 => /\ context[i].covers = summary.covers
                                            /\ context[i].turns = Ids(turns)

AllAccounted == \A t \in Written \ expired : Accounted(t)
Complete == faults = 0 => AllAccounted /\ \A i \in Invocations : InAccount(i)

LEMMA OneAccounts ==
  ASSUME OneRuns, \A j \in Invocations : InAccount(j), NEW i \in Invocations,
         i \in Running \/ Running = {},
         \A j \in Invocations \ {i} : pc'[j] = pc[j] /\ plan'[j] = plan[j],
         \A row \in archive' : row \in archive \/ row.run = i,
         InAccount(i)', AllAccounted'
  PROVE  Complete'
<1>1. ASSUME NEW j \in Invocations, j # i PROVE InAccount(j)'
  <2>1. pc'[j] \in Ended \cup {"idle"} /\ pc'[j] = pc[j] /\ plan'[j] = plan[j]
    BY <1>1 DEF OneRuns, Running
  <2>2. Uncompacted(j)' => Uncompacted(j)
    BY <2>1 DEF Uncompacted, Ended
  <2>3. Uncompacted(j) => plan'[j].how = "none" /\ \A row \in archive' : row.run # j
    BY <1>1, <2>1 DEF InAccount
  <2>4. QED
    BY <2>1, <2>2, <2>3 DEF InAccount, Ended
<1>2. QED
  BY <1>1 DEF Complete

LEMMA AccountsKept ==
  ASSUME AllAccounted, UNCHANGED <<turns, archive, expired, summary, plan>>,
         \A j \in Invocations : pc[j] \in {"remove", "record"} =>
           pc'[j] \in {"remove", "record"} /\ cut'[j] = cut[j]
  PROVE  AllAccounted'
<1>1. Written' = Written
  BY RowsKept
<1>2. ASSUME NEW t, Accounted(t) PROVE Accounted(t)'
  <2>1. Truncated(t)' <=> Truncated(t)
    BY DEF Truncated
  <2>2. QED
    BY <1>2, <2>1 DEF Accounted
<1>3. QED
  BY <1>1, <1>2 DEF AllAccounted

NoUser(q) == \A k \in 1 .. Len(q) : q[k] # "user"

LEMMA PairsNoUser ==
  ASSUME NEW n \in Nat, n > 0, NEW text \in {<< >>, <<"assistant">>}
  PROVE  NoUser(text \o Pairs(n)) /\ text \o Pairs(n) # <<"user">>
<1> DEFINE q == text \o Pairs(n)
<1>1. /\ Pairs(n) \in Seq(Roles) /\ Len(Pairs(n)) = 2 * n
      /\ \A k \in 1 .. 2 * n : Pairs(n)[k] # "user"
  BY SMT DEF Pairs, Roles
<1>2. Len(q) >= 2 /\ NoUser(q)
  <2>1. CASE text = << >>
    <3>1. q = Pairs(n)
      BY <1>1, <2>1
    <3> HIDE DEF q
    <3>2. QED
      BY <1>1, <3>1 DEF NoUser
  <2>2. CASE text = <<"assistant">>
    <3>1. /\ Len(q) = 2 * n + 1 /\ q[1] = "assistant"
          /\ \A k \in 2 .. 2 * n + 1 : q[k] = Pairs(n)[k - 1]
      BY <1>1, <2>2
    <3> HIDE DEF q
    <3>2. ASSUME NEW k \in 1 .. Len(q) PROVE q[k] # "user"
      <4>1. CASE k = 1
        BY <3>1, <4>1
      <4>2. CASE k # 1
        <5>1. k \in 2 .. 2 * n + 1 /\ k - 1 \in 1 .. 2 * n
          BY <3>1, <4>2
        <5>2. QED
          BY <1>1, <3>1, <5>1
      <4>3. QED
        BY <4>1, <4>2
    <3>3. QED
      BY <3>1, <3>2 DEF NoUser
  <2>3. QED
    BY <2>1, <2>2
<1> HIDE DEF q
<1>3. Len(<<"user">>) = 1
  OBVIOUS
<1>4. QED
  BY <1>2, <1>3 DEF q

\* The steps around a compaction, and those of the tool loop.
LEMMA QuietAccounts ==
  ASSUME MaxConcurrent = 1, IInv, Serial, AllAccounted, \A j \in Invocations : InAccount(j),
         NEW i \in Invocations,
         \/ Start(i) \/ ReadIndex(i) \/ ReadTurns(i) \/ ReadSummary(i) \/ Decide(i)
         \/ ArchiveDone(i) \/ RemoveDone(i) \/ RecordEvent(i) \/ LoadHistory(i)
         \/ ChatTools(i) \/ ChatAnswer(i) \/ ChatEmpty(i) \/ ChatError(i) \/ OutOfIterations(i)
         \/ ToolFails(i)
  PROVE  Complete'
<1> USE DEF dbVars, compVars, loopVars, Goto
<1>t. TypeOK /\ OneRuns /\ InAccount(i)
  BY DEF IInv, Types, Serial
<1>1. UNCHANGED <<turns, archive, expired, summary, plan>>
  BY DEF Start, ReadIndex, ReadTurns, ReadSummary, Decide, ArchiveDone, RemoveDone, RecordEvent,
     LoadHistory, ChatTools, ChatAnswer, ChatEmpty, ChatError, OutOfIterations, ToolFails
<1>2. \A j \in Invocations \ {i} : pc'[j] = pc[j] /\ plan'[j] = plan[j] /\ cut'[j] = cut[j]
  BY <1>t DEF TypeOK, Start, ReadIndex, ReadTurns, ReadSummary, Decide, DropLocals, ArchiveDone, RemoveDone,
     RecordEvent, LoadHistory, ChatTools, ChatAnswer, ChatEmpty, ChatError, OutOfIterations, ToolFails
<1>3. pc[i] \in {"remove", "record"} => pc'[i] \in {"remove", "record"} /\ cut'[i] = cut[i]
  BY <1>t DEF TypeOK, Start, ReadIndex, ReadTurns, ReadSummary, Decide, ArchiveDone, RemoveDone,
     RecordEvent, LoadHistory, ChatTools, ChatAnswer, ChatEmpty, ChatError, OutOfIterations, ToolFails,
     CallsLeft
<1>4. AllAccounted'
  BY <1>1, <1>2, <1>3, AccountsKept
<1>5. i \in Running \/ Running = {}
  <2>1. CASE Start(i)
    BY <2>1, FirstToRun
  <2>2. CASE ~Start(i)
    BY <2>2 DEF Running, Ended, ReadIndex, ReadTurns, ReadSummary, Decide, ArchiveDone, RemoveDone,
     RecordEvent, LoadHistory, ChatTools, ChatAnswer, ChatEmpty, ChatError, OutOfIterations, ToolFails,
     CallsLeft
  <2>3. QED
    BY <2>1, <2>2
<1>6. CASE Start(i)
  <2>1. pc'[i] = "append" /\ queue'[i] = <<"user">> /\ Uncompacted(i)
    BY <1>t, <1>6 DEF Start, TypeOK, Uncompacted
  <2>2. InAccount(i)'
    BY <1>t, <1>1, <2>1 DEF InAccount
  <2>3. QED
    BY <1>t, <1>1, <1>2, <1>4, <1>5, <2>2, OneAccounts
<1>7. CASE ReadIndex(i)
  <2>1. UNCHANGED <<pc, queue, base, cut, todo, context, calls>>
    BY <1>7 DEF ReadIndex
  <2>2. InAccount(i)'
    BY <1>t, <1>1, <2>1 DEF InAccount, Uncompacted
  <2>3. QED
    BY <1>t, <1>1, <1>2, <1>4, <1>5, <2>2, OneAccounts
<1>8. CASE ReadTurns(i) \/ ReadSummary(i) \/ Decide(i)
  <2>1. /\ Uncompacted(i) /\ pc'[i] \in {"readSummary", "history", "decide", "summarize"}
        /\ pc'[i] \in {"decide", "summarize"} => base'[i] = summary
    <3>1. CASE ReadTurns(i)
      BY <1>t, <3>1 DEF ReadTurns, TypeOK, Uncompacted
    <3>2. CASE ReadSummary(i)
      BY <1>t, <3>2 DEF ReadSummary, TypeOK, Uncompacted
    <3>3. CASE Decide(i)
      BY <1>t, <3>3 DEF Decide, TypeOK, Uncompacted, InAccount
    <3>4. QED
      BY <1>8, <3>1, <3>2, <3>3
  <2>2. InAccount(i)'
    BY <1>t, <1>1, <2>1 DEF InAccount
  <2>3. QED
    BY <1>t, <1>1, <1>2, <1>4, <1>5, <2>2, OneAccounts
<1>9. CASE ArchiveDone(i)
  <2>1. /\ pc[i] = "archive" /\ todo[i] = {} /\ pc'[i] = "remove" /\ UNCHANGED <<base, cut>>
    BY <1>t, <1>9 DEF ArchiveDone, TypeOK
  <2>2. InAccount(i)'
    BY <1>t, <1>1, <2>1 DEF InAccount, Uncompacted
  <2>3. QED
    BY <1>t, <1>1, <1>2, <1>4, <1>5, <2>2, OneAccounts
<1>10. CASE RemoveDone(i)
  <2>1. /\ pc[i] = "remove" /\ pc'[i] = "record" /\ UNCHANGED <<base, cut>>
    BY <1>t, <1>10 DEF RemoveDone, TypeOK
  <2>2. InAccount(i)'
    BY <1>t, <1>1, <2>1 DEF InAccount, Uncompacted
  <2>3. QED
    BY <1>t, <1>1, <1>2, <1>4, <1>5, <2>2, OneAccounts
<1>11. CASE RecordEvent(i)
  <2>1. pc[i] = "event" /\ pc'[i] = "history" /\ context' = [context EXCEPT ![i].covers = NewSummary(i).covers]
    BY <1>t, <1>11 DEF RecordEvent, TypeOK
  <2>2. plan[i].how = "summarization" => context'[i].covers = summary.covers
    <3>1. plan[i].how = "summarization" => NewSummary(i).covers = summary.covers
      BY <1>t, <2>1 DEF NewSummary, InAccount
    <3>2. context'[i].covers = NewSummary(i).covers
      BY <1>t, <2>1 DEF TypeOK
    <3>3. QED
      BY <3>1, <3>2
  <2>3. InAccount(i)'
    BY <1>t, <1>1, <2>1, <2>2 DEF InAccount, Uncompacted
  <2>4. QED
    BY <1>t, <1>1, <1>2, <1>4, <1>5, <2>3, OneAccounts
<1>12. CASE LoadHistory(i)
  <2>1. pc[i] = "history" /\ pc'[i] = "chat" /\ context' = [context EXCEPT ![i].turns = Ids(turns)]
    BY <1>t, <1>12 DEF LoadHistory, TypeOK
  <2>2. context'[i].covers = context[i].covers /\ context'[i].turns = Ids(turns) /\ Ids(turns)' = Ids(turns)
    BY <1>t, <1>1, <2>1 DEF TypeOK, Ids
  <2>3. InAccount(i)'
    BY <1>t, <1>1, <2>1, <2>2 DEF InAccount, Uncompacted
  <2>4. QED
    BY <1>t, <1>1, <1>2, <1>4, <1>5, <2>3, OneAccounts
<1>13. CASE ChatTools(i) \/ ChatAnswer(i)
  <2>1. pc'[i] = "append" /\ calls'[i] # 0
    BY <1>t, <1>13 DEF ChatTools, ChatAnswer, TypeOK
  <2>2. queue'[i] # <<"user">> /\ \A k \in 1 .. Len(queue'[i]) : queue'[i][k] # "user"
    <3>1. CASE ChatAnswer(i)
      <4>1. queue'[i] = <<"assistant">>
        BY <1>t, <3>1 DEF ChatAnswer, TypeOK
      <4>2. <<"assistant">>[1] = "assistant" /\ <<"user">>[1] = "user" /\ Len(<<"assistant">>) = 1
        OBVIOUS
      <4>3. QED
        BY <4>1, <4>2
    <3>2. ASSUME NEW n \in 1 .. MaxToolCalls, NEW text \in {<< >>, <<"assistant">>},
                 queue' = [queue EXCEPT ![i] = text \o Pairs(n)]
          PROVE  queue'[i] # <<"user">> /\ \A k \in 1 .. Len(queue'[i]) : queue'[i][k] # "user"
      <4>1. n \in Nat /\ n > 0
        BY BoundsAssumption
      <4>2. queue'[i] = text \o Pairs(n)
        BY <1>t, <3>2 DEF TypeOK
      <4>3. NoUser(text \o Pairs(n)) /\ text \o Pairs(n) # <<"user">>
        BY <4>1, PairsNoUser
      <4>4. QED
        BY <4>2, <4>3 DEF NoUser
    <3>3. CASE ChatTools(i)
      BY <3>2, <3>3 DEF ChatTools
    <3>4. QED
      BY <1>13, <3>1, <3>3
  <2>3. ~Uncompacted(i)'
    BY <2>1, <2>2 DEF Uncompacted
  <2>4. InAccount(i)'
    BY <2>1, <2>2, <2>3 DEF InAccount
  <2>5. QED
    BY <1>t, <1>1, <1>2, <1>4, <1>5, <2>4, OneAccounts
<1>14. CASE ChatEmpty(i) \/ ChatError(i) \/ OutOfIterations(i) \/ ToolFails(i)
  <2>1. pc'[i] \in Ended
    BY <1>t, <1>14 DEF ChatEmpty, ChatError, OutOfIterations, ToolFails, TypeOK, Ended
  <2>2. InAccount(i)'
    BY <2>1 DEF InAccount, Uncompacted, Ended
  <2>3. QED
    BY <1>t, <1>1, <1>2, <1>4, <1>5, <2>2, OneAccounts
<1>15. QED
  BY <1>6, <1>7, <1>8, <1>9, <1>10, <1>11, <1>12, <1>13, <1>14

\* A turn is appended.
LEMMA InsertAccounts ==
  ASSUME IInv, Serial, AllAccounted, \A j \in Invocations : InAccount(j),
         NEW i \in Invocations, InsertTurn(i)
  PROVE  Complete'
<1> USE DEF dbVars, compVars, loopVars, Goto
<1>t. TypeOK /\ OneRuns /\ InAccount(i) /\ queue[i] \in Seq(Roles) /\ queue[i] # << >> /\ pc[i] = "append"
  BY DEF IInv, Types, TypeOK, Serial, QueueReady, InsertTurn
<1> DEFINE q == queue[i]
<1>q. /\ Len(q) \in Nat /\ Len(q) >= 1 /\ Head(q) = q[1] /\ Tail(q) \in Seq(Roles)
      /\ Len(Tail(q)) = Len(q) - 1 /\ \A k \in 1 .. Len(Tail(q)) : Tail(q)[k] = q[k + 1]
  BY <1>t, EmptySeq, LenProperties, HeadTailProperties
<1>1. PICK n \in TurnTokens :
        turns' = turns \cup {[id |-> nextId, idx |-> slot[i], role |-> Head(q), tok |-> n]}
  BY DEF InsertTurn
<1>2. PICK t : turns' = turns \cup {t}
  BY <1>1
<1>3. /\ UNCHANGED <<archive, expired, summary, plan, base, cut, todo, context, calls>>
      /\ queue'[i] = Tail(q)
      /\ \A j \in Invocations \ {i} : pc'[j] = pc[j] /\ plan'[j] = plan[j]
      /\ pc'[i] = IF Len(q) > 1 THEN "append"
                  ELSE CASE q[1] = "user" -> "check" [] q[1] = "tool_result" -> "chat"
                         [] OTHER -> "answered"
  BY <1>t, <1>q DEF InsertTurn, AfterAppend, TypeOK
<1>4. i \in Running /\ \A j \in Invocations : pc[j] \notin {"remove", "record"}
  BY <1>t DEF Running, Ended, OneRuns
<1> HIDE DEF q
<1>5. AllAccounted'
  <2>1. Written' = Written \cup {t}
    BY <1>2, <1>3 DEF Written, ArchivedTurns
  <2>2. ASSUME NEW u, Accounted(u) PROVE Accounted(u)'
    <3>1. Truncated(u)' <=> Truncated(u)
      BY <1>3 DEF Truncated
    <3>2. QED
      BY <1>2, <1>3, <1>4, <2>2, <3>1 DEF Accounted
  <2>3. Accounted(t)'
    BY <1>2 DEF Accounted
  <2>4. QED
    BY <1>3, <2>1, <2>2, <2>3 DEF AllAccounted
<1>6. InAccount(i)'
  <2>1. CASE q = <<"user">>
    <3>1. Len(q) = 1 /\ q[1] = "user"
      BY <2>1
    <3>2. pc'[i] = "check" /\ Uncompacted(i)
      BY <1>t, <1>3, <2>1, <3>1 DEF Uncompacted, q
    <3>3. QED
      BY <1>t, <1>3, <3>2 DEF InAccount
  <2>2. CASE q # <<"user">>
    <3>1. calls'[i] # 0 /\ \A k \in 1 .. Len(q) : q[k] # "user"
      BY <1>t, <1>3, <2>2 DEF InAccount, q
    <3>r. PICK rest \in Seq(Roles) : rest = Tail(q)
      BY <1>q
    <3>2. \A k \in 1 .. Len(rest) : rest[k] # "user"
      <4>1. SUFFICES ASSUME NEW k \in 1 .. Len(rest) PROVE rest[k] # "user"
        OBVIOUS
      <4>2. k + 1 \in 1 .. Len(q) /\ rest[k] = q[k + 1]
        BY <1>q, <3>r, <4>1
      <4>3. QED
        BY <3>1, <4>2
    <3>3. rest # <<"user">>
      <4>1. Len(<<"user">>) = 1 /\ <<"user">>[1] = "user"
        OBVIOUS
      <4>2. QED
        BY <3>2, <4>1
    <3>4. pc'[i] \in {"append", "chat", "answered"} /\ queue'[i] = rest
      BY <1>q, <1>3, <3>1, <3>r
    <3>5. ~Uncompacted(i)'
      BY <3>3, <3>4 DEF Uncompacted
    <3>6. QED
      BY <3>1, <3>2, <3>4, <3>5 DEF InAccount
  <2>3. QED
    BY <2>1, <2>2
<1>7. QED
  BY <1>t, <1>3, <1>4, <1>5, <1>6, OneAccounts

\* The plan is made: to this moment the archive has no row of this invocation.
LEMMA PlanAccounts ==
  ASSUME IInv, Serial, AllAccounted, \A j \in Invocations : InAccount(j),
         NEW i \in Invocations, Summarized(i) \/ SummaryFailed(i)
  PROVE  Complete'
<1> USE DEF dbVars, compVars, loopVars, Goto
<1>t. TypeOK /\ OneRuns /\ InAccount(i) /\ pc[i] = "summarize"
  BY DEF IInv, Types, Serial, Summarized, SummaryFailed
<1>1. /\ UNCHANGED <<turns, archive, expired, summary, base>>
      /\ \A j \in Invocations \ {i} : pc'[j] = pc[j] /\ plan'[j] = plan[j]
      /\ pc'[i] = "archive" /\ plan'[i].how # "none" /\ todo'[i] = cut'[i]
  <2>1. CASE Summarized(i)
    <3>1. PICK n \in SummaryTokens : plan' = [plan EXCEPT ![i] = [how |-> "summarization", tok |-> n]]
      BY <2>1 DEF Summarized
    <3>2. plan'[i].how = "summarization" /\ \A j \in Invocations \ {i} : plan'[j] = plan[j]
      BY <1>t, <3>1 DEF TypeOK
    <3>3. QED
      BY <1>t, <2>1, <3>2 DEF Summarized, TypeOK
  <2>2. CASE SummaryFailed(i)
    <3> DEFINE dropped == TruncateDropped(snap[i], ProtectedTurns, ContextWindow, SummaryCost(base[i]))
    <3>1. /\ cut' = [cut EXCEPT ![i] = dropped] /\ todo' = [todo EXCEPT ![i] = dropped]
          /\ plan' = [plan EXCEPT ![i] = [how |-> "truncation", tok |-> 0]]
          /\ pc' = [pc EXCEPT ![i] = "archive"] /\ UNCHANGED <<turns, archive, expired, summary, base>>
      BY <2>2 DEF SummaryFailed
    <3> HIDE DEF dropped
    <3>2. QED
      BY <1>t, <3>1 DEF TypeOK
  <2>3. QED
    BY <2>1, <2>2
<1>2. i \in Running /\ \A j \in Invocations : pc[j] \notin {"remove", "record"}
  BY <1>t DEF Running, Ended, OneRuns
<1>3. AllAccounted'
  <2>1. Written' = Written
    BY <1>1, RowsKept
  <2>2. ASSUME NEW t, Accounted(t) PROVE Accounted(t)'
    <3>1. Truncated(t) => Truncated(t)'
      <4>1. SUFFICES ASSUME NEW row \in archive, row.turn = t, plan[row.run].how = "truncation"
                     PROVE  row \in archive' /\ plan'[row.run].how = "truncation"
        BY DEF Truncated
      <4>2. row.run \in Invocations /\ row.run # i
        BY <1>t DEF TypeOK, InAccount, Uncompacted
      <4>3. QED
        BY <1>1, <4>1, <4>2
    <3>2. QED
      BY <1>1, <1>2, <2>2, <3>1 DEF Accounted
  <2>3. QED
    BY <1>1, <2>1, <2>2 DEF AllAccounted
<1>4. InAccount(i)'
  BY <1>t, <1>1 DEF InAccount, Uncompacted
<1>5. QED
  BY <1>t, <1>1, <1>2, <1>3, <1>4, OneAccounts

\* A turn is archived.
LEMMA ArchiveAccounts ==
  ASSUME IInv, Serial, AllAccounted, \A j \in Invocations : InAccount(j),
         NEW i \in Invocations, ArchiveTurn(i)
  PROVE  Complete'
<1> USE DEF dbVars, compVars, loopVars
<1>t. TypeOK /\ OneRuns /\ InAccount(i) /\ pc[i] = "archive"
  BY DEF IInv, Types, Serial, ArchiveTurn
<1>1. PICK x \in todo[i] : /\ archive' = archive \cup {[turn |-> x, run |-> i]}
                           /\ todo' = [todo EXCEPT ![i] = @ \ {x}]
  BY DEF ArchiveTurn
<1>2. UNCHANGED <<turns, expired, summary, pc, plan, base, cut, context, calls, queue>>
  BY DEF ArchiveTurn
<1>3. x \in Written /\ ArchivedTurns' = ArchivedTurns \cup {x}
  BY <1>t, <1>1, NewArchiveRow DEF IInv, ArchivedFirst, LocalsWritten
<1>4. AllAccounted'
  <2>1. Written' = Written
    BY <1>2, <1>3 DEF Written
  <2>2. ASSUME NEW t, Accounted(t) PROVE Accounted(t)'
    <3>1. Truncated(t) => Truncated(t)'
      BY <1>1, <1>2 DEF Truncated
    <3>2. QED
      BY <1>2, <2>2, <3>1 DEF Accounted
  <2>3. QED
    BY <1>2, <2>1, <2>2 DEF AllAccounted
<1>5. todo'[i] = todo[i] \ {x}
  BY <1>t, <1>1 DEF TypeOK
<1>6. InAccount(i)'
  BY <1>t, <1>1, <1>2, <1>5 DEF InAccount, Uncompacted
<1>7. i \in Running /\ \A row \in archive' : row \in archive \/ row.run = i
  BY <1>t, <1>1 DEF Running, Ended
<1>8. QED
  BY <1>t, <1>2, <1>4, <1>6, <1>7, OneAccounts

\* A turn is removed: its row, or the summary to come, stands for it.
LEMMA RemoveAccounts ==
  ASSUME IInv, Serial, AllAccounted, \A j \in Invocations : InAccount(j),
         NEW i \in Invocations, RemoveTurn(i)
  PROVE  Complete'
<1> USE DEF dbVars, compVars, loopVars
<1>t. TypeOK /\ OneRuns /\ InAccount(i) /\ pc[i] = "remove"
  BY DEF IInv, Types, Serial, RemoveTurn
<1>1. PICK x \in todo[i] : turns' = {u \in turns : u.id # x.id}
  BY DEF RemoveTurn
<1>2. UNCHANGED <<archive, expired, summary, pc, plan, base, cut, context, calls, queue>>
  BY DEF RemoveTurn
<1>3. x \in cut[i] /\ x \in Written
  BY <1>t, <1>1 DEF IInv, ArchivedFirst, LocalsWritten
<1>4. turns' = turns \ {x}
  BY <1>1, <1>3 DEF IInv, Identities, Written
<1>5. [turn |-> x, run |-> i] \in archive /\ plan[i].how # "none"
  BY <1>t, <1>3 DEF InAccount
<1>6. Accounted(x)'
  <2>1. CASE plan[i].how = "summarization"
    BY <1>t, <1>2, <1>3, <2>1 DEF Accounted
  <2>2. CASE plan[i].how = "truncation"
    <3> DEFINE row == [turn |-> x, run |-> i]
    <3>1. row.turn = x /\ row.run = i /\ row \in archive
      BY <1>5
    <3> HIDE DEF row
    <3>2. Truncated(x)'
      BY <1>2, <2>2, <3>1 DEF Truncated
    <3>3. QED
      BY <3>2 DEF Accounted
  <2>3. QED
    BY <1>t, <1>5, <2>1, <2>2 DEF TypeOK
<1>7. AllAccounted'
  <2>1. Written' \subseteq Written
    BY <1>2, <1>4 DEF Written, ArchivedTurns
  <2>2. ASSUME NEW t, t # x, Accounted(t) PROVE Accounted(t)'
    <3>1. Truncated(t)' <=> Truncated(t)
      BY <1>2 DEF Truncated
    <3>2. QED
      BY <1>2, <1>4, <2>2, <3>1 DEF Accounted
  <2>3. QED
    BY <1>2, <1>6, <2>1, <2>2 DEF AllAccounted
<1>8. InAccount(i)'
  BY <1>t, <1>2 DEF InAccount, Uncompacted
<1>9. i \in Running
  BY <1>t DEF Running, Ended
<1>10. QED
  BY <1>t, <1>2, <1>7, <1>8, <1>9, OneAccounts

\* The new summary covers what the old one covered and what was taken away.
LEMMA RecordAccounts ==
  ASSUME IInv, Serial, AllAccounted, \A j \in Invocations : InAccount(j),
         NEW i \in Invocations, RecordState(i)
  PROVE  Complete'
<1> USE DEF dbVars, compVars, loopVars, Goto
<1>t. TypeOK /\ OneRuns /\ InAccount(i) /\ pc[i] = "record"
  BY DEF IInv, Types, Serial, RecordState
<1>1. /\ UNCHANGED <<turns, archive, expired, plan, base, cut>>
      /\ pc'[i] = "event" /\ \A j \in Invocations \ {i} : pc'[j] = pc[j]
      /\ summary' = IF plan[i].how = "summarization" THEN NewSummary(i) ELSE summary
  BY <1>t DEF RecordState, TypeOK
<1>2. i \in Running /\ \A j \in Invocations : pc[j] \in {"remove", "record"} => j = i
  BY <1>t DEF Running, Ended, OneRuns
<1>3. base[i] = summary
  BY <1>t DEF InAccount
<1>4. plan[i].how = "summarization" => summary'.covers = base[i].covers \cup Ids(cut[i])
  BY <1>1 DEF NewSummary
<1>5. AllAccounted'
  <2>1. Written' = Written
    BY <1>1, RowsKept
  <2>2. summary.covers \subseteq summary'.covers
    BY <1>1, <1>3, <1>4
  <2>3. ASSUME NEW t, Accounted(t) PROVE Accounted(t)'
    <3>1. Truncated(t)' <=> Truncated(t)
      BY <1>1 DEF Truncated
    <3>2. plan[i].how = "summarization" /\ t \in cut[i] => t.id \in summary'.covers
      BY <1>4 DEF Ids
    <3>3. QED
      BY <1>1, <1>2, <2>2, <2>3, <3>1, <3>2 DEF Accounted
  <2>4. QED
    BY <1>1, <2>1, <2>3 DEF AllAccounted
<1>6. InAccount(i)'
  <2>1. Ids(cut[i])' = Ids(cut[i])
    BY <1>1 DEF Ids
  <2>2. QED
    BY <1>t, <1>1, <1>4, <2>1 DEF InAccount, Uncompacted
<1>7. QED
  BY <1>t, <1>1, <1>2, <1>5, <1>6, OneAccounts

LEMMA StepAccounts ==
  ASSUME MaxConcurrent = 1, IInv, Serial, Complete, [Next]_vars
  PROVE  Complete'
<1> USE DEF vars, dbVars, compVars, loopVars
<1>f. faults \in Nat
  BY DEF IInv, Types, TypeOK
<1>1. CASE Crash \/ \E i \in Invocations : SummaryUnread(i) \/ StatementFails(i)
  <2>1. faults' = faults + 1
    BY <1>1 DEF Crash, SummaryUnread, StatementFails
  <2>2. QED
    BY <1>f, <2>1 DEF Complete
<1>2. CASE faults # 0 /\ faults' = faults
  BY <1>2 DEF Complete
<1>3. CASE faults = 0 /\ faults' = faults
  <2>1. AllAccounted /\ \A i \in Invocations : InAccount(i)
    BY <1>3 DEF Complete
  <2>2. ASSUME NEW i \in Invocations, ExpireArchive(i) PROVE Complete'
    <3> DEFINE rows == {row \in archive : row.run = i}
    <3>1. /\ UNCHANGED <<turns, summary, pc, plan, queue, base, cut, todo, context, calls>>
          /\ pc[i] \in Ended
          /\ archive' = archive \ rows /\ expired' = expired \cup {row.turn : row \in rows}
      BY <2>2 DEF ExpireArchive
    <3>2. Written' = Written
      BY <3>1 DEF Written, ArchivedTurns
    <3>3. ASSUME NEW t, t \notin expired', Accounted(t) PROVE Accounted(t)'
      <4>1. Truncated(t) => Truncated(t)'
        BY <3>1, <3>3 DEF Truncated
      <4>2. QED
        BY <3>1, <3>3, <4>1 DEF Accounted
    <3>4. AllAccounted'
      BY <2>1, <3>1, <3>2, <3>3 DEF AllAccounted
    <3>5. ASSUME NEW j \in Invocations PROVE InAccount(j)'
      <4>1. \A t : [turn |-> t, run |-> j] \in archive /\ j # i => [turn |-> t, run |-> j] \in archive'
        <5>1. SUFFICES ASSUME NEW t, [turn |-> t, run |-> j] \in archive, j # i
                       PROVE  [turn |-> t, run |-> j] \in archive'
          OBVIOUS
        <5>2. [turn |-> t, run |-> j].run = j
          OBVIOUS
        <5>3. QED
          BY <3>1, <5>1, <5>2
      <4>2. InAccount(j) /\ (j = i => pc[j] \notin {"archive", "remove"})
        BY <2>1, <3>1 DEF Ended
      <4>3. Ids(turns)' = Ids(turns) /\ (Uncompacted(j)' <=> Uncompacted(j)) /\ Ids(cut[j])' = Ids(cut[j])
        BY <3>1 DEF Ids, Uncompacted
      <4>4. \A row \in archive' : row \in archive
        BY <3>1
      <4>5. QED
        BY <3>1, <4>1, <4>2, <4>3, <4>4 DEF InAccount
    <3>6. QED
      BY <3>4, <3>5 DEF Complete
  <2>3. CASE UNCHANGED vars
    <3>1. AllAccounted'
      BY <2>1, <2>3, AccountsKept
    <3>2. ASSUME NEW j \in Invocations PROVE InAccount(j)'
      <4>1. InAccount(j)
        BY <2>1
      <4>2. Ids(turns)' = Ids(turns) /\ (Uncompacted(j)' <=> Uncompacted(j)) /\ Ids(cut[j])' = Ids(cut[j])
        BY <2>3 DEF Ids, Uncompacted
      <4>3. QED
        BY <2>3, <4>1, <4>2 DEF InAccount
    <3>3. QED
      BY <3>1, <3>2 DEF Complete
  <2>4. QED
    BY <1>1, <2>1, <2>2, <2>3, QuietAccounts, InsertAccounts, PlanAccounts, ArchiveAccounts,
       RemoveAccounts, RecordAccounts DEF Next, Step
<1>4. QED
  <2>1. faults' = faults \/ Crash \/ \E i \in Invocations : SummaryUnread(i) \/ StatementFails(i)
    BY DEF Next, Step, Start, ReadIndex, InsertTurn, ReadTurns, ReadSummary, Decide, Summarized,
       SummaryFailed, ArchiveTurn, ArchiveDone, RemoveTurn, RemoveDone, RecordState, RecordEvent,
       LoadHistory, ChatTools, ChatAnswer, ChatEmpty, ChatError, OutOfIterations, ToolFails,
       ExpireArchive
  <2>2. QED
    BY <1>1, <1>2, <1>3, <2>1

LEMMA CompleteInvariant == ASSUME MaxConcurrent = 1 PROVE Spec => [](Serial /\ Complete)
<1>1. Init => Complete
  <2> SUFFICES ASSUME Init PROVE Complete
    OBVIOUS
  <2>1. Written = {}
    BY DEF Init, Written, ArchivedTurns
  <2>2. \A i \in Invocations : InAccount(i)
    BY DEF Init, InAccount, NoPlan, Uncompacted
  <2>3. QED
    BY <2>1, <2>2 DEF Complete, AllAccounted
<1>2. IInv /\ Serial /\ Complete /\ [Next]_vars => Complete'
  BY StepAccounts
<1>3. QED
  BY <1>1, <1>2, SerialInvariant, SettledInvariant, PTL DEF Spec

(***************************************************************************)
(* One invocation after another and no statement failed: the first LLM     *)
(* call of an invocation that has summarised sees every turn, itself or    *)
(* in the summary, except those truncations dropped.  The summary that     *)
(* check_and_compact extends is still the stored one when it writes back.  *)
(***************************************************************************)
THEOREM CompactedContextsAreComplete ==
  ASSUME MaxConcurrent = 1 PROVE Spec => []CompactedContextComplete
<1>1. Serial /\ Complete => CompactedContextComplete
  <2>1. SUFFICES ASSUME Serial, Complete, NEW i \in Invocations,
                        faults = 0, pc[i] = "chat", calls[i] = 0, plan[i].how = "summarization",
                        NEW t \in Written \ expired
                 PROVE  \/ t.id \in context[i].turns \cup context[i].covers \/ Truncated(t)
    BY DEF CompactedContextComplete, Truncated
  <2>2. /\ Accounted(t)
        /\ context[i].covers = summary.covers /\ context[i].turns = Ids(turns)
    BY <2>1 DEF Complete, AllAccounted, InAccount
  <2>3. \A j \in Invocations : pc[j] \notin {"remove", "record"}
    BY <2>1 DEF Serial, OneRuns, Running, Ended
  <2>4. QED
    BY <2>2, <2>3 DEF Accounted, Ids
<1>2. QED
  BY <1>1, CompleteInvariant, PTL

(***************************************************************************)
(* What the summary stands for.  Turns that have left the conversation     *)
(* through the archive never come back (LeftStays), so whatever a          *)
(* compaction read or removed earlier is still gone when it writes its     *)
(* summary; and an LLM input is put together only once, after the          *)
(* compaction, and holds no turns before (FreshContext).                   *)
(***************************************************************************)
Left == Ids(ArchivedTurns \cup expired) \ Ids(turns)

LEMMA LeftStays ==
  ASSUME IInv, [Next]_vars PROVE Left \subseteq Left'
<1> USE DEF vars, dbVars, compVars, loopVars
<1>1. CASE UNCHANGED <<turns, archive, expired>>
  BY <1>1 DEF Left, Ids, ArchivedTurns
<1>2. ASSUME NEW i \in Invocations, InsertTurn(i) PROVE Left \subseteq Left'
  <2>1. PICK n \in TurnTokens :
          turns' = turns \cup {[id |-> nextId, idx |-> slot[i], role |-> Head(queue[i]), tok |-> n]}
    BY <1>2 DEF InsertTurn
  <2>2. PICK t : t = [id |-> nextId, idx |-> slot[i], role |-> Head(queue[i]), tok |-> n]
    OBVIOUS
  <2>3. turns' = turns \cup {t} /\ t.id = nextId /\ UNCHANGED <<archive, expired>>
    BY <1>2, <2>1, <2>2 DEF InsertTurn
  <2>4. \A u \in ArchivedTurns \cup expired : u.id # nextId
    <3>1. nextId \in Nat
      BY DEF IInv, Types, TypeOK
    <3>2. QED
      BY <3>1, SMT DEF IInv, Identities, Written
  <2>5. ArchivedTurns' = ArchivedTurns
    BY <2>3 DEF ArchivedTurns
  <2>6. QED
    BY <2>3, <2>4, <2>5 DEF Left, Ids
<1>3. ASSUME NEW i \in Invocations, ArchiveTurn(i) PROVE Left \subseteq Left'
  <2>1. UNCHANGED <<turns, expired>> /\ archive \subseteq archive'
    BY <1>3 DEF ArchiveTurn
  <2>2. QED
    BY <2>1 DEF Left, Ids, ArchivedTurns
<1>4. ASSUME NEW i \in Invocations, RemoveTurn(i) PROVE Left \subseteq Left'
  <2>1. UNCHANGED <<archive, expired>> /\ turns' \subseteq turns
    BY <1>4 DEF RemoveTurn
  <2>2. QED
    BY <2>1 DEF Left, Ids, ArchivedTurns
<1>5. ASSUME NEW i \in Invocations, ExpireArchive(i) PROVE Left \subseteq Left'
  <2> DEFINE rows == {row \in archive : row.run = i}
  <2>1. archive' = archive \ rows /\ expired' = expired \cup {row.turn : row \in rows} /\ turns' = turns
    BY <1>5 DEF ExpireArchive
  <2>2. ArchivedTurns \cup expired = ArchivedTurns' \cup expired'
    BY <2>1 DEF ArchivedTurns
  <2>3. QED
    BY <2>1, <2>2 DEF Left, Ids
<1>6. QED
  BY <1>1, <1>2, <1>3, <1>4, <1>5
     DEF Next, Step, Start, ReadIndex, ReadTurns, ReadSummary, SummaryUnread, Decide, Summarized, SummaryFailed,
         ArchiveDone, RemoveDone, RecordState, RecordEvent, LoadHistory, ChatTools, ChatAnswer,
         ChatEmpty, ChatError, OutOfIterations, ToolFails, StatementFails, Crash

\* The invocation has not put its LLM input together.
Unloaded(i) ==
  \/ pc[i] \in {"idle", "check", "history"} \cup Compacting
  \/ pc[i] = "append" /\ queue[i] = <<"user">>

FreshContext(i) ==
  /\ Unloaded(i) => context[i].turns = {}
  /\ pc[i] = "append" => queue[i] = <<"user">> \/ NoUser(queue[i])

AllFresh == \A i \in Invocations : FreshContext(i)

\* <<"user">> is not free of user turns.
LEMMA UserIsUser == \A q : NoUser(q) => q # <<"user">>
<1>1. Len(<<"user">>) = 1 /\ <<"user">>[1] = "user"
  OBVIOUS
<1>2. QED
  BY <1>1 DEF NoUser

LEMMA InsertFresh ==
  ASSUME IInv, NEW i \in Invocations, FreshContext(i), InsertTurn(i) PROVE FreshContext(i)'
<1> USE DEF dbVars, compVars, loopVars, Goto
<1>t. TypeOK /\ queue[i] \in Seq(Roles) /\ queue[i] # << >> /\ pc[i] = "append"
  BY DEF IInv, Types, TypeOK, QueueReady, InsertTurn
<1> DEFINE q == queue[i]
<1>q. /\ Len(q) \in Nat /\ Len(q) >= 1 /\ Head(q) = q[1] /\ Tail(q) \in Seq(Roles)
      /\ Len(Tail(q)) = Len(q) - 1 /\ \A k \in 1 .. Len(Tail(q)) : Tail(q)[k] = q[k + 1]
  BY <1>t, EmptySeq, LenProperties, HeadTailProperties
<1>3. /\ queue'[i] = Tail(q) /\ context' = context
      /\ pc'[i] = IF Len(q) > 1 THEN "append"
                  ELSE CASE q[1] = "user" -> "check" [] q[1] = "tool_result" -> "chat"
                         [] OTHER -> "answered"
  BY <1>t, <1>q DEF InsertTurn, AfterAppend, TypeOK
<1> HIDE DEF q
<1>4. CASE q = <<"user">>
  <2>1. Len(q) = 1 /\ q[1] = "user"
    BY <1>4
  <2>2. pc'[i] = "check" /\ context[i].turns = {}
    BY <1>t, <1>3, <1>4, <2>1 DEF Unloaded, FreshContext, q
  <2>3. QED
    BY <1>3, <2>2 DEF FreshContext
<1>5. CASE NoUser(q)
  <2>r. PICK rest \in Seq(Roles) : rest = Tail(q)
    BY <1>q
  <2>1. NoUser(rest)
    <3>1. ASSUME NEW k \in 1 .. Len(rest) PROVE rest[k] # "user"
      <4>2. k + 1 \in 1 .. Len(q) /\ rest[k] = q[k + 1]
        BY <1>q, <2>r
      <4>3. QED
        BY <1>5, <4>2 DEF NoUser
    <3>2. QED
      BY <3>1 DEF NoUser
  <2>2. q[1] # "user"
    BY <1>q, <1>5 DEF NoUser
  <2>3. pc'[i] \in {"append", "chat", "answered"} /\ queue'[i] = rest
    BY <1>3, <2>2, <2>r
  <2>4. QED
    BY <2>1, <2>3, UserIsUser DEF FreshContext, Unloaded, Compacting
<1>6. QED
  BY <1>t, <1>4, <1>5 DEF FreshContext, q

LEMMA ChatFresh ==
  ASSUME TypeOK, NEW i \in Invocations, ChatTools(i) \/ ChatAnswer(i) PROVE FreshContext(i)'
<1> USE DEF Goto
<1>1. pc'[i] = "append"
  BY DEF ChatTools, ChatAnswer, TypeOK
<1>2. NoUser(queue'[i])
  <2>1. CASE ChatAnswer(i)
    <3>1. queue'[i] = <<"assistant">>
      BY <2>1 DEF ChatAnswer, TypeOK
    <3>2. <<"assistant">>[1] = "assistant" /\ Len(<<"assistant">>) = 1
      OBVIOUS
    <3>3. QED
      BY <3>1, <3>2 DEF NoUser
  <2>2. CASE ChatTools(i)
    <3>1. PICK n \in 1 .. MaxToolCalls, text \in {<< >>, <<"assistant">>} :
            queue' = [queue EXCEPT ![i] = text \o Pairs(n)]
      BY <2>2 DEF ChatTools
    <3>2. n \in Nat /\ n > 0
      BY BoundsAssumption
    <3>3. NoUser(text \o Pairs(n))
      BY <3>2, PairsNoUser
    <3>4. queue'[i] = text \o Pairs(n)
      BY <3>1 DEF TypeOK
    <3>5. QED
      BY <3>3, <3>4
  <2>3. QED
    BY <2>1, <2>2
<1>3. QED
  BY <1>1, <1>2, UserIsUser DEF FreshContext, Unloaded, Compacting

LEMMA StepFresh == IInv /\ AllFresh /\ [Next]_vars => AllFresh'
<1> SUFFICES ASSUME IInv, AllFresh, [Next]_vars PROVE AllFresh'
  OBVIOUS
<1> USE DEF vars, dbVars, compVars, loopVars, Goto
<1>t. TypeOK /\ \A j \in Invocations : FreshContext(j)
  BY DEF IInv, Types, AllFresh
<1>o. ASSUME NEW i \in Invocations, FreshContext(i)',
             \A j \in Invocations \ {i} : pc'[j] = pc[j] /\ queue'[j] = queue[j] /\ context'[j] = context[j]
      PROVE  AllFresh'
  <2>1. ASSUME NEW j \in Invocations, j # i PROVE FreshContext(j)'
    BY <1>t, <1>o, <2>1 DEF FreshContext, Unloaded
  <2>2. QED
    BY <1>o, <2>1 DEF AllFresh
<1>1. ASSUME NEW i \in Invocations, Start(i) PROVE AllFresh'
  <2>1. /\ pc'[i] = "append" /\ queue'[i] = <<"user">> /\ context' = context /\ Unloaded(i)
        /\ \A j \in Invocations \ {i} : pc'[j] = pc[j] /\ queue'[j] = queue[j]
    BY <1>t, <1>1 DEF Start, TypeOK, Unloaded
  <2>2. FreshContext(i)'
    BY <1>t, <2>1 DEF FreshContext
  <2>3. QED
    BY <1>o, <2>1, <2>2
<1>2. ASSUME NEW i \in Invocations,
             \/ ReadTurns(i) \/ ReadSummary(i) \/ SummaryUnread(i) \/ Decide(i) \/ Summarized(i) \/ SummaryFailed(i)
             \/ ArchiveTurn(i) \/ ArchiveDone(i) \/ RemoveTurn(i) \/ RemoveDone(i) \/ RecordState(i)
      PROVE  AllFresh'
  <2>1. /\ UNCHANGED <<queue, context>> /\ \A j \in Invocations \ {i} : pc'[j] = pc[j]
        /\ pc'[i] \in {"history"} \cup Compacting /\ Unloaded(i)
    BY <1>t, <1>2 DEF TypeOK, Unloaded, Compacting, ReadTurns, ReadSummary, SummaryUnread, Decide, Summarized,
         SummaryFailed, ArchiveTurn, ArchiveDone, RemoveTurn, RemoveDone, RecordState
  <2>2. FreshContext(i)'
    BY <1>t, <2>1 DEF FreshContext, Compacting
  <2>3. QED
    BY <1>o, <2>1, <2>2
<1>3. ASSUME NEW i \in Invocations, InsertTurn(i) PROVE AllFresh'
  <2>1. /\ context' = context
        /\ \A j \in Invocations \ {i} : pc'[j] = pc[j] /\ queue'[j] = queue[j]
    BY <1>t, <1>3 DEF InsertTurn, TypeOK
  <2>2. QED
    BY <1>t, <1>3, <1>o, <2>1, InsertFresh
<1>4. ASSUME NEW i \in Invocations, RecordEvent(i) PROVE AllFresh'
  <2>1. /\ queue' = queue /\ \A j \in Invocations \ {i} : pc'[j] = pc[j] /\ context'[j] = context[j]
        /\ pc'[i] = "history" /\ Unloaded(i) /\ context'[i].turns = context[i].turns
    BY <1>t, <1>4 DEF RecordEvent, TypeOK, Unloaded, Compacting
  <2>2. FreshContext(i)'
    BY <1>t, <2>1 DEF FreshContext
  <2>3. QED
    BY <1>o, <2>1, <2>2
<1>5. ASSUME NEW i \in Invocations, LoadHistory(i) PROVE AllFresh'
  <2>1. /\ queue' = queue /\ \A j \in Invocations \ {i} : pc'[j] = pc[j] /\ context'[j] = context[j]
        /\ pc'[i] = "chat"
    BY <1>t, <1>5 DEF LoadHistory, TypeOK
  <2>2. FreshContext(i)'
    BY <2>1 DEF FreshContext, Unloaded, Compacting
  <2>3. QED
    BY <1>o, <2>1, <2>2
<1>6. ASSUME NEW i \in Invocations, ChatTools(i) \/ ChatAnswer(i) PROVE AllFresh'
  <2>1. /\ context' = context
        /\ \A j \in Invocations \ {i} : pc'[j] = pc[j] /\ queue'[j] = queue[j]
    BY <1>t, <1>6 DEF ChatTools, ChatAnswer, TypeOK
  <2>2. QED
    BY <1>t, <1>6, <1>o, <2>1, ChatFresh
<1>7. ASSUME NEW i \in Invocations, ChatEmpty(i) \/ ChatError(i) \/ OutOfIterations(i) \/ ToolFails(i)
      PROVE  AllFresh'
  <2>1. /\ UNCHANGED <<queue, context>> /\ \A j \in Invocations \ {i} : pc'[j] = pc[j]
        /\ pc'[i] \in Ended
    BY <1>t, <1>7 DEF ChatEmpty, ChatError, OutOfIterations, ToolFails, TypeOK, Ended
  <2>2. FreshContext(i)'
    BY <2>1 DEF FreshContext, Unloaded, Compacting, Ended
  <2>3. QED
    BY <1>o, <2>1, <2>2
<1>8. ASSUME NEW i \in Invocations, StatementFails(i) PROVE AllFresh'
  <2>1. /\ UNCHANGED <<queue, context>> /\ \A j \in Invocations \ {i} : pc'[j] = pc[j]
        /\ pc'[i] = "failed" \/ (pc'[i] = "history" /\ Unloaded(i))
    BY <1>t, <1>8 DEF StatementFails, TypeOK, Unloaded, Compacting
  <2>2. FreshContext(i)'
    BY <1>t, <2>1 DEF FreshContext, Unloaded, Compacting
  <2>3. QED
    BY <1>o, <2>1, <2>2
<1>9. CASE UNCHANGED <<pc, queue, context>>
  BY <1>t, <1>9 DEF AllFresh, FreshContext, Unloaded
<1>10. ASSUME NEW i \in Invocations, ReadIndex(i) \/ ExpireArchive(i) PROVE AllFresh'
  BY <1>9, <1>10 DEF ReadIndex, ExpireArchive
<1>11. CASE Crash
  <2>1. UNCHANGED <<queue, context>> /\ \A j \in Invocations : pc'[j] = "failed" \/ pc'[j] = pc[j]
    BY <1>11 DEF Crash
  <2>2. ASSUME NEW j \in Invocations PROVE FreshContext(j)'
    BY <1>t, <2>1 DEF FreshContext, Unloaded, Compacting
  <2>3. QED
    BY <2>2 DEF AllFresh
<1>12. QED
  BY <1>1, <1>2, <1>3, <1>4, <1>5, <1>6, <1>7, <1>8, <1>9, <1>10, <1>11 DEF Next, Step

\* What an invocation has read, removed or told the model is gone from the
\* conversation.
Covered(i) ==
  /\ base[i].covers \subseteq Left
  /\ pc[i] = "remove" => Ids(cut[i] \ todo[i]) \subseteq Left
  /\ pc[i] \in {"record", "event"} => Ids(cut[i]) \subseteq Left
  /\ context[i].covers \subseteq Left
  /\ context[i].turns \cap context[i].covers = {}

CoverInv == summary.covers \subseteq Left /\ \A i \in Invocations : Covered(i)

LEMMA StepCover == IInv /\ AllFresh /\ CoverInv /\ [Next]_vars => CoverInv'
<1> SUFFICES ASSUME IInv, AllFresh, CoverInv, [Next]_vars PROVE CoverInv'
  OBVIOUS
<1> USE DEF vars, dbVars, compVars, loopVars, Goto
<1>t. TypeOK /\ summary.covers \subseteq Left /\ \A j \in Invocations : Covered(j) /\ FreshContext(j)
  BY DEF IInv, Types, AllFresh, CoverInv
<1>l. Left \subseteq Left'
  BY LeftStays
\* The others' shares are as they were, and what they rest on has grown.
<1>o. ASSUME NEW i \in Invocations, summary'.covers \subseteq Left', Covered(i)',
             \A j \in Invocations \ {i} :
               pc'[j] = pc[j] /\ base'[j] = base[j] /\ cut'[j] = cut[j] /\ todo'[j] = todo[j]
               /\ context'[j] = context[j]
      PROVE  CoverInv'
  <2>1. ASSUME NEW j \in Invocations, j # i PROVE Covered(j)'
    <3>1. UNCHANGED <<pc[j], base[j], cut[j], todo[j], context[j]>>
      BY <1>o, <2>1
    <3>2. Ids(cut[j])' = Ids(cut[j]) /\ Ids(cut[j] \ todo[j])' = Ids(cut[j] \ todo[j])
      BY <3>1 DEF Ids
    <3>3. QED
      BY <1>t, <1>l, <3>1, <3>2 DEF Covered
  <2>2. QED
    BY <1>o, <2>1 DEF CoverInv
<1>1. ASSUME NEW i \in Invocations, UNCHANGED <<summary, context>>,
             \A j \in Invocations \ {i} :
               pc'[j] = pc[j] /\ base'[j] = base[j] /\ cut'[j] = cut[j] /\ todo'[j] = todo[j],
             base'[i] = base[i] \/ base'[i] = NoSummary,
             \/ pc'[i] \notin {"remove", "record", "event"}
             \/ pc'[i] = pc[i] /\ cut'[i] = cut[i] /\ todo'[i] = todo[i]
      PROVE  CoverInv'
  <2>1. base'[i].covers \subseteq Left'
    <3>1. CASE base'[i] = base[i]
      BY <1>t, <1>l, <3>1 DEF Covered
    <3>2. CASE base'[i] = NoSummary
      BY <3>2 DEF NoSummary
    <3>3. QED
      BY <1>1, <3>1, <3>2
  <2>2. /\ pc'[i] = "remove" => Ids(cut[i] \ todo[i])' \subseteq Left'
        /\ pc'[i] \in {"record", "event"} => Ids(cut[i])' \subseteq Left'
    BY <1>t, <1>l, <1>1 DEF Covered, Ids
  <2>3. Covered(i)'
    BY <1>t, <1>l, <1>1, <2>1, <2>2 DEF Covered
  <2>4. QED
    BY <1>t, <1>l, <1>1, <2>3, <1>o
<1>2. ASSUME NEW i \in Invocations,
             \/ Start(i) \/ ReadIndex(i) \/ InsertTurn(i) \/ ReadTurns(i)
             \/ Summarized(i) \/ SummaryFailed(i) \/ ArchiveTurn(i)
             \/ ChatTools(i) \/ ChatAnswer(i) \/ ChatEmpty(i) \/ ChatError(i)
             \/ OutOfIterations(i) \/ ToolFails(i) \/ ExpireArchive(i)
      PROVE  CoverInv'
  <2>1. UNCHANGED <<summary, base, context>>
    BY <1>2 DEF Start, ReadIndex, InsertTurn, ReadTurns, Summarized, SummaryFailed, ArchiveTurn, ChatTools,
         ChatAnswer, ChatEmpty, ChatError, OutOfIterations, ToolFails, ExpireArchive
  <2>2. \A j \in Invocations \ {i} : pc'[j] = pc[j] /\ cut'[j] = cut[j] /\ todo'[j] = todo[j]
    BY <1>2, <1>t DEF TypeOK, Start, ReadIndex, InsertTurn, ReadTurns, Summarized, SummaryFailed,
         ArchiveTurn, ChatTools, ChatAnswer, ChatEmpty, ChatError, OutOfIterations, ToolFails, ExpireArchive
  <2>3. \/ pc'[i] \notin {"remove", "record", "event"}
        \/ UNCHANGED <<pc, cut, todo>>
    BY <1>2, <1>t DEF TypeOK, Start, ReadIndex, InsertTurn, AfterAppend, ReadTurns, Summarized,
         SummaryFailed, ArchiveTurn, ChatTools, ChatAnswer, ChatEmpty, ChatError, OutOfIterations,
         ToolFails, ExpireArchive
  <2>4. QED
    BY <2>1, <2>2, <2>3, <1>1
<1>3. ASSUME NEW i \in Invocations, Decide(i) \/ StatementFails(i) PROVE CoverInv'
  <2>1. UNCHANGED <<summary, context>>
    BY <1>3 DEF Decide, StatementFails
  <2>2. \A j \in Invocations \ {i} : pc'[j] = pc[j]
    BY <1>3, <1>t DEF Decide, StatementFails, TypeOK
  <2>3. /\ \A j \in Invocations \ {i} : base'[j] = base[j] /\ cut'[j] = cut[j] /\ todo'[j] = todo[j]
        /\ base'[i] = base[i] \/ base'[i] = NoSummary
    <3>1. CASE DropLocals(i)
      BY <1>t, <3>1 DEF DropLocals, TypeOK
    <3>2. CASE ~DropLocals(i)
      BY <1>3, <1>t, <3>2 DEF Decide, StatementFails, TypeOK
    <3>3. QED
      BY <3>1, <3>2
  <2>4. pc'[i] \notin {"remove", "record", "event"}
    BY <1>3, <1>t DEF Decide, StatementFails, TypeOK
  <2>5. QED
    BY <2>1, <2>2, <2>3, <2>4, <1>1
<1>4. ASSUME NEW i \in Invocations, ReadSummary(i) \/ SummaryUnread(i) PROVE CoverInv'
  <2>1. /\ UNCHANGED <<summary, context, cut, todo>> /\ pc'[i] = "decide"
        /\ base'[i] = summary \/ base'[i] = NoSummary
        /\ \A j \in Invocations \ {i} : pc'[j] = pc[j] /\ base'[j] = base[j]
    BY <1>4, <1>t DEF ReadSummary, SummaryUnread, TypeOK
  <2>2. Covered(i)'
    <3>1. CASE base'[i] = summary
      BY <1>t, <1>l, <2>1, <3>1 DEF Covered
    <3>2. CASE base'[i] = NoSummary
      <4>1. base'[i].covers = {}
        BY <3>2 DEF NoSummary
      <4>2. QED
        BY <1>t, <1>l, <2>1, <4>1 DEF Covered
    <3>3. QED
      BY <2>1, <3>1, <3>2
  <2>3. QED
    BY <1>t, <1>l, <1>o, <2>1, <2>2
<1>5. ASSUME NEW i \in Invocations, ArchiveDone(i) PROVE CoverInv'
  <2>1. /\ UNCHANGED <<summary, context, base, cut>> /\ pc'[i] = "remove" /\ todo'[i] = cut'[i]
        /\ \A j \in Invocations \ {i} : pc'[j] = pc[j] /\ todo'[j] = todo[j]
    BY <1>5, <1>t DEF ArchiveDone, TypeOK
  <2>2. Ids(cut[i] \ todo[i])' = {}
    BY <2>1 DEF Ids
  <2>3. Covered(i)'
    BY <1>t, <1>l, <2>1, <2>2 DEF Covered
  <2>4. QED
    BY <1>t, <1>l, <1>o, <2>1, <2>3
<1>6. ASSUME NEW i \in Invocations, RemoveTurn(i) PROVE CoverInv'
  <2>1. PICK t \in todo[i] : /\ turns' = {u \in turns : u.id # t.id}
                            /\ todo' = [todo EXCEPT ![i] = @ \ {t}]
    BY <1>6 DEF RemoveTurn
  <2>2. UNCHANGED <<archive, expired, summary, pc, base, cut, context>> /\ pc[i] = "remove"
    BY <1>6 DEF RemoveTurn
  <2>3. todo'[i] = todo[i] \ {t} /\ \A j \in Invocations \ {i} : todo'[j] = todo[j]
    BY <1>t, <2>1 DEF TypeOK
  <2>4. t \in ArchivedTurns \cup expired
    BY <2>2 DEF IInv, ArchivedFirst
  <2>5. t.id \in Left'
    <3>1. ArchivedTurns' = ArchivedTurns
      BY <2>2 DEF ArchivedTurns
    <3>2. QED
      BY <2>1, <2>2, <2>4, <3>1 DEF Left, Ids
  <2>6. Ids(cut[i] \ todo[i])' \subseteq Ids(cut[i] \ todo[i]) \cup {t.id}
    BY <2>2, <2>3 DEF Ids
  <2>7. Covered(i)'
    BY <1>t, <1>l, <2>2, <2>5, <2>6 DEF Covered
  <2>8. QED
    BY <1>t, <1>l, <1>o, <2>2, <2>3, <2>7
<1>7. ASSUME NEW i \in Invocations, RemoveDone(i) PROVE CoverInv'
  <2>1. /\ UNCHANGED <<summary, context, base, cut, todo>> /\ pc[i] = "remove" /\ todo[i] = {}
        /\ pc'[i] = "record" /\ \A j \in Invocations \ {i} : pc'[j] = pc[j]
    BY <1>7, <1>t DEF RemoveDone, TypeOK
  <2>2. Ids(cut[i])' = Ids(cut[i] \ todo[i])
    BY <2>1 DEF Ids
  <2>3. Covered(i)'
    BY <1>t, <1>l, <2>1, <2>2 DEF Covered
  <2>4. QED
    BY <1>t, <1>l, <1>o, <2>1, <2>3
<1>n. ASSUME NEW i \in Invocations, pc[i] \in {"record", "event"} PROVE NewSummary(i).covers \subseteq Left
  BY <1>n, <1>t DEF Covered, NewSummary
<1>8. ASSUME NEW i \in Invocations, RecordState(i) PROVE CoverInv'
  <2>1. /\ UNCHANGED <<context, base, cut, todo>> /\ pc[i] = "record" /\ pc'[i] = "event"
        /\ \A j \in Invocations \ {i} : pc'[j] = pc[j]
        /\ summary' = IF plan[i].how = "summarization" THEN NewSummary(i) ELSE summary
    BY <1>8, <1>t DEF RecordState, TypeOK
  <2>2. summary'.covers \subseteq Left
    BY <1>t, <1>n, <2>1
  <2>3. Ids(cut[i])' = Ids(cut[i])
    BY <2>1 DEF Ids
  <2>4. Covered(i)'
    BY <1>t, <1>l, <2>1, <2>3 DEF Covered
  <2>5. QED
    BY <1>l, <1>o, <2>1, <2>2, <2>4
<1>9. ASSUME NEW i \in Invocations, RecordEvent(i) PROVE CoverInv'
  <2>1. /\ summary' = summary /\ pc[i] = "event" /\ pc'[i] = "history" /\ base'[i] = NoSummary
        /\ context'[i].covers = NewSummary(i).covers /\ context'[i].turns = context[i].turns
        /\ \A j \in Invocations \ {i} :
             pc'[j] = pc[j] /\ base'[j] = base[j] /\ cut'[j] = cut[j] /\ todo'[j] = todo[j]
             /\ context'[j] = context[j]
    BY <1>9, <1>t DEF RecordEvent, DropLocals, TypeOK
  <2>2. context[i].turns = {}
    BY <1>t, <2>1 DEF FreshContext, Unloaded, Compacting
  <2>3. context'[i].covers \subseteq Left
    BY <1>n, <2>1
  <2>4. Covered(i)'
    BY <1>l, <2>1, <2>2, <2>3 DEF Covered, NoSummary
  <2>5. QED
    BY <1>t, <1>l, <1>o, <2>1, <2>4
<1>10. ASSUME NEW i \in Invocations, LoadHistory(i) PROVE CoverInv'
  <2>1. /\ UNCHANGED <<summary, base, cut, todo>> /\ pc'[i] = "chat"
        /\ context'[i].covers = context[i].covers /\ context'[i].turns = Ids(turns)
        /\ \A j \in Invocations \ {i} : pc'[j] = pc[j] /\ context'[j] = context[j]
    BY <1>10, <1>t DEF LoadHistory, TypeOK
  <2>2. context'[i].turns \cap context'[i].covers = {}
    BY <1>t, <2>1 DEF Covered, Left
  <2>3. Covered(i)'
    BY <1>t, <1>l, <2>1, <2>2 DEF Covered
  <2>4. QED
    BY <1>t, <1>l, <1>o, <2>1, <2>3
<1>11. CASE Crash
  <2>1. /\ UNCHANGED <<summary, context>>
        /\ \A j \in Invocations : base'[j] = NoSummary /\ pc'[j] \notin {"remove", "record", "event"}
    BY <1>11 DEF Crash, Running, Ended
  <2>2. ASSUME NEW j \in Invocations PROVE Covered(j)'
    <3>1. base'[j].covers = {} /\ context'[j] = context[j]
      BY <2>1 DEF NoSummary
    <3>2. QED
      BY <1>t, <1>l, <2>1, <3>1 DEF Covered
  <2>3. QED
    BY <1>t, <1>l, <2>1, <2>2 DEF CoverInv
<1>12. CASE UNCHANGED vars
  <2>1. UNCHANGED <<summary, pc, base, cut, todo, context, turns, archive, expired>>
    BY <1>12
  <2>2. Left' = Left
    BY <2>1 DEF Left, Ids, ArchivedTurns
  <2>3. ASSUME NEW j \in Invocations PROVE Covered(j)'
    <3>1. UNCHANGED <<pc[j], base[j], cut[j], todo[j], context[j]>>
      BY <2>1
    <3>2. Ids(cut[j])' = Ids(cut[j]) /\ Ids(cut[j] \ todo[j])' = Ids(cut[j] \ todo[j])
      BY <3>1 DEF Ids
    <3>3. QED
      BY <1>t, <1>l, <3>1, <3>2 DEF Covered
  <2>4. QED
    BY <1>t, <2>1, <2>2, <2>3 DEF CoverInv
<1>13. QED
  BY <1>2, <1>3, <1>4, <1>5, <1>6, <1>7, <1>8, <1>9, <1>10, <1>11, <1>12 DEF Next, Step

(***************************************************************************)
(* What the stored summary stands for has left the conversation through    *)
(* the archive, and no LLM input has a turn both ways: for any number of   *)
(* overlapping invocations, and any failures in the middle of their        *)
(* compactions.                                                            *)
(***************************************************************************)
THEOREM SummariesAreForArchived == Spec => []SummaryOnlyForArchived
<1>1. Init => AllFresh /\ CoverInv
  <2>1. SUFFICES ASSUME Init PROVE AllFresh /\ CoverInv
    OBVIOUS
  <2>2. summary.covers = {} /\ \A i \in Invocations :
          pc[i] = "idle" /\ base[i].covers = {} /\ context[i].covers = {} /\ context[i].turns = {}
    BY <2>1 DEF Init, NoSummary, NoContext
  <2>3. QED
    BY <2>2 DEF AllFresh, FreshContext, CoverInv, Covered
<1>2. IInv /\ AllFresh /\ CoverInv /\ [Next]_vars => (AllFresh /\ CoverInv)'
  BY StepFresh, StepCover
<1>3. CoverInv => SummaryOnlyForArchived
  BY DEF CoverInv, Covered, SummaryOnlyForArchived, Left
<1>4. QED
  BY <1>1, <1>2, <1>3, InitIInv, StepIInv, PTL DEF Spec

(***************************************************************************)
(* The settings.                                                           *)
(***************************************************************************)
SettingValues == [Fields -> Int]
PatchRecords ==
  [pc : {"new", "none", "exists", "merged", "done"}, op : {"none", "patch", "reset"}, ok : BOOLEAN,
   row : Int, body : Bodies \cup {Defaults}, values : SettingValues, before : SUBSET Requests]

\* What the program counter says of a request.
PatchPlaced(x) ==
  /\ x.ok => x.pc = "done"
  /\ x.pc = "new" <=> x.op = "none"
  /\ x.pc \in {"none", "exists", "merged"} => x.op = "patch"

SettingsTyped ==
  /\ override \subseteq [id : Requests, values : SettingValues]
  /\ \A o, w \in override : o = w
  /\ requests \in [Requests -> PatchRecords]
  /\ \A r \in Requests : PatchPlaced(requests[r]) /\ requests[r].before \subseteq Done

\* What a patch gave a setting was changed, as PatchStays excuses it.
Outdone(p, f) ==
  \E q \in Requests \ {p} :
    /\ q \notin requests[p].before /\ requests[q].op # "none"
    /\ \/ requests[q].op = "reset" \/ f \in DOMAIN requests[q].body
       \/ p \notin requests[q].before

\* A row that a patch has seen is there, or a reset came across.
RowsAccounted ==
  \A r \in Requests : requests[r].pc \in {"exists", "merged"} =>
    \/ \E o \in override : o.id = requests[r].row
    \/ \E q \in Requests \ {r} : requests[q].op = "reset" /\ q \notin requests[r].before

\* What a patch is about to write carries what it says itself, and what was
\* acknowledged before it.
MergedCarry ==
  \A r \in Requests : requests[r].pc = "merged" =>
    /\ \A f \in DOMAIN requests[r].body : requests[r].values[f] = requests[r].body[f]
    /\ \A p \in Accepted("patch") \cap requests[r].before :
         \A f \in DOMAIN requests[p].body \ DOMAIN requests[r].body :
           requests[r].values[f] = requests[p].body[f] \/ Outdone(p, f)

SettingsInv == SettingsTyped /\ RowsAccounted /\ MergedCarry /\ PatchStays

\* A request takes a step: its locals become y, those of the others stay.
Stepped(r, y) ==
  /\ r \in Requests /\ requests[r].pc # "done"
  /\ requests' = [requests EXCEPT ![r] = y]
  /\ y \in PatchRecords /\ PatchPlaced(y) /\ y.pc # "new" /\ y.before \subseteq Done
  /\ requests[r].pc = "new" \/ (/\ y.op = requests[r].op /\ y.body = requests[r].body
                                /\ y.before = requests[r].before)

LEMMA SteppedFacts ==
  ASSUME SettingsTyped, NEW r, NEW y, Stepped(r, y)
  PROVE  /\ requests' \in [Requests -> PatchRecords] /\ requests'[r] = y
         /\ \A q \in Requests \ {r} : requests'[q] = requests[q]
         /\ \A q \in Requests : PatchPlaced(requests'[q]) /\ requests'[q].before \subseteq Done'
         /\ \A p \in Accepted("patch")' : p = r \/ p \in Accepted("patch")
         /\ \A p \in Accepted("patch") : p \in Requests \ {r} /\ r \notin requests[p].before
         /\ \A p \in Accepted("patch") : \A f : Outdone(p, f) => Outdone(p, f)'
         /\ \A p \in Accepted("patch") : \A f : f \in DOMAIN y.body => Outdone(p, f)'
         /\ r \notin Done
<1>1. requests \in [Requests -> PatchRecords]
  BY DEF SettingsTyped
<1>2. /\ requests' \in [Requests -> PatchRecords] /\ requests'[r] = y
      /\ \A q \in Requests \ {r} : requests'[q] = requests[q]
  BY <1>1 DEF Stepped
<1>3. r \notin Done /\ r \in Requests
  BY DEF Stepped, Done
<1>4. Done \subseteq Done'
  BY <1>2, <1>3 DEF Done
<1>5. \A q \in Requests : PatchPlaced(requests'[q]) /\ requests'[q].before \subseteq Done'
  BY <1>2, <1>4 DEF SettingsTyped, Stepped
<1>6. \A p \in Accepted("patch")' : p = r \/ p \in Accepted("patch")
  BY <1>2 DEF Accepted, Done
<1>7. \A p \in Accepted("patch") : p \in Requests \ {r} /\ r \notin requests[p].before
  BY <1>3 DEF Accepted, Done, SettingsTyped
<1>8. ASSUME NEW p \in Accepted("patch"), NEW f, Outdone(p, f) PROVE Outdone(p, f)'
  <2>1. PICK q \in Requests \ {p} :
          /\ q \notin requests[p].before /\ requests[q].op # "none"
          /\ \/ requests[q].op = "reset" \/ f \in DOMAIN requests[q].body
             \/ p \notin requests[q].before
    BY <1>8 DEF Outdone
  <2>2. requests'[p] = requests[p]
    BY <1>2, <1>7
  <2>3. /\ requests'[q].op = requests[q].op /\ requests'[q].body = requests[q].body
        /\ requests'[q].before = requests[q].before
    <3>1. CASE q = r
      BY <1>2, <2>1, <3>1 DEF Stepped, SettingsTyped, PatchPlaced
    <3>2. CASE q # r
      BY <1>2, <3>2
    <3>3. QED
      BY <3>1, <3>2
  <2>4. QED
    BY <2>1, <2>2, <2>3 DEF Outdone
<1>9. ASSUME NEW p \in Accepted("patch"), NEW f, f \in DOMAIN y.body PROVE Outdone(p, f)'
  <2>1. requests'[p] = requests[p] /\ p # r /\ r \notin requests[p].before
    BY <1>2, <1>7
  <2>2. y.op # "none"
    BY DEF Stepped, PatchPlaced
  <2>3. QED
    BY <1>2, <1>3, <1>9, <2>1, <2>2 DEF Outdone
<1>10. QED
  BY <1>2, <1>3, <1>5, <1>6, <1>7, <1>8, <1>9

\* One that overlaps an acknowledged patch, or resets, excuses it.
LEMMA OverlapOutdoes ==
  ASSUME SettingsTyped, NEW r, NEW y, Stepped(r, y), NEW p \in Accepted("patch"), NEW f,
         y.op = "reset" \/ p \notin y.before
  PROVE  Outdone(p, f)'
<1>1. requests'[p] = requests[p] /\ p \in Requests \ {r} /\ r \notin requests[p].before /\ requests'[r] = y /\ r \in Requests
  BY SteppedFacts DEF Stepped
<1>2. y.op # "none"
  BY DEF Stepped, PatchPlaced
<1>3. QED
  BY <1>1, <1>2 DEF Outdone

LEMMA CarryStays ==
  ASSUME SettingsInv, NEW r, NEW y, Stepped(r, y),
         y.pc = "merged" =>
           /\ \A f \in DOMAIN y.body : y.values[f] = y.body[f]
           /\ \A p \in Accepted("patch") \cap y.before :
                \A f \in DOMAIN requests[p].body \ DOMAIN y.body :
                  y.values[f] = requests[p].body[f] \/ Outdone(p, f)
  PROVE  MergedCarry'
<1>1. SettingsTyped /\ MergedCarry
  BY DEF SettingsInv
<1>2. ASSUME NEW q \in Requests, requests'[q].pc = "merged"
      PROVE  /\ \A f \in DOMAIN requests'[q].body : requests'[q].values[f] = requests'[q].body[f]
             /\ \A p \in Accepted("patch") \cap requests'[q].before :
                  \A f \in DOMAIN requests[p].body \ DOMAIN requests'[q].body :
                    requests'[q].values[f] = requests[p].body[f] \/ Outdone(p, f)
             /\ requests'[q].before \subseteq Done
  <2>1. CASE q = r
    <3>1. requests'[q] = y
      BY <1>1, <2>1, SteppedFacts
    <3>2. QED
      BY <1>2, <3>1 DEF Stepped
  <2>2. CASE q # r
    <3>1. requests'[q] = requests[q]
      BY <1>1, <2>2, SteppedFacts
    <3>2. QED
      BY <1>1, <1>2, <3>1 DEF MergedCarry, SettingsTyped
  <2>3. QED
    BY <2>1, <2>2
<1>3. ASSUME NEW p \in Accepted("patch")', p \in Done PROVE p \in Accepted("patch") /\ requests'[p] = requests[p]
  BY <1>1, <1>3, SteppedFacts
<1>4. ASSUME NEW p \in Accepted("patch"), NEW f, Outdone(p, f) PROVE Outdone(p, f)'
  BY <1>1, <1>4, SteppedFacts
<1>5. QED
  BY <1>2, <1>3, <1>4 DEF MergedCarry

LEMMA RowsStay ==
  ASSUME SettingsInv, NEW r, NEW y, Stepped(r, y),
         \A o \in override : \E w \in override' : w.id = o.id,
         y.pc \in {"exists", "merged"} =>
           \/ \E o \in override : o.id = y.row
           \/ \E q \in Requests \ {r} : requests[q].op = "reset" /\ q \notin y.before
  PROVE  RowsAccounted'
<1>1. SettingsTyped /\ RowsAccounted
  BY DEF SettingsInv
<1>2. \A q \in Requests : requests[q].op = "reset" => requests'[q].op = "reset"
  <2>1. requests[r].op = "reset" => y.op = "reset"
    BY <1>1 DEF Stepped, SettingsTyped, PatchPlaced
  <2>2. QED
    BY <1>1, <2>1, SteppedFacts
<1>3. ASSUME NEW q \in Requests, requests'[q].pc \in {"exists", "merged"}
      PROVE  \/ \E o \in override : o.id = requests'[q].row
             \/ \E p \in Requests \ {q} : requests[p].op = "reset" /\ p \notin requests'[q].before
  <2>1. CASE q = r
    BY <1>1, <1>3, <2>1, SteppedFacts
  <2>2. CASE q # r
    BY <1>1, <1>3, <2>2, SteppedFacts DEF RowsAccounted
  <2>3. QED
    BY <2>1, <2>2
<1>4. QED
  BY <1>2, <1>3 DEF RowsAccounted

\* A step that leaves the row alone and acknowledges no patch.
LEMMA RowStays ==
  ASSUME SettingsInv, NEW r, NEW y, Stepped(r, y), UNCHANGED override, ~y.ok,
         y.pc = "merged" =>
           /\ \A f \in DOMAIN y.body : y.values[f] = y.body[f]
           /\ \A p \in Accepted("patch") \cap y.before :
                \A f \in DOMAIN requests[p].body \ DOMAIN y.body :
                  y.values[f] = requests[p].body[f] \/ Outdone(p, f),
         y.pc \in {"exists", "merged"} =>
           \/ \E o \in override : o.id = y.row
           \/ \E q \in Requests \ {r} : requests[q].op = "reset" /\ q \notin y.before
  PROVE  SettingsInv'
<1>1. SettingsTyped /\ PatchStays
  BY DEF SettingsInv
<1>2. SettingsTyped'
  BY <1>1, SteppedFacts DEF SettingsTyped
<1>3. RowsAccounted' /\ MergedCarry'
  BY CarryStays, RowsStay
<1>4. PatchStays'
  <2>1. ASSUME NEW p \in Accepted("patch")', NEW f \in DOMAIN requests'[p].body
        PROVE  InForce'[f] = requests'[p].body[f] \/ Outdone(p, f)'
    <3>1. p \in Accepted("patch") /\ requests'[p] = requests[p]
      <4>1. p # r
        BY <1>1, SteppedFacts DEF Accepted
      <4>2. QED
        BY <1>1, <4>1, SteppedFacts
    <3>2. InForce[f] = requests[p].body[f] \/ Outdone(p, f)
      BY <1>1, <2>1, <3>1 DEF PatchStays, Outdone
    <3>3. InForce' = InForce
      BY DEF InForce
    <3>4. QED
      BY <1>1, <3>1, <3>2, <3>3, SteppedFacts
  <2>2. QED
    BY <2>1 DEF PatchStays, Outdone
<1>5. QED
  BY <1>2, <1>3, <1>4 DEF SettingsInv

LEMMA DefaultsTyped == Defaults \in SettingValues /\ NewReq \in PatchRecords
<1>1. Defaults \in SettingValues
  BY SettingsAssumption DEF SettingValues, Fields
<1>2. QED
  BY <1>1 DEF NewReq, PatchRecords

LEMMA MergedIs ==
  ASSUME NEW values \in SettingValues, NEW body \in Bodies \cup {Defaults}
  PROVE  /\ Merged(values, body) \in SettingValues
         /\ \A f \in DOMAIN body : Merged(values, body)[f] = body[f]
         /\ \A f \in Fields \ DOMAIN body : Merged(values, body)[f] = values[f]
         /\ DOMAIN body \subseteq Fields
BY SettingsAssumption DEF Merged, SettingValues, Fields

LEMMA InForceIs ==
  ASSUME SettingsTyped
  PROVE  /\ InForce \in SettingValues
         /\ override = {} => InForce = Defaults
         /\ \A o \in override : InForce = o.values
<1>1. CASE override = {}
  BY <1>1, DefaultsTyped DEF InForce
<1>2. CASE override # {}
  <2>1. \A o \in override : InForce = o.values /\ o.values \in SettingValues
    BY <1>2 DEF SettingsTyped, InForce
  <2>2. QED
    BY <1>2, <2>1
<1>3. QED
  BY <1>1, <1>2

\* A patch under way that ends.
LEMMA FinishSteps ==
  ASSUME SettingsInv, NEW r \in Requests, NEW ok \in BOOLEAN, Finish(r, ok), requests[r].pc \notin {"new", "done"}
  PROVE  \E y : /\ Stepped(r, y) /\ y.pc = "done" /\ y.ok = ok /\ y.op = "patch"
                /\ y.body = requests[r].body /\ y.before = requests[r].before
<1>1. PICK y : y = [requests[r] EXCEPT !.pc = "done", !.ok = ok, !.row = 0, !.values = Defaults]
  OBVIOUS
<1>2. SettingsTyped /\ requests \in [Requests -> PatchRecords] /\ requests[r] \in PatchRecords
  BY DEF SettingsInv, SettingsTyped
<1>3. requests' = [requests EXCEPT ![r] = y]
  BY <1>1, <1>2 DEF Finish, PatchRecords
<1>4. y \in PatchRecords
  <2>1. Defaults \in SettingValues
    BY DefaultsTyped
  <2>2. PICK x \in PatchRecords : x = requests[r]
    BY <1>2
  <2>3. PICK z : z = [x EXCEPT !.pc = "done", !.ok = ok]
    OBVIOUS
  <2>4. z \in PatchRecords
    BY <2>3 DEF PatchRecords
  <2>5. PICK d \in SettingValues, none \in Int : d = Defaults /\ none = 0
    BY <2>1
  <2>6. y = [z EXCEPT !.row = none, !.values = d]
    BY <1>1, <2>2, <2>3, <2>5
  <2>7. QED
    BY <2>4, <2>6 DEF PatchRecords
<1>5. /\ y.pc = "done" /\ y.ok = ok /\ y.op = requests[r].op
      /\ y.body = requests[r].body /\ y.before = requests[r].before
  BY <1>1, <1>2 DEF PatchRecords
<1>6. requests[r].op = "patch" /\ requests[r].before \subseteq Done
  <2>1. requests[r].pc \in {"none", "exists", "merged"}
    BY <1>2 DEF PatchRecords
  <2>2. QED
    BY <1>2, <2>1 DEF SettingsTyped, PatchPlaced
<1>7. Stepped(r, y)
  BY <1>3, <1>4, <1>5, <1>6 DEF Stepped, PatchPlaced
<1>8. QED
  BY <1>5, <1>6, <1>7

LEMMA FailedPatchStays ==
  ASSUME SettingsInv, NEW r \in Requests, Finish(r, FALSE), requests[r].pc \notin {"new", "done"}, UNCHANGED override
  PROVE  SettingsInv'
<1>1. PICK y : Stepped(r, y) /\ y.pc = "done" /\ ~y.ok
  BY FinishSteps
<1>2. QED
  BY <1>1, RowStays

\* A request as it may begin, and its first step.
Opening(op, x) ==
  x \in PatchRecords /\ x.pc # "new" /\ (x.pc = "done" \/ (x.ok = FALSE /\ op = "patch"))
Opened(r, y, op, x) ==
  /\ Stepped(r, y) /\ y.pc = x.pc /\ y.ok = x.ok /\ y.row = x.row /\ y.op = op
  /\ y.before = Done /\ requests[r].pc = "new"

LEMMA BeginSteps ==
  ASSUME SettingsInv, NEW r \in Requests, NEW op \in {"patch", "reset"}, NEW x, Opening(op, x), Begin(r, op, x)
  PROVE  \E y : Opened(r, y, op, x)
<1>1. PICK y : y = [x EXCEPT !.op = op, !.before = Done]
  OBVIOUS
<1>2. Done \subseteq Requests
  BY DEF Done
<1>3. y \in PatchRecords
  BY <1>1, <1>2 DEF Opening, PatchRecords
<1>4. y.pc = x.pc /\ y.ok = x.ok /\ y.row = x.row /\ y.op = op /\ y.before = Done
  BY <1>1 DEF Opening, PatchRecords
<1>5. requests' = [requests EXCEPT ![r] = y] /\ requests[r].pc = "new"
  BY <1>1 DEF Begin, Fresh
<1>6. Stepped(r, y)
  BY <1>3, <1>4, <1>5 DEF Opening, Stepped, PatchPlaced
<1>7. QED
  BY <1>4, <1>5, <1>6 DEF Opened

LEMMA ResetKeeps == ASSUME SettingsInv, NEW r \in Requests, Reset(r) PROVE SettingsInv'
<1>1. PICK x : x = [NewReq EXCEPT !.pc = "done", !.ok = TRUE]
  OBVIOUS
<1>2. x \in PatchRecords /\ x.pc = "done" /\ x.ok
  BY <1>1, DefaultsTyped DEF PatchRecords
<1>3. PICK y : Stepped(r, y) /\ y.pc = "done" /\ y.op = "reset"
  <2>1. Begin(r, "reset", x)
    BY <1>1 DEF Reset
  <2>2. Opening("reset", x)
    BY <1>2 DEF Opening
  <2>3. \E y : Opened(r, y, "reset", x)
    BY <2>1, <2>2, BeginSteps
  <2>4. QED
    BY <1>2, <2>3 DEF Opened
<1>4. SettingsTyped /\ override' = {} /\ requests[r].pc # "done"
  BY <1>3 DEF SettingsInv, Reset, Stepped
<1>5. SettingsTyped'
  BY <1>3, <1>4, SteppedFacts DEF SettingsTyped
<1>6. RowsAccounted'
  <2>1. SUFFICES ASSUME NEW q \in Requests, requests'[q].pc \in {"exists", "merged"}
                 PROVE  \E p \in Requests \ {q} : requests'[p].op = "reset" /\ p \notin requests'[q].before
    BY DEF RowsAccounted
  <2>2. q # r /\ requests'[q] = requests[q] /\ requests'[r].op = "reset"
    BY <1>3, <1>4, <2>1, SteppedFacts
  <2>3. r \notin requests[q].before
    BY <1>4 DEF SettingsTyped, Done
  <2>4. QED
    BY <2>2, <2>3
<1>7. MergedCarry'
  BY <1>3, CarryStays
<1>8. PatchStays'
  <2>1. ASSUME NEW p \in Accepted("patch")', NEW f PROVE Outdone(p, f)'
    <3>1. p \in Accepted("patch")
      BY <1>3, <1>4, SteppedFacts DEF Accepted
    <3>2. QED
      BY <1>3, <1>4, <3>1, OverlapOutdoes
  <2>2. QED
    BY <2>1 DEF PatchStays, Outdone
<1>9. QED
  BY <1>5, <1>6, <1>7, <1>8 DEF SettingsInv

LEMMA ReadKeeps == ASSUME SettingsInv, NEW r \in Requests, ReadOverride(r) PROVE SettingsInv'
<1>1. PICK body \in Bodies :
        \/ \E o \in override : Begin(r, "patch", [[NewReq EXCEPT !.body = body] EXCEPT !.pc = "exists", !.row = o.id])
        \/ override = {} /\ Begin(r, "patch", [[NewReq EXCEPT !.body = body] EXCEPT !.pc = "none"])
  BY DEF ReadOverride
<1>2. SettingsTyped /\ UNCHANGED override
  BY DEF SettingsInv, ReadOverride
<1>3. ASSUME NEW o \in override,
             Begin(r, "patch", [[NewReq EXCEPT !.body = body] EXCEPT !.pc = "exists", !.row = o.id])
      PROVE  SettingsInv'
  <2>1. PICK x : x = [[NewReq EXCEPT !.body = body] EXCEPT !.pc = "exists", !.row = o.id]
    OBVIOUS
  <2>2. o.id \in Int
    BY <1>2, SettingsAssumption DEF SettingsTyped
  <2>3. x \in PatchRecords /\ x.pc = "exists" /\ x.ok = FALSE /\ x.row = o.id
    BY <2>1, <2>2, DefaultsTyped DEF PatchRecords, NewReq
  <2>4. PICK y : Stepped(r, y) /\ y.pc = "exists" /\ ~y.ok /\ y.row = o.id
    <3>1. Opening("patch", x) /\ Begin(r, "patch", x)
      BY <1>3, <2>1, <2>3 DEF Opening
    <3>2. \E y : Opened(r, y, "patch", x)
      BY <3>1, BeginSteps
    <3>3. QED
      BY <2>3, <3>2 DEF Opened
  <2>5. QED
    BY <1>2, <2>4, RowStays
<1>4. ASSUME Begin(r, "patch", [[NewReq EXCEPT !.body = body] EXCEPT !.pc = "none"])
      PROVE  SettingsInv'
  <2>1. PICK x : x = [[NewReq EXCEPT !.body = body] EXCEPT !.pc = "none"]
    OBVIOUS
  <2>2. x \in PatchRecords /\ x.pc = "none" /\ x.ok = FALSE
    BY <2>1, DefaultsTyped DEF PatchRecords, NewReq
  <2>3. PICK y : Stepped(r, y) /\ y.pc = "none" /\ ~y.ok
    <3>1. Opening("patch", x) /\ Begin(r, "patch", x)
      BY <1>4, <2>1, <2>2 DEF Opening
    <3>2. \E y : Opened(r, y, "patch", x)
      BY <3>1, BeginSteps
    <3>3. QED
      BY <2>2, <3>2 DEF Opened
  <2>4. QED
    BY <1>2, <2>3, RowStays
<1>5. QED
  BY <1>1, <1>3, <1>4

LEMMA LoadKeeps == ASSUME SettingsInv, NEW r \in Requests, LoadCurrent(r) PROVE SettingsInv'
<1>1. /\ requests[r].pc = "exists" /\ SettingsTyped /\ PatchStays /\ RowsAccounted /\ UNCHANGED override
      /\ requests \in [Requests -> PatchRecords] /\ requests[r] \in PatchRecords
      /\ requests[r].body \in Bodies \cup {Defaults}
  BY DEF SettingsInv, SettingsTyped, LoadCurrent, At, PatchRecords
<1>2. CASE Finish(r, FALSE)
  BY <1>1, <1>2, FailedPatchStays
<1>3. ASSUME NEW o \in override, o.id = requests[r].row,
             requests' = [requests EXCEPT ![r].pc = "merged", ![r].values = Merged(o.values, requests[r].body)]
      PROVE  SettingsInv'
  <2>1. PICK values : values = Merged(o.values, requests[r].body)
    OBVIOUS
  <2>2. /\ values \in SettingValues /\ InForce = o.values
        /\ \A f \in DOMAIN requests[r].body : values[f] = requests[r].body[f]
        /\ \A f \in Fields \ DOMAIN requests[r].body : values[f] = InForce[f]
    BY <1>1, <2>1, InForceIs, MergedIs
  <2>3. PICK y : y = [requests[r] EXCEPT !.pc = "merged", !.values = values]
    OBVIOUS
  <2>4. requests' = [requests EXCEPT ![r] = y]
    BY <1>1, <1>3, <2>1, <2>3
  <2>5. y \in PatchRecords
    BY <1>1, <2>2, <2>3 DEF PatchRecords
  <2>6. /\ y.pc = "merged" /\ y.values = values /\ y.op = requests[r].op /\ y.ok = requests[r].ok
        /\ y.body = requests[r].body /\ y.before = requests[r].before /\ y.row = requests[r].row
    BY <1>1, <2>3 DEF PatchRecords
  <2>7. requests[r].op = "patch" /\ ~requests[r].ok /\ requests[r].before \subseteq Done
    BY <1>1 DEF SettingsTyped, PatchPlaced
  <2>8. Stepped(r, y)
    BY <1>1, <2>4, <2>5, <2>6, <2>7 DEF Stepped, PatchPlaced
  <2>9. ASSUME NEW p \in Accepted("patch"), NEW f \in DOMAIN requests[p].body \ DOMAIN y.body
        PROVE  y.values[f] = requests[p].body[f] \/ Outdone(p, f)
    <3>1. requests[p].body \in Bodies \cup {Defaults}
      BY <1>1 DEF Accepted, Done, PatchRecords
    <3>2. f \in Fields
      BY <2>2, <3>1, MergedIs
    <3>3. InForce[f] = requests[p].body[f] \/ Outdone(p, f)
      BY <1>1, <2>9 DEF PatchStays, Outdone
    <3>4. QED
      BY <2>2, <2>6, <3>2, <3>3
  <2>10. QED
    BY <1>1, <1>3, <2>2, <2>6, <2>7, <2>8, <2>9, RowStays
<1>4. QED
  BY <1>2, <1>3 DEF LoadCurrent

\* What is in force changes to what r writes.
LEMMA WrittenStays ==
  ASSUME SettingsInv, SettingsTyped', NEW r, NEW y, Stepped(r, y), y.op = "patch", y.pc = "done",
         \A f \in DOMAIN y.body : InForce'[f] = y.body[f] \/ Outdone(r, f)',
         \A p \in Accepted("patch") \cap y.before : \A f \in DOMAIN requests[p].body \ DOMAIN y.body :
           InForce'[f] = requests[p].body[f] \/ Outdone(p, f)
  PROVE  PatchStays'
<1>1. SettingsTyped
  BY DEF SettingsInv
<1>2. ASSUME NEW p \in Accepted("patch")', NEW f \in DOMAIN requests'[p].body
      PROVE  InForce'[f] = requests'[p].body[f] \/ Outdone(p, f)'
  <2>1. CASE p = r
    BY <1>1, <1>2, <2>1, SteppedFacts
  <2>2. CASE p # r
    <3>1. p \in Accepted("patch") /\ requests'[p] = requests[p]
      BY <1>1, <2>2, SteppedFacts
    <3>2. CASE p \notin y.before
      BY <1>1, <3>1, <3>2, OverlapOutdoes
    <3>3. CASE f \in DOMAIN y.body
      BY <1>1, <3>1, <3>3, SteppedFacts
    <3>4. CASE p \in y.before /\ f \notin DOMAIN y.body
      <4>1. InForce'[f] = requests[p].body[f] \/ Outdone(p, f)
        BY <1>2, <3>1, <3>4
      <4>2. QED
        BY <1>1, <3>1, <4>1, SteppedFacts
    <3>5. QED
      BY <3>2, <3>3, <3>4
  <2>3. QED
    BY <2>1, <2>2
<1>3. QED
  BY <1>2 DEF PatchStays, Outdone

LEMMA CreateOverrideKeeps == ASSUME SettingsInv, NEW r \in Requests, CreateOverride(r) PROVE SettingsInv'
<1>1. /\ requests[r].pc = "none" /\ SettingsTyped /\ PatchStays
      /\ requests[r].body \in Bodies \cup {Defaults}
  BY DEF SettingsInv, SettingsTyped, CreateOverride, At, PatchRecords
<1>2. PICK values \in SettingValues :
        /\ values = Merged(Defaults, requests[r].body)
        /\ \A f \in DOMAIN requests[r].body : values[f] = requests[r].body[f]
        /\ \A f \in Fields \ DOMAIN requests[r].body : values[f] = Defaults[f]
  BY <1>1, DefaultsTyped, MergedIs
<1>3. PICK free \in BOOLEAN : free = (Valid(values) /\ override = {})
  BY DEF Valid
<1>4. override' = (IF free THEN {[id |-> r, values |-> values]} ELSE override) /\ Finish(r, free)
  BY <1>2, <1>3 DEF CreateOverride
<1>5. CASE ~free
  BY <1>1, <1>4, <1>5, FailedPatchStays
<1>6. CASE free
  <2>1. override = {} /\ override' = {[id |-> r, values |-> values]} /\ Finish(r, TRUE)
    BY <1>3, <1>4, <1>6
  <2>2. PICK y : Stepped(r, y) /\ y.pc = "done" /\ y.op = "patch" /\ y.body = requests[r].body
    BY <1>1, <2>1, FinishSteps
  <2> PICK w : w = [id |-> r, values |-> values]
    OBVIOUS
  <2>3. SettingsTyped'
    <3>1. \A o \in override' : o = w
      BY <2>1
    <3>2. w \in [id : Requests, values : SettingValues]
      OBVIOUS
    <3>3. QED
      BY <1>1, <2>2, <3>1, <3>2, SteppedFacts DEF SettingsTyped
  <2>4. InForce' = values /\ InForce = Defaults
    <3>1. override' = {w} /\ w.values = values
      BY <2>1
    <3>2. InForce' = values
      BY <3>1 DEF InForce
    <3>3. InForce = Defaults
      BY <1>1, <2>1, InForceIs
    <3>4. QED
      BY <3>2, <3>3
  <2>5. ASSUME NEW p \in Accepted("patch"), NEW f \in DOMAIN requests[p].body \ DOMAIN y.body
        PROVE  InForce'[f] = requests[p].body[f] \/ Outdone(p, f)
    <3>1. requests[p].body \in Bodies \cup {Defaults}
      BY <1>1 DEF Accepted, Done, SettingsTyped, PatchRecords
    <3>2. f \in Fields \ DOMAIN requests[r].body
      BY <1>2, <2>2, <2>5, <3>1, MergedIs
    <3>3. InForce[f] = requests[p].body[f] \/ Outdone(p, f)
      BY <1>1, <2>5 DEF PatchStays, Outdone
    <3>4. QED
      BY <1>2, <2>4, <3>2, <3>3
  <2>6. PatchStays'
    BY <1>2, <2>2, <2>3, <2>4, <2>5, WrittenStays
  <2>7. RowsAccounted' /\ MergedCarry'
    BY <2>1, <2>2, RowsStay, CarryStays
  <2>8. QED
    BY <2>3, <2>6, <2>7 DEF SettingsInv
<1>7. QED
  BY <1>5, <1>6

LEMMA WriteOverrideKeeps == ASSUME SettingsInv, NEW r \in Requests, WriteOverride(r) PROVE SettingsInv'
<1>1. /\ requests[r].pc = "merged" /\ SettingsTyped /\ PatchStays /\ RowsAccounted /\ MergedCarry
      /\ requests[r].values \in SettingValues
  BY DEF SettingsInv, SettingsTyped, WriteOverride, At, PatchRecords
<1>2. PICK values \in SettingValues : values = requests[r].values
  BY <1>1
<1>3. override' = {IF o.id = requests[r].row THEN [o EXCEPT !.values = values] ELSE o : o \in override}
  BY <1>2 DEF WriteOverride
<1>4. PICK y : /\ Stepped(r, y) /\ y.pc = "done" /\ y.op = "patch" /\ y.body = requests[r].body
               /\ y.before = requests[r].before
  <2>1. PICK ok \in BOOLEAN : Finish(r, ok)
    BY DEF WriteOverride
  <2>2. QED
    BY <1>1, <2>1, FinishSteps
<1>5. ASSUME NEW p \in Accepted("patch") \cap y.before, NEW f \in DOMAIN requests[p].body \ DOMAIN y.body
      PROVE  /\ values[f] = requests[p].body[f] \/ Outdone(p, f)
             /\ InForce[f] = requests[p].body[f] \/ Outdone(p, f)
  BY <1>1, <1>2, <1>4 DEF MergedCarry, PatchStays, Outdone
<1>6. CASE \E o \in override : o.id = requests[r].row
  <2>1. PICK o \in override : o.id = requests[r].row
    BY <1>6
  <2>2. override = {o} /\ o \in [id : Requests, values : SettingValues]
    BY <1>1 DEF SettingsTyped
  <2>3. PICK w : w = [o EXCEPT !.values = values]
    OBVIOUS
  <2>4. w \in [id : Requests, values : SettingValues] /\ w.id = o.id /\ w.values = values
    BY <2>2, <2>3
  <2>5. override' = {w}
    BY <1>3, <2>1, <2>2, <2>3
  <2>6. SettingsTyped'
    BY <1>1, <1>4, <2>4, <2>5, SteppedFacts DEF SettingsTyped
  <2>7. InForce' = values
    BY <2>4, <2>5 DEF InForce
  <2>8. \A f \in DOMAIN y.body : InForce'[f] = y.body[f]
    BY <1>1, <1>2, <1>4, <2>7 DEF MergedCarry
  <2>9. PatchStays'
    BY <1>4, <1>5, <2>6, <2>7, <2>8, WrittenStays
  <2>10. RowsAccounted' /\ MergedCarry'
    BY <1>4, <2>2, <2>4, <2>5, RowsStay, CarryStays
  <2>11. QED
    BY <2>6, <2>9, <2>10 DEF SettingsInv
<1>7. CASE ~ \E o \in override : o.id = requests[r].row
  <2>1. override' = override
    BY <1>3, <1>7
  <2>2. PICK q \in Requests \ {r} : requests[q].op = "reset" /\ q \notin requests[r].before
    BY <1>1, <1>7 DEF RowsAccounted
  <2>3. requests'[q] = requests[q] /\ requests'[r] = y
    BY <1>1, <1>4, SteppedFacts
  <2>4. \A f : Outdone(r, f)'
    BY <1>4, <2>2, <2>3 DEF Outdone
  <2>5. SettingsTyped'
    BY <1>1, <1>4, <2>1, SteppedFacts DEF SettingsTyped
  <2>6. InForce' = InForce
    BY <2>1 DEF InForce
  <2>7. PatchStays'
    BY <1>4, <1>5, <2>4, <2>5, <2>6, WrittenStays
  <2>8. RowsAccounted' /\ MergedCarry'
    BY <1>4, <2>1, RowsStay, CarryStays
  <2>9. QED
    BY <2>5, <2>7, <2>8 DEF SettingsInv
<1>8. QED
  BY <1>6, <1>7

LEMMA SettingsInitInv == InitSettings => SettingsInv
<1> SUFFICES ASSUME InitSettings PROVE SettingsInv
  OBVIOUS
<1>1. \A r \in Requests : requests[r] = NewReq
  BY DEF InitSettings
<1>2. NewReq.pc = "new" /\ NewReq.op = "none" /\ NewReq.ok = FALSE /\ NewReq.before = {}
  BY DEF NewReq
<1>3. SettingsTyped
  <2>1. requests \in [Requests -> PatchRecords]
    BY DefaultsTyped DEF InitSettings
  <2>2. QED
    BY <1>1, <1>2, <2>1 DEF InitSettings, SettingsTyped, PatchPlaced
<1>4. RowsAccounted /\ MergedCarry /\ PatchStays
  BY <1>1, <1>2 DEF RowsAccounted, MergedCarry, PatchStays, Accepted, Done
<1>5. QED
  BY <1>3, <1>4 DEF SettingsInv

LEMMA SettingsNextInv == SettingsInv /\ [NextSettings]_settings => SettingsInv'
<1> SUFFICES ASSUME SettingsInv, [NextSettings]_settings PROVE SettingsInv'
  OBVIOUS
<1>1. CASE UNCHANGED settings
  BY <1>1 DEF settings, SettingsInv, SettingsTyped, PatchPlaced, RowsAccounted, MergedCarry, PatchStays, Outdone,
              InForce, Accepted, Done
<1>2. ASSUME NEW r \in Requests, Stop(r) PROVE SettingsInv'
  BY <1>2, FailedPatchStays DEF Stop, At
<1>3. QED
  BY <1>1, <1>2, ResetKeeps, ReadKeeps, CreateOverrideKeeps, LoadKeeps, WriteOverrideKeeps DEF NextSettings

(***************************************************************************)
(* The settings in force, and the conversation they cut.                   *)
(***************************************************************************)
\* The turns have names and indexes of their own.
Listed ==
  /\ appended \in Nat /\ IsFiniteSet(list)
  /\ \A t \in list : t.id \in Nat /\ t.idx = t.id /\ t.id < appended /\ t.tok \in Nat
  /\ \A t, u \in list : t.id = u.id => t = u

CompactionInv == SettingsInv /\ Listed

LEMMA FewerListed == ASSUME Listed, list' \subseteq list, appended' = appended PROVE Listed'
BY FS_Subset DEF Listed

LEMMA CompactionInvariant == SpecCompaction => []CompactionInv
<1>1. InitCompaction => CompactionInv
  BY SettingsInitInv, FS_EmptySet DEF InitCompaction, CompactionInv, Listed
<1>2. CompactionInv /\ [NextCompaction]_<<settings, conversation>> => CompactionInv'
  <2> SUFFICES ASSUME CompactionInv, [NextCompaction]_<<settings, conversation>> PROVE CompactionInv'
    OBVIOUS
  <2>1. CASE Grow
    <3>1. PICK r \in RolesUsed, n \in Sizes :
            list' = list \cup {[id |-> appended, idx |-> appended, role |-> r, tok |-> n]}
      BY <2>1 DEF Grow
    <3>2. PICK new : new = [id |-> appended, idx |-> appended, role |-> r, tok |-> n]
      OBVIOUS
    <3>3. /\ list' = list \cup {new} /\ appended' = appended + 1
          /\ new.id = appended /\ new.idx = appended /\ new.tok \in Nat
      BY <2>1, <3>1, <3>2, CompactionAssumption DEF Grow
    <3>4. IsFiniteSet(list')
      BY <3>3, FS_AddElement DEF CompactionInv, Listed
    <3>5. Listed'
      BY <3>3, <3>4 DEF CompactionInv, Listed
    <3>6. SettingsInv'
      BY <2>1, SettingsNextInv DEF CompactionInv, Grow
    <3>7. QED
      BY <3>5, <3>6 DEF CompactionInv
  <2>2. CASE Summarise \/ Truncate
    <3>1. list' \subseteq list /\ appended' = appended /\ UNCHANGED settings
      BY <2>2 DEF Summarise, Truncate, settings
    <3>2. QED
      BY <3>1, FewerListed, SettingsNextInv DEF CompactionInv
  <2>3. CASE [NextSettings]_settings /\ UNCHANGED conversation
    <3>1. UNCHANGED <<list, appended>>
      BY <2>3 DEF conversation
    <3>2. QED
      BY <2>3, <3>1, SettingsNextInv DEF CompactionInv, Listed
  <2>4. QED
    BY <2>1, <2>2, <2>3 DEF NextCompaction
<1>3. QED
  BY <1>1, <1>2, PTL DEF SpecCompaction

LEMMA ListIsConversation ==
  ASSUME CompactionInv
  PROVE  /\ Conversation(list) /\ \A t, u \in list : t.idx = u.idx => t = u
         /\ InForce["protected"] \in Int
<1>1. InForce \in SettingValues
  BY InForceIs DEF CompactionInv, SettingsInv
<1>2. "protected" \in Fields
  BY SettingsAssumption DEF Fields
<1>3. QED
  BY <1>1, <1>2 DEF CompactionInv, Listed, Conversation, SettingValues

\* patch_compaction: what an acknowledged patch set is in force until a reset, a
\* patch of that setting, or one that came across; however patches overlap.
THEOREM PatchesStay == SpecCompaction => []PatchStays
<1>1. CompactionInv => PatchStays
  BY DEF CompactionInv, SettingsInv
<1>2. QED
  BY <1>1, CompactionInvariant, PTL

\* T020 for check_and_compact with resolve_config: whatever admins set and whenever,
\* neither cut of a growing conversation takes a protected turn or a protected
\* tool_result's tool_use.
THEOREM PairsAreKept == SpecCompaction => []PairsStayTogether
<1>1. ASSUME CompactionInv PROVE PairsStayTogether
  <2>1. PICK n \in Int : n = InForce["protected"]
    BY <1>1, ListIsConversation
  <2>2. ASSUME NEW r \in Recent(list, n)
        PROVE  /\ r \notin SplitForCompaction(list, n)
               /\ \A w \in Windows : r \notin TruncateDropped(list, n, w, 0)
    BY <1>1, ListIsConversation, RecentTurnsKept DEF Conversation
  <2>3. ASSUME NEW r \in Recent(list, n), r.role = "tool_result",
               NEW u \in list, u.role = "tool_use", Precedes(u, r, list), NEW w \in Windows
        PROVE  u \notin SplitForCompaction(list, n) \cup TruncateDropped(list, n, w, 0)
    BY <1>1, <2>3, ListIsConversation, PairsStayTogetherAlways
  <2>4. QED
    BY <2>1, <2>2, <2>3 DEF PairsStayTogether, Compactable
<1>2. QED
  BY <1>1, CompactionInvariant, PTL

LEMMA TruncationIsTightAlways ==
  ASSUME NEW T, Conversation(T), \A t, u \in T : t.idx = u.idx => t = u, NEW n \in Int, NEW w, NEW s
  PROVE  /\ \A t \in TruncateDropped(T, n, w, s) :
              Earlier(t, T) \subseteq TruncateDropped(T, n, w, s) \cup TruncateProtected(T, n)
         /\ \/ Fits(T \ TruncateDropped(T, n, w, s), w, s)
            \/ T \ TruncateDropped(T, n, w, s) = TruncateProtected(T, n)
         /\ \A t \in TruncateDropped(T, n, w, s) : Later(t, TruncateDropped(T, n, w, s)) = {} =>
              ~Fits((T \ TruncateDropped(T, n, w, s)) \cup {t}, w, s)
<1> DEFINE P == TruncateProtected(T, n)
           K == TruncateKept(T, P, w, s)
           gone == TruncateDropped(T, n, w, s)
<1>1. gone = T \ K /\ Shrunk(T, P, w, s, K) /\ Enough(K, P, w, s)
  BY DroppedIs
<1> HIDE DEF P, K, gone
<1>2. P \subseteq K /\ K \subseteq T /\ T \ gone = K
  BY <1>1 DEF Shrunk
<1>3. ASSUME NEW t \in gone PROVE Earlier(t, T) \subseteq gone \cup P
  <2>1. SUFFICES ASSUME NEW v \in T, Before(v, t), v \notin P PROVE v \notin K
    BY <1>1 DEF Earlier
  <2>2. QED
    BY <1>1, <1>3, <2>1 DEF Shrunk
<1>4. Fits(K, w, s) \/ K = P
  <2>1. CASE Tokens(K) + Priming + s <= TruncationTarget(w)
    BY <2>1 DEF Fits
  <2>2. CASE Cardinality(K) <= Cardinality(P)
    <3>1. IsFiniteSet(K) /\ IsFiniteSet(P)
      BY <1>2, FS_Subset DEF Conversation
    <3>2. Cardinality(K) \in Nat /\ Cardinality(P) \in Nat
      BY <3>1, FS_CardinalityType
    <3>3. Cardinality(P) <= Cardinality(K) /\ (Cardinality(P) = Cardinality(K) => P = K)
      BY <1>2, <3>1, FS_Subset
    <3>4. QED
      BY <2>2, <3>2, <3>3
  <2>3. QED
    BY <1>1, <2>1, <2>2 DEF Enough
<1>5. ASSUME NEW t \in gone, Later(t, gone) = {} PROVE ~Fits(K \cup {t}, w, s)
  BY <1>1, <1>5 DEF Shrunk, Enough, Fits
<1>6. QED
  BY <1>2, <1>3, <1>4, <1>5 DEF P, gone

\* The loop of Truncator::truncate drops no turn too many and none too few, with any
\* stored summary, in every conversation that grows and is compacted.
THEOREM TruncationsAreTight == SpecCompaction => []TruncationIsTight
<1>1. ASSUME CompactionInv PROVE TruncationIsTight
  <2>1. PICK n \in Int : n = InForce["protected"]
    BY <1>1, ListIsConversation
  <2>2. Conversation(list) /\ \A t, u \in list : t.idx = u.idx => t = u
    BY <1>1, ListIsConversation
  <2>3. ASSUME NEW w \in Windows, NEW s \in {0} \cup {b + SummaryOverhead : b \in Budgets}
        PROVE  LET dropped   == TruncateDropped(list, n, w, s)
                   left      == list \ dropped
                   protected == TruncateProtected(list, n)
               IN  /\ \A t \in dropped : Earlier(t, list) \subseteq dropped \cup protected
                   /\ Fits(left, w, s) \/ left = protected
                   /\ \A t \in dropped : Later(t, dropped) = {} => ~Fits(left \cup {t}, w, s)
    BY <2>2, TruncationIsTightAlways
  <2>4. QED
    BY <2>1, <2>3 DEF TruncationIsTight
<1>2. QED
  BY <1>1, CompactionInvariant, PTL

(***************************************************************************)
(* The cut of a summary.  A recursive function is what its equation says   *)
(* once there is a function that satisfies it; for the sum and for the     *)
(* shrinking it is built from 0 upwards, and the binary search is the      *)
(* greatest number of lines that fit.                                      *)
(***************************************************************************)
SumsTo(lines, m) == {s \in [0 .. m -> Nat] : s[0] = 0 /\ \A i \in 1 .. m : s[i] = s[i - 1] + lines[i]}

LEMMA PrefixSumsExist == ASSUME NEW lines \in Seq(Nat) PROVE SumsTo(lines, Len(lines)) # {}
<1> DEFINE Bad == {m \in 0 .. Len(lines) : SumsTo(lines, m) = {}}
<1>1. Len(lines) \in Nat /\ Bad \in SUBSET Nat
  OBVIOUS
<1>2. SUFFICES ASSUME Bad # {} PROVE FALSE
  BY <1>1
<1>3. PICK m \in Bad : \A n \in Bad : m <= n
  BY <1>1, <1>2, SmallestOfNonempty
<1>4. CASE m = 0
  <2>1. [i \in 0 .. 0 |-> 0] \in SumsTo(lines, 0)
    BY DEF SumsTo
  <2>2. QED
    BY <1>3, <1>4, <2>1
<1>5. CASE m > 0
  <2>1. m \in Nat /\ m - 1 \in 0 .. Len(lines) /\ m - 1 \notin Bad /\ m \in 1 .. Len(lines)
    <3>1. m \in 0 .. Len(lines)
      BY <1>3
    <3>2. m \in Nat /\ m - 1 \in 0 .. Len(lines) /\ m \in 1 .. Len(lines) /\ ~(m <= m - 1)
      BY <1>1, <1>5, <3>1
    <3> HIDE DEF Bad
    <3>3. QED
      BY <1>3, <3>2
  <2>2. PICK s : s \in SumsTo(lines, m - 1)
    BY <2>1
  <2>3. lines[m] \in Nat /\ s[m - 1] \in Nat
    BY <2>1, <2>2 DEF SumsTo
  <2>4. PICK t : t = [i \in 0 .. m |-> IF i = m THEN s[m - 1] + lines[m] ELSE s[i]]
    OBVIOUS
  <2>5. \A i \in 0 .. m - 1 : t[i] = s[i]
    BY <2>1, <2>4
  <2>6. t[m] = s[m - 1] + lines[m] /\ t[0] = 0
    BY <2>1, <2>2, <2>4 DEF SumsTo
  <2>7. t \in [0 .. m -> Nat]
    BY <2>1, <2>2, <2>3, <2>4 DEF SumsTo
  <2>8. \A i \in 1 .. m : t[i] = t[i - 1] + lines[i]
    <3>1. ASSUME NEW i \in 1 .. m PROVE t[i] = t[i - 1] + lines[i]
      <4>1. CASE i = m
        <5>1. m - 1 \in 0 .. m - 1
          BY <2>1
        <5>2. QED
          BY <2>5, <2>6, <4>1, <5>1
      <4>2. CASE i # m
        <5>1. i \in 1 .. m - 1 /\ i \in 0 .. m - 1 /\ i - 1 \in 0 .. m - 1
          BY <2>1, <4>2
        <5>2. s[i] = s[i - 1] + lines[i]
          BY <2>2, <5>1 DEF SumsTo
        <5>3. QED
          BY <2>5, <5>1, <5>2
      <4>3. QED
        BY <4>1, <4>2
    <3>2. QED
      BY <3>1
  <2>9. t \in SumsTo(lines, m)
    BY <2>6, <2>7, <2>8 DEF SumsTo
  <2>10. QED
    BY <1>3, <2>9
<1>6. QED
  BY <1>1, <1>3, <1>4, <1>5

LEMMA PrefixTokensIs ==
  ASSUME NEW lines \in Seq(Nat)
  PROVE  /\ PrefixTokens(lines, 0) = 0
         /\ \A i \in 1 .. Len(lines) : PrefixTokens(lines, i) = PrefixTokens(lines, i - 1) + lines[i]
         /\ \A i \in 0 .. Len(lines) : PrefixTokens(lines, i) \in Nat
<1> DEFINE n == Len(lines)
           Sums(s) == [i \in 0 .. n |-> IF i = 0 THEN 0 ELSE s[i - 1] + lines[i]]
           sum == CHOOSE s : s = Sums(s)
<1>1. \A k : PrefixTokens(lines, k) = sum[k]
  BY DEF PrefixTokens
<1>2. n \in Nat
  OBVIOUS
<1>3. PICK s : s \in SumsTo(lines, n)
  BY PrefixSumsExist
<1>4. s = Sums(s)
  BY <1>2, <1>3 DEF SumsTo
<1>5. sum = Sums(sum)
  BY <1>4
<1> HIDE DEF sum
<1>6. \A i \in 0 .. n : sum[i] = IF i = 0 THEN 0 ELSE sum[i - 1] + lines[i]
  BY <1>5
<1> DEFINE Off == {i \in 0 .. n : sum[i] # s[i]}
<1>7. Off = {}
  <2>1. SUFFICES ASSUME Off # {} PROVE FALSE
    OBVIOUS
  <2>2. Off \in SUBSET Nat
    BY <1>2
  <2> HIDE DEF Off
  <2>3. PICK m \in Off : \A i \in Off : m <= i
    BY <2>1, <2>2, SmallestOfNonempty
  <2>4. m \in 0 .. n /\ sum[m] # s[m] /\ \A i \in 0 .. n : i < m => sum[i] = s[i]
    BY <1>2, <2>3 DEF Off
  <2>5. CASE m = 0
    BY <1>2, <1>3, <1>6, <2>4, <2>5 DEF SumsTo
  <2>6. CASE m # 0
    <3>1. m \in 1 .. n /\ m - 1 \in 0 .. n /\ m - 1 < m
      BY <1>2, <2>4, <2>6
    <3>2. sum[m] = sum[m - 1] + lines[m]
      BY <1>6, <2>4, <2>6
    <3>3. s[m] = s[m - 1] + lines[m]
      BY <1>3, <3>1 DEF SumsTo
    <3>4. sum[m - 1] = s[m - 1]
      BY <2>4, <3>1
    <3>5. QED
      BY <2>4, <3>2, <3>3, <3>4
  <2>7. QED
    BY <2>5, <2>6
<1>8. \A i \in 0 .. n : PrefixTokens(lines, i) = s[i]
  BY <1>1, <1>7
<1>9. \A i \in 1 .. n : i \in 0 .. n /\ i - 1 \in 0 .. n
  BY <1>2
<1>10. s \in [0 .. n -> Nat] /\ s[0] = 0 /\ 0 \in 0 .. n /\ \A i \in 1 .. n : s[i] = s[i - 1] + lines[i]
  BY <1>2, <1>3 DEF SumsTo
<1> HIDE DEF n
<1>11. \A i \in 0 .. n : PrefixTokens(lines, i) \in Nat
  BY <1>8, <1>10
<1>12. \A i \in 1 .. n : PrefixTokens(lines, i) = PrefixTokens(lines, i - 1) + lines[i]
  BY <1>8, <1>9, <1>10
<1>13. QED
  BY <1>8, <1>10, <1>11, <1>12 DEF n

LEMMA PrefixesGrow ==
  ASSUME NEW lines \in Seq(Nat), NEW i \in 0 .. Len(lines), NEW j \in 0 .. Len(lines), i <= j
  PROVE  PrefixTokens(lines, i) <= PrefixTokens(lines, j)
<1> DEFINE n == Len(lines)
           S == {k \in i .. n : ~(PrefixTokens(lines, i) <= PrefixTokens(lines, k))}
<1>1. n \in Nat /\ i \in Nat /\ j \in i .. n
  OBVIOUS
<1>2. \A k \in 0 .. n : PrefixTokens(lines, k) \in Nat
  BY PrefixTokensIs
<1>3. S \in SUBSET Nat
  BY <1>1
<1> HIDE DEF n
<1>4. SUFFICES ASSUME S # {} PROVE FALSE
  BY <1>1
<1> HIDE DEF S
<1>5. PICK m \in S : \A k \in S : m <= k
  BY <1>3, <1>4, SmallestOfNonempty
<1>6. m \in i .. n /\ ~(PrefixTokens(lines, i) <= PrefixTokens(lines, m))
  BY <1>5 DEF S
<1>7. m # i /\ m - 1 \in i .. n /\ m \in 1 .. n /\ m - 1 \in 0 .. n /\ m \in 0 .. n /\ ~(m <= m - 1)
  BY <1>1, <1>2, <1>6
<1>8. PrefixTokens(lines, i) <= PrefixTokens(lines, m - 1)
  BY <1>5, <1>7 DEF S
<1>9. PrefixTokens(lines, m) = PrefixTokens(lines, m - 1) + lines[m] /\ lines[m] \in Nat
  BY <1>7, PrefixTokensIs DEF n
<1>10. PrefixTokens(lines, i) \in Nat /\ PrefixTokens(lines, m - 1) \in Nat
  BY <1>1, <1>2, <1>7
<1>11. QED
  BY <1>6, <1>8, <1>9, <1>10

\* k whole lines are within the budget, and no more.
Whole(lines, budget, k) ==
  /\ k \in 0 .. Len(lines) /\ PrefixTokens(lines, k) <= budget
  /\ k = Len(lines) \/ PrefixTokens(lines, k + 1) > budget

LEMMA WholeExists ==
  ASSUME NEW lines \in Seq(Nat), NEW budget \in Nat
  PROVE  \E k : Whole(lines, budget, k)
<1> DEFINE n == Len(lines)
           S == {k \in 0 .. n : k = n \/ PrefixTokens(lines, k + 1) > budget}
<1>1. n \in Nat
  OBVIOUS
<1>2. PrefixTokens(lines, 0) = 0 /\ \A k \in 0 .. n : PrefixTokens(lines, k) \in Nat
  BY PrefixTokensIs
<1> HIDE DEF n
<1>3. S \in SUBSET Nat /\ n \in S
  BY <1>1
<1> HIDE DEF S
<1>4. PICK k \in S : \A j \in S : k <= j
  BY <1>3, SmallestOfNonempty
<1>5. k \in 0 .. n /\ (k = n \/ PrefixTokens(lines, k + 1) > budget)
  BY <1>4 DEF S
<1>6. PrefixTokens(lines, k) <= budget
  <2>1. CASE k = 0
    BY <1>2, <2>1
  <2>2. CASE k # 0
    <3>1. k - 1 \in 0 .. n /\ k - 1 # n /\ ~(k <= k - 1) /\ (k - 1) + 1 = k
      BY <1>1, <1>5, <2>2
    <3>2. k - 1 \notin S
      BY <1>4, <3>1
    <3>3. ~(PrefixTokens(lines, k) > budget)
      BY <3>1, <3>2 DEF S
    <3>4. QED
      BY <1>2, <1>5, <3>3
  <2>3. QED
    BY <2>1, <2>2
<1>7. QED
  BY <1>5, <1>6 DEF Whole, n

LEMMA FitsIfNoMore ==
  ASSUME NEW lines \in Seq(Nat), NEW budget \in Nat, NEW k, Whole(lines, budget, k), NEW m \in 0 .. Len(lines)
  PROVE  PrefixTokens(lines, m) <= budget <=> m <= k
<1>1. /\ k \in 0 .. Len(lines) /\ PrefixTokens(lines, k) <= budget
      /\ PrefixTokens(lines, k) \in Nat /\ PrefixTokens(lines, m) \in Nat
  BY PrefixTokensIs DEF Whole
<1>2. CASE m <= k
  <2>1. PrefixTokens(lines, m) <= PrefixTokens(lines, k)
    BY <1>1, <1>2, PrefixesGrow
  <2>2. QED
    BY <1>1, <1>2, <2>1
<1>3. CASE ~(m <= k)
  <2>1. k + 1 \in 0 .. Len(lines) /\ k + 1 <= m /\ k # Len(lines)
    BY <1>1, <1>3
  <2>2. PrefixTokens(lines, k + 1) <= PrefixTokens(lines, m) /\ PrefixTokens(lines, k + 1) \in Nat
    BY <2>1, PrefixesGrow, PrefixTokensIs
  <2>3. PrefixTokens(lines, k + 1) > budget
    BY <2>1 DEF Whole
  <2>4. QED
    BY <1>1, <1>3, <2>2, <2>3
<1>4. QED
  BY <1>2, <1>3

\* The binary search ends at the one number of lines that fit and no more.
Midpoint(lo, hi) == (lo + hi + 1) \div 2
Clamp(k, lo, hi) == IF lo >= hi \/ k < lo THEN lo ELSE IF k > hi THEN hi ELSE k
SearchBody(lines, budget, f) ==
  [r \in (0 .. Len(lines)) \X (0 .. Len(lines)) |->
     IF r[1] >= r[2] THEN r[1]
     ELSE IF PrefixTokens(lines, Midpoint(r[1], r[2])) <= budget
          THEN f[<<Midpoint(r[1], r[2]), r[2]>>] ELSE f[<<r[1], Midpoint(r[1], r[2]) - 1>>]]

LEMMA MidpointIs ==
  ASSUME NEW n \in Nat, NEW lo \in 0 .. n, NEW hi \in 0 .. n, lo < hi
  PROVE  LET m == Midpoint(lo, hi) IN m \in 0 .. n /\ lo < m /\ m <= hi /\ m - 1 \in 0 .. n
BY DEF Midpoint

LEMMA ClampStep ==
  ASSUME NEW n \in Nat, NEW k \in 0 .. n, NEW lo \in 0 .. n, NEW hi \in 0 .. n, lo < hi,
         NEW m \in 0 .. n, lo < m, m <= hi
  PROVE  Clamp(k, lo, hi) = IF m <= k THEN Clamp(k, m, hi) ELSE Clamp(k, lo, m - 1)
BY DEF Clamp

LEMMA LinesThatFitIs ==
  ASSUME NEW lines \in Seq(Nat), NEW budget \in Nat, NEW k, Whole(lines, budget, k)
  PROVE  LinesThatFit(lines, budget) = k
<1> DEFINE n == Len(lines)
           D == (0 .. n) \X (0 .. n)
           search == CHOOSE f : f = SearchBody(lines, budget, f)
           g == [r \in D |-> Clamp(k, r[1], r[2])]
<1>1. LinesThatFit(lines, budget) = search[<<0, n>>]
  BY DEF LinesThatFit, SearchBody, Midpoint
<1>2. n \in Nat /\ k \in 0 .. n
  BY DEF Whole
<1>3. ASSUME NEW lo \in 0 .. n, NEW hi \in 0 .. n, lo < hi
      PROVE  /\ Midpoint(lo, hi) \in 0 .. n /\ lo < Midpoint(lo, hi)
             /\ Midpoint(lo, hi) <= hi /\ Midpoint(lo, hi) - 1 \in 0 .. n
             /\ (PrefixTokens(lines, Midpoint(lo, hi)) <= budget) <=> (Midpoint(lo, hi) <= k)
  <2>1. Midpoint(lo, hi) \in 0 .. n /\ lo < Midpoint(lo, hi) /\ Midpoint(lo, hi) <= hi /\ Midpoint(lo, hi) - 1 \in 0 .. n
    BY <1>2, <1>3, MidpointIs
  <2>2. QED
    BY <2>1, FitsIfNoMore
<1> HIDE DEF n
<1>4. g = SearchBody(lines, budget, g)
  <2>1. ASSUME NEW r \in D
        PROVE  Clamp(k, r[1], r[2])
                 = IF r[1] >= r[2] THEN r[1]
                   ELSE IF PrefixTokens(lines, Midpoint(r[1], r[2])) <= budget
                        THEN g[<<Midpoint(r[1], r[2]), r[2]>>] ELSE g[<<r[1], Midpoint(r[1], r[2]) - 1>>]
    <3>1. PICK lo \in 0 .. n, hi \in 0 .. n : r = <<lo, hi>>
      OBVIOUS
    <3>2. r[1] = lo /\ r[2] = hi /\ lo \in Nat /\ hi \in Nat
      BY <1>2, <3>1
    <3>3. CASE lo >= hi
      BY <3>2, <3>3 DEF Clamp
    <3>4. CASE ~(lo >= hi)
      <4>1. lo < hi
        BY <3>2, <3>4
      <4>2. PICK m : m = Midpoint(lo, hi)
        OBVIOUS
      <4>3. /\ m \in 0 .. n /\ lo < m /\ m <= hi /\ m - 1 \in 0 .. n
            /\ (PrefixTokens(lines, m) <= budget) <=> (m <= k)
        BY <1>3, <4>1, <4>2
      <4>4. g[<<m, hi>>] = Clamp(k, m, hi) /\ g[<<lo, m - 1>>] = Clamp(k, lo, m - 1)
        BY <4>3
      <4>5. Clamp(k, lo, hi) = IF m <= k THEN Clamp(k, m, hi) ELSE Clamp(k, lo, m - 1)
        BY <1>2, <4>1, <4>3, ClampStep
      <4> HIDE DEF g
      <4>6. Clamp(k, lo, hi) = IF PrefixTokens(lines, m) <= budget THEN g[<<m, hi>>] ELSE g[<<lo, m - 1>>]
        BY <4>3, <4>4, <4>5
      <4>7. QED
        BY <3>2, <3>4, <4>2, <4>6
    <3>5. QED
      BY <3>3, <3>4
  <2>2. QED
    BY <2>1 DEF SearchBody, n
<1>5. search = SearchBody(lines, budget, search)
  <2> HIDE DEF g
  <2>1. QED
    BY <1>4
<1> HIDE DEF search, g
<1>6. ASSUME NEW lo \in 0 .. n, NEW hi \in 0 .. n
      PROVE  search[<<lo, hi>>] = IF lo >= hi THEN lo
                                  ELSE IF PrefixTokens(lines, Midpoint(lo, hi)) <= budget
                                       THEN search[<<Midpoint(lo, hi), hi>>] ELSE search[<<lo, Midpoint(lo, hi) - 1>>]
  <2>1. <<lo, hi>> \in D /\ <<lo, hi>>[1] = lo /\ <<lo, hi>>[2] = hi
    OBVIOUS
  <2>2. SearchBody(lines, budget, search)[<<lo, hi>>]
          = IF lo >= hi THEN lo
            ELSE IF PrefixTokens(lines, Midpoint(lo, hi)) <= budget
                 THEN search[<<Midpoint(lo, hi), hi>>] ELSE search[<<lo, Midpoint(lo, hi) - 1>>]
    BY <2>1 DEF SearchBody, n
  <2>3. QED
    BY <1>5, <2>2
<1> DEFINE Off == {d \in 0 .. n : \E lo, hi \in 0 .. n : hi - lo = d /\ search[<<lo, hi>>] # Clamp(k, lo, hi)}
<1>7. Off = {}
  <2>1. SUFFICES ASSUME Off # {} PROVE FALSE
    OBVIOUS
  <2>2. Off \in SUBSET Nat
    BY <1>2
  <2> HIDE DEF Off
  <2>3. PICK d \in Off : \A e \in Off : d <= e
    BY <2>1, <2>2, SmallestOfNonempty
  <2>4. PICK lo \in 0 .. n, hi \in 0 .. n : hi - lo = d /\ search[<<lo, hi>>] # Clamp(k, lo, hi)
    BY <2>3 DEF Off
  <2>40. lo \in Nat /\ hi \in Nat /\ d \in Nat
    BY <1>2, <2>2
  <2>5. lo < hi
    <3>1. CASE lo >= hi
      <4>1. search[<<lo, hi>>] = lo /\ Clamp(k, lo, hi) = lo
        BY <1>6, <3>1 DEF Clamp
      <4>2. QED
        BY <2>4, <4>1
    <3>2. QED
      BY <2>40, <3>1
  <2>6. PICK m : m = Midpoint(lo, hi)
    OBVIOUS
  <2>7. /\ m \in 0 .. n /\ lo < m /\ m <= hi /\ m - 1 \in 0 .. n
        /\ (PrefixTokens(lines, m) <= budget) <=> (m <= k)
    BY <1>3, <2>5, <2>6
  <2>8. /\ hi - m \in 0 .. n /\ (m - 1) - lo \in 0 .. n
        /\ ~(d <= hi - m) /\ ~(d <= (m - 1) - lo)
    BY <1>2, <2>4, <2>40, <2>7
  <2>9. hi - m \notin Off /\ (m - 1) - lo \notin Off
    BY <2>3, <2>8
  <2>10. search[<<m, hi>>] = Clamp(k, m, hi)
    BY <2>7, <2>8, <2>9 DEF Off
  <2>11. search[<<lo, m - 1>>] = Clamp(k, lo, m - 1)
    BY <2>7, <2>8, <2>9 DEF Off
  <2>12. ~(lo >= hi)
    BY <2>40, <2>5
  <2>13. search[<<lo, hi>>] = IF PrefixTokens(lines, m) <= budget THEN search[<<m, hi>>] ELSE search[<<lo, m - 1>>]
    BY <1>6, <2>6, <2>12
  <2>14. Clamp(k, lo, hi) = IF m <= k THEN Clamp(k, m, hi) ELSE Clamp(k, lo, m - 1)
    <3>1. n \in Nat /\ k \in 0 .. n /\ lo < hi /\ m \in 0 .. n /\ lo < m /\ m <= hi
      BY <1>2, <2>5, <2>7
    <3>2. QED
      BY <3>1, ClampStep
  <2>15. QED
    BY <2>4, <2>7, <2>10, <2>11, <2>13, <2>14
<1>8. n \in 0 .. n /\ 0 \in 0 .. n /\ n - 0 = n /\ Clamp(k, 0, n) = k
  BY <1>2 DEF Clamp
<1>9. search[<<0, n>>] = k
  <2>1. n \notin Off
    BY <1>7
  <2> HIDE DEF Off
  <2>2. \A lo, hi \in 0 .. n : ~(hi - lo = n /\ search[<<lo, hi>>] # Clamp(k, lo, hi))
    BY <1>8, <2>1 DEF Off
  <2>3. QED
    BY <1>8, <2>2
<1>10. QED
  BY <1>1, <1>9

\* Three quarters of two or more is less, and not nothing.
LEMMA ThreeQuarters ==
  ASSUME NEW e \in Nat, ~(e <= 1)
  PROVE  (e * 3) \div 4 \in 1 .. e - 1
OBVIOUS

ShrinksTo(budget, m) ==
  {s \in [0 .. m -> Nat] :
     \A e \in 0 .. m : s[e] = IF e <= budget \/ e <= 1 THEN e ELSE s[(e * 3) \div 4]}

LEMMA ShrinkingExists == ASSUME NEW budget \in Nat, NEW all \in Nat PROVE ShrinksTo(budget, all) # {}
<1> DEFINE Bad == {m \in 0 .. all : ShrinksTo(budget, m) = {}}
<1>1. Bad \in SUBSET Nat
  OBVIOUS
<1>2. SUFFICES ASSUME Bad # {} PROVE FALSE
  OBVIOUS
<1>3. PICK m \in Bad : \A n \in Bad : m <= n
  BY <1>1, <1>2, SmallestOfNonempty
<1>4. m \in 0 .. all /\ ShrinksTo(budget, m) = {} /\ \A n \in 0 .. all : n < m => ShrinksTo(budget, n) # {}
  <2>1. m \in Nat /\ m \in 0 .. all /\ ShrinksTo(budget, m) = {}
    BY <1>3
  <2>2. ASSUME NEW n \in 0 .. all, n < m PROVE n \notin Bad
    <3>1. ~(m <= n)
      BY <2>1, <2>2
    <3> HIDE DEF Bad
    <3>2. QED
      BY <1>3, <3>1
  <2>3. QED
    BY <2>1, <2>2
<1> HIDE DEF Bad
<1>5. CASE m = 0
  <2>1. PICK s : s = [i \in 0 .. 0 |-> 0]
    OBVIOUS
  <2>2. s \in [0 .. 0 -> Nat] /\ \A e \in 0 .. 0 : e = 0 /\ s[e] = 0
    BY <2>1
  <2>3. s \in ShrinksTo(budget, 0)
    BY <2>2 DEF ShrinksTo
  <2>4. QED
    BY <1>4, <1>5, <2>3
<1>6. CASE m # 0
  <2>1. m \in Nat /\ m - 1 \in 0 .. all /\ m - 1 < m
    BY <1>4, <1>6
  <2>2. PICK s : s \in ShrinksTo(budget, m - 1)
    BY <1>4, <2>1
  <2>3. /\ s \in [0 .. m - 1 -> Nat]
        /\ \A e \in 0 .. m - 1 : s[e] = IF e <= budget \/ e <= 1 THEN e ELSE s[(e * 3) \div 4]
    BY <2>2 DEF ShrinksTo
  <2>4. PICK v : v = IF m <= budget \/ m <= 1 THEN m ELSE s[(m * 3) \div 4]
    OBVIOUS
  <2>5. v \in Nat
    <3>1. CASE m <= budget \/ m <= 1
      BY <2>1, <2>4, <3>1
    <3>2. CASE ~(m <= budget \/ m <= 1)
      <4>1. (m * 3) \div 4 \in 0 .. m - 1
        BY <2>1, <3>2, ThreeQuarters
      <4>2. QED
        BY <2>3, <2>4, <3>2, <4>1
    <3>3. QED
      BY <3>1, <3>2
  <2>6. PICK t : t = [e \in 0 .. m |-> IF e = m THEN v ELSE s[e]]
    OBVIOUS
  <2>7. \A e \in 0 .. m - 1 : t[e] = s[e] /\ e \in 0 .. m
    BY <2>1, <2>6
  <2>8. t[m] = v /\ t \in [0 .. m -> Nat]
    BY <2>1, <2>3, <2>5, <2>6
  <2>9. ASSUME NEW e \in 0 .. m PROVE t[e] = IF e <= budget \/ e <= 1 THEN e ELSE t[(e * 3) \div 4]
    <3>1. CASE e <= budget \/ e <= 1
      <4>1. CASE e = m
        BY <2>4, <2>8, <3>1, <4>1
      <4>2. CASE e # m
        <5>1. e \in 0 .. m - 1
          BY <2>1, <4>2
        <5>2. QED
          BY <2>3, <2>7, <3>1, <5>1
      <4>3. QED
        BY <4>1, <4>2
    <3>2. CASE ~(e <= budget \/ e <= 1)
      <4>1. PICK d : d = (e * 3) \div 4
        OBVIOUS
      <4>2. e \in Nat /\ ~(e <= 1)
        BY <2>1, <3>2
      <4>3. d \in 1 .. e - 1
        BY <4>1, <4>2, ThreeQuarters
      <4>4. d \in 0 .. m - 1
        BY <2>1, <4>2, <4>3
      <4>5. t[d] = s[d]
        BY <2>7, <4>4
      <4>6. CASE e = m
        BY <2>4, <2>8, <3>2, <4>1, <4>5, <4>6
      <4>7. CASE e # m
        <5>1. e \in 0 .. m - 1
          BY <2>1, <4>7
        <5>2. s[e] = s[d]
          BY <2>3, <3>2, <4>1, <5>1
        <5>3. QED
          BY <2>7, <3>2, <4>1, <4>5, <5>1, <5>2
      <4>8. QED
        BY <4>6, <4>7
    <3>3. QED
      BY <3>1, <3>2
  <2>10. t \in ShrinksTo(budget, m)
    BY <2>8, <2>9 DEF ShrinksTo
  <2>11. QED
    BY <1>4, <2>10
<1>7. QED
  BY <1>5, <1>6

\* It ends within the budget, or at a single character.
LEMMA CharactersThatFitIs ==
  ASSUME NEW lines \in Seq(Nat), NEW budget \in Nat
  PROVE  LET c == CharactersThatFit(lines, budget) IN c \in Nat /\ (c <= budget \/ c = 1)
<1> DEFINE Body(f, all) == [e \in 0 .. all |-> IF e <= budget \/ e <= 1 THEN e ELSE f[(e * 3) \div 4]]
<1>1. PICK all : all = PrefixTokens(lines, Len(lines))
  OBVIOUS
<1> DEFINE shrunk == CHOOSE f : f = Body(f, all)
<1>2. CharactersThatFit(lines, budget) = shrunk[all]
  BY <1>1 DEF CharactersThatFit
<1>3. all \in Nat
  <2>1. Len(lines) \in 0 .. Len(lines)
    OBVIOUS
  <2>2. QED
    BY <1>1, <2>1, PrefixTokensIs
<1>4. PICK s : s \in ShrinksTo(budget, all)
  BY <1>3, ShrinkingExists
<1>5. s = Body(s, all)
  BY <1>4 DEF ShrinksTo
<1>6. shrunk = Body(shrunk, all)
  BY <1>5
<1> HIDE DEF shrunk
<1>7. \A e \in 0 .. all : shrunk[e] = IF e <= budget \/ e <= 1 THEN e ELSE shrunk[(e * 3) \div 4]
  BY <1>6
<1> DEFINE Good(c) == c \in Nat /\ (c <= budget \/ c = 1)
           Off == {e \in 0 .. all : ~Good(shrunk[e])}
<1>8. Off = {}
  <2>1. SUFFICES ASSUME Off # {} PROVE FALSE
    OBVIOUS
  <2>2. Off \in SUBSET Nat
    BY <1>3
  <2> HIDE DEF Off
  <2>3. PICK e \in Off : \A d \in Off : e <= d
    BY <2>1, <2>2, SmallestOfNonempty
  <2>4. e \in 0 .. all /\ ~Good(shrunk[e]) /\ e \in Nat
    BY <1>3, <2>3 DEF Off
  <2>5. ~(e <= budget \/ e <= 1)
    <3>1. CASE e <= budget \/ e <= 1
      <4>1. shrunk[e] = e
        BY <1>7, <2>4, <3>1
      <4>2. e = 0 \/ e = 1 \/ e <= budget
        BY <2>4, <3>1
      <4>3. QED
        BY <2>4, <4>1, <4>2
    <3>2. QED
      BY <3>1
  <2>6. PICK d : d = (e * 3) \div 4
    OBVIOUS
  <2>7. d \in 1 .. e - 1
    BY <2>4, <2>5, <2>6, ThreeQuarters
  <2>8. d \in 0 .. all /\ ~(e <= d)
    BY <1>3, <2>4, <2>7
  <2>9. Good(shrunk[d])
    BY <2>3, <2>8 DEF Off
  <2>10. shrunk[e] = shrunk[d]
    BY <1>7, <2>4, <2>5, <2>6
  <2>11. QED
    BY <2>4, <2>9, <2>10
<1>9. all \in 0 .. all /\ all \notin Off
  BY <1>3, <1>8
<1>10. QED
  BY <1>2, <1>9

\* hard_truncate_summary, on any lines of a summary that is over its budget.
CutIsTight(lines, b) ==
  LET k    == LinesThatFit(lines, b)
      left == HardTruncate(lines, b)
  IN  /\ left <= b + Marker \/ left = 1 + Marker
      /\ k < Len(lines) /\ PrefixTokens(lines, k + 1) > b
      /\ k > 0 => left = PrefixTokens(lines, k) + Marker

LEMMA CutsAreTight ==
  ASSUME NEW lines \in Seq(Nat), NEW b \in Nat, PrefixTokens(lines, Len(lines)) > b
  PROVE  CutIsTight(lines, b)
<1>1. PICK k : Whole(lines, b, k)
  BY WholeExists
<1>2. LinesThatFit(lines, b) = k
  BY <1>1, LinesThatFitIs
<1>3. k \in 0 .. Len(lines) /\ PrefixTokens(lines, k) \in Nat /\ PrefixTokens(lines, k) <= b
  BY <1>1, PrefixTokensIs DEF Whole
<1>4. k # Len(lines)
  <2>1. CASE k = Len(lines)
    BY <1>3, <2>1
  <2>2. QED
    BY <2>1
<1>5. PrefixTokens(lines, k + 1) > b /\ k \in Nat /\ k < Len(lines)
  <2>1. k < Len(lines)
    BY <1>3, <1>4
  <2>2. QED
    BY <1>1, <1>3, <1>4, <2>1 DEF Whole
<1>6. Marker \in Nat
  BY CompactionAssumption
<1>7. PICK left : left = HardTruncate(lines, b)
  OBVIOUS
<1>8. CASE k = 0
  <2>1. PICK c : c = CharactersThatFit(lines, b)
    OBVIOUS
  <2>2. c \in Nat /\ (c <= b \/ c = 1)
    BY <2>1, CharactersThatFitIs
  <2>3. left = c + Marker
    BY <1>2, <1>7, <1>8, <2>1 DEF HardTruncate
  <2>4. left <= b + Marker \/ left = 1 + Marker
    BY <1>6, <2>2, <2>3
  <2>5. QED
    BY <1>2, <1>5, <1>7, <1>8, <2>4 DEF CutIsTight
<1>9. CASE k # 0
  <2>1. PICK p : p = PrefixTokens(lines, k)
    OBVIOUS
  <2>2. left = p + Marker
    BY <1>2, <1>5, <1>7, <1>9, <2>1 DEF HardTruncate
  <2>3. left <= b + Marker
    BY <1>3, <1>6, <2>1, <2>2
  <2>4. QED
    BY <1>2, <1>5, <1>7, <2>1, <2>2, <2>3 DEF CutIsTight
<1>10. QED
  BY <1>8, <1>9

\* hard_truncate_summary keeps what it may of a summary that came out too long,
\* and nothing more, whatever its lines and its budget.
THEOREM SummaryCutsAreTight == SpecCompaction => []SummaryCutIsTight
<1>1. ASSUME CompactionInv PROVE SummaryCutIsTight
  <2>1. ASSUME NEW lines \in [1 .. Cardinality(list) -> {t.tok : t \in list}], NEW b \in Budgets,
               PrefixTokens(lines, Len(lines)) > b
        PROVE  CutIsTight(lines, b)
    <3>1. Cardinality(list) \in Nat /\ {t.tok : t \in list} \subseteq Nat
      BY <1>1, FS_CardinalityType DEF CompactionInv, Listed
    <3>2. lines \in Seq(Nat)
      BY <2>1, <3>1
    <3>3. b \in Nat
      BY CompactionAssumption
    <3>4. QED
      BY <2>1, <3>2, <3>3, CutsAreTight
  <2>2. QED
    BY <2>1 DEF SummaryCutIsTight, CutIsTight
<1>2. QED
  BY <1>1, CompactionInvariant, PTL
=============================================================================
