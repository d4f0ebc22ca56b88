-------------------------- MODULE TimeWheel_proofs --------------------------
(***************************************************************************)
(* What holds of the timer wheel for any number of rounds and slots, any   *)
(* precision, any timers and any way the wheel thread falls behind.        *)
(***************************************************************************)
EXTENDS TimeWheel, FiniteSetTheorems, TLAPS

(* Every set of numbers that is not empty has a lowest one. *)
LEMMA Lowest ==
    ASSUME NEW U \in SUBSET Nat, U # {}
    PROVE  \E n \in U : \A k \in U : n <= k
  <1> DEFINE V(n) == {k \in U : k < n}
             T == {V(n) : n \in U}
  <1>1. ASSUME NEW n \in U PROVE V(n) \in FiniteSubsetsOf(Nat)
    <2>1. \A k \in V(n) : k <= n
      OBVIOUS
    <2>2. V(n) \in SUBSET Nat /\ n \in Nat
      OBVIOUS
    <2>3. IsFiniteSet(V(n))
      BY <2>1, <2>2, FS_BoundedSetOfNaturals
    <2> QED  BY <2>2, <2>3 DEF FiniteSubsetsOf
  <1>2. T \subseteq FiniteSubsetsOf(Nat) /\ T # {}
    BY <1>1
  <1>3. PICK W \in T : \A X \in T : ~(<<X, W>> \in StrictSubsetOrdering(Nat))
    <2> HIDE DEF T
    <2> QED  BY <1>2, FS_StrictSubsetOrderingWellFounded, WFMin
  <1>4. PICK n \in U : W = V(n)
    OBVIOUS
  <1>5. ASSUME NEW k \in U, k < n PROVE FALSE
    <2>1. k \in Nat /\ n \in Nat
      OBVIOUS
    <2>2. V(k) \subseteq V(n)
      <3> SUFFICES ASSUME NEW j \in U, j < k PROVE j < n
        OBVIOUS
      <3>1. j \in Nat
        OBVIOUS
      <3> QED  BY <1>5, <2>1, <3>1
    <2>3. k \in V(n) /\ k \notin V(k)
      BY <1>5, <2>1
    <2>4. <<V(k), V(n)>> \in StrictSubsetOrdering(Nat)
      BY <2>2, <2>3 DEF StrictSubsetOrdering
    <2> QED  BY <2>4, <1>3, <1>4
  <1> QED  BY <1>5

LEMMA Highest ==
    ASSUME NEW n \in Nat, NEW U \in SUBSET (1..n), U # {}
    PROVE  \E i \in U : \A j \in U : j <= i
  <1> DEFINE D == {n - i : i \in U}
  <1>1. \A i \in U : i \in Nat /\ n - i \in Nat /\ n - i \in D
    OBVIOUS
  <1>2. D \in SUBSET Nat /\ D # {}
    BY <1>1
  <1>3. PICK e \in D : \A f \in D : e <= f
    <2> HIDE DEF D
    <2> QED  BY <1>2, Lowest
  <1>4. PICK i \in U : e = n - i
    OBVIOUS
  <1>5. \A j \in U : n - i <= n - j /\ j \in Nat
    BY <1>1, <1>3, <1>4
  <1> QED  BY <1>1, <1>5

-----------------------------------------------------------------------------
(* What the proofs need of \div and %. *)
LEMMA DivType ==
    ASSUME NEW a \in Int, NEW s \in Nat \ {0}
    PROVE  /\ a \div s \in Int /\ a % s \in 0..s - 1
           /\ a \in Nat => a \div s \in Nat
  OBVIOUS

LEMMA DivMonotonic ==
    ASSUME NEW s \in Nat \ {0}, NEW a \in Int, NEW b \in Int, a <= b
    PROVE  a \div s <= b \div s
  OBVIOUS

LEMMA SameDiv ==
    ASSUME NEW s \in Nat \ {0}, NEW a \in Int, NEW b \in Int, a \div s = b \div s
    PROVE  a - b = (a % s) - (b % s)
  OBVIOUS

LEMMA DivNext ==
    ASSUME NEW s \in Nat \ {0}, NEW a \in Int
    PROVE  /\ (a + 1) % s = 0 => (a + 1) \div s = a \div s + 1
           /\ (a + 1) % s # 0 => (a + 1) \div s = a \div s
  <1>1. ASSUME (a + 1) % s = 0 PROVE (a + 1) \div s = a \div s + 1
    BY <1>1
  <1>2. ASSUME (a + 1) % s # 0 PROVE (a + 1) \div s = a \div s
    BY <1>2
  <1> QED  BY <1>1, <1>2

LEMMA DivDiv ==
    ASSUME NEW s \in Nat \ {0}, NEW p \in Nat \ {0}, NEW a \in Nat
    PROVE  (a \div p) \div s = a \div (p * s)
  OBVIOUS

LEMMA DivBelow ==
    ASSUME NEW s \in Nat \ {0}, NEW p \in Nat \ {0}, NEW a \in Nat
    PROVE  a < p * s <=> a \div p < s
  OBVIOUS

LEMMA DivAtLeast ==
    ASSUME NEW k \in Nat, NEW p \in Nat \ {0}, NEW a \in Nat
    PROVE  a >= k * p <=> a \div p >= k
  OBVIOUS

LEMMA DivZero ==
    ASSUME NEW s \in Nat \ {0}, NEW a \in Nat
    PROVE  a \div s = 0 <=> a < s
  OBVIOUS

LEMMA Product ==
    ASSUME NEW a \in Nat, NEW b \in Nat
    PROVE  a * b \in Nat
  OBVIOUS

LEMMA ProductPositive ==
    ASSUME NEW a \in Nat \ {0}, NEW b \in Nat \ {0}
    PROVE  a * b \in Nat \ {0}
  OBVIOUS

LEMMA ProductNext ==
    ASSUME NEW a \in Nat, NEW b \in Nat
    PROVE  (a + 1) * b = a * b + b
  OBVIOUS

LEMMA ProductBounds ==
    ASSUME NEW a \in Nat, NEW b \in Nat \ {0}
    PROVE  a <= a * b
  OBVIOUS
-----------------------------------------------------------------------------
(* The slots of a round, as the recursion defines them: the function       *)
(* exists, so it is the one the definition says.                           *)
LEMMA Constants ==
    /\ Precision \in Nat \ {0} /\ SlotCount \in Nat \ {0} /\ Rounds \in Nat \ {0}
    /\ MaxNow \in Nat /\ 1 \in Round
    /\ \A delay \in Delays : delay \in Nat
    /\ \A t \in Timers : /\ Interval[t] \in Nat /\ Count[t] \in Nat \ {0}
                         /\ Interval[t] = 0 \/ Interval[t] >= Precision
                         /\ Interval[t] = 0 => Count[t] = 1
  <1>1. Precision \in Nat \ {0} /\ SlotCount \in Nat \ {0} /\ Rounds \in Nat \ {0}
    BY WheelAssumption
  <1>2. 1 \in Round
    BY <1>1 DEF Round
  <1>3. MaxNow \in Nat /\ \A delay \in Delays : delay \in Nat
    BY WheelAssumption
  <1>4. ASSUME NEW t \in Timers
        PROVE  /\ Interval[t] \in Nat /\ Count[t] \in Nat \ {0}
               /\ Interval[t] = 0 \/ Interval[t] >= Precision
               /\ Interval[t] = 0 => Count[t] = 1
    BY WheelAssumption
  <1> QED  BY <1>1, <1>2, <1>3, <1>4

LEMMA SlotsExist ==
    \A n \in Nat : \E f \in [1..n -> Nat \ {0}] :
        \A r \in 1..n : f[r] = IF r = 1 THEN Precision ELSE f[r - 1] * SlotCount
  <1> DEFINE Good(n) == \E f \in [1..n -> Nat \ {0}] :
                 \A r \in 1..n : f[r] = IF r = 1 THEN Precision ELSE f[r - 1] * SlotCount
             U == {n \in Nat : ~Good(n)}
  <1>1. ASSUME NEW n \in Nat, n # 0 => Good(n - 1) PROVE Good(n)
    <2>1. CASE n = 0
      <3> DEFINE f == [r \in 1..n |-> 1]
      <3>1. f \in [1..n -> Nat \ {0}] /\ \A r \in 1..n : FALSE
        BY <2>1
      <3> HIDE DEF f
      <3> QED  BY <3>1
    <2>2. CASE n # 0
      <3>1. PICK f \in [1..(n - 1) -> Nat \ {0}] :
              \A r \in 1..(n - 1) : f[r] = IF r = 1 THEN Precision ELSE f[r - 1] * SlotCount
        BY <1>1, <2>2
      <3> DEFINE V(r) == IF r = 1 THEN Precision ELSE f[r - 1] * SlotCount
                 g == [r \in 1..n |-> V(r)]
      <3>2. ASSUME NEW r \in 1..n PROVE V(r) \in Nat \ {0}
        <4>1. CASE r = 1
          BY <4>1, Constants
        <4>2. CASE r # 1
          <5>1. r - 1 \in 1..(n - 1)
            BY <4>2
          <5>2. f[r - 1] \in Nat \ {0}
            BY <5>1
          <5>3. f[r - 1] * SlotCount \in Nat \ {0}
            BY <5>2, Constants, ProductPositive
          <5> QED  BY <4>2, <5>3
        <4> QED  BY <4>1, <4>2
      <3>3. g \in [1..n -> Nat \ {0}] /\ \A r \in 1..n : g[r] = V(r)
        <4> HIDE DEF V
        <4> QED  BY <3>2
      <3> HIDE DEF g
      <3>4. ASSUME NEW r \in 1..n, r # 1 PROVE g[r - 1] = f[r - 1]
        <4>1. r - 1 \in 1..(n - 1) /\ r - 1 \in 1..n
          BY <3>4
        <4> QED  BY <4>1, <3>3, <3>1
      <3>5. \A r \in 1..n : g[r] = IF r = 1 THEN Precision ELSE g[r - 1] * SlotCount
        BY <3>3, <3>4
      <3> QED  BY <3>3, <3>5
    <2> QED  BY <2>1, <2>2
  <1> HIDE DEF Good
  <1>2. U \in SUBSET Nat /\ \A n \in Nat : n \in U <=> ~Good(n)
    OBVIOUS
  <1> HIDE DEF U
  <1>3. SUFFICES ASSUME U # {} PROVE FALSE
    BY <1>2 DEF Good
  <1>4. PICK n \in U : \A k \in U : n <= k
    BY <1>2, <1>3, Lowest
  <1>5. n \in Nat /\ (n # 0 => n - 1 \in Nat /\ ~(n <= n - 1))
    BY <1>2
  <1> QED  BY <1>1, <1>2, <1>4, <1>5

LEMMA SlotMs ==
    /\ m_slot_ms \in [Round -> Nat \ {0}]
    /\ m_slot_ms[1] = Precision
    /\ \A r \in Round : r > 1 => r - 1 \in Round /\ m_slot_ms[r] = m_slot_ms[r - 1] * SlotCount
  <1> DEFINE V(f, r) == IF r = 1 THEN Precision ELSE f[r - 1] * SlotCount
             D(f) == [r \in Round |-> V(f, r)]
  <1>1. PICK f \in [Round -> Nat \ {0}] : \A r \in Round : f[r] = V(f, r)
    BY SlotsExist, Constants DEF Round
  <1>2. f = D(f)
    <2> HIDE DEF V
    <2> QED  BY <1>1
  <1>3. m_slot_ms = CHOOSE g : g = D(g)
    BY DEF m_slot_ms
  <1> HIDE DEF D
  <1>4. m_slot_ms = D(m_slot_ms)
    BY <1>2, <1>3
  <1> USE DEF D
  <1>5. m_slot_ms = [r \in Round |-> V(m_slot_ms, r)]
    BY <1>4
  <1>6. DOMAIN m_slot_ms = Round /\ \A r \in Round : m_slot_ms[r] = V(m_slot_ms, r)
    <2> HIDE DEF V
    <2> QED  BY <1>5
  <1>7. \A r \in Round : r > 1 => r - 1 \in Round
    BY Constants DEF Round
  <1> DEFINE U == {r \in Round : m_slot_ms[r] \notin Nat \ {0}}
  <1>8. U = {}
    <2>1. SUFFICES ASSUME U # {} PROVE FALSE
      OBVIOUS
    <2>2. U \in SUBSET Nat
      BY DEF Round
    <2>3. PICK r \in U : \A k \in U : r <= k
      <3> HIDE DEF U
      <3> QED  BY <2>1, <2>2, Lowest
    <2>4. r \in Round /\ r \in Nat /\ r >= 1 /\ m_slot_ms[r] \notin Nat \ {0}
      BY <2>3 DEF Round
    <2>5. CASE r = 1
      BY <2>4, <2>5, <1>6, Constants
    <2>6. CASE r > 1
      <3>1. r - 1 \in Round /\ ~(r <= r - 1)
        BY <2>4, <2>6, <1>7
      <3>2. m_slot_ms[r - 1] \in Nat \ {0}
        BY <2>3, <3>1
      <3>3. m_slot_ms[r] = m_slot_ms[r - 1] * SlotCount
        BY <1>6, <2>4, <2>6
      <3> QED  BY <2>4, <3>2, <3>3, Constants, ProductPositive
    <2> QED  BY <2>4, <2>5, <2>6
  <1>9. \A r \in Round : m_slot_ms[r] \in Nat \ {0}
    BY <1>8
  <1>10. m_slot_ms \in [Round -> Nat \ {0}]
    <2> DEFINE g == [r \in Round |-> m_slot_ms[r]]
    <2>1. g \in [Round -> Nat \ {0}]
      BY <1>9
    <2>2. m_slot_ms = g
      <3>1. \A r \in Round : V(m_slot_ms, r) = m_slot_ms[r]
        BY <1>6
      <3> HIDE DEF V
      <3> QED  BY <1>5, <3>1
    <2> QED  BY <2>1, <2>2
  <1>11. m_slot_ms[1] = Precision
    BY <1>6, Constants
  <1>12. \A r \in Round : r > 1 => m_slot_ms[r] = m_slot_ms[r - 1] * SlotCount
    BY <1>6
  <1> QED  BY <1>7, <1>10, <1>11, <1>12
-----------------------------------------------------------------------------
(* Rounds are walked up and down. *)
LEMMA Upward ==
    ASSUME NEW U \in SUBSET Round, 1 \in U,
           \A r \in Round : r > 1 /\ r - 1 \in U => r \in U
    PROVE  U = Round
  <1> DEFINE W == Round \ U
  <1>1. SUFFICES ASSUME W # {} PROVE FALSE
    OBVIOUS
  <1>2. W \in SUBSET Nat
    BY DEF Round
  <1>3. PICK r \in W : \A k \in W : r <= k
    <2> HIDE DEF W
    <2> QED  BY <1>1, <1>2, Lowest
  <1>4. r \in Round /\ r > 1 /\ r \notin U
    BY <1>3 DEF Round
  <1>5. r - 1 \in Round /\ ~(r <= r - 1)
    BY <1>4, SlotMs DEF Round
  <1>6. r - 1 \in U
    BY <1>3, <1>5
  <1> QED  BY <1>4, <1>6

LEMMA Downward ==
    ASSUME NEW n \in Nat, NEW U \in SUBSET (1..n), n \in U,
           \A k \in 1..n : k + 1 \in U => k \in U
    PROVE  U = 1..n
  <1> DEFINE W == (1..n) \ U
  <1>1. SUFFICES ASSUME W # {} PROVE FALSE
    OBVIOUS
  <1>2. PICK k \in W : \A j \in W : j <= k
    <2>1. W \in SUBSET (1..n)
      OBVIOUS
    <2> HIDE DEF W
    <2> QED  BY <1>1, <2>1, Highest
  <1>3. k \in 1..n /\ k \notin U /\ k # n
    BY <1>2
  <1>4. k + 1 \in 1..n /\ ~(k + 1 <= k)
    BY <1>3
  <1>5. k + 1 \in U
    BY <1>2, <1>4
  <1> QED  BY <1>3, <1>5
-----------------------------------------------------------------------------
(* A time in slots of a round; a hand that has not moved yet is at -1.  A  *)
(* set of hands is in step when every round counts the turns of the round  *)
(* below.  A time is ahead of a hand, and in reach of it, when its slot is *)
(* yet to come within the turn the hand is in.                             *)
Above(x) == IF x = -1 THEN 0 ELSE x \div SlotCount
Digits(r, ms) == ms \div m_slot_ms[r]
Hands(c) ==
    /\ c \in [Round -> Int] /\ c[1] >= -1
    /\ \A r \in Round : r > 1 => c[r] >= 0 /\ c[r] = Above(c[r - 1])
Level(c, r, ms) == Digits(r, ms) \div SlotCount = Above(c[r])
Ahead(c, r, ms) == Digits(r, ms) > c[r] /\ Level(c, r, ms)

LEMMA DigitsAre ==
    ASSUME NEW ms \in Nat, NEW r \in Round
    PROVE  /\ Digits(r, ms) \in Nat
           /\ Digits(1, ms) = ms \div Precision
           /\ r > 1 => Digits(r, ms) = Digits(r - 1, ms) \div SlotCount
           /\ ms < SlotSum(r) <=> Digits(r, ms) < SlotCount
           /\ Index(r, ms) = Digits(r, ms) % SlotCount /\ Index(r, ms) \in Slot
  <1>1. m_slot_ms[r] \in Nat \ {0} /\ SlotCount \in Nat \ {0}
    BY SlotMs, Constants
  <1>2. Digits(r, ms) \in Nat
    BY <1>1, DivType DEF Digits
  <1>3. Digits(1, ms) = ms \div Precision
    BY SlotMs DEF Digits
  <1>4. ASSUME r > 1 PROVE Digits(r, ms) = Digits(r - 1, ms) \div SlotCount
    <2>1. r - 1 \in Round /\ m_slot_ms[r] = m_slot_ms[r - 1] * SlotCount
      BY <1>4, SlotMs
    <2>2. m_slot_ms[r - 1] \in Nat \ {0}
      BY <2>1, SlotMs
    <2>3. (ms \div m_slot_ms[r - 1]) \div SlotCount = ms \div (m_slot_ms[r - 1] * SlotCount)
      BY <1>1, <2>2, DivDiv
    <2> QED  BY <2>1, <2>3 DEF Digits
  <1>5. ms < SlotSum(r) <=> Digits(r, ms) < SlotCount
    BY <1>1, DivBelow DEF Digits, SlotSum
  <1>6. Index(r, ms) = Digits(r, ms) % SlotCount
    BY DEF Index, Digits
  <1>7. Index(r, ms) \in Slot
    <2>1. Digits(r, ms) % SlotCount \in 0..SlotCount - 1
      <3>1. Digits(r, ms) \in Int
        BY <1>2
      <3> QED  BY <1>1, <3>1, DivType, Zenon
    <2> QED  BY <1>6, <2>1 DEF Slot
  <1> QED  BY <1>2, <1>3, <1>4, <1>5, <1>6, <1>7

LEMMA AboveType ==
    ASSUME NEW x \in Int, x >= -1
    PROVE  Above(x) \in Nat
  <1>1. SlotCount \in Nat \ {0}
    BY Constants
  <1>2. CASE x = -1
    BY <1>2 DEF Above
  <1>3. CASE x # -1
    <2>1. x \in Nat
      BY <1>3
    <2> QED  BY <2>1, <1>3, <1>1, DivType DEF Above
  <1> QED  BY <1>2, <1>3

LEMMA HandsType ==
    ASSUME NEW c, Hands(c), NEW r \in Round
    PROVE  c[r] \in Int /\ c[r] >= -1 /\ (c[r] = -1 => r = 1) /\ Above(c[r]) \in Nat
  <1>1. c[r] \in Int
    BY DEF Hands
  <1>2. r = 1 \/ r > 1
    BY DEF Round
  <1>3. c[r] >= -1 /\ (c[r] = -1 => r = 1)
    BY <1>1, <1>2 DEF Hands
  <1> QED  BY <1>1, <1>3, AboveType

(* What is at or past the hand of the first round is at or past every hand. *)
LEMMA PastAll ==
    ASSUME NEW c, Hands(c), NEW ms \in Nat, Digits(1, ms) >= c[1]
    PROVE  \A r \in Round : Digits(r, ms) >= c[r]
  <1> DEFINE U == {r \in Round : Digits(r, ms) >= c[r]}
  <1>1. 1 \in U
    BY Constants
  <1>2. ASSUME NEW r \in Round, r > 1, r - 1 \in U PROVE r \in U
    <2>1. r - 1 \in Round /\ Digits(r - 1, ms) >= c[r - 1]
      BY <1>2
    <2>2. c[r - 1] \in Int /\ c[r - 1] >= -1 /\ c[r] = Above(c[r - 1]) /\ c[r] \in Nat
      BY <1>2, <2>1, HandsType DEF Hands
    <2>3. Digits(r, ms) = Digits(r - 1, ms) \div SlotCount /\ Digits(r, ms) \in Nat
          /\ Digits(r - 1, ms) \in Nat /\ SlotCount \in Nat \ {0}
      BY <1>2, <2>1, DigitsAre, Constants
    <2>4. CASE c[r - 1] = -1
      <3>1. c[r] = 0
        BY <2>2, <2>4 DEF Above
      <3> QED  BY <2>3, <3>1
    <2>5. CASE c[r - 1] # -1
      <3>1. c[r] = c[r - 1] \div SlotCount
        BY <2>2, <2>5 DEF Above
      <3>2. c[r - 1] \div SlotCount <= Digits(r - 1, ms) \div SlotCount
        BY <2>1, <2>2, <2>3, DivMonotonic
      <3> QED  BY <2>2, <2>3, <3>1, <3>2
    <2> QED  BY <2>4, <2>5
  <1>3. U = Round
    <2>1. U \in SUBSET Round
      OBVIOUS
    <2> HIDE DEF U
    <2> QED  BY <1>1, <1>2, <2>1, Upward
  <1> QED  BY <1>3

LEMMA BehindAll ==
    ASSUME NEW c, Hands(c), NEW ms \in Nat, Digits(1, ms) <= c[1]
    PROVE  \A r \in Round : Digits(r, ms) <= c[r]
  <1> DEFINE U == {r \in Round : Digits(r, ms) <= c[r]}
  <1>1. 1 \in U
    BY Constants
  <1>2. ASSUME NEW r \in Round, r > 1, r - 1 \in U PROVE r \in U
    <2>1. r - 1 \in Round /\ Digits(r - 1, ms) <= c[r - 1]
      BY <1>2
    <2>2. c[r - 1] \in Int /\ c[r - 1] >= -1 /\ c[r] = Above(c[r - 1]) /\ c[r] \in Nat
      BY <1>2, <2>1, HandsType DEF Hands
    <2>3. Digits(r, ms) = Digits(r - 1, ms) \div SlotCount /\ Digits(r, ms) \in Nat
          /\ Digits(r - 1, ms) \in Nat /\ SlotCount \in Nat \ {0}
      BY <1>2, <2>1, DigitsAre, Constants
    <2>4. c[r - 1] # -1
      BY <2>1, <2>2, <2>3
    <2>5. c[r] = c[r - 1] \div SlotCount
      BY <2>2, <2>4 DEF Above
    <2>6. Digits(r - 1, ms) \div SlotCount <= c[r - 1] \div SlotCount
      BY <2>1, <2>2, <2>3, DivMonotonic
    <2> QED  BY <1>2, <2>2, <2>3, <2>5, <2>6
  <1>3. U = Round
    <2>1. U \in SUBSET Round
      OBVIOUS
    <2> HIDE DEF U
    <2> QED  BY <1>1, <1>2, <2>1, Upward
  <1> QED  BY <1>3

(* No hand is past a bound that the hand of the first round keeps. *)
LEMMA HandsBounded ==
    ASSUME NEW c, Hands(c), NEW n \in Nat, c[1] <= n
    PROVE  \A r \in Round : c[r] \in -1..n
  <1> DEFINE U == {r \in Round : c[r] <= n}
  <1>1. 1 \in U
    BY Constants
  <1>2. ASSUME NEW r \in Round, r > 1, r - 1 \in U PROVE r \in U
    <2>1. r - 1 \in Round /\ c[r - 1] <= n
      BY <1>2
    <2>2. c[r - 1] \in Int /\ c[r - 1] >= -1 /\ c[r] = Above(c[r - 1])
      BY <1>2, <2>1, HandsType DEF Hands
    <2>3. CASE c[r - 1] = -1
      <3>1. c[r] = 0
        BY <2>2, <2>3 DEF Above
      <3> QED  BY <3>1
    <2>4. CASE c[r - 1] # -1
      <3>1. c[r] = c[r - 1] \div SlotCount /\ c[r - 1] \in Nat /\ SlotCount \in Nat \ {0}
        BY <2>2, <2>4, Constants DEF Above
      <3>2. c[r - 1] \div SlotCount <= c[r - 1]
        BY <3>1
      <3>3. c[r] \in Int
        BY <2>2, HandsType
      <3> QED  BY <2>1, <2>2, <3>1, <3>2, <3>3
    <2> QED  BY <2>3, <2>4
  <1>3. U = Round
    <2>1. U \in SUBSET Round
      OBVIOUS
    <2> HIDE DEF U
    <2> QED  BY <1>1, <1>2, <2>1, Upward
  <1>4. \A r \in Round : c[r] <= n /\ c[r] \in Int /\ c[r] >= -1
    BY <1>3, HandsType
  <1> QED  BY <1>4
-----------------------------------------------------------------------------
(* The hands push_slots looks at *)
Face(T) == [r \in Round |-> Pos(T, r)]

LEMMA FaceIs ==
    ASSUME NEW T, NEW r \in Round
    PROVE  Face(T)[r] = Pos(T, r) /\ Hand(T, r) = Face(T)[r] % SlotCount
  BY DEF Face, Hand

(* Within a turn the slots are in the order of the times. *)
LEMMA LevelSlots ==
    ASSUME NEW c, Hands(c), NEW r \in Round, NEW ms \in Nat, Level(c, r, ms), c[r] # -1
    PROVE  /\ Index(r, ms) <= c[r] % SlotCount <=> Digits(r, ms) <= c[r]
           /\ Index(r, ms) = c[r] % SlotCount <=> Digits(r, ms) = c[r]
  <1> DEFINE d == Digits(r, ms)
             h == c[r]
  <1>1. d \in Int /\ h \in Int /\ SlotCount \in Nat \ {0}
    BY DigitsAre, HandsType, Constants
  <1>2. d \div SlotCount = h \div SlotCount
    BY DEF Level, Above
  <1>3. Index(r, ms) = d % SlotCount
    BY DigitsAre
  <1> HIDE DEF d, h
  <1>4. d - h = (d % SlotCount) - (h % SlotCount)
    BY <1>1, <1>2, SameDiv
  <1>5. d % SlotCount \in 0..SlotCount - 1 /\ h % SlotCount \in 0..SlotCount - 1
    BY <1>1, DivType, Zenon
  <1>6. ASSUME NEW x \in Int, NEW y \in Int, d - h = x - y
        PROVE  (x <= y <=> d <= h) /\ (x = y <=> d = h)
    BY <1>1, <1>6
  <1>7. d % SlotCount \in Int /\ h % SlotCount \in Int
    <2>1. \A x \in 0..SlotCount - 1 : x \in Int
      OBVIOUS
    <2> QED  BY <1>5, <2>1
  <1>8. /\ d % SlotCount <= h % SlotCount <=> d <= h
        /\ d % SlotCount = h % SlotCount <=> d = h
    BY <1>4, <1>6, <1>7, Zenon
  <1> QED  BY <1>3, <1>8, Zenon DEF d, h

LEMMA BehindIs ==
    ASSUME NEW T, Hands(Face(T)), NEW r \in Round, NEW ms \in Nat, Level(Face(T), r, ms)
    PROVE  Behind(T, r, ms) <=> Digits(r, ms) <= Face(T)[r]
  <1>1. Behind(T, r, ms) <=> Face(T)[r] # -1 /\ Index(r, ms) <= Face(T)[r] % SlotCount
    BY FaceIs DEF Behind
  <1>2. Digits(r, ms) \in Nat
    BY DigitsAre
  <1>3. CASE Face(T)[r] = -1
    BY <1>1, <1>2, <1>3
  <1>4. CASE Face(T)[r] # -1
    BY <1>1, <1>4, LevelSlots, Zenon
  <1> QED  BY <1>3, <1>4

(* A round that passes a timer on is level with it, and so is the round below. *)
LEMMA LevelBelow ==
    ASSUME NEW c, Hands(c), NEW r \in Round, r > 1, NEW ms \in Nat,
           Digits(1, ms) >= c[1], Digits(r, ms) <= c[r]
    PROVE  Level(c, r - 1, ms)
  <1>1. Digits(r, ms) = c[r]
    <2>1. Digits(r, ms) >= c[r]
      BY PastAll
    <2> QED  BY <2>1, DigitsAre, HandsType
  <1>2. c[r] = Above(c[r - 1]) /\ Digits(r, ms) = Digits(r - 1, ms) \div SlotCount
    BY DigitsAre DEF Hands
  <1> QED  BY <1>1, <1>2 DEF Level

(* push_slots puts a timer that is not behind the hands into one slot: one *)
(* that is ahead of its hand, or the one the first hand has just reached.  *)
LEMMA PushSlotsIs ==
    ASSUME NEW T, Hands(Face(T)), NEW r \in Round, NEW t, NEW ms \in Nat,
           Level(Face(T), r, ms), Digits(1, ms) >= Face(T)[1]
    PROVE  \E q \in 1..r :
             /\ PushSlots(T, r, t, ms) = {<<q, Index(q, ms), t>>}
             /\ Ahead(Face(T), q, ms) \/ (q = 1 /\ Digits(1, ms) = Face(T)[1])
  <1> DEFINE c == Face(T)
             ahead == {q \in 1..r : ~Behind(T, q, ms)}
             Over(k) == \A q \in 1..r : q > k => Behind(T, q, ms)
             U == {k \in 1..r : Over(k) => Level(c, k, ms)}
  <1>1. r \in Nat /\ 1 \in 1..r /\ \A q \in 1..r : q \in Round
    BY Constants DEF Round
  <1>2. r \in U
    BY <1>1
  <1>3. ASSUME NEW k \in 1..r, k + 1 \in U PROVE k \in U
    <2>1. SUFFICES ASSUME Over(k) PROVE Level(c, k, ms)
      OBVIOUS
    <2>2. k + 1 \in 1..r /\ k + 1 > 1 /\ (k + 1) - 1 = k /\ k + 1 > k
      BY <1>3
    <2>3. Over(k + 1) /\ Behind(T, k + 1, ms)
      BY <2>1, <2>2
    <2>4. Level(c, k + 1, ms) /\ k + 1 \in Round
      BY <1>1, <1>3, <2>2, <2>3
    <2>5. Digits(k + 1, ms) <= c[k + 1]
      BY <2>3, <2>4, BehindIs
    <2> QED  BY <2>2, <2>4, <2>5, LevelBelow
  <1>4. U = 1..r
    <2>1. U \in SUBSET (1..r)
      OBVIOUS
    <2> HIDE DEF U
    <2> QED  BY <1>1, <1>2, <1>3, <2>1, Downward
  <1>5. \A k \in 1..r : Over(k) => Level(c, k, ms)
    BY <1>4
  <1>6. PushSlots(T, r, t, ms)
          = LET q == IF ahead = {} THEN 1 ELSE CHOOSE q \in ahead : \A p \in ahead : p <= q
            IN  IF ahead = {} /\ Index(1, ms) # Hand(T, 1) THEN {}
                ELSE {<<q, Index(q, ms), t>>}
    BY DEF PushSlots
  <1>7. CASE ahead = {}
    <2>1. Over(1) /\ Behind(T, 1, ms)
      BY <1>1, <1>7
    <2>2. Level(c, 1, ms)
      BY <1>1, <1>5, <2>1
    <2>3. Digits(1, ms) <= c[1]
      BY <2>1, <2>2, <1>1, BehindIs
    <2>4. Digits(1, ms) = c[1] /\ c[1] # -1
      <3>1. 1 \in Round /\ Digits(1, ms) \in Nat /\ Face(T)[1] \in Int
        BY <1>1, DigitsAre, HandsType
      <3> QED  BY <2>3, <3>1
    <2>5. Index(1, ms) = Hand(T, 1)
      BY <2>2, <2>4, <1>1, LevelSlots, FaceIs
    <2>6. PushSlots(T, r, t, ms) = {<<1, Index(1, ms), t>>}
      BY <1>6, <1>7, <2>5
    <2> QED  BY <1>1, <2>4, <2>6
  <1>8. CASE ahead # {}
    <2>1. \E q \in ahead : \A p \in ahead : p <= q
      <3>1. ahead \in SUBSET (1..r)
        OBVIOUS
      <3> HIDE DEF ahead
      <3> QED  BY <1>1, <1>8, <3>1, Highest
    <2> DEFINE q == CHOOSE q \in ahead : \A p \in ahead : p <= q
    <2>2. q \in ahead /\ \A p \in ahead : p <= q
      <3> HIDE DEF ahead
      <3> QED  BY <2>1
    <2>3. PushSlots(T, r, t, ms) = {<<q, Index(q, ms), t>>}
      <3> HIDE DEF ahead
      <3> QED  BY <1>6, <1>8
    <2> HIDE DEF q
    <2>4. q \in 1..r /\ ~Behind(T, q, ms) /\ q \in Round
      BY <2>2, <1>1
    <2>5. Over(q)
      <3> SUFFICES ASSUME NEW p \in 1..r, p > q PROVE Behind(T, p, ms)
        OBVIOUS
      <3>1. ~(p <= q)
        BY <2>4
      <3> QED  BY <2>2, <3>1
    <2>6. Level(c, q, ms)
      BY <1>5, <2>4, <2>5
    <2>7. ~(Digits(q, ms) <= c[q])
      BY <2>4, <2>6, BehindIs
    <2>8. Digits(q, ms) > c[q]
      BY <2>4, <2>7, DigitsAre, HandsType
    <2> QED  BY <2>3, <2>4, <2>6, <2>8 DEF Ahead
  <1> QED  BY <1>7, <1>8

(* wheel::push puts a timer that is due after the hands, and within the    *)
(* span, into one slot ahead of its hand.                                  *)
LEMMA PushIs ==
    ASSUME NEW T, Hands(Face(T)), NEW t, NEW ms \in Nat, ms < Span,
           Digits(1, ms) > Face(T)[1]
    PROVE  \E q \in Round : Push(T, t, ms) = {<<q, Index(q, ms), t>>} /\ Ahead(Face(T), q, ms)
  <1> DEFINE reach == {r \in Round : ms < SlotSum(r)}
             r == CHOOSE r \in reach : \A q \in reach : r <= q
  <1>1. reach \in SUBSET Nat /\ reach # {}
    BY Constants DEF Round, Span
  <1>2. r \in reach
    <2>1. \E k \in reach : \A q \in reach : k <= q
      <3> HIDE DEF reach
      <3> QED  BY <1>1, Lowest
    <2> HIDE DEF reach
    <2> QED  BY <2>1
  <1>3. Push(T, t, ms) = PushSlots(T, r, t, ms)
    BY DEF Push
  <1> HIDE DEF r
  <1>4. r \in Round /\ ms < SlotSum(r)
    BY <1>2
  <1>5. Digits(r, ms) \in Nat /\ Digits(r, ms) < SlotCount /\ SlotCount \in Nat \ {0}
    BY <1>4, DigitsAre, Constants
  <1>6. 1 \in Round /\ Digits(1, ms) \in Nat /\ Face(T)[1] \in Int
    BY Constants, DigitsAre, HandsType
  <1>7. Face(T)[r] <= Digits(r, ms)
    BY <1>4, <1>6, PastAll
  <1>8. Face(T)[r] \in Int /\ Face(T)[r] >= -1
    BY <1>4, HandsType
  <1>9. Digits(r, ms) \div SlotCount = 0
    BY <1>5, DivZero
  <1>10. Above(Face(T)[r]) = 0
    <2>1. CASE Face(T)[r] = -1
      BY <2>1 DEF Above
    <2>2. CASE Face(T)[r] # -1
      <3>1. Face(T)[r] \in Nat /\ Face(T)[r] < SlotCount
        BY <1>5, <1>7, <1>8, <2>2
      <3>2. Face(T)[r] \div SlotCount = 0
        BY <1>5, <3>1, DivZero
      <3> QED  BY <2>2, <3>2 DEF Above
    <2> QED  BY <2>1, <2>2
  <1>11. Level(Face(T), r, ms)
    BY <1>9, <1>10 DEF Level
  <1>12. Digits(1, ms) >= Face(T)[1]
    BY <1>6
  <1>13. PICK q \in 1..r :
           /\ PushSlots(T, r, t, ms) = {<<q, Index(q, ms), t>>}
           /\ Ahead(Face(T), q, ms) \/ (q = 1 /\ Digits(1, ms) = Face(T)[1])
    BY <1>4, <1>11, <1>12, PushSlotsIs, Zenon
  <1>14. q \in Round
    BY <1>4, <1>13, Constants DEF Round
  <1>15. Ahead(Face(T), q, ms)
    BY <1>6, <1>13
  <1> QED  BY <1>3, <1>13, <1>14, <1>15
-----------------------------------------------------------------------------
LEMMA FaceStill ==
    ASSUME Hands(m_current_pos)
    PROVE  Face({}) = m_current_pos
  <1>1. \A r \in Round : m_current_pos[r] \in Int /\ Pos({}, r) = m_current_pos[r]
    <2> SUFFICES ASSUME NEW r \in Round
                 PROVE  m_current_pos[r] \in Int /\ Pos({}, r) = m_current_pos[r]
      OBVIOUS
    <2>1. m_current_pos[r] \in Int
      BY HandsType
    <2> QED  BY <2>1 DEF Pos
  <1>2. m_current_pos = [r \in Round |-> m_current_pos[r]]
    BY DEF Hands
  <1> QED  BY <1>1, <1>2 DEF Face

(* shift_current_pos keeps the hands in step: round 1 moves on, and a round *)
(* above moves exactly when the round below comes full circle.              *)
LEMMA TurnHands ==
    ASSUME Hands(m_current_pos)
    PROVE  Hands(Face(Turning)) /\ Face(Turning)[1] = m_current_pos[1] + 1
  <1> DEFINE c == m_current_pos
             e == Face(Turning)
  <1>1. \A r \in Round : /\ c[r] \in Int /\ c[r] >= -1 /\ (c[r] = -1 => r = 1)
                         /\ r \in Turning => e[r] = c[r] + 1
                         /\ r \notin Turning => e[r] = c[r]
    <2> SUFFICES ASSUME NEW r \in Round
                 PROVE  /\ c[r] \in Int /\ c[r] >= -1 /\ (c[r] = -1 => r = 1)
                        /\ r \in Turning => e[r] = c[r] + 1
                        /\ r \notin Turning => e[r] = c[r]
      OBVIOUS
    <2>1. c[r] \in Int /\ c[r] >= -1 /\ (c[r] = -1 => r = 1)
      BY HandsType
    <2>2. e[r] = Pos(Turning, r)
      BY FaceIs
    <2> QED  BY <2>1, <2>2 DEF Pos
  <1>2. \A r \in Round : e[r] \in Int /\ e[r] >= -1
    BY <1>1
  <1>3. 1 \in Turning /\ 1 \in Round
    BY Constants DEF Turning
  <1>4. ASSUME NEW r \in Round, r > 1
        PROVE  r - 1 \in Round /\ (r \in Turning <=> r - 1 \in Turning /\ Wraps(r - 1))
    <2>1. r - 1 \in Round /\ r \in Nat /\ 1..r - 1 = (1..(r - 1) - 1) \cup {r - 1}
      BY <1>4, SlotMs DEF Round
    <2> QED  BY <2>1 DEF Turning
  <1>5. ASSUME NEW r \in Round, r > 1 PROVE e[r] = Above(e[r - 1])
    <2>1. r - 1 \in Round /\ c[r] = Above(c[r - 1]) /\ c[r - 1] \in Int /\ c[r] \in Int
          /\ SlotCount \in Nat \ {0} /\ c[r - 1] >= -1
      BY <1>1, <1>4, <1>5, Constants DEF Hands
    <2>2. CASE r - 1 \notin Turning
      <3>1. e[r] = c[r] /\ e[r - 1] = c[r - 1]
        BY <1>1, <1>4, <1>5, <2>1, <2>2
      <3> QED  BY <2>1, <3>1
    <2>3. CASE r - 1 \in Turning /\ Wraps(r - 1)
      <3>1. e[r] = c[r] + 1 /\ e[r - 1] = c[r - 1] + 1
        BY <1>1, <1>4, <1>5, <2>1, <2>3
      <3>2. (c[r - 1] + 1) % SlotCount = 0 /\ c[r - 1] # -1
        BY <2>3 DEF Wraps
      <3>3. (c[r - 1] + 1) \div SlotCount = (c[r - 1] \div SlotCount) + 1
        BY <2>1, <3>2, DivNext
      <3>4. e[r - 1] # -1
        BY <2>1, <3>1
      <3> QED  BY <2>1, <3>1, <3>2, <3>3, <3>4 DEF Above
    <2>4. CASE r - 1 \in Turning /\ ~Wraps(r - 1)
      <3>1. e[r] = c[r] /\ e[r - 1] = c[r - 1] + 1
        BY <1>1, <1>4, <1>5, <2>1, <2>4
      <3>2. CASE c[r - 1] = -1
        <4>1. e[r - 1] = 0 /\ c[r] = 0
          BY <2>1, <3>1, <3>2 DEF Above
        <4>2. 0 \div SlotCount = 0
          BY <2>1, DivZero
        <4> QED  BY <3>1, <4>1, <4>2 DEF Above
      <3>3. CASE c[r - 1] # -1
        <4>1. (c[r - 1] + 1) % SlotCount # 0
          BY <2>4, <3>3 DEF Wraps
        <4>2. (c[r - 1] + 1) \div SlotCount = c[r - 1] \div SlotCount
          BY <2>1, <4>1, DivNext
        <4>3. e[r - 1] # -1
          BY <2>1, <3>1, <3>3
        <4> QED  BY <2>1, <3>1, <3>3, <4>2, <4>3 DEF Above
      <3> QED  BY <3>2, <3>3
    <2> QED  BY <2>2, <2>3, <2>4
  <1>6. e \in [Round -> Int]
    <2>1. e = [r \in Round |-> Pos(Turning, r)] /\ \A r \in Round : Pos(Turning, r) = e[r]
      BY DEF Face
    <2> HIDE DEF e
    <2> QED  BY <1>2, <2>1
  <1>7. e[1] = c[1] + 1 /\ e[1] >= -1
    BY <1>1, <1>3
  <1>8. \A r \in Round : r > 1 => e[r] >= 0 /\ e[r] = Above(e[r - 1])
    <2> SUFFICES ASSUME NEW r \in Round, r > 1 PROVE e[r] >= 0 /\ e[r] = Above(e[r - 1])
      OBVIOUS
    <2>1. c[r] >= 0 /\ c[r] \in Int
      BY <1>1 DEF Hands
    <2>2. e[r] >= 0
      BY <1>1, <2>1
    <2> QED  BY <1>5, <2>2
  <1> QED  BY <1>6, <1>7, <1>8 DEF Hands

(* A hand does not come full circle past a time that is ahead of it. *)
LEMMA NoWrap ==
    ASSUME Hands(m_current_pos), NEW r \in Round, NEW ms \in Nat, Ahead(m_current_pos, r, ms)
    PROVE  /\ ~Wraps(r)
           /\ m_current_pos[r] # -1 =>
                 (m_current_pos[r] + 1) \div SlotCount = m_current_pos[r] \div SlotCount
  <1> DEFINE h == m_current_pos[r]
             d == Digits(r, ms)
  <1>1. h \in Int /\ h >= -1 /\ d \in Int /\ SlotCount \in Nat \ {0}
    BY HandsType, DigitsAre, Constants
  <1>2. d > h /\ (h # -1 => d \div SlotCount = h \div SlotCount)
    BY DEF Ahead, Level, Above
  <1>3. Wraps(r) <=> (h + 1) % SlotCount = 0 /\ h # -1
    BY DEF Wraps
  <1> HIDE DEF h, d
  <1>4. h + 1 \in Int /\ h + 1 <= d
    BY <1>1, <1>2
  <1>5. (h + 1) \div SlotCount <= d \div SlotCount
    BY <1>1, <1>4, DivMonotonic
  <1>6. ASSUME h # -1 PROVE (h + 1) % SlotCount # 0
    <2>1. SUFFICES ASSUME (h + 1) % SlotCount = 0 PROVE FALSE
      OBVIOUS
    <2>2. (h + 1) \div SlotCount = (h \div SlotCount) + 1
      BY <1>1, <2>1, DivNext
    <2>3. h \div SlotCount \in Int
      BY <1>1, DivType, Zenon
    <2> QED  BY <1>2, <1>5, <1>6, <2>2, <2>3
  <1>7. h # -1 => (h + 1) \div SlotCount = h \div SlotCount
    BY <1>1, <1>6, DivNext
  <1> QED  BY <1>3, <1>6, <1>7 DEF h

(* When the hands turn, a timer is still ahead, or its hand has reached it: *)
(* its slot is the one at the hand.                                         *)
Reached(e, r, ms) == Digits(r, ms) = e[r] /\ Level(e, r, ms)

LEMMA TurnNode ==
    ASSUME Hands(m_current_pos), NEW r \in Round, NEW ms \in Nat, Ahead(m_current_pos, r, ms)
    PROVE  LET e == Face(Turning)
           IN  /\ r \notin Turning => Ahead(e, r, ms)
               /\ Ahead(e, r, ms) \/ Reached(e, r, ms)
               /\ Reached(e, r, ms) => e[r] # -1
  <1> DEFINE c == m_current_pos
             e == Face(Turning)
  <1>1. c[r] \in Int /\ c[r] >= -1 /\ Digits(r, ms) \in Nat
    BY HandsType, DigitsAre
  <1>2. Digits(r, ms) > c[r] /\ Digits(r, ms) \div SlotCount = Above(c[r])
    BY DEF Ahead, Level
  <1>3. e[r] = c[r] + (IF r \in Turning THEN 1 ELSE 0)
    BY FaceIs DEF Pos
  <1> HIDE DEF e
  <1>4. CASE r \notin Turning
    <2>1. e[r] = c[r]
      BY <1>1, <1>3, <1>4
    <2>2. Ahead(e, r, ms)
      BY <1>2, <2>1 DEF Ahead, Level
    <2>3. Reached(e, r, ms) => e[r] # -1
      BY <1>1 DEF Reached
    <2> QED  BY <1>4, <2>2, <2>3 DEF e
  <1>5. CASE r \in Turning
    <2>1. e[r] = c[r] + 1
      BY <1>1, <1>3, <1>5
    <2>2. e[r] \in Nat /\ Digits(r, ms) >= e[r] /\ SlotCount \in Nat \ {0}
      BY <1>1, <1>2, <2>1, Constants
    <2>3. Above(e[r]) = Above(c[r])
      <3>1. CASE c[r] = -1
        <4>1. e[r] = 0 /\ 0 \div SlotCount = 0
          BY <2>1, <2>2, <3>1, DivZero
        <4> QED  BY <3>1, <4>1 DEF Above
      <3>2. CASE c[r] # -1
        <4>1. (c[r] + 1) \div SlotCount = c[r] \div SlotCount
          BY <3>2, NoWrap
        <4>2. e[r] # -1
          BY <2>2
        <4> QED  BY <2>1, <3>2, <4>1, <4>2 DEF Above
      <3> QED  BY <3>1, <3>2
    <2>4. Level(e, r, ms)
      BY <1>2, <2>3 DEF Level
    <2>5. Digits(r, ms) > e[r] \/ Digits(r, ms) = e[r]
      BY <1>1, <2>2
    <2> QED  BY <1>5, <2>2, <2>4, <2>5 DEF Ahead, Reached, e
  <1> QED  BY <1>4, <1>5
-----------------------------------------------------------------------------
(* The inductive invariant.  The hands are in step with the ticks; every   *)
(* timer removetimer can find is in one slot, and nothing else is; the     *)
(* slot is the one of the time it is due, ahead of the hand of its round   *)
(* and within the turn that hand is in; and the life of each timer: what   *)
(* is known of one that was never added, is being added, is in the wheel,  *)
(* or has left it.                                                         *)
OneEach(X, A) ==
    /\ \A p \in X : p[3] \in A
    /\ \A t \in A : \E p \in X : p[3] = t
    /\ \A p, q \in X : p[3] = q[3] => p = q
HandsOK == Hands(m_current_pos) /\ m_current_pos[1] = ticks - 1
Placed == \A p \in m_slots :
    /\ p[2] = Index(p[1], m_ms[p[3]])
    /\ Ahead(m_current_pos, p[1], m_ms[p[3]])
OneSlot == OneEach(m_slots, m_timer)
Fresh(t) ==
    /\ queue[t] = <<>> /\ fired[t] = 0 /\ m_count[t] = Count[t]
    /\ t \notin m_timer /\ t \notin removed
Exact(t) ==
    /\ fired[t] + Len(queue[t]) + m_count[t] = Count[t]
    /\ t \notin m_timer /\ m_count[t] > 0 => NewTimer(t) \/ m_ms[t] >= Span
LifeOf(t) ==
    /\ m_ms[t] >= -1 /\ m_count[t] <= Count[t]
    /\ m_ms[t] = -1 \/ t \in adding => Fresh(t)
    /\ t \in adding => m_ms[t] >= 0
    /\ t \in m_timer => m_count[t] >= 1 /\ m_ms[t] \in Nat /\ m_ms[t] < Span
    /\ t \notin removed \cup adding => Exact(t)
    /\ \A i \in DOMAIN queue[t] : queue[t][i] < elapsed
Life == \A t \in Timers : LifeOf(t)
WheelInv == TypeOK /\ HandsOK /\ Placed /\ OneSlot /\ Life

(* What the invariant says of one node. *)
LEMMA NodeIs ==
    ASSUME TypeOK, HandsOK, Placed, OneSlot, Life, NEW p \in m_slots
    PROVE  /\ p[1] \in Round /\ p[2] \in Slot /\ p[3] \in Timers /\ p = <<p[1], p[2], p[3]>>
           /\ p[3] \in m_timer /\ m_ms[p[3]] \in Nat /\ m_ms[p[3]] < Span
           /\ p[2] = Index(p[1], m_ms[p[3]]) /\ Ahead(m_current_pos, p[1], m_ms[p[3]])
           /\ Digits(1, m_ms[p[3]]) >= ticks
  <1>1. p[1] \in Round /\ p[2] \in Slot /\ p[3] \in Timers /\ p = <<p[1], p[2], p[3]>>
    <2>1. p \in Round \X Slot \X Timers
      BY DEF TypeOK
    <2> QED  BY <2>1
  <1>2. p[3] \in m_timer
    BY DEF OneSlot, OneEach
  <1>3. m_ms[p[3]] \in Nat /\ m_ms[p[3]] < Span
    BY <1>1, <1>2 DEF Life, LifeOf
  <1>4. p[2] = Index(p[1], m_ms[p[3]]) /\ Ahead(m_current_pos, p[1], m_ms[p[3]])
    BY DEF Placed
  <1>5. Digits(1, m_ms[p[3]]) >= ticks
    <2>1. Hands(m_current_pos) /\ m_current_pos[1] = ticks - 1 /\ ticks \in Int /\ 1 \in Round
      BY Constants DEF HandsOK, TypeOK
    <2>2. Digits(1, m_ms[p[3]]) \in Nat /\ Digits(p[1], m_ms[p[3]]) \in Nat
          /\ m_current_pos[p[1]] \in Int
      BY <1>1, <1>3, <2>1, DigitsAre, HandsType
    <2>3. ~(Digits(p[1], m_ms[p[3]]) <= m_current_pos[p[1]])
      BY <1>4, <2>2 DEF Ahead
    <2>4. ~(Digits(1, m_ms[p[3]]) <= m_current_pos[1])
      BY <1>1, <1>3, <2>1, <2>3, BehindAll
    <2> QED  BY <2>1, <2>2, <2>4
  <1> QED  BY <1>1, <1>2, <1>3, <1>4, <1>5

(* A slot of a turned wheel: ahead of its hand, or the one the first hand  *)
(* has just reached.                                                       *)
Seated(e, p, ms) ==
    /\ p[2] = Index(p[1], ms)
    /\ Ahead(e, p[1], ms) \/ (p[1] = 1 /\ Digits(1, ms) = e[1])
Falls(p) == /\ p[1] \in Turning \ {1} /\ p[2] = Hand(Turning, p[1])
            /\ ~(p[1] = Rounds /\ Wraps(Rounds))
Drop(p) == PushSlots(Turning, p[1] - 1, p[3], m_ms[p[3]])

LEMMA CascadedIs ==
    \A x : x \in Cascaded(Turning) <=>
             \E p \in m_slots : (~Falls(p) /\ x = p) \/ (Falls(p) /\ x \in Drop(p))
  <1> DEFINE falling == {p \in m_slots : /\ p[1] \in Turning \ {1} /\ p[2] = Hand(Turning, p[1])
                                         /\ ~(p[1] = Rounds /\ Wraps(Rounds))}
             D == {PushSlots(Turning, p[1] - 1, p[3], m_ms[p[3]]) : p \in falling}
  <1>1. Cascaded(Turning) = (m_slots \ falling) \cup UNION D
    BY DEF Cascaded
  <1>2. \A p : p \in falling <=> p \in m_slots /\ Falls(p)
    BY DEF Falls
  <1> HIDE DEF falling
  <1>3. \A x : x \in UNION D <=> \E p \in falling : x \in Drop(p)
    BY DEF Drop
  <1> HIDE DEF D
  <1> QED  BY <1>1, <1>2, <1>3

(* A timer that falls lands in one slot of a round below. *)
LEMMA DropIs ==
    ASSUME TypeOK, HandsOK, Placed, OneSlot, Life, NEW p \in m_slots, Falls(p)
    PROVE  \E x \in Round \X Slot \X Timers :
             /\ Drop(p) = {x} /\ x[3] = p[3]
             /\ Seated(Face(Turning), x, m_ms[p[3]])
  <1> DEFINE e == Face(Turning)
             ms == m_ms[p[3]]
             r == p[1]
  <1>1. r \in Round /\ p[3] \in Timers /\ ms \in Nat /\ p[2] = Index(r, ms)
        /\ Ahead(m_current_pos, r, ms) /\ Digits(1, ms) >= ticks
    BY NodeIs
  <1>2. Hands(m_current_pos) /\ m_current_pos[1] = ticks - 1 /\ ticks \in Int
    BY DEF HandsOK, TypeOK
  <1>3. Hands(e) /\ e[1] = ticks
    BY <1>2, TurnHands
  <1>4. r \in Turning /\ r > 1 /\ p[2] = e[r] % SlotCount
    <2>1. r \in Turning /\ r # 1 /\ p[2] = Hand(Turning, r)
      BY DEF Falls
    <2>2. r > 1
      BY <1>1, <2>1 DEF Round
    <2>3. Hand(Turning, r) = e[r] % SlotCount
      BY <1>1, FaceIs
    <2> QED  BY <2>1, <2>2, <2>3
  <1> HIDE DEF e, ms
  <1>5. Ahead(e, r, ms) \/ Reached(e, r, ms)
    BY <1>1, <1>2, TurnNode DEF e
  <1>6. Digits(r, ms) = e[r]
    <2>1. Level(e, r, ms)
      BY <1>5 DEF Ahead, Reached
    <2>2. e[r] # -1
      BY <1>1, <1>3, <1>4, HandsType
    <2> QED  BY <1>1, <1>3, <1>4, <2>1, <2>2, LevelSlots, Zenon
  <1>7. r - 1 \in Round
    BY <1>1, <1>4, SlotMs
  <1>8. Digits(r, ms) <= e[r] /\ Digits(1, ms) >= e[1]
    <2>1. Digits(r, ms) \in Nat
      BY <1>1, DigitsAre
    <2> QED  BY <1>1, <1>3, <1>6, <2>1
  <1>9. Level(e, r - 1, ms)
    BY <1>1, <1>3, <1>4, <1>8, LevelBelow
  <1>10. PICK q \in 1..(r - 1) :
           /\ PushSlots(Turning, r - 1, p[3], ms) = {<<q, Index(q, ms), p[3]>>}
           /\ Ahead(e, q, ms) \/ (q = 1 /\ Digits(1, ms) = e[1])
    BY <1>1, <1>3, <1>7, <1>8, <1>9, PushSlotsIs DEF e
  <1>11. q \in Round
    BY <1>7, <1>10, Constants DEF Round
  <1>12. Index(q, ms) \in Slot
    BY <1>1, <1>11, DigitsAre
  <1> DEFINE x == <<q, Index(q, ms), p[3]>>
  <1>13. x \in Round \X Slot \X Timers /\ x[1] = q /\ x[2] = Index(q, ms) /\ x[3] = p[3]
    BY <1>1, <1>11, <1>12
  <1>14. Drop(p) = {x}
    BY <1>10 DEF Drop, ms
  <1> HIDE DEF x
  <1>15. Seated(e, x, ms)
    BY <1>10, <1>13 DEF Seated
  <1> QED  BY <1>13, <1>14, <1>15 DEF e, ms
-----------------------------------------------------------------------------
(* The wheel after the hands have turned and the buckets have fallen: each *)
(* timer is in one slot of its own, and those at the first hand are the    *)
(* ones that are due.                                                      *)
LEMMA StaysIs ==
    ASSUME TypeOK, HandsOK, Placed, OneSlot, Life, NEW p \in m_slots, ~Falls(p)
    PROVE  Seated(Face(Turning), p, m_ms[p[3]])
  <1> DEFINE e == Face(Turning)
             ms == m_ms[p[3]]
             r == p[1]
  <1>1. r \in Round /\ ms \in Nat /\ p[2] = Index(r, ms) /\ Ahead(m_current_pos, r, ms)
    BY NodeIs
  <1>2. Hands(m_current_pos)
    BY DEF HandsOK
  <1>3. Hands(e) /\ 1 \in Round
    BY <1>2, TurnHands, Constants
  <1> HIDE DEF e, ms
  <1>4. /\ r \notin Turning => Ahead(e, r, ms)
        /\ Ahead(e, r, ms) \/ Reached(e, r, ms)
        /\ Reached(e, r, ms) => e[r] # -1
    BY <1>1, <1>2, TurnNode DEF e
  <1>5. ~Wraps(r)
    BY <1>1, <1>2, NoWrap
  <1>6. CASE Ahead(e, r, ms)
    BY <1>1, <1>6 DEF Seated, e, ms
  <1>7. CASE ~Ahead(e, r, ms)
    <2>1. r \in Turning /\ Level(e, r, ms) /\ Digits(r, ms) = e[r] /\ e[r] # -1
      BY <1>4, <1>7 DEF Reached
    <2>2. p[2] = e[r] % SlotCount
      BY <1>1, <1>3, <2>1, LevelSlots, Zenon
    <2>3. p[2] = Hand(Turning, r)
      BY <1>1, <2>2, FaceIs DEF e
    <2>4. r = 1
      BY <1>5, <2>1, <2>3 DEF Falls
    <2> QED  BY <1>1, <2>1, <2>4 DEF Seated, e, ms
  <1> QED  BY <1>6, <1>7

LEMMA FallenIs ==
    ASSUME TypeOK, HandsOK, Placed, OneSlot, Life
    PROVE  /\ OneEach(Cascaded(Turning), m_timer)
           /\ \A x \in Cascaded(Turning) :
                /\ x \in Round \X Slot \X Timers
                /\ Seated(Face(Turning), x, m_ms[x[3]])
  <1> DEFINE F == Cascaded(Turning)
             e == Face(Turning)
             From(x, p) == (~Falls(p) /\ x = p) \/ (Falls(p) /\ x \in Drop(p))
  <1>1. \A x : x \in F <=> \E p \in m_slots : From(x, p)
    BY CascadedIs
  <1>2. ASSUME NEW p \in m_slots, NEW x, From(x, p)
        PROVE  /\ x \in Round \X Slot \X Timers /\ x[3] = p[3]
               /\ Seated(e, x, m_ms[x[3]])
               /\ \A y : From(y, p) => y = x
    <2>1. CASE ~Falls(p)
      <3>1. x = p /\ \A y : From(y, p) => y = x
        BY <1>2, <2>1
      <3>2. Seated(e, p, m_ms[p[3]])
        BY <2>1, StaysIs
      <3>3. p \in Round \X Slot \X Timers
        BY DEF TypeOK
      <3> QED  BY <3>1, <3>2, <3>3
    <2>2. CASE Falls(p)
      <3>1. PICK y \in Round \X Slot \X Timers :
              Drop(p) = {y} /\ y[3] = p[3] /\ Seated(e, y, m_ms[p[3]])
        BY <2>2, DropIs
      <3>2. x = y /\ \A z : From(z, p) => z = x
        BY <1>2, <2>2, <3>1
      <3> QED  BY <3>1, <3>2
    <2> QED  BY <2>1, <2>2
  <1>3. ASSUME NEW p \in m_slots PROVE \E x : From(x, p)
    <2>1. CASE ~Falls(p)
      BY <2>1
    <2>2. CASE Falls(p)
      BY <2>2, DropIs
    <2> QED  BY <2>1, <2>2
  <1> HIDE DEF F, e, From
  <1>4. \A x \in F : x \in Round \X Slot \X Timers /\ Seated(e, x, m_ms[x[3]])
    BY <1>1, <1>2
  <1>5. \A x \in F : x[3] \in m_timer
    BY <1>1, <1>2, NodeIs
  <1>6. ASSUME NEW t \in m_timer PROVE \E x \in F : x[3] = t
    <2>1. PICK p \in m_slots : p[3] = t
      BY DEF OneSlot, OneEach
    <2>2. PICK x : From(x, p)
      BY <1>3
    <2> QED  BY <1>1, <1>2, <2>1, <2>2
  <1>7. ASSUME NEW x \in F, NEW y \in F, x[3] = y[3] PROVE x = y
    <2>1. PICK p \in m_slots : From(x, p)
      BY <1>1
    <2>2. PICK q \in m_slots : From(y, q)
      BY <1>1
    <2>3. p[3] = q[3]
      BY <1>2, <1>7, <2>1, <2>2
    <2>4. p = q
      BY <2>3 DEF OneSlot, OneEach
    <2> QED  BY <1>2, <2>1, <2>2, <2>4
  <1>8. OneEach(F, m_timer)
    BY <1>5, <1>6, <1>7 DEF OneEach
  <1> QED  BY <1>4, <1>8 DEF F, e

Met == {p \in Cascaded(Turning) : /\ p[1] = 1 /\ p[2] = Hand(Turning, 1)
                                  /\ ~(Rounds = 1 /\ Wraps(1))}

LEMMA MetIs ==
    ASSUME TypeOK, HandsOK, Placed, OneSlot, Life, NEW x \in Cascaded(Turning)
    PROVE  /\ x \in Met => Digits(1, m_ms[x[3]]) = ticks
           /\ x \notin Met => Ahead(Face(Turning), x[1], m_ms[x[3]])
  <1> DEFINE e == Face(Turning)
             ms == m_ms[x[3]]
             d == Digits(1, ms)
  <1>1. x \in Round \X Slot \X Timers /\ Seated(e, x, ms) /\ x[3] \in m_timer
    BY FallenIs DEF OneEach
  <1>2. ms \in Nat /\ 1 \in Round
    BY <1>1, Constants DEF Life, LifeOf
  <1>3. Hands(m_current_pos) /\ m_current_pos[1] = ticks - 1 /\ ticks \in Nat
    BY DEF HandsOK, TypeOK
  <1>4. Hands(e) /\ e[1] = ticks /\ e[1] # -1
    BY <1>3, TurnHands
  <1>5. Hand(Turning, 1) = e[1] % SlotCount
    BY <1>2, FaceIs
  <1>6. d \in Nat
    BY <1>2, DigitsAre
  <1> HIDE DEF e, ms
  <1>7. ASSUME x \in Met PROVE d = ticks
    <2>1. x[1] = 1 /\ x[2] = e[1] % SlotCount /\ x[2] = Index(1, ms)
      BY <1>1, <1>5, <1>7 DEF Met, Seated
    <2>2. CASE Ahead(e, 1, ms)
      <3>1. Level(e, 1, ms)
        BY <2>2 DEF Ahead
      <3> QED  BY <1>2, <1>4, <2>1, <3>1, LevelSlots, Zenon
    <2>3. CASE ~Ahead(e, 1, ms)
      BY <1>1, <1>4, <2>1, <2>3 DEF Seated
    <2> QED  BY <2>2, <2>3
  <1>8. ASSUME x \notin Met PROVE Ahead(e, x[1], ms)
    <2>1. SUFFICES ASSUME ~Ahead(e, x[1], ms) PROVE FALSE
      OBVIOUS
    <2>2. x[1] = 1 /\ d = e[1] /\ x[2] = Index(1, ms)
      BY <1>1, <2>1 DEF Seated
    <2>3. PICK p \in m_slots : (~Falls(p) /\ x = p) \/ (Falls(p) /\ x \in Drop(p))
      BY CascadedIs
    <2>4. CASE Rounds = 1
      <3>1. ~Falls(p)
        <4>1. p[1] \in Round
          BY NodeIs
        <4>2. p[1] = 1
          BY <2>4, <4>1 DEF Round
        <4> QED  BY <4>2 DEF Falls
      <3>2. Ahead(m_current_pos, 1, ms)
        BY <2>2, <2>3, <3>1, NodeIs DEF ms
      <3>3. /\ 1 \notin Turning => Ahead(e, 1, ms)
            /\ Ahead(e, 1, ms) \/ Reached(e, 1, ms)
        BY <1>2, <1>3, <3>2, TurnNode DEF e
      <3>4. Level(e, 1, ms)
        BY <2>1, <2>2, <3>3 DEF Reached
      <3>5. Index(1, ms) = e[1] % SlotCount
        BY <1>2, <1>4, <2>2, <3>4, LevelSlots, Zenon
      <3>6. ~Wraps(1)
        BY <1>2, <1>3, <3>2, NoWrap
      <3> QED  BY <1>5, <1>8, <2>2, <3>5, <3>6 DEF Met
    <2>5. CASE Rounds # 1
      <3>1. Index(1, ms) = d % SlotCount
        BY <1>2, DigitsAre
      <3> QED  BY <1>5, <1>8, <2>2, <2>5, <3>1 DEF Met
    <2> QED  BY <2>4, <2>5
  <1> QED  BY <1>7, <1>8 DEF e, ms
-----------------------------------------------------------------------------
LEMMA ElapsedType ==
    ASSUME TypeOK
    PROVE  ticks \in Nat /\ elapsed \in Nat /\ now \in Nat
  <1>1. ticks \in Nat /\ now \in Nat
    BY DEF TypeOK
  <1>2. ticks * Precision \in Nat
    BY <1>1, Constants, Product
  <1> QED  BY <1>1, <1>2 DEF elapsed

LEMMA Types ==
    ASSUME TypeOK, NEW t \in Timers
    PROVE  /\ m_ms[t] \in Int /\ m_count[t] \in Nat /\ fired[t] \in Nat
           /\ queue[t] \in Seq(Int) /\ Len(queue[t]) \in Nat
  <1>1. m_ms \in [Timers -> Int] /\ m_count \in [Timers -> Nat]
        /\ queue \in [Timers -> Seq(Int)] /\ fired \in [Timers -> Nat]
    BY DEF TypeOK
  <1>2. queue[t] \in Seq(Int)
    BY <1>1
  <1>3. Len(queue[t]) \in Nat
    BY <1>2
  <1> QED  BY <1>1, <1>2, <1>3

(* A timer nothing has happened to, other than its due times coming nearer *)
LEMMA LifeKeeps ==
    ASSUME TypeOK, NEW t \in Timers, LifeOf(t),
           m_ms'[t] = m_ms[t], m_count'[t] = m_count[t], fired'[t] = fired[t],
           queue'[t] = queue[t], t \in m_timer' <=> t \in m_timer,
           t \in removed' <=> t \in removed, t \in adding' <=> t \in adding,
           elapsed' \in Nat, elapsed <= elapsed'
    PROVE  LifeOf(t)'
  <1>1. Fresh(t)' <=> Fresh(t)
    BY DEF Fresh
  <1>2. Exact(t)' <=> Exact(t)
    BY DEF Exact, NewTimer
  <1>3. ASSUME NEW i \in DOMAIN queue'[t] PROVE queue'[t][i] < elapsed'
    <2>1. queue[t] \in Seq(Int) /\ elapsed \in Nat /\ i \in DOMAIN queue[t]
      BY <1>3, Types, ElapsedType
    <2>2. queue[t][i] \in Int
      BY <2>1
    <2>3. queue[t][i] < elapsed
      BY <2>1 DEF LifeOf
    <2> QED  BY <2>1, <2>2, <2>3
  <1>4. t \in removed' \cup adding' <=> t \in removed \cup adding
    OBVIOUS
  <1> QED  BY <1>1, <1>2, <1>3, <1>4 DEF LifeOf

(* The wheel is left alone, and so are the times of the timers in it. *)
LEMMA WheelKeeps ==
    ASSUME TypeOK, HandsOK, Placed, OneSlot, UNCHANGED wheelVars, m_timer' = m_timer,
           \A t \in m_timer : m_ms'[t] = m_ms[t]
    PROVE  HandsOK' /\ Placed' /\ OneSlot'
  <1>1. m_slots' = m_slots /\ m_current_pos' = m_current_pos /\ ticks' = ticks
    BY DEF wheelVars
  <1>2. HandsOK'
    BY <1>1 DEF HandsOK, Hands
  <1>3. OneSlot'
    BY <1>1 DEF OneSlot, OneEach
  <1>4. \A p \in m_slots : m_ms'[p[3]] = m_ms[p[3]]
    BY DEF OneSlot, OneEach
  <1>5. Placed'
    BY <1>1, <1>4 DEF Placed
  <1> QED  BY <1>2, <1>3, <1>5

LEMMA ClockKeeps ==
    ASSUME WheelInv, Clock
    PROVE  WheelInv'
  <1>1. TypeOK /\ HandsOK /\ Placed /\ OneSlot /\ Life
    BY DEF WheelInv
  <1>2. now' = now + 1 /\ now < MaxNow /\ UNCHANGED <<wheelVars, nodeVars, removed, adding, queue, fired>>
    BY DEF Clock
  <1>3. HandsOK' /\ Placed' /\ OneSlot'
    BY <1>1, <1>2, WheelKeeps DEF nodeVars
  <1>4. now' \in 0..MaxNow
    BY <1>1, <1>2, Constants DEF TypeOK
  <1>5. TypeOK'
    BY <1>1, <1>2, <1>4 DEF TypeOK, wheelVars, nodeVars
  <1>6. Life'
    <2> SUFFICES ASSUME NEW t \in Timers PROVE LifeOf(t)'
      BY DEF Life
    <2>1. LifeOf(t) /\ elapsed' = elapsed /\ elapsed \in Nat
      BY <1>1, <1>2, ElapsedType DEF Life, elapsed, wheelVars
    <2> QED  BY <1>1, <1>2, <2>1, LifeKeeps DEF nodeVars
  <1> QED  BY <1>3, <1>5, <1>6 DEF WheelInv

LEMMA removetimerKeeps ==
    ASSUME WheelInv, NEW t \in Timers, removetimer(t)
    PROVE  WheelInv'
  <1>1. TypeOK /\ HandsOK /\ Placed /\ OneSlot /\ Life
    BY DEF WheelInv
  <1>2. /\ t \in m_timer /\ removed' = removed \cup {t}
        /\ UNCHANGED <<now, wheelVars, nodeVars, adding, queue, fired>>
    BY DEF removetimer
  <1>3. HandsOK' /\ Placed' /\ OneSlot'
    BY <1>1, <1>2, WheelKeeps DEF nodeVars
  <1>4. TypeOK'
    <2>1. removed' \in SUBSET Timers
      BY <1>1, <1>2 DEF TypeOK
    <2> QED  BY <1>1, <1>2, <2>1 DEF TypeOK, wheelVars, nodeVars
  <1>5. elapsed' = elapsed /\ elapsed \in Nat
    BY <1>1, <1>2, ElapsedType DEF elapsed, wheelVars
  <1>6. Life'
    <2> SUFFICES ASSUME NEW u \in Timers PROVE LifeOf(u)'
      BY DEF Life
    <2>1. LifeOf(u)
      BY <1>1 DEF Life
    <2>2. CASE u # t
      BY <1>1, <1>2, <1>5, <2>1, <2>2, LifeKeeps DEF nodeVars
    <2>3. CASE u = t
      <3>1. ~(m_ms[t] = -1 \/ t \in adding)
        BY <1>2, <2>1, <2>3 DEF LifeOf, Fresh
      <3>2. m_ms' = m_ms /\ m_count' = m_count /\ m_timer' = m_timer /\ t \in removed'
            /\ queue' = queue /\ adding' = adding
        BY <1>2 DEF nodeVars
      <3> QED  BY <1>5, <2>1, <2>3, <3>1, <3>2 DEF LifeOf
    <2> QED  BY <2>2, <2>3
  <1> QED  BY <1>3, <1>4, <1>6 DEF WheelInv

LEMMA CallbackKeeps ==
    ASSUME WheelInv, NEW t \in Timers, Callback(t)
    PROVE  WheelInv'
  <1>1. TypeOK /\ HandsOK /\ Placed /\ OneSlot /\ Life
    BY DEF WheelInv
  <1>2. /\ queue[t] # <<>>
        /\ queue' = [queue EXCEPT ![t] = Tail(@)]
        /\ fired' = [fired EXCEPT ![t] = @ + IF t \in removed THEN 0 ELSE 1]
        /\ UNCHANGED <<now, wheelVars, nodeVars, removed, adding>>
    BY DEF Callback
  <1>3. HandsOK' /\ Placed' /\ OneSlot'
    BY <1>1, <1>2, WheelKeeps DEF nodeVars
  <1>4. queue[t] \in Seq(Int) /\ fired[t] \in Nat
        /\ queue \in [Timers -> Seq(Int)] /\ fired \in [Timers -> Nat]
    BY <1>1, Types DEF TypeOK
  <1>5. /\ Tail(queue[t]) \in Seq(Int) /\ Len(queue[t]) \in Nat /\ Len(queue[t]) > 0
        /\ Len(Tail(queue[t])) = Len(queue[t]) - 1
        /\ DOMAIN Tail(queue[t]) = 1..(Len(queue[t]) - 1) /\ DOMAIN queue[t] = 1..Len(queue[t])
        /\ \A i \in 1..(Len(queue[t]) - 1) : Tail(queue[t])[i] = queue[t][i + 1]
    BY <1>2, <1>4
  <1>6. /\ queue'[t] = Tail(queue[t]) /\ \A u \in Timers : u # t => queue'[u] = queue[u]
        /\ queue' \in [Timers -> Seq(Int)]
    BY <1>2, <1>4, <1>5
  <1>7. /\ fired'[t] = fired[t] + (IF t \in removed THEN 0 ELSE 1)
        /\ \A u \in Timers : u # t => fired'[u] = fired[u]
    BY <1>2, <1>4
  <1>8. fired' \in [Timers -> Nat]
    BY <1>2, <1>4
  <1>9. TypeOK'
    BY <1>1, <1>2, <1>6, <1>8 DEF TypeOK, wheelVars, nodeVars
  <1>10. elapsed' = elapsed /\ elapsed \in Nat
    BY <1>1, <1>2, ElapsedType DEF elapsed, wheelVars
  <1>11. Life'
    <2> SUFFICES ASSUME NEW u \in Timers PROVE LifeOf(u)'
      BY DEF Life
    <2>1. LifeOf(u)
      BY <1>1 DEF Life
    <2>2. CASE u # t
      BY <1>1, <1>2, <1>6, <1>7, <1>10, <2>1, <2>2, LifeKeeps DEF nodeVars
    <2>3. CASE u = t
      <3>1. ~(m_ms[t] = -1 \/ t \in adding)
        BY <1>2, <2>1, <2>3 DEF LifeOf, Fresh
      <3>2. m_ms' = m_ms /\ m_count' = m_count /\ m_timer' = m_timer /\ removed' = removed
            /\ adding' = adding
        BY <1>2 DEF nodeVars
      <3>3. m_count[t] \in Nat /\ (t \notin removed => fired'[t] = fired[t] + 1)
        BY <1>1, <1>4, <1>7, Types
      <3>4. t \notin removed \cup adding => Exact(t)'
        <4> SUFFICES ASSUME t \notin removed \cup adding PROVE Exact(t)'
          OBVIOUS
        <4>1. Exact(t)
          BY <2>1, <2>3 DEF LifeOf
        <4>2. fired'[t] + Len(queue'[t]) + m_count'[t] = Count[t]
          BY <1>4, <1>5, <1>6, <3>2, <3>3, <4>1 DEF Exact
        <4> QED  BY <3>2, <4>1, <4>2 DEF Exact, NewTimer
      <3>5. ASSUME NEW i \in DOMAIN queue'[t] PROVE queue'[t][i] < elapsed'
        <4>1. i \in 1..(Len(queue[t]) - 1) /\ i + 1 \in 1..Len(queue[t])
          <5>1. i \in 1..(Len(queue[t]) - 1)
            BY <1>5, <1>6, <3>5, Zenon
          <5>2. Len(queue[t]) \in Nat
            BY <1>5
          <5> QED  BY <5>1, <5>2
        <4>2. queue[t][i + 1] < elapsed
          BY <1>5, <2>1, <2>3, <4>1 DEF LifeOf
        <4> QED  BY <1>5, <1>6, <1>10, <4>1, <4>2
      <3> QED  BY <2>1, <2>3, <3>1, <3>2, <3>4, <3>5 DEF LifeOf
    <2> QED  BY <2>2, <2>3
  <1> QED  BY <1>3, <1>9, <1>11 DEF WheelInv

LEMMA AddReadKeeps ==
    ASSUME WheelInv, NEW t \in Timers, NEW delay \in Delays, AddRead(t, delay)
    PROVE  WheelInv'
  <1>1. TypeOK /\ HandsOK /\ Placed /\ OneSlot /\ Life
    BY DEF WheelInv
  <1>2. /\ NewTimer(t) /\ m_ms' = [m_ms EXCEPT ![t] = delay + now]
        /\ adding' = adding \cup {t}
        /\ UNCHANGED <<now, wheelVars, m_count, m_timer, removed, queue, fired>>
    BY DEF AddRead
  <1>3. delay + now \in Nat
    BY <1>1, Constants, ElapsedType
  <1>4. /\ m_ms'[t] = delay + now /\ \A u \in Timers : u # t => m_ms'[u] = m_ms[u]
        /\ m_ms' \in [Timers -> Int]
    BY <1>1, <1>2, <1>3 DEF TypeOK
  <1>5. LifeOf(t) /\ m_ms[t] = -1 /\ Fresh(t)
    BY <1>1, <1>2 DEF Life, LifeOf, NewTimer
  <1>6. \A u \in m_timer : u \in Timers /\ u # t
    BY <1>1, <1>5 DEF TypeOK, Fresh
  <1>7. HandsOK' /\ Placed' /\ OneSlot'
    BY <1>1, <1>2, <1>4, <1>6, WheelKeeps
  <1>8. TypeOK'
    <2>1. adding' \in SUBSET Timers
      BY <1>1, <1>2 DEF TypeOK
    <2> QED  BY <1>1, <1>2, <1>4, <2>1 DEF TypeOK, wheelVars
  <1>9. elapsed' = elapsed /\ elapsed \in Nat
    BY <1>1, <1>2, ElapsedType DEF elapsed, wheelVars
  <1>10. Life'
    <2> SUFFICES ASSUME NEW u \in Timers PROVE LifeOf(u)'
      BY DEF Life
    <2>1. LifeOf(u)
      BY <1>1 DEF Life
    <2>2. CASE u # t
      BY <1>1, <1>2, <1>4, <1>9, <2>1, <2>2, LifeKeeps
    <2>3. CASE u = t
      <3>1. Fresh(t)'
        BY <1>2, <1>5 DEF Fresh
      <3>2. m_ms'[t] >= 0 /\ m_ms'[t] >= -1 /\ t \in adding' /\ t \notin m_timer'
        BY <1>2, <1>3, <1>4, <1>5 DEF Fresh
      <3>3. m_count'[t] <= Count[t] /\ \A i \in DOMAIN queue'[t] : queue'[t][i] < elapsed'
        BY <1>2, <1>5, <1>9 DEF LifeOf
      <3> QED  BY <2>3, <3>1, <3>2, <3>3 DEF LifeOf
    <2> QED  BY <2>2, <2>3
  <1> QED  BY <1>7, <1>8, <1>10 DEF WheelInv
-----------------------------------------------------------------------------
(* schedule_locked: the firings that are due already *)
Late(t, n) == m_ms[t] + n * Interval[t] < elapsed
Missed(t) == IF Interval[t] = 0 THEN IF Late(t, 0) THEN 1 ELSE 0
             ELSE CHOOSE n \in 0..Count[t] : /\ \A i \in 0..n - 1 : Late(t, i)
                                             /\ n = Count[t] \/ ~Late(t, n)
Due(t) == m_ms[t] + Missed(t) * Interval[t]

LEMMA MissedIs ==
    ASSUME TypeOK, NEW t \in Timers, m_ms[t] \in Nat
    PROVE  /\ Missed(t) \in 0..Count[t] /\ Due(t) \in Nat
           /\ \A i \in 0..(Missed(t) - 1) : Late(t, i)
           /\ Missed(t) < Count[t] => Due(t) >= elapsed
  <1>1. Interval[t] \in Nat /\ Count[t] \in Nat \ {0} /\ elapsed \in Nat
        /\ (Interval[t] = 0 => Count[t] = 1)
    BY Constants, ElapsedType
  <1>2. /\ Missed(t) \in 0..Count[t]
        /\ \A i \in 0..(Missed(t) - 1) : Late(t, i)
        /\ Missed(t) < Count[t] => ~Late(t, Missed(t))
    <2>1. CASE Interval[t] = 0
      <3>1. CASE Late(t, 0)
        <4>1. Missed(t) = 1
          BY <2>1, <3>1 DEF Missed
        <4>2. \A i \in 0..(1 - 1) : i = 0
          OBVIOUS
        <4> QED  BY <1>1, <2>1, <3>1, <4>1, <4>2
      <3>2. CASE ~Late(t, 0)
        <4>1. Missed(t) = 0
          BY <2>1, <3>2 DEF Missed
        <4>2. \A i \in 0..(0 - 1) : FALSE
          OBVIOUS
        <4> QED  BY <1>1, <3>2, <4>1, <4>2
      <3> QED  BY <3>1, <3>2
    <2>2. CASE Interval[t] # 0
      <3> DEFINE W == {n \in 0..Count[t] : n = Count[t] \/ ~Late(t, n)}
                 Ok(n) == (\A i \in 0..n - 1 : Late(t, i)) /\ (n = Count[t] \/ ~Late(t, n))
      <3>1. W \in SUBSET Nat /\ Count[t] \in W
        BY <1>1
      <3>2. PICK n \in W : \A k \in W : n <= k
        <4> HIDE DEF W
        <4> QED  BY <3>1, Lowest
      <3>3. n \in 0..Count[t] /\ (n = Count[t] \/ ~Late(t, n))
        BY <3>2
      <3>4. \A i \in 0..n - 1 : Late(t, i)
        <4> SUFFICES ASSUME NEW i \in 0..n - 1 PROVE Late(t, i)
          OBVIOUS
        <4>1. i \in 0..Count[t] /\ ~(n <= i)
          BY <1>1, <3>3
        <4> QED  BY <3>2, <4>1
      <3>5. Missed(t) = CHOOSE k \in 0..Count[t] : Ok(k)
        BY <2>2 DEF Missed
      <3>6. Ok(n)
        BY <3>3, <3>4
      <3> HIDE DEF Ok
      <3>7. Missed(t) \in 0..Count[t] /\ Ok(Missed(t))
        BY <3>3, <3>5, <3>6
      <3> USE DEF Ok
      <3>8. Missed(t) < Count[t] => Missed(t) # Count[t]
        BY <1>1, <3>7
      <3> QED  BY <3>7, <3>8
    <2> QED  BY <2>1, <2>2
  <1>3. Missed(t) \in Nat
    BY <1>1, <1>2
  <1>4. Missed(t) * Interval[t] \in Nat
    BY <1>1, <1>3, Product
  <1>5. Due(t) \in Nat
    BY <1>4 DEF Due
  <1>6. Missed(t) < Count[t] => Due(t) >= elapsed
    BY <1>1, <1>2, <1>5 DEF Late, Due
  <1> QED  BY <1>2, <1>5, <1>6

Placing(t) == Missed(t) < Count[t] /\ Due(t) < Span

LEMMA AddLockedDoes ==
    ASSUME NEW t, AddLocked(t)
    PROVE  /\ t \in adding /\ adding' = adding \ {t}
           /\ queue' = [queue EXCEPT ![t] =
                          [i \in 1..Missed(t) |-> m_ms[t] + (i - 1) * Interval[t]]]
           /\ m_count' = [m_count EXCEPT ![t] = @ - Missed(t)]
           /\ m_ms' = [m_ms EXCEPT ![t] = Due(t)]
           /\ Placing(t) => /\ m_slots' = m_slots \cup Push({}, t, Due(t))
                            /\ m_timer' = m_timer \cup {t}
           /\ ~Placing(t) => m_slots' = m_slots /\ m_timer' = m_timer
           /\ UNCHANGED <<now, ticks, m_current_pos, removed, fired>>
  BY DEF AddLocked, Missed, Late, Due, Placing

LEMMA AddLockedKeeps ==
    ASSUME WheelInv, NEW t \in Timers, AddLocked(t)
    PROVE  WheelInv'
  <1> DEFINE ms == Due(t)
             missed == Missed(t)
             late == [i \in 1..missed |-> m_ms[t] + (i - 1) * Interval[t]]
  <1>1. TypeOK /\ HandsOK /\ Placed /\ OneSlot /\ Life
    BY DEF WheelInv
  <1>2. /\ t \in adding /\ adding' = adding \ {t}
        /\ queue' = [queue EXCEPT ![t] = late]
        /\ m_count' = [m_count EXCEPT ![t] = @ - missed]
        /\ m_ms' = [m_ms EXCEPT ![t] = ms]
        /\ Placing(t) => m_slots' = m_slots \cup Push({}, t, ms) /\ m_timer' = m_timer \cup {t}
        /\ ~Placing(t) => m_slots' = m_slots /\ m_timer' = m_timer
        /\ UNCHANGED <<now, ticks, m_current_pos, removed, fired>>
    BY AddLockedDoes
  <1>3. LifeOf(t) /\ Fresh(t) /\ m_ms[t] \in Int /\ m_ms[t] >= 0
    BY <1>1, <1>2, Types DEF Life, LifeOf
  <1>4. m_ms[t] \in Nat
    BY <1>3
  <1>5. /\ missed \in 0..Count[t] /\ ms \in Nat
        /\ \A i \in 0..(missed - 1) : Late(t, i)
        /\ missed < Count[t] => ms >= elapsed
    BY <1>1, <1>4, MissedIs
  <1>6. missed \in Nat /\ missed <= Count[t] /\ Count[t] \in Nat /\ Interval[t] \in Nat
        /\ ticks \in Nat /\ elapsed \in Nat
    BY <1>1, <1>5, Constants, ElapsedType
  <1>7. /\ \A i \in 1..missed : m_ms[t] + (i - 1) * Interval[t] \in Int
        /\ \A i \in 1..missed : m_ms[t] + (i - 1) * Interval[t] < elapsed
    <2> SUFFICES ASSUME NEW i \in 1..missed
                 PROVE  /\ m_ms[t] + (i - 1) * Interval[t] \in Int
                        /\ m_ms[t] + (i - 1) * Interval[t] < elapsed
      OBVIOUS
    <2>1. i - 1 \in Nat /\ i - 1 \in 0..(missed - 1)
      BY <1>6
    <2>2. (i - 1) * Interval[t] \in Nat
      BY <1>6, <2>1, Product
    <2> QED  BY <1>4, <1>5, <2>1, <2>2 DEF Late
  <1>8. /\ late \in Seq(Int) /\ Len(late) = missed /\ DOMAIN late = 1..missed
        /\ \A i \in 1..missed : late[i] < elapsed
    BY <1>6, <1>7
  <1> HIDE DEF ms, missed, late
  <1>9. /\ m_ms'[t] = ms /\ \A u \in Timers : u # t => m_ms'[u] = m_ms[u]
        /\ m_ms' \in [Timers -> Int]
    BY <1>1, <1>2, <1>5 DEF TypeOK
  <1>10. m_count[t] = Count[t] /\ fired[t] = 0 /\ queue[t] = <<>> /\ t \notin m_timer
         /\ t \notin removed
    BY <1>3 DEF Fresh
  <1>11. Count[t] - missed \in Nat
    BY <1>6
  <1>12. /\ m_count'[t] = Count[t] - missed
         /\ \A u \in Timers : u # t => m_count'[u] = m_count[u]
         /\ m_count' \in [Timers -> Nat]
    BY <1>1, <1>2, <1>10, <1>11 DEF TypeOK
  <1>13. /\ queue'[t] = late /\ \A u \in Timers : u # t => queue'[u] = queue[u]
         /\ queue' \in [Timers -> Seq(Int)]
    BY <1>1, <1>2, <1>8 DEF TypeOK
  <1>14. Hands(m_current_pos) /\ m_current_pos[1] = ticks - 1 /\ 1 \in Round
    BY <1>1, Constants DEF HandsOK
  <1>15. \A u \in m_timer : u # t
    BY <1>10
  <1>16. \A p \in m_slots : m_ms'[p[3]] = m_ms[p[3]] /\ p[3] # t
    BY <1>1, <1>9, <1>15, NodeIs
  <1>17. HandsOK'
    BY <1>1, <1>2 DEF HandsOK, Hands
  <1>18. /\ Placed' /\ OneSlot' /\ m_timer' \in SUBSET Timers
         /\ m_slots' \in SUBSET (Round \X Slot \X Timers)
         /\ t \in m_timer' <=> Placing(t)
         /\ \A u \in Timers : u # t => (u \in m_timer' <=> u \in m_timer)
    <2>1. CASE ~Placing(t)
      <3>1. m_slots' = m_slots /\ m_timer' = m_timer /\ m_current_pos' = m_current_pos
        BY <1>2, <2>1
      <3>2. Placed'
        BY <1>1, <1>16, <3>1 DEF Placed
      <3>3. OneSlot'
        BY <1>1, <3>1 DEF OneSlot, OneEach
      <3> QED  BY <1>1, <1>10, <2>1, <3>1, <3>2, <3>3 DEF TypeOK
    <2>2. CASE Placing(t)
      <3>1. ms < Span /\ ms >= elapsed
        BY <1>5, <2>2 DEF Placing, ms, missed
      <3>2. Digits(1, ms) >= ticks /\ Digits(1, ms) \in Nat
        <4>1. Digits(1, ms) = ms \div Precision /\ Digits(1, ms) \in Nat
          BY <1>5, <1>14, DigitsAre
        <4>2. ms \div Precision >= ticks
          BY <1>5, <1>6, <3>1, Constants, DivAtLeast DEF elapsed
        <4> QED  BY <4>1, <4>2
      <3>3. Face({}) = m_current_pos
        BY <1>14, FaceStill
      <3>4. Digits(1, ms) > m_current_pos[1]
        BY <1>6, <1>14, <3>2
      <3>5. PICK q \in Round : Push({}, t, ms) = {<<q, Index(q, ms), t>>}
                               /\ Ahead(m_current_pos, q, ms)
        BY <1>5, <1>14, <3>1, <3>3, <3>4, PushIs
      <3> DEFINE x == <<q, Index(q, ms), t>>
      <3>6. x[1] = q /\ x[2] = Index(q, ms) /\ x[3] = t /\ x \in Round \X Slot \X Timers
        <4>1. Index(q, ms) \in Slot
          BY <1>5, DigitsAre
        <4> QED  BY <4>1
      <3>7. m_slots' = m_slots \cup {x} /\ m_timer' = m_timer \cup {t}
            /\ m_current_pos' = m_current_pos
        BY <1>2, <2>2, <3>5
      <3> HIDE DEF x
      <3>8. Placed'
        <4> SUFFICES ASSUME NEW p \in m_slots'
                     PROVE  /\ p[2] = Index(p[1], m_ms'[p[3]])
                            /\ Ahead(m_current_pos, p[1], m_ms'[p[3]])
          BY <3>7 DEF Placed
        <4>1. CASE p \in m_slots
          BY <1>1, <1>16, <4>1 DEF Placed
        <4>2. CASE p = x
          BY <1>9, <3>5, <3>6, <4>2
        <4> QED  BY <3>7, <4>1, <4>2
      <3>9. OneSlot'
        BY <1>1, <1>16, <3>6, <3>7 DEF OneSlot, OneEach
      <3>10. m_timer' \in SUBSET Timers /\ m_slots' \in SUBSET (Round \X Slot \X Timers)
        BY <1>1, <3>6, <3>7 DEF TypeOK
      <3> QED  BY <2>2, <3>7, <3>8, <3>9, <3>10
    <2> QED  BY <2>1, <2>2
  <1>19. TypeOK'
    <2>1. adding' \in SUBSET Timers
      BY <1>1, <1>2 DEF TypeOK
    <2>2. /\ now' \in 0..MaxNow /\ ticks' \in 0..MaxNow /\ removed' \in SUBSET Timers
          /\ m_current_pos' \in [Round -> -1..MaxNow] /\ fired' \in [Timers -> Nat]
      BY <1>1, <1>2 DEF TypeOK
    <2> QED  BY <1>9, <1>12, <1>13, <1>18, <2>1, <2>2, Zenon DEF TypeOK
  <1>20. elapsed' = elapsed
    BY <1>2 DEF elapsed
  <1>21. Life'
    <2> SUFFICES ASSUME NEW u \in Timers PROVE LifeOf(u)'
      BY DEF Life
    <2>1. LifeOf(u)
      BY <1>1 DEF Life
    <2>2. CASE u # t
      <3>1. u \in adding' <=> u \in adding
        BY <1>2, <2>2
      <3>2. /\ m_ms'[u] = m_ms[u] /\ m_count'[u] = m_count[u] /\ queue'[u] = queue[u]
            /\ fired'[u] = fired[u] /\ (u \in m_timer' <=> u \in m_timer)
            /\ (u \in removed' <=> u \in removed)
        BY <1>2, <1>9, <1>12, <1>13, <1>18, <2>2
      <3>3. elapsed' \in Nat /\ elapsed <= elapsed'
        BY <1>6, <1>20
      <3> QED  BY <1>1, <2>1, <3>1, <3>2, <3>3, LifeKeeps
    <2>3. CASE u = t
      <3>1. m_ms'[t] \in Nat /\ m_ms'[t] # -1 /\ m_ms'[t] >= -1 /\ t \notin adding'
        BY <1>2, <1>5, <1>9
      <3>2. m_count'[t] <= Count[t]
        BY <1>6, <1>12
      <3>3. t \in m_timer' => m_count'[t] >= 1 /\ m_ms'[t] < Span
        <4> SUFFICES ASSUME Placing(t) PROVE m_count'[t] >= 1 /\ m_ms'[t] < Span
          BY <1>18
        <4>1. missed < Count[t] /\ ms < Span
          BY DEF Placing, ms, missed
        <4> QED  BY <1>6, <1>9, <1>12, <4>1
      <3>4. fired'[t] + Len(queue'[t]) + m_count'[t] = Count[t]
        <4>1. fired'[t] = 0 /\ Len(queue'[t]) = missed /\ m_count'[t] = Count[t] - missed
          BY <1>2, <1>8, <1>10, <1>12, <1>13
        <4>2. 0 + missed + (Count[t] - missed) = Count[t]
          BY <1>6
        <4> QED  BY <4>1, <4>2
      <3>5. t \notin m_timer' /\ m_count'[t] > 0 => m_ms'[t] >= Span
        <4> SUFFICES ASSUME ~Placing(t), m_count'[t] > 0 PROVE m_ms'[t] >= Span
          BY <1>18
        <4>1. missed < Count[t]
          BY <1>6, <1>12
        <4>2. ~(ms < Span)
          BY <4>1 DEF Placing, ms, missed
        <4>3. Span \in Nat
          <5>1. Rounds \in Round
            BY Constants DEF Round
          <5> QED  BY <5>1, SlotMs, Constants, ProductPositive DEF Span, SlotSum
        <4> QED  BY <1>5, <1>9, <4>2, <4>3
      <3>6. Exact(t)'
        BY <3>4, <3>5 DEF Exact
      <3>7. \A i \in DOMAIN queue'[t] : queue'[t][i] < elapsed'
        BY <1>8, <1>13, <1>20
      <3> QED  BY <2>3, <3>1, <3>2, <3>3, <3>6, <3>7 DEF LifeOf
    <2> QED  BY <2>2, <2>3
  <1> QED  BY <1>17, <1>18, <1>19, <1>21 DEF WheelInv
-----------------------------------------------------------------------------
(* What a tick does, in terms of the timers the first hand has met *)
DueSet == {p[3] : p \in Met}
Firing == DueSet \ removed
Again == {t \in Firing : Interval[t] > 0 /\ m_count[t] > 1}
Stay == {t \in Again : m_ms[t] + Interval[t] < Span}

LEMMA TickDoes ==
    ASSUME Tick
    PROVE  /\ elapsed + Precision <= now
           /\ ticks' = ticks + 1
           /\ m_current_pos' = Face(Turning)
           /\ m_slots' = (Cascaded(Turning) \ Met)
                         \cup UNION {Push(Turning, t, m_ms[t] + Interval[t]) : t \in Stay}
           /\ m_ms' = [t \in Timers |-> m_ms[t] + IF t \in Again THEN Interval[t] ELSE 0]
           /\ m_count' = [t \in Timers |-> m_count[t] - IF t \in Firing THEN 1 ELSE 0]
           /\ m_timer' = m_timer \ (DueSet \ Stay)
           /\ queue' = [t \in Timers |-> IF t \in Firing THEN Append(queue[t], m_ms[t])
                                         ELSE queue[t]]
           /\ UNCHANGED <<now, removed, adding, fired>>
  BY DEF Tick, Met, DueSet, Firing, Again, Stay, Face

(* A timer that is due was in the wheel, and its time is the tick's. *)
LEMMA DueIs ==
    ASSUME TypeOK, HandsOK, Placed, OneSlot, Life, NEW t \in DueSet
    PROVE  /\ t \in m_timer /\ t \in Timers /\ m_ms[t] \in Nat
           /\ m_ms[t] >= elapsed /\ m_ms[t] < elapsed + Precision
  <1>1. PICK p \in Met : p[3] = t
    BY DEF DueSet
  <1>2. p \in Cascaded(Turning)
    BY DEF Met
  <1>3. t \in m_timer /\ Digits(1, m_ms[t]) = ticks
    BY <1>1, <1>2, FallenIs, MetIs DEF OneEach
  <1>4. t \in Timers
    BY <1>3 DEF TypeOK
  <1>5. m_ms[t] \in Nat
    BY <1>3, <1>4 DEF Life, LifeOf
  <1>6. ticks \in Nat /\ Precision \in Nat \ {0} /\ 1 \in Round /\ elapsed \in Nat
    BY ElapsedType, Constants
  <1>7. m_ms[t] \div Precision = ticks
    BY <1>3, <1>5, <1>6, DigitsAre
  <1>8. m_ms[t] >= elapsed
    <2>1. m_ms[t] \div Precision >= ticks
      BY <1>6, <1>7
    <2> QED  BY <1>5, <1>6, <2>1, DivAtLeast DEF elapsed
  <1>9. m_ms[t] < elapsed + Precision
    <2>1. ticks + 1 \in Nat /\ ~(m_ms[t] \div Precision >= ticks + 1)
      BY <1>6, <1>7
    <2>2. ~(m_ms[t] >= (ticks + 1) * Precision)
      BY <1>5, <1>6, <2>1, DivAtLeast
    <2>3. (ticks + 1) * Precision = elapsed + Precision
      BY <1>6, ProductNext DEF elapsed
    <2> QED  BY <1>5, <1>6, <2>2, <2>3
  <1> QED  BY <1>3, <1>4, <1>5, <1>8, <1>9

(* A timer that repeats is placed again, ahead of the hands. *)
LEMMA StayIs ==
    ASSUME TypeOK, HandsOK, Placed, OneSlot, Life, NEW t \in Stay
    PROVE  \E x \in Round \X Slot \X Timers :
             /\ Push(Turning, t, m_ms[t] + Interval[t]) = {x} /\ x[3] = t
             /\ x[2] = Index(x[1], m_ms[t] + Interval[t])
             /\ Ahead(Face(Turning), x[1], m_ms[t] + Interval[t])
  <1> DEFINE ms == m_ms[t] + Interval[t]
  <1>1. t \in DueSet /\ Interval[t] > 0 /\ ms < Span
    BY DEF Stay, Again, Firing
  <1>2. t \in Timers /\ m_ms[t] \in Nat /\ m_ms[t] >= elapsed
    BY <1>1, DueIs
  <1>3. Interval[t] \in Nat /\ Interval[t] >= Precision /\ Precision \in Nat \ {0}
        /\ ticks \in Nat /\ elapsed \in Nat /\ 1 \in Round
    BY <1>1, <1>2, Constants, ElapsedType
  <1>4. ms \in Nat /\ ms >= elapsed + Precision
    BY <1>2, <1>3
  <1> HIDE DEF ms
  <1>5. ms >= (ticks + 1) * Precision
    BY <1>3, <1>4, ProductNext DEF elapsed
  <1>6. ticks + 1 \in Nat
    BY <1>3
  <1>7. ms \div Precision >= ticks + 1
    BY <1>3, <1>4, <1>5, <1>6, DivAtLeast
  <1>8. Digits(1, ms) = ms \div Precision /\ Digits(1, ms) \in Nat
    BY <1>3, <1>4, DigitsAre
  <1>9. Hands(m_current_pos) /\ m_current_pos[1] = ticks - 1
    BY DEF HandsOK
  <1>10. Hands(Face(Turning)) /\ Face(Turning)[1] = ticks
    BY <1>3, <1>9, TurnHands
  <1>11. Digits(1, ms) > Face(Turning)[1]
    BY <1>3, <1>7, <1>8, <1>10
  <1>12. PICK q \in Round : Push(Turning, t, ms) = {<<q, Index(q, ms), t>>}
                            /\ Ahead(Face(Turning), q, ms)
    BY <1>1, <1>4, <1>10, <1>11, PushIs DEF ms
  <1> DEFINE x == <<q, Index(q, ms), t>>
  <1>13. x[1] = q /\ x[2] = Index(q, ms) /\ x[3] = t /\ x \in Round \X Slot \X Timers
    <2>1. Index(q, ms) \in Slot
      BY <1>4, DigitsAre
    <2> QED  BY <1>2, <2>1
  <1> HIDE DEF x
  <1>14. Push(Turning, t, ms) = {x}
    BY <1>12 DEF x
  <1> QED  BY <1>12, <1>13, <1>14 DEF ms

LEMMA TickKeepsWheel ==
    ASSUME WheelInv, Tick
    PROVE  /\ HandsOK' /\ Placed' /\ OneSlot'
           /\ m_slots' \in SUBSET (Round \X Slot \X Timers) /\ m_timer' \in SUBSET Timers
  <1> DEFINE F == Cascaded(Turning)
             e == Face(Turning)
             P(t) == Push(Turning, t, m_ms[t] + Interval[t])
             U == UNION {P(t) : t \in Stay}
  <1>1. TypeOK /\ HandsOK /\ Placed /\ OneSlot /\ Life
    BY DEF WheelInv
  <1>2. /\ ticks' = ticks + 1 /\ m_current_pos' = e /\ m_slots' = (F \ Met) \cup U
        /\ m_timer' = m_timer \ (DueSet \ Stay)
    BY TickDoes
  <1>3. m_ms' = [t \in Timers |-> m_ms[t] + IF t \in Again THEN Interval[t] ELSE 0]
    BY TickDoes
  <1>4. /\ OneEach(F, m_timer)
        /\ \A x \in F : x \in Round \X Slot \X Timers /\ Seated(e, x, m_ms[x[3]])
    BY <1>1, FallenIs
  <1>5. \A t \in Stay : \E x \in Round \X Slot \X Timers :
             /\ P(t) = {x} /\ x[3] = t
             /\ x[2] = Index(x[1], m_ms[t] + Interval[t])
             /\ Ahead(e, x[1], m_ms[t] + Interval[t])
    BY <1>1, StayIs
  <1>6. \A x \in F \ Met : Ahead(e, x[1], m_ms[x[3]])
    BY <1>1, MetIs
  <1>7. \A x : x \in U <=> \E t \in Stay : x \in P(t)
    OBVIOUS
  <1>8. Stay \subseteq DueSet /\ \A t \in DueSet : t \in m_timer /\ t \in Timers
    BY <1>1, DueIs DEF Stay, Again, Firing
  <1>9. Met \subseteq F /\ \A t : t \in DueSet <=> \E p \in Met : p[3] = t
    BY DEF Met, DueSet
  <1>10. ASSUME NEW t \in Timers
         PROVE  /\ t \in Stay => m_ms'[t] = m_ms[t] + Interval[t]
                /\ t \notin DueSet => m_ms'[t] = m_ms[t]
    <2>1. t \in Stay => t \in Again
      BY DEF Stay
    <2>2. t \notin DueSet => t \notin Again
      BY DEF Again, Firing
    <2>3. m_ms[t] \in Int
      BY <1>1, Types
    <2> QED  BY <1>3, <2>1, <2>2, <2>3
  <1>11. m_timer \subseteq Timers
    BY <1>1 DEF TypeOK
  <1> HIDE DEF F, e, P, U
  <1>12. HandsOK'
    <2>1. Hands(m_current_pos) /\ m_current_pos[1] = ticks - 1 /\ ticks \in Nat
      BY <1>1, ElapsedType DEF HandsOK
    <2>2. Hands(e) /\ e[1] = m_current_pos[1] + 1
      BY <2>1, TurnHands DEF e
    <2>3. Hands(m_current_pos')
      BY <1>2, <2>2
    <2>4. m_current_pos'[1] = ticks' - 1
      BY <1>2, <2>1, <2>2
    <2> QED  BY <2>3, <2>4 DEF HandsOK, Hands
  (* The nodes that stay, and the new ones: each of another timer *)
  <1>13. ASSUME NEW x \in F \ Met
         PROVE  /\ x \in Round \X Slot \X Timers /\ x[3] \in m_timer /\ x[3] \notin DueSet
                /\ x[2] = Index(x[1], m_ms'[x[3]]) /\ Ahead(e, x[1], m_ms'[x[3]])
    <2>1. x[3] \notin DueSet
      <3>1. SUFFICES ASSUME NEW p \in Met, p[3] = x[3] PROVE FALSE
        BY <1>9
      <3>2. p = x
        BY <1>4, <1>9, <3>1 DEF OneEach
      <3> QED  BY <3>2
    <2>2. x[3] \in m_timer /\ x[3] \in Timers
      BY <1>4, <1>11 DEF OneEach
    <2>3. m_ms'[x[3]] = m_ms[x[3]]
      BY <1>10, <2>1, <2>2
    <2> QED  BY <1>4, <1>6, <2>1, <2>2, <2>3 DEF Seated
  <1>14. ASSUME NEW t \in Stay
         PROVE  \E x \in Round \X Slot \X Timers :
                  /\ P(t) = {x} /\ x[3] = t
                  /\ x[2] = Index(x[1], m_ms'[x[3]]) /\ Ahead(e, x[1], m_ms'[x[3]])
    BY <1>5, <1>8, <1>10
  <1>15. ASSUME NEW x \in U
         PROVE  /\ x \in Round \X Slot \X Timers /\ x[3] \in Stay /\ P(x[3]) = {x}
                /\ x[2] = Index(x[1], m_ms'[x[3]]) /\ Ahead(e, x[1], m_ms'[x[3]])
    <2>1. PICK t \in Stay : x \in P(t)
      BY <1>7
    <2> QED  BY <2>1, <1>14
  <1>16. Placed'
    <2> SUFFICES ASSUME NEW p \in m_slots'
                 PROVE  p[2] = Index(p[1], m_ms'[p[3]]) /\ Ahead(e, p[1], m_ms'[p[3]])
      BY <1>2 DEF Placed
    <2>1. p \in F \ Met \/ p \in U
      BY <1>2
    <2> QED  BY <1>13, <1>15, <2>1
  <1>17. OneSlot'
    <2>1. ASSUME NEW p \in m_slots' PROVE p[3] \in m_timer'
      BY <1>2, <1>8, <1>13, <1>15
    <2>2. ASSUME NEW t \in m_timer' PROVE \E p \in m_slots' : p[3] = t
      <3>1. t \in m_timer /\ (t \in Stay \/ t \notin DueSet)
        BY <1>2
      <3>2. CASE t \in Stay
        BY <1>2, <1>7, <1>14, <3>2
      <3>3. CASE t \notin DueSet
        <4>1. PICK p \in F : p[3] = t
          BY <1>4, <3>1 DEF OneEach
        <4>2. p \notin Met
          BY <1>9, <3>3, <4>1
        <4> QED  BY <1>2, <4>1, <4>2
      <3> QED  BY <3>1, <3>2, <3>3
    <2>3. ASSUME NEW p \in m_slots', NEW q \in m_slots', p[3] = q[3] PROVE p = q
      <3>1. (p \in F \ Met \/ p \in U) /\ (q \in F \ Met \/ q \in U)
        BY <1>2
      <3>2. CASE p \in F \ Met /\ q \in F \ Met
        BY <1>4, <2>3, <3>2 DEF OneEach
      <3>3. CASE p \in U /\ q \in U
        <4>1. P(p[3]) = {p} /\ P(q[3]) = {q}
          BY <1>15, <3>3
        <4> QED  BY <2>3, <4>1
      <3>4. CASE (p \in U /\ q \in F \ Met) \/ (p \in F \ Met /\ q \in U)
        BY <1>8, <1>13, <1>15, <2>3, <3>4
      <3> QED  BY <3>1, <3>2, <3>3, <3>4
    <2> QED  BY <2>1, <2>2, <2>3 DEF OneSlot, OneEach
  <1>18. m_slots' \in SUBSET (Round \X Slot \X Timers)
    <2> SUFFICES ASSUME NEW p \in m_slots' PROVE p \in Round \X Slot \X Timers
      OBVIOUS
    <2>1. p \in F \ Met \/ p \in U
      BY <1>2
    <2> QED  BY <1>4, <1>15, <2>1
  <1>19. m_timer' \in SUBSET Timers
    BY <1>2, <1>11
  <1> QED  BY <1>12, <1>16, <1>17, <1>18, <1>19

LEMMA AppendIs ==
    ASSUME NEW s \in Seq(Int), NEW x \in Int, NEW y
    PROVE  /\ Append(s, x) \in Seq(Int) /\ Len(Append(s, x)) = Len(s) + 1
           /\ Append(s, x)[Len(s) + 1] = x
           /\ \A i \in DOMAIN Append(s, x) : i = Len(s) + 1 \/ (i \in DOMAIN s /\ Append(s, x)[i] = s[i])
  OBVIOUS

LEMMA TickKeepsLife ==
    ASSUME WheelInv, Tick, NEW t \in Timers
    PROVE  LifeOf(t)' /\ m_ms'[t] \in Int /\ m_count'[t] \in Nat /\ queue'[t] \in Seq(Int)
  <1>1. TypeOK /\ HandsOK /\ Placed /\ OneSlot /\ Life
    BY DEF WheelInv
  <1>2. LifeOf(t)
    BY <1>1 DEF Life
  <1>3. /\ m_ms[t] \in Int /\ m_count[t] \in Nat /\ fired[t] \in Nat
        /\ queue[t] \in Seq(Int) /\ Len(queue[t]) \in Nat
    BY <1>1, Types
  <1>4. /\ ticks \in Nat /\ elapsed \in Nat /\ Precision \in Nat \ {0}
        /\ Interval[t] \in Nat /\ Count[t] \in Nat \ {0} /\ (Interval[t] = 0 => Count[t] = 1)
    BY <1>1, ElapsedType, Constants
  <1>5. elapsed' = elapsed + Precision
    <2>1. ticks' = ticks + 1
      BY TickDoes
    <2> QED  BY <1>4, <2>1, ProductNext DEF elapsed
  <1>6. /\ m_ms'[t] = m_ms[t] + IF t \in Again THEN Interval[t] ELSE 0
        /\ m_count'[t] = m_count[t] - IF t \in Firing THEN 1 ELSE 0
        /\ queue'[t] = IF t \in Firing THEN Append(queue[t], m_ms[t]) ELSE queue[t]
        /\ t \in m_timer' <=> t \in m_timer /\ (t \notin DueSet \/ t \in Stay)
        /\ fired' = fired /\ removed' = removed /\ adding' = adding
    BY TickDoes
  <1>7. /\ t \in Firing <=> t \in DueSet /\ t \notin removed
        /\ t \in Again <=> t \in Firing /\ Interval[t] > 0 /\ m_count[t] > 1
        /\ t \in Stay <=> t \in Again /\ m_ms[t] + Interval[t] < Span
    BY DEF Firing, Again, Stay
  <1>8. CASE t \notin DueSet
    <2>1. m_ms'[t] = m_ms[t] /\ m_count'[t] = m_count[t] /\ queue'[t] = queue[t]
          /\ (t \in m_timer' <=> t \in m_timer)
      BY <1>3, <1>6, <1>7, <1>8
    <2>2. elapsed' \in Nat /\ elapsed <= elapsed'
      BY <1>4, <1>5
    <2> QED  BY <1>1, <1>2, <1>3, <1>6, <2>1, <2>2, LifeKeeps
  <1>9. CASE t \in DueSet
    <2>1. t \in m_timer /\ m_ms[t] \in Nat /\ m_ms[t] < elapsed'
      BY <1>1, <1>5, <1>9, DueIs
    <2>2. m_count[t] >= 1 /\ ~(m_ms[t] = -1 \/ t \in adding)
      BY <1>2, <2>1 DEF LifeOf, Fresh
    <2>3. m_ms'[t] \in Nat /\ m_count'[t] \in Nat /\ m_count'[t] <= m_count[t]
      BY <1>3, <1>4, <1>6, <2>1, <2>2
    <2>4. m_ms'[t] # -1 /\ m_ms'[t] >= -1 /\ m_count'[t] <= Count[t]
      BY <1>2, <1>3, <1>4, <2>3 DEF LifeOf
    <2>5. t \in m_timer' => m_count'[t] >= 1 /\ m_ms'[t] < Span
      BY <1>3, <1>6, <1>7, <1>9
    <2>6. /\ queue'[t] \in Seq(Int)
          /\ \A i \in DOMAIN queue'[t] : queue'[t][i] < elapsed'
          /\ t \notin removed => Len(queue'[t]) = Len(queue[t]) + 1
      <3>1. \A i \in DOMAIN queue[t] : queue[t][i] < elapsed'
        <4> SUFFICES ASSUME NEW i \in DOMAIN queue[t] PROVE queue[t][i] < elapsed'
          OBVIOUS
        <4>1. queue[t][i] \in Int
          BY <1>3
        <4>2. queue[t][i] < elapsed
          BY <1>2 DEF LifeOf
        <4> QED  BY <1>4, <1>5, <4>1, <4>2
      <3>2. CASE t \in removed
        BY <1>3, <1>6, <1>7, <3>1, <3>2
      <3>3. CASE t \notin removed
        <4>1. queue'[t] = Append(queue[t], m_ms[t])
          BY <1>6, <1>7, <1>9, <3>3
        <4> DEFINE s == Append(queue[t], m_ms[t])
        <4>2. /\ s \in Seq(Int) /\ Len(s) = Len(queue[t]) + 1 /\ s[Len(queue[t]) + 1] = m_ms[t]
              /\ \A i \in DOMAIN s : i = Len(queue[t]) + 1 \/ (i \in DOMAIN queue[t] /\ s[i] = queue[t][i])
          BY <1>3, AppendIs
        <4> HIDE DEF s
        <4>3. \A i \in DOMAIN s : s[i] < elapsed'
          BY <2>1, <3>1, <4>2
        <4> QED  BY <4>1, <4>2, <4>3 DEF s
      <3> QED  BY <3>2, <3>3
    <2>7. ASSUME t \notin removed PROVE Exact(t)'
      <3>1. fired[t] + Len(queue[t]) + m_count[t] = Count[t]
        BY <1>2, <2>2, <2>7 DEF LifeOf, Exact
      <3>2. m_count'[t] = m_count[t] - 1 /\ fired'[t] = fired[t]
            /\ Len(queue'[t]) = Len(queue[t]) + 1
        BY <1>6, <1>7, <1>9, <2>6, <2>7
      <3>3. fired'[t] + Len(queue'[t]) + m_count'[t] = Count[t]
        BY <1>3, <1>4, <3>1, <3>2
      <3>4. ASSUME t \notin m_timer', m_count'[t] > 0 PROVE m_ms'[t] >= Span
        <4>1. m_count[t] > 1 /\ m_count[t] <= Count[t]
          BY <1>2, <1>3, <3>2, <3>4 DEF LifeOf
        <4>2. Interval[t] > 0
          BY <1>3, <1>4, <4>1
        <4>3. t \in Again /\ t \notin Stay
          BY <1>6, <1>7, <1>9, <2>1, <2>7, <3>4, <4>1, <4>2
        <4>4. m_ms'[t] = m_ms[t] + Interval[t] /\ ~(m_ms[t] + Interval[t] < Span)
          BY <1>6, <1>7, <4>3
        <4>5. Span \in Nat
          <5>1. Rounds \in Round
            BY Constants DEF Round
          <5> QED  BY <5>1, SlotMs, Constants, ProductPositive DEF Span, SlotSum
        <4> QED  BY <1>3, <1>4, <4>4, <4>5
      <3> QED  BY <3>3, <3>4 DEF Exact
    <2>8. t \notin adding'
      BY <1>6, <2>2
    <2>9. t \notin removed' \cup adding' => Exact(t)'
      BY <1>6, <2>7
    <2>10. LifeOf(t)'
      BY <2>3, <2>4, <2>5, <2>6, <2>8, <2>9 DEF LifeOf
    <2> QED  BY <2>3, <2>6, <2>10
  <1> QED  BY <1>8, <1>9

LEMMA TickKeeps ==
    ASSUME WheelInv, Tick
    PROVE  WheelInv'
  <1>1. TypeOK /\ now \in 0..MaxNow /\ ticks \in Nat /\ elapsed \in Nat
    BY ElapsedType DEF WheelInv, TypeOK
  <1>2. HandsOK' /\ Placed' /\ OneSlot' /\ m_timer' \in SUBSET Timers
        /\ m_slots' \in SUBSET (Round \X Slot \X Timers)
    BY TickKeepsWheel
  <1>3. /\ elapsed + Precision <= now /\ ticks' = ticks + 1
        /\ m_ms' = [t \in Timers |-> m_ms[t] + IF t \in Again THEN Interval[t] ELSE 0]
        /\ m_count' = [t \in Timers |-> m_count[t] - IF t \in Firing THEN 1 ELSE 0]
        /\ queue' = [t \in Timers |-> IF t \in Firing THEN Append(queue[t], m_ms[t])
                                      ELSE queue[t]]
        /\ UNCHANGED <<now, removed, adding, fired>>
    BY TickDoes
  <1>4. \A t \in Timers : /\ LifeOf(t)' /\ m_ms'[t] \in Int /\ m_count'[t] \in Nat
                          /\ queue'[t] \in Seq(Int)
    BY TickKeepsLife
  <1>5. ticks' \in 0..MaxNow
    <2>1. (ticks + 1) * Precision = elapsed + Precision
      BY <1>1, Constants, ProductNext DEF elapsed
    <2>2. ticks + 1 \in Nat /\ Precision \in Nat \ {0} /\ MaxNow \in Nat
      BY <1>1, Constants
    <2>3. ticks + 1 <= (ticks + 1) * Precision
      BY <2>2, ProductBounds
    <2> QED  BY <1>1, <1>3, <2>1, <2>2, <2>3
  <1>6. m_current_pos' \in [Round -> -1..MaxNow]
    <2>1. Hands(m_current_pos') /\ m_current_pos'[1] = ticks' - 1
      BY <1>2 DEF HandsOK, Hands
    <2>2. m_current_pos'[1] <= MaxNow /\ MaxNow \in Nat
      <3>1. MaxNow \in Nat
        BY Constants
      <3>2. ticks' \in Int /\ ticks' <= MaxNow
        BY <1>5, <3>1
      <3>3. ASSUME NEW n \in Int, n <= MaxNow PROVE n - 1 <= MaxNow
        BY <3>1, <3>3
      <3>4. ticks' - 1 <= MaxNow
        BY <3>2, <3>3
      <3> QED  BY <2>1, <3>1, <3>4
    <2>3. \A r \in Round : m_current_pos'[r] \in -1..MaxNow
      BY <2>1, <2>2, HandsBounded
    <2>4. m_current_pos' \in [Round -> Int]
      BY <2>1 DEF Hands
    <2> QED  BY <2>3, <2>4
  <1>7. m_ms' \in [Timers -> Int]
    BY <1>3, <1>4
  <1>8. m_count' \in [Timers -> Nat]
    BY <1>3, <1>4
  <1>9. queue' \in [Timers -> Seq(Int)]
    <2> DEFINE q == queue'
    <2>1. q = [t \in Timers |-> q[t]] /\ \A t \in Timers : q[t] \in Seq(Int)
      BY <1>3, <1>4
    <2> HIDE DEF q
    <2>2. q \in [Timers -> Seq(Int)]
      BY <2>1, Zenon
    <2> QED  BY <2>2 DEF q
  <1>10. TypeOK'
    BY <1>1, <1>2, <1>3, <1>5, <1>6, <1>7, <1>8, <1>9 DEF TypeOK
  <1> QED  BY <1>2, <1>4, <1>10 DEF WheelInv, Life
-----------------------------------------------------------------------------
LEMMA WheelInit == Init => WheelInv
  <1> SUFFICES ASSUME Init PROVE WheelInv
    OBVIOUS
  <1>1. /\ now = 0 /\ ticks = 0
        /\ m_current_pos = [r \in Round |-> IF r = 1 THEN -1 ELSE 0]
        /\ m_slots = {} /\ m_ms = [t \in Timers |-> -1] /\ m_count = Count
        /\ m_timer = {} /\ removed = {} /\ adding = {}
        /\ queue = [t \in Timers |-> <<>>] /\ fired = [t \in Timers |-> 0]
    BY DEF Init
  <1>2. Count \in [Timers -> Nat \ {0}] /\ MaxNow \in Nat /\ 1 \in Round
        /\ SlotCount \in Nat \ {0} /\ \A r \in Round : r \in Nat
    BY WheelAssumption, Constants DEF Round
  <1>3. \A r \in Round : m_current_pos[r] = IF r = 1 THEN -1 ELSE 0
    BY <1>1
  <1>4. m_current_pos \in [Round -> -1..MaxNow] /\ m_current_pos \in [Round -> Int]
    BY <1>1, <1>2
  <1>5. TypeOK
    <2>1. now \in 0..MaxNow /\ ticks \in 0..MaxNow
      BY <1>1, <1>2
    <2>2. m_count \in [Timers -> Nat]
      BY <1>1, <1>2
    <2>3. queue \in [Timers -> Seq(Int)] /\ fired \in [Timers -> Nat] /\ m_ms \in [Timers -> Int]
      BY <1>1
    <2> QED  BY <1>1, <1>4, <2>1, <2>2, <2>3 DEF TypeOK
  <1>6. HandsOK
    <2>1. ASSUME NEW r \in Round, r > 1
          PROVE  m_current_pos[r] >= 0 /\ m_current_pos[r] = Above(m_current_pos[r - 1])
      <3>1. m_current_pos[r] = 0 /\ r - 1 \in Round
        BY <1>2, <1>3, <2>1, SlotMs
      <3>2. 0 \div SlotCount = 0
        BY <1>2, DivZero
      <3>3. Above(m_current_pos[r - 1]) = 0
        BY <1>3, <3>1, <3>2 DEF Above
      <3> QED  BY <3>1, <3>3
    <2>2. m_current_pos[1] = -1
      BY <1>2, <1>3
    <2>3. Hands(m_current_pos)
      <3>1. m_current_pos[1] >= -1
        BY <2>2
      <3> QED  BY <1>4, <2>1, <3>1 DEF Hands
    <2>4. m_current_pos[1] = ticks - 1
      BY <1>1, <2>2
    <2> QED  BY <2>3, <2>4 DEF HandsOK
  <1>7. Placed /\ OneSlot
    BY <1>1 DEF Placed, OneSlot, OneEach
  <1>8. Life
    <2> SUFFICES ASSUME NEW t \in Timers PROVE LifeOf(t)
      BY DEF Life
    <2>1. /\ m_ms[t] = -1 /\ m_count[t] = Count[t] /\ queue[t] = <<>> /\ fired[t] = 0
          /\ t \notin m_timer /\ t \notin removed /\ t \notin adding /\ Count[t] \in Nat
      BY <1>1, <1>2
    <2>2. Fresh(t)
      BY <2>1 DEF Fresh
    <2>3. Exact(t)
      BY <2>1 DEF Exact, NewTimer
    <2> QED  BY <2>1, <2>2, <2>3 DEF LifeOf
  <1> QED  BY <1>5, <1>6, <1>7, <1>8 DEF WheelInv

LEMMA WheelStutter ==
    ASSUME WheelInv, UNCHANGED vars
    PROVE  WheelInv'
  <1>1. /\ now' = now /\ UNCHANGED wheelVars /\ UNCHANGED nodeVars /\ removed' = removed
        /\ adding' = adding /\ queue' = queue /\ fired' = fired
    BY DEF vars
  <1>2. TypeOK /\ HandsOK /\ Placed /\ OneSlot /\ Life
    BY DEF WheelInv
  <1>3. HandsOK' /\ Placed' /\ OneSlot'
    BY <1>1, <1>2, WheelKeeps DEF nodeVars
  <1>4. TypeOK'
    BY <1>1, <1>2 DEF TypeOK, wheelVars, nodeVars
  <1>5. Life'
    <2> SUFFICES ASSUME NEW t \in Timers PROVE LifeOf(t)'
      BY DEF Life
    <2>1. LifeOf(t) /\ elapsed' = elapsed /\ elapsed \in Nat
      BY <1>1, <1>2, ElapsedType DEF Life, elapsed, wheelVars
    <2> QED  BY <1>1, <1>2, <2>1, LifeKeeps DEF nodeVars
  <1> QED  BY <1>3, <1>4, <1>5 DEF WheelInv

(* The inductive invariant holds of every behaviour.                       *)
THEOREM WheelInvariant == Spec => []WheelInv
  <1>1. WheelInv /\ [Next]_vars => WheelInv'
    <2> SUFFICES ASSUME WheelInv, [Next]_vars PROVE WheelInv'
      OBVIOUS
    <2>1. CASE Clock
      BY <2>1, ClockKeeps
    <2>2. CASE Tick
      BY <2>2, TickKeeps
    <2>3. ASSUME NEW t \in Timers, NEW delay \in Delays, AddRead(t, delay) PROVE WheelInv'
      BY <2>3, AddReadKeeps
    <2>4. ASSUME NEW t \in Timers, AddLocked(t) PROVE WheelInv'
      BY <2>4, AddLockedKeeps
    <2>5. ASSUME NEW t \in Timers, removetimer(t) PROVE WheelInv'
      BY <2>5, removetimerKeeps
    <2>6. ASSUME NEW t \in Timers, Callback(t) PROVE WheelInv'
      BY <2>6, CallbackKeeps
    <2>7. CASE UNCHANGED vars
      BY <2>7, WheelStutter
    <2> QED  BY <2>1, <2>2, <2>3, <2>4, <2>5, <2>6, <2>7 DEF Next
  <1> QED  BY <1>1, WheelInit, PTL DEF Spec

(* Types: for any wheel and however late its thread, the ticks and the     *)
(* hands stay within the clock's bound, every node is in a round and a     *)
(* slot that exist, and no count goes below zero.                          *)
THEOREM WheelTypeInvariant == Spec => []TypeOK
  <1>1. WheelInv => TypeOK
    BY DEF WheelInv
  <1> QED  BY <1>1, WheelInvariant, PTL

(* A timer that is still in the wheel is not overdue, and what was queued  *)
(* was due: a hand never passes a timer, whichever round, cascade, interval *)
(* or late thread brought it to its slot.                                  *)
THEOREM TimersOnTime == Spec => []OnTime
  <1>1. ASSUME WheelInv PROVE OnTime
    <2>1. TypeOK /\ HandsOK /\ Placed /\ OneSlot /\ Life
      BY <1>1 DEF WheelInv
    <2> SUFFICES ASSUME NEW t \in Timers
                 PROVE  /\ t \in m_timer => m_ms[t] >= elapsed
                        /\ \A i \in DOMAIN queue[t] : queue[t][i] < elapsed
      BY DEF OnTime
    <2>2. \A i \in DOMAIN queue[t] : queue[t][i] < elapsed
      BY <2>1 DEF Life, LifeOf
    <2>3. ASSUME t \in m_timer PROVE m_ms[t] >= elapsed
      <3>1. PICK p \in m_slots : p[3] = t
        BY <2>1, <2>3 DEF OneSlot, OneEach
      <3>2. m_ms[t] \in Nat /\ Digits(1, m_ms[t]) >= ticks
        BY <2>1, <3>1, NodeIs
      <3>3. ticks \in Nat /\ Precision \in Nat \ {0} /\ 1 \in Round
        BY <2>1, ElapsedType, Constants
      <3>4. m_ms[t] \div Precision >= ticks
        BY <3>2, <3>3, DigitsAre
      <3> QED  BY <3>2, <3>3, <3>4, DivAtLeast DEF elapsed
    <2> QED  BY <2>2, <2>3
  <1> QED  BY <1>1, WheelInvariant, PTL

(* No cascade drops a timer, keeps it twice or leaves it behind, and a     *)
(* timer fires as often as it was asked to, those that were caught up      *)
(* included.                                                               *)
THEOREM CountsStayExact == Spec => []CountExact
  <1>1. ASSUME WheelInv PROVE CountExact
    <2>1. OneSlot /\ Life
      BY <1>1 DEF WheelInv
    <2>2. ASSUME NEW t \in Timers
          PROVE  Cardinality({p \in m_slots : p[3] = t}) = IF t \in m_timer THEN 1 ELSE 0
      <3> DEFINE X == {p \in m_slots : p[3] = t}
      <3>1. CASE t \in m_timer
        <4>1. PICK p \in m_slots : p[3] = t
          BY <2>1, <3>1 DEF OneSlot, OneEach
        <4>2. X = {p}
          BY <2>1, <4>1 DEF OneSlot, OneEach
        <4> QED  BY <3>1, <4>2, FS_Singleton
      <3>2. CASE t \notin m_timer
        <4>1. X = {}
          BY <2>1, <3>2 DEF OneSlot, OneEach
        <4> QED  BY <3>2, <4>1, FS_EmptySet
      <3> QED  BY <3>1, <3>2
    <2>3. ASSUME NEW t \in Timers \ (removed \cup adding)
          PROVE  /\ fired[t] + Len(queue[t]) + m_count[t] = Count[t]
                 /\ t \notin m_timer /\ m_count[t] > 0 => NewTimer(t) \/ m_ms[t] >= Span
      BY <2>1 DEF Life, LifeOf, Exact
    <2> QED  BY <2>2, <2>3 DEF CountExact
  <1> QED  BY <1>1, WheelInvariant, PTL

=============================================================================
