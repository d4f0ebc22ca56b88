--------------------------- MODULE DbClient_proofs ---------------------------
(***************************************************************************)
(* What holds of DbClient for any rows, any chunk size, any number of      *)
(* changes and any crashes.                                                *)
(***************************************************************************)
EXTENDS DbClient, FiniteSetTheorems, TLAPS

(* The versions of row k that the messages s carry, in front of them a *)
Val(k, m) == IF m.t = "del" THEN Gone ELSE m.rows[k]
About(s, k) == {i \in DOMAIN s : Mentions(k, s[i])}
Final(s, k, a) ==
    IF About(s, k) = {} THEN a
    ELSE Val(k, s[CHOOSE i \in About(s, k) : \A j \in About(s, k) : j <= i])
Ordered(s, k, a) ==
    \A i \in About(s, k) :
        a <= Val(k, s[i]) /\ \A j \in About(s, k) : i <= j => Val(k, s[i]) <= Val(k, s[j])

-----------------------------------------------------------------------------
(* Every set of numbers that is not empty has a lowest one. *)
LEMMA Lowest ==
    ASSUME NEW U \in SUBSET Nat, U # {}
    PROVE  \E n \in U : \A k \in U : n <= k
  <1> DEFINE V(n) == {k \in U : k < n}
             T == {V(n) : n \in U}
  <1>1. ASSUME NEW n \in U PROVE V(n) \in FiniteSubsetsOf(Nat)
    <2>1. \A k \in V(n) : k <= n
      OBVIOUS
    <2>2. V(n) \in SUBSET Nat /\ n \in Nat
      OBVIOUS
    <2>3. IsFiniteSet(V(n))
      BY <2>1, <2>2, FS_BoundedSetOfNaturals
    <2> QED  BY <2>2, <2>3 DEF FiniteSubsetsOf
  <1>2. T \subseteq FiniteSubsetsOf(Nat) /\ T # {}
    BY <1>1
  <1>3. PICK W \in T : \A X \in T : ~(<<X, W>> \in StrictSubsetOrdering(Nat))
    <2> HIDE DEF T
    <2> QED  BY <1>2, FS_StrictSubsetOrderingWellFounded, WFMin
  <1>4. PICK n \in U : W = V(n)
    OBVIOUS
  <1>5. ASSUME NEW k \in U, k < n PROVE FALSE
    <2>1. k \in Nat /\ n \in Nat
      OBVIOUS
    <2>2. V(k) \subseteq V(n)
      <3> SUFFICES ASSUME NEW j \in U, j < k PROVE j < n
        OBVIOUS
      <3>1. j \in Nat
        OBVIOUS
      <3> QED  BY <1>5, <2>1, <3>1
    <2>3. k \in V(n) /\ k \notin V(k)
      BY <1>5, <2>1
    <2>4. <<V(k), V(n)>> \in StrictSubsetOrdering(Nat)
      BY <2>2, <2>3 DEF StrictSubsetOrdering
    <2> QED  BY <2>4, <1>3, <1>4
  <1> QED  BY <1>5

LEMMA Highest ==
    ASSUME NEW n \in Nat, NEW U \in SUBSET (1..n), U # {}
    PROVE  \E i \in U : \A j \in U : j <= i
  <1> DEFINE D == {n - i : i \in U}
  <1>1. \A i \in U : i \in Nat /\ n - i \in Nat /\ n - i \in D
    OBVIOUS
  <1>2. D \in SUBSET Nat /\ D # {}
    BY <1>1
  <1>3. PICK e \in D : \A f \in D : e <= f
    <2> HIDE DEF D
    <2> QED  BY <1>2, Lowest
  <1>4. PICK i \in U : e = n - i
    OBVIOUS
  <1>5. \A j \in U : n - i <= n - j /\ j \in Nat
    BY <1>1, <1>3, <1>4
  <1> QED  BY <1>1, <1>5

(* The last message about a row decides its version. *)
LEMMA LastOne ==
    ASSUME NEW S, NEW s \in Seq(S), NEW k, About(s, k) # {}
    PROVE  \E i \in About(s, k) : \A j \in About(s, k) : j <= i
  <1>1. Len(s) \in Nat /\ About(s, k) \in SUBSET (1..Len(s))
    BY DEF About
  <1> QED  BY <1>1, Highest

LEMMA FinalIs ==
    ASSUME NEW S, NEW s \in Seq(S), NEW k, NEW a, NEW i \in About(s, k),
           \A j \in About(s, k) : j <= i
    PROVE  Final(s, k, a) = Val(k, s[i])
  <1>1. \A j \in About(s, k) : j \in Nat
    BY DEF About
  <1>2. PICK c : c = CHOOSE j \in About(s, k) : \A h \in About(s, k) : h <= j
    OBVIOUS
  <1>3. c \in About(s, k) /\ \A j \in About(s, k) : j <= c
    BY <1>2
  <1>4. c = i
    BY <1>1, <1>3
  <1> QED  BY <1>2, <1>4 DEF Final

LEMMA FinalNone ==
    ASSUME NEW s, NEW k, NEW a, About(s, k) = {} PROVE Final(s, k, a) = a
  BY DEF Final

(* A message more *)
Put(s, m) == Append(s, m)

LEMMA AboutPut ==
    ASSUME NEW S, NEW s \in Seq(S), NEW m \in S, NEW k
    PROVE  /\ Put(s, m) \in Seq(S) /\ Len(s) \in Nat /\ Put(s, m)[Len(s) + 1] = m
           /\ \A i \in About(s, k) : i <= Len(s) /\ i \in Nat /\ Put(s, m)[i] = s[i]
           /\ About(Put(s, m), k) =
                 IF Mentions(k, m) THEN About(s, k) \cup {Len(s) + 1} ELSE About(s, k)
  <1>1. /\ Append(s, m)[Len(s) + 1] = m /\ Len(s) \in Nat
        /\ DOMAIN s = 1..Len(s) /\ DOMAIN Append(s, m) = 1..(Len(s) + 1)
        /\ \A i \in 1..Len(s) : Append(s, m)[i] = s[i]
    OBVIOUS
  <1>2. \A i : i \in 1..(Len(s) + 1) <=> i \in 1..Len(s) \/ i = Len(s) + 1
    BY <1>1
  <1> QED  BY <1>1, <1>2 DEF About, Put

LEMMA FinalPut ==
    ASSUME NEW S, NEW s \in Seq(S), NEW m \in S, NEW k, NEW a
    PROVE  Final(Put(s, m), k, a) =
              IF Mentions(k, m) THEN Val(k, m) ELSE Final(s, k, a)
  <1>0. PICK e \in Seq(S) : e = Put(s, m)
    BY AboutPut
  <1>1. /\ e[Len(s) + 1] = m /\ Len(s) \in Nat
        /\ \A i \in About(s, k) : i <= Len(s) /\ i \in Nat /\ e[i] = s[i]
        /\ About(e, k) = IF Mentions(k, m) THEN About(s, k) \cup {Len(s) + 1} ELSE About(s, k)
    BY <1>0, AboutPut
  <1>2. CASE Mentions(k, m)
    <2>1. \A j \in About(e, k) : j <= Len(s) + 1
      BY <1>1
    <2>2. Len(s) + 1 \in About(e, k)
      BY <1>1, <1>2
    <2>3. Final(e, k, a) = Val(k, e[Len(s) + 1])
      BY <2>1, <2>2, FinalIs
    <2> QED  BY <1>0, <1>1, <1>2, <2>3
  <1>3. CASE ~Mentions(k, m)
    <2>1. CASE About(s, k) = {}
      BY <1>0, <1>1, <1>3, <2>1, FinalNone
    <2>2. CASE About(s, k) # {}
      <3>1. PICK i \in About(s, k) : \A j \in About(s, k) : j <= i
        BY <2>2, LastOne
      <3>2. Final(s, k, a) = Val(k, s[i])
        BY <3>1, FinalIs
      <3>3. About(e, k) = About(s, k)
        BY <1>1, <1>3
      <3>4. Final(e, k, a) = Val(k, e[i])
        BY <3>1, <3>3, FinalIs
      <3> QED  BY <1>0, <1>1, <1>3, <3>2, <3>4
    <2> QED  BY <2>1, <2>2
  <1> QED  BY <1>2, <1>3

(* Versions never fall along the way. *)
Typed(s, k) == \A i \in About(s, k) : Val(k, s[i]) \in Nat

LEMMA FinalBounds ==
    ASSUME NEW S, NEW s \in Seq(S), NEW k, NEW a \in Nat, Typed(s, k), Ordered(s, k, a)
    PROVE  /\ Final(s, k, a) \in Nat /\ a <= Final(s, k, a)
           /\ \A i \in About(s, k) : Val(k, s[i]) <= Final(s, k, a)
  <1>1. CASE About(s, k) = {}
    BY <1>1, FinalNone
  <1>2. CASE About(s, k) # {}
    <2>1. PICK i \in About(s, k) : \A j \in About(s, k) : j <= i
      BY <1>2, LastOne
    <2>2. Final(s, k, a) = Val(k, s[i])
      BY <2>1, FinalIs
    <2> QED  BY <2>1, <2>2 DEF Typed, Ordered
  <1> QED  BY <1>1, <1>2

LEMMA OrderedPut ==
    ASSUME NEW S, NEW s \in Seq(S), NEW m \in S, NEW k, NEW a \in Nat,
           Typed(s, k), Ordered(s, k, a),
           Mentions(k, m) => Val(k, m) \in Nat /\ Final(s, k, a) <= Val(k, m)
    PROVE  Ordered(Put(s, m), k, a)
  <1>0. PICK e \in Seq(S) : e = Put(s, m)
    BY AboutPut
  <1>1. /\ e[Len(s) + 1] = m /\ Len(s) \in Nat
        /\ \A i \in About(s, k) : i <= Len(s) /\ i \in Nat /\ e[i] = s[i]
        /\ About(e, k) = IF Mentions(k, m) THEN About(s, k) \cup {Len(s) + 1} ELSE About(s, k)
    <2>1. /\ Put(s, m)[Len(s) + 1] = m /\ Len(s) \in Nat
          /\ \A i \in About(s, k) : i <= Len(s) /\ i \in Nat /\ Put(s, m)[i] = s[i]
          /\ About(Put(s, m), k) =
                IF Mentions(k, m) THEN About(s, k) \cup {Len(s) + 1} ELSE About(s, k)
      BY AboutPut
    <2> QED  BY <1>0, <2>1
  <1>2. /\ Final(s, k, a) \in Nat /\ a <= Final(s, k, a)
        /\ \A i \in About(s, k) : Val(k, s[i]) <= Final(s, k, a)
    BY FinalBounds
  <1>3. CASE ~Mentions(k, m)
    BY <1>0, <1>1, <1>3 DEF Ordered
  <1>4. CASE Mentions(k, m)
    <2>1. ASSUME NEW i \in About(e, k)
          PROVE  /\ a <= Val(k, e[i])
                 /\ \A j \in About(e, k) : i <= j => Val(k, e[i]) <= Val(k, e[j])
      <3>1. CASE i = Len(s) + 1
        <4>1. \A j \in About(e, k) : i <= j => j = i
          BY <1>1, <1>4, <3>1
        <4> QED  BY <1>1, <1>2, <1>4, <3>1, <4>1
      <3>2. CASE i \in About(s, k)
        <4>1. a <= Val(k, s[i]) /\ e[i] = s[i] /\ Val(k, s[i]) \in Nat
              /\ Val(k, s[i]) <= Final(s, k, a)
          BY <1>1, <1>2, <3>2 DEF Ordered, Typed
        <4>2. ASSUME NEW j \in About(s, k), i <= j PROVE Val(k, e[i]) <= Val(k, e[j])
          BY <1>1, <3>2, <4>2 DEF Ordered
        <4>3. Val(k, e[i]) <= Val(k, e[Len(s) + 1])
          BY <1>1, <1>2, <1>4, <4>1
        <4> QED  BY <1>1, <1>4, <4>1, <4>2, <4>3
      <3> QED  BY <1>1, <1>4, <3>1, <3>2
    <2> QED  BY <1>0, <2>1 DEF Ordered
  <1> QED  BY <1>3, <1>4

(* The first message taken *)
Rest(s) == Tail(s)
Ahead(s, k, a) == IF Mentions(k, Head(s)) THEN Val(k, Head(s)) ELSE a

LEMMA AboutRest ==
    ASSUME NEW S, NEW s \in Seq(S), s # <<>>, NEW k
    PROVE  /\ Rest(s) \in Seq(S) /\ Head(s) \in S /\ Head(s) = s[1]
           /\ 1 \in About(s, k) <=> Mentions(k, Head(s))
           /\ \A i \in About(s, k) : i \in Nat /\ i >= 1 /\ i - 1 \in Nat
           /\ \A i \in About(Rest(s), k) :
                 i \in Nat /\ i + 1 \in About(s, k) /\ Rest(s)[i] = s[i + 1]
           /\ \A i \in About(s, k) : i # 1 => i - 1 \in About(Rest(s), k)
  <1>1. /\ Tail(s) \in Seq(S) /\ Head(s) = s[1] /\ s[1] \in S /\ Len(s) \in Nat /\ Len(s) > 0
        /\ DOMAIN s = 1..Len(s) /\ DOMAIN Tail(s) = 1..(Len(s) - 1)
        /\ \A i \in 1..(Len(s) - 1) : Tail(s)[i] = s[i + 1]
    OBVIOUS
  <1>2. /\ \A i \in 1..Len(s) : i \in Nat /\ i >= 1 /\ i - 1 \in Nat
        /\ \A i \in 1..Len(s) : i # 1 => i - 1 \in 1..(Len(s) - 1) /\ (i - 1) + 1 = i
        /\ \A i \in 1..(Len(s) - 1) : i + 1 \in 1..Len(s) /\ i \in Nat
        /\ 1 \in 1..Len(s)
    BY <1>1
  <1> QED  BY <1>1, <1>2 DEF About, Rest

LEMMA FinalRest ==
    ASSUME NEW S, NEW s \in Seq(S), s # <<>>, NEW k, NEW a
    PROVE  Final(Rest(s), k, Ahead(s, k, a)) = Final(s, k, a)
  <1>0. PICK r \in Seq(S) : r = Rest(s)
    BY AboutRest
  <1>1. /\ Head(s) = s[1]
        /\ 1 \in About(s, k) <=> Mentions(k, Head(s))
        /\ \A i \in About(s, k) : i \in Nat /\ i >= 1 /\ i - 1 \in Nat
        /\ \A i \in About(r, k) : i \in Nat /\ i + 1 \in About(s, k) /\ r[i] = s[i + 1]
        /\ \A i \in About(s, k) : i # 1 => i - 1 \in About(r, k)
    BY <1>0, AboutRest
  <1>2. CASE About(r, k) # {}
    <2>1. PICK i \in About(r, k) : \A j \in About(r, k) : j <= i
      BY <1>2, LastOne
    <2>2. Final(r, k, Ahead(s, k, a)) = Val(k, r[i])
      BY <2>1, FinalIs
    <2>3. \A j \in About(s, k) : j <= i + 1
      <3> SUFFICES ASSUME NEW j \in About(s, k), j # 1 PROVE j <= i + 1
        BY <1>1, <2>1
      <3>1. j - 1 <= i /\ j \in Nat /\ i \in Nat
        BY <1>1, <2>1
      <3> QED  BY <3>1
    <2>4. i + 1 \in About(s, k) /\ r[i] = s[i + 1]
      BY <1>1
    <2>5. Final(s, k, a) = Val(k, s[i + 1])
      BY <2>3, <2>4, FinalIs
    <2> QED  BY <1>0, <2>2, <2>4, <2>5
  <1>3. CASE About(r, k) = {}
    <2>1. Final(r, k, Ahead(s, k, a)) = Ahead(s, k, a)
      BY <1>3, FinalNone
    <2>2. \A i \in About(s, k) : i = 1
      BY <1>1, <1>3
    <2>3. CASE Mentions(k, Head(s))
      <3>1. 1 \in About(s, k) /\ \A j \in About(s, k) : j <= 1
        BY <1>1, <2>2, <2>3
      <3>2. Final(s, k, a) = Val(k, s[1])
        BY <3>1, FinalIs
      <3> QED  BY <1>0, <1>1, <2>1, <2>3, <3>2 DEF Ahead
    <2>4. CASE ~Mentions(k, Head(s))
      <3>1. About(s, k) = {}
        BY <1>1, <2>2, <2>4
      <3> QED  BY <1>0, <2>1, <2>4, <3>1, FinalNone DEF Ahead
    <2> QED  BY <2>3, <2>4
  <1> QED  BY <1>2, <1>3

LEMMA OrderedRest ==
    ASSUME NEW S, NEW s \in Seq(S), s # <<>>, NEW k, NEW a \in Nat, Ordered(s, k, a)
    PROVE  /\ Ordered(Rest(s), k, Ahead(s, k, a))
           /\ a <= Ahead(s, k, a)
  <1>0. PICK r \in Seq(S) : r = Rest(s)
    BY AboutRest
  <1>1. /\ Head(s) = s[1]
        /\ 1 \in About(s, k) <=> Mentions(k, Head(s))
        /\ \A i \in About(s, k) : i \in Nat /\ i >= 1 /\ i - 1 \in Nat
        /\ \A i \in About(r, k) : i \in Nat /\ i + 1 \in About(s, k) /\ r[i] = s[i + 1]
        /\ \A i \in About(s, k) : i # 1 => i - 1 \in About(r, k)
    BY <1>0, AboutRest
  <1>2. a <= Ahead(s, k, a)
    BY <1>1 DEF Ordered, Ahead
  <1>3. ASSUME NEW i \in About(r, k)
        PROVE  /\ Ahead(s, k, a) <= Val(k, r[i])
               /\ \A j \in About(r, k) : i <= j => Val(k, r[i]) <= Val(k, r[j])
    <2>1. i + 1 \in About(s, k) /\ i \in Nat /\ 1 <= i + 1 /\ r[i] = s[i + 1]
      BY <1>1
    <2>2. Ahead(s, k, a) <= Val(k, r[i])
      BY <1>1, <2>1 DEF Ordered, Ahead
    <2>3. ASSUME NEW j \in About(r, k), i <= j PROVE Val(k, r[i]) <= Val(k, r[j])
      <3>1. j + 1 \in About(s, k) /\ r[j] = s[j + 1] /\ i + 1 <= j + 1
        BY <1>1, <2>1, <2>3
      <3> QED  BY <2>1, <3>1 DEF Ordered
    <2> QED  BY <2>2, <2>3
  <1>4. Ordered(r, k, Ahead(s, k, a))
    BY <1>3 DEF Ordered
  <1> QED  BY <1>0, <1>2, <1>4

(* A tail of the messages lost *)
Cut(s, n) == SubSeq(s, 1, n)

LEMMA AboutCut ==
    ASSUME NEW S, NEW s \in Seq(S), NEW n \in 0..Len(s), NEW k
    PROVE  /\ Cut(s, n) \in Seq(S)
           /\ \A i : i \in About(Cut(s, n), k) <=> i \in About(s, k) /\ i <= n
           /\ \A i \in About(Cut(s, n), k) : Cut(s, n)[i] = s[i]
  <1>1. /\ SubSeq(s, 1, n) \in Seq(S) /\ Len(s) \in Nat /\ n \in Nat /\ n <= Len(s)
        /\ DOMAIN s = 1..Len(s) /\ DOMAIN SubSeq(s, 1, n) = 1..n
        /\ \A i \in 1..n : SubSeq(s, 1, n)[i] = s[i]
    OBVIOUS
  <1>2. \A i : i \in 1..n <=> i \in 1..Len(s) /\ i <= n
    BY <1>1
  <1> QED  BY <1>1, <1>2 DEF About, Cut

LEMMA FinalCut ==
    ASSUME NEW S, NEW s \in Seq(S), NEW n \in 0..Len(s), NEW k, NEW a \in Nat,
           Typed(s, k), Ordered(s, k, a)
    PROVE  /\ Ordered(Cut(s, n), k, a)
           /\ a <= Final(Cut(s, n), k, a) /\ Final(Cut(s, n), k, a) <= Final(s, k, a)
           /\ Final(Cut(s, n), k, a) \in Nat
  <1>0. PICK c \in Seq(S) : c = Cut(s, n)
    BY AboutCut
  <1>1. /\ \A i : i \in About(c, k) <=> i \in About(s, k) /\ i <= n
        /\ \A i \in About(c, k) : c[i] = s[i]
    BY <1>0, AboutCut
  <1>2. Ordered(c, k, a)
    BY <1>1 DEF Ordered
  <1>3. Typed(c, k)
    BY <1>1 DEF Typed
  <1>4. Final(c, k, a) \in Nat /\ a <= Final(c, k, a)
    BY <1>2, <1>3, FinalBounds
  <1>5. /\ Final(s, k, a) \in Nat /\ a <= Final(s, k, a)
        /\ \A i \in About(s, k) : Val(k, s[i]) <= Final(s, k, a)
    BY FinalBounds
  <1>6. Final(c, k, a) <= Final(s, k, a)
    <2>1. CASE About(c, k) = {}
      BY <2>1, <1>5, FinalNone
    <2>2. CASE About(c, k) # {}
      <3>1. PICK i \in About(c, k) : \A j \in About(c, k) : j <= i
        BY <2>2, LastOne
      <3>2. Final(c, k, a) = Val(k, c[i])
        BY <3>1, FinalIs
      <3> QED  BY <1>1, <1>5, <3>1, <3>2
    <2> QED  BY <2>1, <2>2
  <1> QED  BY <1>0, <1>2, <1>4, <1>6
-----------------------------------------------------------------------------
(* What a flush of a queue of them is about *)
InFlush(s, kind, k) == \E i \in DOMAIN s : s[i].t = kind /\ k \in s[i].ids

LEMMA InFlushPut ==
    ASSUME NEW S, NEW s \in Seq(S), NEW m \in S, NEW kind, NEW k
    PROVE  InFlush(Put(s, m), kind, k) <=> InFlush(s, kind, k) \/ (m.t = kind /\ k \in m.ids)
  <1>1. /\ Append(s, m)[Len(s) + 1] = m /\ Len(s) \in Nat
        /\ DOMAIN s = 1..Len(s) /\ DOMAIN Append(s, m) = 1..(Len(s) + 1)
        /\ \A i \in 1..Len(s) : Append(s, m)[i] = s[i]
    OBVIOUS
  <1>2. \A i : i \in 1..(Len(s) + 1) <=> i \in 1..Len(s) \/ i = Len(s) + 1
    BY <1>1
  <1> QED  BY <1>1, <1>2 DEF InFlush, Put

LEMMA InFlushRest ==
    ASSUME NEW S, NEW s \in Seq(S), s # <<>>, NEW kind, NEW k
    PROVE  InFlush(s, kind, k) <=> InFlush(Rest(s), kind, k)
                                   \/ (Head(s).t = kind /\ k \in Head(s).ids)
  <1>1. PICK r, h : r = Tail(s) /\ h = Head(s)
    OBVIOUS
  <1>2. /\ h = s[1] /\ Len(s) \in Nat /\ Len(s) > 0
        /\ DOMAIN s = 1..Len(s) /\ DOMAIN r = 1..(Len(s) - 1)
        /\ \A i \in 1..(Len(s) - 1) : r[i] = s[i + 1]
    BY <1>1
  <1>3. /\ \A i \in DOMAIN s : i # 1 => i - 1 \in DOMAIN r /\ (i - 1) + 1 = i
        /\ \A i \in DOMAIN r : i + 1 \in DOMAIN s
        /\ 1 \in DOMAIN s
    BY <1>2
  <1>4. /\ \A i \in DOMAIN s : s[i] = h \/ (i - 1 \in DOMAIN r /\ r[i - 1] = s[i])
        /\ \A i \in DOMAIN r : i + 1 \in DOMAIN s /\ r[i] = s[i + 1]
        /\ 1 \in DOMAIN s /\ s[1] = h
    BY <1>2, <1>3
  <1>5. InFlush(s, kind, k) <=> InFlush(r, kind, k) \/ (h.t = kind /\ k \in h.ids)
    BY <1>4 DEF InFlush
  <1> QED  BY <1>1, <1>5 DEF Rest

LEMMA InFlushNone == \A kind, k : ~InFlush(<<>>, kind, k)
  BY DEF InFlush

LEMMA SeqMore ==
    ASSUME NEW S, NEW T, S \subseteq T, NEW s \in Seq(S) PROVE s \in Seq(T)
  <1>1. Len(s) \in Nat /\ s = [i \in 1..Len(s) |-> s[i]] /\ \A i \in 1..Len(s) : s[i] \in T
    OBVIOUS
  <1> QED  BY <1>1
-----------------------------------------------------------------------------
(* The tables, and what belongs to one *)
LEMMA Constants ==
    /\ Keys # {} /\ IsFiniteSet(Keys) /\ MaxVersion \in Nat /\ MaxVersion > 0
    /\ MaxCrash \in Nat /\ m_sendmaxcount \in Nat /\ m_sendmaxcount > 0
    /\ Gone \in Nat /\ Gone = MaxVersion + 1 /\ InitChanges \subseteq Keys
  BY DbAssumption DEF Gone

LEMMA TablesAre ==
    /\ \A k \in Keys : Table(k) \in Keys /\ Table(k) \in Tables
    /\ Tables \subseteq Keys
    /\ \A k \in Keys : bound => Table(k) = k
  <1>1. Whole \in Keys
    BY Constants DEF Whole
  <1> QED  BY <1>1 DEF Table, Tables

LEMMA TablesSame ==
    ASSUME bound' = bound
    PROVE  Tables' = Tables /\ \A k : Table(k)' = Table(k)
  BY DEF Table, Tables

OwnTable(S, t) == \A k \in Keys : k \in S => Table(k) = t
MsgOf(t) ==
    {m \in Messages : /\ bound => m.t # "del"
                      /\ \A k \in Keys : Mentions(k, m) => Table(k) = t}
AnsOf(t) == {m \in Answers : OwnTable(DOMAIN m.rows, t)}
FlushOf(t) == {m \in Flushes : OwnTable(m.ids, t)}

LEMMA OfSame ==
    ASSUME bound' = bound
    PROVE  \A t : MsgOf(t)' = MsgOf(t) /\ AnsOf(t)' = AnsOf(t) /\ FlushOf(t)' = FlushOf(t)
  BY TablesSame DEF MsgOf, AnsOf, FlushOf, OwnTable

Shape ==
    \A t \in Keys : /\ chan[t] \in Seq(MsgOf(t)) /\ resp[t] \in Seq(AnsOf(t))
                    /\ flushes[t] \in Seq(FlushOf(t))

(* What is in the DB actor and on disk, row by row *)
Saving(k) == Flushing(k, "save", m_cache_save)
RowOK(k) ==
    /\ db_data[k] # 0 => k \in m_idindex
    /\ k \in m_idindex => db_data[k] # 0 \/ Stored(k)
    /\ Deleting(k) => db_data[k] = 0 /\ ~bound
    /\ ~bound /\ db_data[k] = 0 => AtDb(k) \in {0, Gone}
    /\ bound => sql[k] # Gone
    /\ sql[k] <= AtDb(k)
    /\ db_data[k] \notin {0, sql[k]} => Saving(k)
    /\ k \notin m_idindex /\ Stored(k) => Deleting(k)
DbInv == \A k \in Keys : RowOK(k)

LEMMA DeletingIs ==
    /\ \A k : Deleting(k) <=> k \in m_cache_del \/ InFlush(flushes[Table(k)], "del", k)
    /\ \A k : Saving(k) <=> k \in m_cache_save \/ InFlush(flushes[Table(k)], "save", k)
    /\ \A k : Deleting(k)' <=> k \in m_cache_del' \/ InFlush(flushes'[Table(k)'], "del", k)
    /\ \A k : Saving(k)' <=> k \in m_cache_save' \/ InFlush(flushes'[Table(k)'], "save", k)
  BY DEF Deleting, Saving, Flushing, InFlush

LEMMA RowTypes ==
    ASSUME TypeOK, NEW k \in Keys
    PROVE  /\ db_data[k] \in 0..MaxVersion /\ m_data[k] \in 0..MaxVersion /\ sql[k] \in 0..Gone
           /\ db_data[k] \in Nat /\ m_data[k] \in Nat /\ sql[k] \in Nat
           /\ AtDb(k) \in 0..Gone /\ AtDb(k) \in Nat
  <1>1. db_data[k] \in 0..MaxVersion /\ m_data[k] \in 0..MaxVersion /\ sql[k] \in 0..Gone
    BY DEF TypeOK
  <1> QED  BY <1>1, Constants DEF AtDb

(* A step that moves requests to the disk about *)
LEMMA DbQuiet ==
    ASSUME DbInv, UNCHANGED <<bound, db_data, m_idindex, sql>>,
           \A k \in Keys : (Deleting(k)' <=> Deleting(k)) /\ (Saving(k)' <=> Saving(k))
    PROVE  DbInv' /\ \A k \in Keys : AtDb(k)' = AtDb(k)
  <1>1. \A k \in Keys : AtDb(k)' = AtDb(k)
    BY DEF AtDb
  <1>2. \A k \in Keys : RowOK(k)'
    BY <1>1 DEF DbInv, RowOK, Stored
  <1> QED  BY <1>1, <1>2 DEF DbInv

LEMMA DbUntouched ==
    ASSUME DbInv, UNCHANGED <<bound, dbVars, cacheVars, flushes, sql>>
    PROVE  DbInv' /\ \A k \in Keys : AtDb(k)' = AtDb(k)
  <1>1. UNCHANGED <<bound, db_data, m_idindex, sql, m_cache_save, m_cache_del, flushes>>
    BY DEF dbVars, cacheVars
  <1>2. \A k \in Keys : (Deleting(k)' <=> Deleting(k)) /\ (Saving(k)' <=> Saving(k))
    BY <1>1, DeletingIs, TablesSame
  <1> QED  BY <1>1, <1>2, DbQuiet
-----------------------------------------------------------------------------
(* The DB actor's timers and flushes *)
FlushesOK == \A q \in Keys : flushes[q] \in Seq(FlushOf(q))

LEMMA FlushMessage ==
    ASSUME NEW kind \in {"save", "del"}, NEW S \in SUBSET Keys, NEW t \in Keys
    PROVE  /\ [t |-> kind, ids |-> Of(t, S)] \in FlushOf(t)
           /\ \A k \in Keys : k \in Of(t, S) <=> k \in S /\ Table(k) = t
  BY DEF FlushOf, Flushes, Of, OwnTable

(* A request of one kind goes from the cache to the mailbox. *)
LEMMA Queued ==
    ASSUME TypeOK, Shape, DbInv, NEW t \in Keys, NEW kind \in {"save", "del"},
           NEW S \in SUBSET Keys, UNCHANGED <<bound, db_data, m_idindex, sql>>,
           S = IF kind = "save" THEN m_cache_save ELSE m_cache_del,
           flushes' = [flushes EXCEPT ![t] = Append(@, [t |-> kind, ids |-> Of(t, S)])],
           m_cache_save' = IF kind = "save" THEN S \ Of(t, S) ELSE m_cache_save,
           m_cache_del' = IF kind = "del" THEN S \ Of(t, S) ELSE m_cache_del
    PROVE  /\ DbInv' /\ \A k \in Keys : AtDb(k)' = AtDb(k)
           /\ flushes' \in [Keys -> Seq(Flushes)]
           /\ \A q \in Keys : flushes'[q] \in Seq(FlushOf(q))
  <1>1. PICK m : m = [t |-> kind, ids |-> Of(t, S)]
    OBVIOUS
  <1>2. /\ m \in FlushOf(t) /\ m.t = kind
        /\ \A k \in Keys : k \in m.ids <=> k \in S /\ Table(k) = t
    BY <1>1, FlushMessage
  <1>3. flushes \in [Keys -> Seq(Flushes)]
    BY DEF TypeOK
  <1>4. /\ \A q \in Keys : flushes'[q] = IF q = t THEN Put(flushes[t], m) ELSE flushes[q]
        /\ DOMAIN flushes' = Keys
    BY <1>1, <1>3 DEF Put
  <1>5. \A q \in Keys : flushes'[q] \in Seq(FlushOf(q))
    <2>1. \A q \in Keys : flushes[q] \in Seq(FlushOf(q))
      BY DEF Shape
    <2>2. Put(flushes[t], m) \in Seq(FlushOf(t))
      BY <1>2, <2>1 DEF Put
    <2> QED  BY <1>4, <2>1, <2>2
  <1>6. flushes' \in [Keys -> Seq(Flushes)]
    <2>1. \A q \in Keys : flushes'[q] \in Seq(Flushes)
      <3> SUFFICES ASSUME NEW q \in Keys PROVE flushes'[q] \in Seq(Flushes)
        OBVIOUS
      <3>1. FlushOf(q) \subseteq Flushes
        BY DEF FlushOf
      <3> QED  BY <1>5, <3>1, SeqMore
    <2>2. flushes' = [q \in Keys |-> flushes'[q]]
      BY <1>3
    <2> QED  BY <2>1, <2>2
  <1>7. \A q, k \in Keys : \A c : InFlush(flushes'[q], c, k) <=>
           InFlush(flushes[q], c, k) \/ (q = t /\ c = kind /\ k \in m.ids)
    <2> SUFFICES ASSUME NEW q \in Keys, NEW k \in Keys, NEW c
                 PROVE  InFlush(flushes'[q], c, k) <=>
                          InFlush(flushes[q], c, k) \/ (q = t /\ c = kind /\ k \in m.ids)
      OBVIOUS
    <2>1. flushes[t] \in Seq(FlushOf(t))
      BY DEF Shape
    <2>2. InFlush(Put(flushes[t], m), c, k) <=>
              InFlush(flushes[t], c, k) \/ (m.t = c /\ k \in m.ids)
      BY <1>2, <2>1, InFlushPut
    <2> QED  BY <1>2, <1>4, <2>2
  <1>8. \A k \in Keys : Table(k)' = Table(k) /\ Table(k) \in Keys
    BY TablesSame, TablesAre
  <1>9. \A k \in Keys : /\ k \in m_cache_save' <=>
                              k \in m_cache_save /\ ~(kind = "save" /\ k \in m.ids)
                        /\ k \in m_cache_del' <=>
                              k \in m_cache_del /\ ~(kind = "del" /\ k \in m.ids)
    BY <1>1
  <1>10. \A k \in Keys : /\ k \in m.ids => Table(k) = t
                         /\ kind = "save" /\ k \in m.ids => k \in m_cache_save
                         /\ kind = "del" /\ k \in m.ids => k \in m_cache_del
    BY <1>2
  <1>11. \A k \in Keys : (Deleting(k)' <=> Deleting(k)) /\ (Saving(k)' <=> Saving(k))
    <2> SUFFICES ASSUME NEW k \in Keys
                 PROVE  (Deleting(k)' <=> Deleting(k)) /\ (Saving(k)' <=> Saving(k))
      OBVIOUS
    <2>1. /\ InFlush(flushes'[Table(k)], "del", k) <=>
               InFlush(flushes[Table(k)], "del", k)
               \/ (Table(k) = t /\ "del" = kind /\ k \in m.ids)
          /\ InFlush(flushes'[Table(k)], "save", k) <=>
               InFlush(flushes[Table(k)], "save", k)
               \/ (Table(k) = t /\ "save" = kind /\ k \in m.ids)
      BY <1>7, <1>8
    <2> QED  BY <1>8, <1>9, <1>10, <2>1, DeletingIs
  <1>12. DbInv' /\ \A k \in Keys : AtDb(k)' = AtDb(k)
    BY <1>11, DbQuiet
  <1> QED  BY <1>5, <1>6, <1>12

LEMMA TimerDoes ==
    ASSUME TypeOK, Shape, DbInv, NEW t \in Keys, SaveTimer(t) \/ DelTimer(t)
    PROVE  /\ DbInv' /\ \A k \in Keys : AtDb(k)' = AtDb(k)
           /\ flushes' \in [Keys -> Seq(Flushes)]
           /\ \A q \in Keys : flushes'[q] \in Seq(FlushOf(q))
           /\ UNCHANGED <<bound, clientVars, chan, resp, dbVars, sql, crashes>>
           /\ {m_cache_save', m_cache_del'} \subseteq SUBSET Keys
  <1>1. m_cache_save \in SUBSET Keys /\ m_cache_del \in SUBSET Keys
    BY DEF TypeOK
  <1>2. CASE SaveTimer(t)
    <2>1. /\ flushes' = [flushes EXCEPT ![t] =
                            Append(@, [t |-> "save", ids |-> Of(t, m_cache_save)])]
          /\ m_cache_save' = m_cache_save \ Of(t, m_cache_save)
          /\ UNCHANGED <<bound, clientVars, chan, resp, dbVars, m_cache_del, sql, crashes>>
      BY <1>2 DEF SaveTimer
    <2>2. UNCHANGED <<bound, db_data, m_idindex, sql>>
      BY <2>1 DEF dbVars
    <2>3. /\ DbInv' /\ \A k \in Keys : AtDb(k)' = AtDb(k)
          /\ flushes' \in [Keys -> Seq(Flushes)]
          /\ \A q \in Keys : flushes'[q] \in Seq(FlushOf(q))
      <3>1. \A S \in SUBSET Keys : S = m_cache_save =>
                /\ DbInv' /\ \A k \in Keys : AtDb(k)' = AtDb(k)
                /\ flushes' \in [Keys -> Seq(Flushes)]
                /\ \A q \in Keys : flushes'[q] \in Seq(FlushOf(q))
        BY <2>1, <2>2, Queued
      <3> QED  BY <1>1, <3>1
    <2> QED  BY <1>1, <2>1, <2>3
  <1>3. CASE DelTimer(t)
    <2>1. /\ flushes' = [flushes EXCEPT ![t] =
                            Append(@, [t |-> "del", ids |-> Of(t, m_cache_del)])]
          /\ m_cache_del' = m_cache_del \ Of(t, m_cache_del)
          /\ UNCHANGED <<bound, clientVars, chan, resp, dbVars, m_cache_save, sql, crashes>>
      BY <1>3 DEF DelTimer
    <2>2. UNCHANGED <<bound, db_data, m_idindex, sql>>
      BY <2>1 DEF dbVars
    <2>3. /\ DbInv' /\ \A k \in Keys : AtDb(k)' = AtDb(k)
          /\ flushes' \in [Keys -> Seq(Flushes)]
          /\ \A q \in Keys : flushes'[q] \in Seq(FlushOf(q))
      <3>1. \A S \in SUBSET Keys : S = m_cache_del =>
                /\ DbInv' /\ \A k \in Keys : AtDb(k)' = AtDb(k)
                /\ flushes' \in [Keys -> Seq(Flushes)]
                /\ \A q \in Keys : flushes'[q] \in Seq(FlushOf(q))
        BY <2>1, <2>2, Queued
      <3> QED  BY <1>1, <3>1
    <2> QED  BY <1>1, <2>1, <2>3
  <1> QED  BY <1>2, <1>3

(* A flush is taken from the mailbox. *)
LEMMA FlushTaken ==
    ASSUME TypeOK, Shape, NEW t \in Keys, flushes[t] # <<>>, bound' = bound,
           flushes' = [flushes EXCEPT ![t] = Tail(@)],
           UNCHANGED <<m_cache_save, m_cache_del>>
    PROVE  /\ flushes' \in [Keys -> Seq(Flushes)]
           /\ \A q \in Keys : flushes'[q] \in Seq(FlushOf(q))
           /\ Head(flushes[t]) \in FlushOf(t)
           /\ \A k \in Keys : k \in Head(flushes[t]).ids => Table(k) = t
           /\ \A k \in Keys : Deleting(k) <=>
                 Deleting(k)' \/ (Head(flushes[t]).t = "del" /\ k \in Head(flushes[t]).ids)
           /\ \A k \in Keys : Saving(k) <=>
                 Saving(k)' \/ (Head(flushes[t]).t = "save" /\ k \in Head(flushes[t]).ids)
  <1>1. \A q \in Keys : flushes[q] \in Seq(FlushOf(q))
    BY DEF Shape
  <1>2. PICK h : h = Head(flushes[t])
    OBVIOUS
  <1>3. flushes \in [Keys -> Seq(Flushes)]
    BY DEF TypeOK
  <1>4. /\ \A q \in Keys : flushes'[q] = IF q = t THEN Rest(flushes[t]) ELSE flushes[q]
        /\ DOMAIN flushes' = Keys
    BY <1>3 DEF Rest
  <1>5. h \in FlushOf(t) /\ Rest(flushes[t]) \in Seq(FlushOf(t))
    BY <1>1, <1>2 DEF Rest
  <1>6. \A q \in Keys : flushes'[q] \in Seq(FlushOf(q))
    BY <1>1, <1>4, <1>5
  <1>7. flushes' \in [Keys -> Seq(Flushes)]
    <2>1. \A q \in Keys : flushes'[q] \in Seq(Flushes)
      <3> SUFFICES ASSUME NEW q \in Keys PROVE flushes'[q] \in Seq(Flushes)
        OBVIOUS
      <3>1. FlushOf(q) \subseteq Flushes
        BY DEF FlushOf
      <3> QED  BY <1>6, <3>1, SeqMore
    <2>2. flushes' = [q \in Keys |-> flushes'[q]]
      BY <1>3
    <2> QED  BY <2>1, <2>2
  <1>8. \A k \in Keys : k \in h.ids => Table(k) = t
    BY <1>5 DEF FlushOf, OwnTable
  <1>9. \A q, k \in Keys : \A c : InFlush(flushes[q], c, k) <=>
           InFlush(flushes'[q], c, k) \/ (q = t /\ h.t = c /\ k \in h.ids)
    <2> SUFFICES ASSUME NEW q \in Keys, NEW k \in Keys, NEW c
                 PROVE  InFlush(flushes[q], c, k) <=>
                          InFlush(flushes'[q], c, k) \/ (q = t /\ h.t = c /\ k \in h.ids)
      OBVIOUS
    <2>1. InFlush(flushes[t], c, k) <=>
              InFlush(Rest(flushes[t]), c, k) \/ (h.t = c /\ k \in h.ids)
      BY <1>1, <1>2, InFlushRest
    <2> QED  BY <1>4, <2>1
  <1>10. \A k \in Keys : Table(k)' = Table(k) /\ Table(k) \in Keys
    BY TablesSame, TablesAre
  <1>11. \A k \in Keys : /\ Deleting(k) <=> Deleting(k)' \/ (h.t = "del" /\ k \in h.ids)
                         /\ Saving(k) <=> Saving(k)' \/ (h.t = "save" /\ k \in h.ids)
    <2> SUFFICES ASSUME NEW k \in Keys
                 PROVE  /\ Deleting(k) <=> Deleting(k)' \/ (h.t = "del" /\ k \in h.ids)
                        /\ Saving(k) <=> Saving(k)' \/ (h.t = "save" /\ k \in h.ids)
      OBVIOUS
    <2>1. /\ InFlush(flushes[Table(k)], "del", k) <=>
               InFlush(flushes'[Table(k)], "del", k)
               \/ (Table(k) = t /\ h.t = "del" /\ k \in h.ids)
          /\ InFlush(flushes[Table(k)], "save", k) <=>
               InFlush(flushes'[Table(k)], "save", k)
               \/ (Table(k) = t /\ h.t = "save" /\ k \in h.ids)
      BY <1>9, <1>10
    <2> QED  BY <1>8, <1>10, <2>1, DeletingIs
  <1> QED  BY <1>2, <1>5, <1>6, <1>7, <1>8, <1>11

LEMMA FlushSaveDoes ==
    ASSUME TypeOK, Shape, DbInv, NEW t \in Keys, FlushSave(t)
    PROVE  /\ DbInv' /\ \A k \in Keys : AtDb(k)' = AtDb(k) /\ sql[k] <= sql'[k]
           /\ flushes' \in [Keys -> Seq(Flushes)] /\ sql' \in [Keys -> 0..Gone]
           /\ \A q \in Keys : flushes'[q] \in Seq(FlushOf(q))
           /\ UNCHANGED <<bound, clientVars, chan, resp, dbVars, cacheVars, crashes>>
  <1>1. PICK h : h = Head(flushes[t])
    OBVIOUS
  <1>2. /\ flushes[t] # <<>> /\ h.t = "save"
        /\ flushes' = [flushes EXCEPT ![t] = Tail(@)]
        /\ sql' = With(sql, [k \in {k \in h.ids : db_data[k] # 0} |-> db_data[k]])
        /\ UNCHANGED <<bound, clientVars, chan, resp, dbVars, cacheVars, crashes>>
    BY <1>1 DEF FlushSave
  <1>3. UNCHANGED <<bound, db_data, m_idindex, m_cache_save, m_cache_del>>
    BY <1>2 DEF dbVars, cacheVars
  <1>4. /\ flushes' \in [Keys -> Seq(Flushes)]
        /\ \A q \in Keys : flushes'[q] \in Seq(FlushOf(q))
        /\ \A k \in Keys : (Deleting(k) <=> Deleting(k)')
                           /\ (Saving(k) <=> Saving(k)' \/ k \in h.ids)
    BY <1>1, <1>2, <1>3, FlushTaken
  <1>5. \A k \in Keys : sql'[k] = IF k \in h.ids /\ db_data[k] # 0 THEN db_data[k] ELSE sql[k]
    BY <1>2 DEF With
  <1>6. sql' \in [Keys -> 0..Gone]
    <2>1. \A k \in Keys : sql'[k] \in 0..Gone
      BY <1>5, RowTypes, Constants
    <2>2. sql' = [k \in Keys |-> sql'[k]]
      BY <1>2 DEF With
    <2> QED  BY <2>1, <2>2
  <1>7. \A k \in Keys : AtDb(k)' = AtDb(k)
    BY <1>3, <1>4, <1>5 DEF AtDb
  <1>8. ASSUME NEW k \in Keys PROVE RowOK(k)' /\ sql[k] <= sql'[k]
    <2>1. RowOK(k)
      BY DEF DbInv
    <2>2. CASE k \in h.ids /\ db_data[k] # 0
      <3>1. sql'[k] = db_data[k] /\ AtDb(k) = db_data[k]
        BY <1>5, <2>2 DEF AtDb
      <3>2. sql[k] <= sql'[k] /\ sql'[k] <= AtDb(k)
        BY <2>1, <3>1, RowTypes DEF RowOK
      <3>3. sql'[k] # Gone
        BY <3>1, RowTypes, Constants
      <3> QED
        BY <1>3, <1>4, <1>7, <2>1, <2>2, <3>1, <3>2, <3>3 DEF RowOK, Stored
    <2>3. CASE ~(k \in h.ids /\ db_data[k] # 0)
      <3>1. sql'[k] = sql[k]
        BY <1>5, <2>3
      <3>2. sql[k] <= sql'[k]
        BY <3>1, RowTypes
      <3> QED  BY <1>3, <1>4, <1>7, <2>1, <2>3, <3>1, <3>2 DEF RowOK, Stored
    <2> QED  BY <2>2, <2>3
  <1> QED  BY <1>2, <1>4, <1>6, <1>7, <1>8 DEF DbInv

LEMMA FlushDelDoes ==
    ASSUME TypeOK, Shape, DbInv, NEW t \in Keys, FlushDel(t)
    PROVE  /\ DbInv' /\ \A k \in Keys : AtDb(k)' = AtDb(k) /\ sql[k] <= sql'[k]
           /\ flushes' \in [Keys -> Seq(Flushes)] /\ sql' \in [Keys -> 0..Gone]
           /\ db_data' \in [Keys -> 0..MaxVersion] /\ m_idindex' \in SUBSET Keys
           /\ \A q \in Keys : flushes'[q] \in Seq(FlushOf(q))
           /\ UNCHANGED <<bound, clientVars, chan, resp, cacheVars, crashes>>
  <1>1. PICK h : h = Head(flushes[t])
    OBVIOUS
  <1>2. /\ flushes[t] # <<>> /\ h.t = "del"
        /\ flushes' = [flushes EXCEPT ![t] = Tail(@)]
        /\ db_data' = With(db_data, [k \in h.ids |-> 0])
        /\ m_idindex' = m_idindex \ h.ids
        /\ sql' = With(sql, [k \in h.ids |-> Gone])
        /\ UNCHANGED <<bound, clientVars, chan, resp, cacheVars, crashes>>
    BY <1>1 DEF FlushDel
  <1>3. UNCHANGED <<bound, m_cache_save, m_cache_del>>
    BY <1>2 DEF cacheVars
  <1>4. /\ flushes' \in [Keys -> Seq(Flushes)]
        /\ \A q \in Keys : flushes'[q] \in Seq(FlushOf(q))
        /\ \A k \in Keys : (Deleting(k) <=> Deleting(k)' \/ k \in h.ids)
                           /\ (Saving(k) <=> Saving(k)')
    BY <1>1, <1>2, <1>3, FlushTaken
  <1>5. \A k \in Keys : /\ sql'[k] = IF k \in h.ids THEN Gone ELSE sql[k]
                        /\ db_data'[k] = IF k \in h.ids THEN 0 ELSE db_data[k]
    BY <1>2 DEF With
  <1>6. sql' \in [Keys -> 0..Gone] /\ db_data' \in [Keys -> 0..MaxVersion]
        /\ m_idindex' \in SUBSET Keys
    <2>1. \A k \in Keys : sql'[k] \in 0..Gone /\ db_data'[k] \in 0..MaxVersion
      BY <1>5, RowTypes, Constants
    <2>2. sql' = [k \in Keys |-> sql'[k]] /\ db_data' = [k \in Keys |-> db_data'[k]]
      BY <1>2 DEF With
    <2>3. m_idindex' \in SUBSET Keys
      BY <1>2 DEF TypeOK
    <2> QED  BY <2>1, <2>2, <2>3
  <1>7. ASSUME NEW k \in Keys PROVE RowOK(k)' /\ sql[k] <= sql'[k] /\ AtDb(k)' = AtDb(k)
    <2>1. RowOK(k)
      BY DEF DbInv
    <2>2. CASE k \in h.ids
      <3>1. Deleting(k) /\ db_data[k] = 0 /\ ~bound
        BY <1>4, <2>1, <2>2 DEF RowOK
      <3>2. AtDb(k) = Gone /\ sql'[k] = Gone /\ db_data'[k] = 0
        BY <1>5, <2>2, <3>1 DEF AtDb
      <3>3. AtDb(k)' = Gone
        BY <3>2 DEF AtDb
      <3>4. k \notin m_idindex'
        BY <1>2, <2>2
      <3>5. sql[k] <= sql'[k] /\ sql'[k] <= AtDb(k)'
        BY <3>2, <3>3, RowTypes, Constants
      <3>6. ~bound'
        BY <1>3, <3>1
      <3>7. ~Stored(k)'
        BY <3>2 DEF Stored
      <3> QED  BY <3>2, <3>3, <3>4, <3>5, <3>6, <3>7 DEF RowOK
    <2>3. CASE k \notin h.ids
      <3>1. /\ sql'[k] = sql[k] /\ db_data'[k] = db_data[k]
            /\ k \in m_idindex' <=> k \in m_idindex
        BY <1>2, <1>5, <2>3
      <3>2. (Deleting(k)' <=> Deleting(k)) /\ (Saving(k)' <=> Saving(k))
        BY <1>4, <2>3
      <3>3. AtDb(k)' = AtDb(k) /\ (Stored(k)' <=> Stored(k))
        BY <3>1, <3>2 DEF AtDb, Stored
      <3>4. sql[k] <= sql'[k]
        BY <3>1, RowTypes
      <3> QED  BY <1>3, <2>1, <3>1, <3>2, <3>3, <3>4 DEF RowOK
    <2> QED  BY <2>2, <2>3
  <1> QED  BY <1>2, <1>4, <1>6, <1>7 DEF DbInv

-----------------------------------------------------------------------------
(* The DB actor's handlers *)
LEMMA MessageIs ==
    ASSUME NEW m \in Messages
    PROVE  /\ m.t \in {"load", "save", "del"}
           /\ m.t = "load" => m.from \in 0..MaxCrash
           /\ m.t = "save" => /\ DOMAIN m.rows \subseteq Keys
                              /\ \A k \in DOMAIN m.rows : m.rows[k] \in 1..MaxVersion
           /\ m.t = "del" => m.ids \subseteq Keys
           /\ \A k \in Keys : Mentions(k, m) =>
                 Val(k, m) \in 1..Gone /\ Val(k, m) \in Nat /\ (Val(k, m) = Gone <=> m.t = "del")
           /\ \A k \in Keys : Mentions(k, m) => m.t \in {"save", "del"}
  <1>1. /\ m.t \in {"load", "save", "del"}
        /\ m.t = "load" => m.from \in 0..MaxCrash
        /\ m.t = "save" => m.rows \in Rows
        /\ m.t = "del" => m.ids \subseteq Keys
    BY DEF Messages
  <1>2. ASSUME NEW r \in Rows
        PROVE  DOMAIN r \subseteq Keys /\ \A k \in DOMAIN r : r[k] \in 1..MaxVersion
    <2>1. PICK S \in SUBSET Keys : r \in [S -> 1..MaxVersion]
      BY DEF Rows
    <2> QED  BY <2>1
  <1>3. m.t = "save" => /\ DOMAIN m.rows \subseteq Keys
                        /\ \A k \in DOMAIN m.rows : m.rows[k] \in 1..MaxVersion
    BY <1>1, <1>2
  <1>4. ASSUME NEW k \in Keys, Mentions(k, m)
        PROVE  /\ Val(k, m) \in 1..Gone /\ Val(k, m) \in Nat /\ (Val(k, m) = Gone <=> m.t = "del")
               /\ m.t \in {"save", "del"}
    <2>1. CASE m.t = "del"
      BY <2>1, Constants DEF Val
    <2>2. CASE m.t = "save"
      <3>1. k \in DOMAIN m.rows
        BY <1>4, <2>2 DEF Mentions
      <3>2. m.rows[k] \in 1..MaxVersion
        BY <1>3, <2>2, <3>1
      <3> QED  BY <2>2, <3>2, Constants DEF Val
    <2> QED  BY <1>4, <2>1, <2>2 DEF Mentions
  <1> QED  BY <1>1, <1>3, <1>4

Order == \A k \in Keys : Ordered(chan[Table(k)], k, AtDb(k))

LEMMA SentIs ==
    /\ \A k : Sent(k) = Final(chan[Table(k)], k, AtDb(k))
    /\ \A k : Sent(k)' = Final(chan'[Table(k)'], k, AtDb(k)')
  BY DEF Sent, UnderWay, Final, About, Val

LEMMA ChanTyped ==
    ASSUME Shape
    PROVE  \A k \in Keys : chan[Table(k)] \in Seq(MsgOf(Table(k))) /\ Typed(chan[Table(k)], k)
  <1> SUFFICES ASSUME NEW k \in Keys
               PROVE  chan[Table(k)] \in Seq(MsgOf(Table(k))) /\ Typed(chan[Table(k)], k)
    OBVIOUS
  <1>1. PICK s : s = chan[Table(k)]
    OBVIOUS
  <1>2. s \in Seq(MsgOf(Table(k)))
    BY <1>1, TablesAre DEF Shape
  <1>3. MsgOf(Table(k)) \subseteq Messages
    BY DEF MsgOf
  <1>4. \A i \in DOMAIN s : s[i] \in Messages
    BY <1>2, <1>3
  <1>5. Typed(s, k)
    BY <1>4, MessageIs DEF Typed, About
  <1> QED  BY <1>1, <1>2, <1>5

LEMMA SentTypes ==
    ASSUME TypeOK, Shape, Order
    PROVE  \A k \in Keys : /\ Sent(k) \in Nat /\ AtDb(k) <= Sent(k) /\ Sent(k) \in 0..Gone
                           /\ UnderWay(k) = {} => Sent(k) = AtDb(k)
  <1> SUFFICES ASSUME NEW k \in Keys
               PROVE  /\ Sent(k) \in Nat /\ AtDb(k) <= Sent(k) /\ Sent(k) \in 0..Gone
                      /\ UnderWay(k) = {} => Sent(k) = AtDb(k)
    OBVIOUS
  <1>1. PICK s, a : s = chan[Table(k)] /\ a = AtDb(k)
    OBVIOUS
  <1>2. s \in Seq(MsgOf(Table(k))) /\ Typed(s, k) /\ Ordered(s, k, a) /\ a \in Nat /\ a \in 0..Gone
    BY <1>1, ChanTyped, RowTypes DEF Order
  <1>3. Final(s, k, a) \in Nat /\ a <= Final(s, k, a)
    BY <1>2, FinalBounds
  <1>4. Final(s, k, a) \in 0..Gone
    <2>1. CASE About(s, k) = {}
      BY <1>2, <2>1, FinalNone
    <2>2. CASE About(s, k) # {}
      <3>1. PICK i \in About(s, k) : \A j \in About(s, k) : j <= i
        BY <1>2, <2>2, LastOne
      <3>2. Final(s, k, a) = Val(k, s[i])
        BY <1>2, <3>1, FinalIs
      <3>3. s[i] \in Messages /\ Mentions(k, s[i])
        BY <1>2, <3>1 DEF About, MsgOf
      <3> QED  BY <3>2, <3>3, MessageIs, Constants
    <2> QED  BY <2>1, <2>2
  <1>5. UnderWay(k) = {} => Sent(k) = AtDb(k)
    BY DEF Sent
  <1> QED  BY <1>1, <1>3, <1>4, <1>5, SentIs

(* A message is taken, and its rows become those of the DB actor. *)
LEMMA Taken ==
    ASSUME TypeOK, Shape, NEW t \in Keys, chan[t] # <<>>, bound' = bound,
           chan' = [chan EXCEPT ![t] = Tail(@)]
    PROVE  /\ chan' \in [Keys -> Seq(Messages)]
           /\ \A q \in Keys : chan'[q] \in Seq(MsgOf(q))
           /\ \A q \in Keys : chan'[q] = IF q = t THEN Rest(chan[t]) ELSE chan[q]
           /\ Head(chan[t]) \in MsgOf(t) /\ Head(chan[t]) \in Messages
  <1>1. \A q \in Keys : chan[q] \in Seq(MsgOf(q))
    BY DEF Shape
  <1>2. chan \in [Keys -> Seq(Messages)]
    BY DEF TypeOK
  <1>3. \A q \in Keys : chan'[q] = IF q = t THEN Rest(chan[t]) ELSE chan[q]
    BY <1>2 DEF Rest
  <1>4. Rest(chan[t]) \in Seq(MsgOf(t)) /\ Head(chan[t]) \in MsgOf(t)
    BY <1>1 DEF Rest
  <1>5. \A q \in Keys : chan'[q] \in Seq(MsgOf(q))
    BY <1>1, <1>3, <1>4
  <1>6. chan' \in [Keys -> Seq(Messages)]
    <2>1. \A q \in Keys : chan'[q] \in Seq(Messages)
      <3> SUFFICES ASSUME NEW q \in Keys PROVE chan'[q] \in Seq(Messages)
        OBVIOUS
      <3>1. MsgOf(q) \subseteq Messages
        BY DEF MsgOf
      <3> QED  BY <1>5, <3>1, SeqMore
    <2>2. chan' = [q \in Keys |-> chan'[q]]
      BY <1>2
    <2> QED  BY <2>1, <2>2
  <1>7. Head(chan[t]) \in Messages
    BY <1>4 DEF MsgOf
  <1> QED  BY <1>3, <1>4, <1>5, <1>6, <1>7

LEMMA TakenOrder ==
    ASSUME TypeOK, Shape, Order, NEW t \in Keys, chan[t] # <<>>, bound' = bound,
           chan' = [chan EXCEPT ![t] = Tail(@)],
           \A k \in Keys : AtDb(k)' = IF Table(k) = t THEN Ahead(chan[t], k, AtDb(k)) ELSE AtDb(k)
    PROVE  Order' /\ \A k \in Keys : Sent(k)' = Sent(k)
  <1>1. \A q \in Keys : chan'[q] = IF q = t THEN Rest(chan[t]) ELSE chan[q]
    BY Taken
  <1>2. ASSUME NEW k \in Keys
        PROVE  /\ Ordered(chan'[Table(k)'], k, AtDb(k)')
               /\ Final(chan'[Table(k)'], k, AtDb(k)') = Final(chan[Table(k)], k, AtDb(k))
    <2>1. Table(k)' = Table(k) /\ Table(k) \in Keys
      BY TablesSame, TablesAre
    <2>2. PICK s, a : s = chan[Table(k)] /\ a = AtDb(k)
      OBVIOUS
    <2>3. s \in Seq(MsgOf(Table(k))) /\ Ordered(s, k, a) /\ a \in Nat
      BY <2>2, ChanTyped, RowTypes DEF Order
    <2>4. CASE Table(k) = t
      <3>1. chan'[Table(k)'] = Rest(s) /\ AtDb(k)' = Ahead(s, k, a) /\ s # <<>>
        BY <1>1, <2>1, <2>2, <2>4
      <3>2. Final(Rest(s), k, Ahead(s, k, a)) = Final(s, k, a)
        BY <2>3, <3>1, FinalRest
      <3>3. Ordered(Rest(s), k, Ahead(s, k, a))
        BY <2>3, <3>1, OrderedRest
      <3> QED  BY <2>2, <3>1, <3>2, <3>3
    <2>5. CASE Table(k) # t
      BY <1>1, <2>1, <2>2, <2>3, <2>5
    <2> QED  BY <2>4, <2>5
  <1> QED  BY <1>2, SentIs DEF Order

LEMMA DbSaveDoes ==
    ASSUME TypeOK, Shape, DbInv, Order, NEW t \in Keys, DbSave(t)
    PROVE  /\ DbInv' /\ Order' /\ \A k \in Keys : Sent(k)' = Sent(k)
           /\ chan' \in [Keys -> Seq(Messages)] /\ \A q \in Keys : chan'[q] \in Seq(MsgOf(q))
           /\ \A q \in Keys : chan'[q] = IF q = t THEN Rest(chan[t]) ELSE chan[q]
           /\ chan[t] # <<>> /\ Head(chan[t]).t = "save"
           /\ db_data' \in [Keys -> 0..MaxVersion]
           /\ {m_idindex', m_cache_save'} \subseteq SUBSET Keys
           /\ UNCHANGED <<bound, clientVars, resp, m_cache_del, flushes, sql, crashes>>
  <1>1. PICK h : h = Head(chan[t])
    OBVIOUS
  <1>2. PICK r : r = h.rows
    OBVIOUS
  <1>3. /\ chan[t] # <<>> /\ h.t = "save"
        /\ chan' = [chan EXCEPT ![t] = Tail(@)]
        /\ db_data' = With(db_data, r)
        /\ m_idindex' = m_idindex \cup DOMAIN r
        /\ m_cache_save' = m_cache_save \cup DOMAIN r
        /\ UNCHANGED <<bound, clientVars, resp, m_cache_del, flushes, sql, crashes>>
    BY <1>1, <1>2 DEF DbSave, Next1
  <1>4. /\ chan' \in [Keys -> Seq(Messages)] /\ \A q \in Keys : chan'[q] \in Seq(MsgOf(q))
        /\ \A q \in Keys : chan'[q] = IF q = t THEN Rest(chan[t]) ELSE chan[q]
        /\ h \in MsgOf(t) /\ h \in Messages
    BY <1>1, <1>3, Taken
  <1>5. DOMAIN r \subseteq Keys /\ \A k \in DOMAIN r : r[k] \in 1..MaxVersion
    BY <1>2, <1>3, <1>4, MessageIs
  <1>6. \A k \in Keys : /\ Mentions(k, h) <=> k \in DOMAIN r
                        /\ Mentions(k, h) => Table(k) = t
                        /\ Val(k, h) = r[k]
    BY <1>2, <1>3, <1>4 DEF Mentions, MsgOf, Val
  <1>7. \A k \in Keys : db_data'[k] = IF k \in DOMAIN r THEN r[k] ELSE db_data[k]
    BY <1>3 DEF With
  <1>8. db_data' \in [Keys -> 0..MaxVersion]
    <2>1. \A k \in Keys : db_data'[k] \in 0..MaxVersion
      BY <1>5, <1>7, RowTypes, Constants
    <2>2. db_data' = [k \in Keys |-> db_data'[k]]
      BY <1>3 DEF With
    <2> QED  BY <2>1, <2>2
  <1>9. {m_idindex', m_cache_save'} \subseteq SUBSET Keys
    BY <1>3, <1>5 DEF TypeOK
  <1>10. \A k \in Keys : /\ Deleting(k)' <=> Deleting(k)
                         /\ Saving(k)' <=> Saving(k) \/ k \in DOMAIN r
    BY <1>3, DeletingIs, TablesSame
  <1>11. ASSUME NEW k \in Keys
         PROVE  RowOK(k)' /\ AtDb(k)' = IF k \in DOMAIN r THEN r[k] ELSE AtDb(k)
    <2>1. RowOK(k)
      BY DEF DbInv
    <2>2. CASE k \in DOMAIN r
      <3>1. r[k] \in 1..MaxVersion /\ db_data'[k] = r[k] /\ db_data'[k] # 0
        BY <1>5, <1>7, <2>2
      <3>2. AtDb(k) <= r[k]
        <4>1. chan[t] \in Seq(MsgOf(t)) /\ Ordered(chan[t], k, AtDb(k)) /\ AtDb(k) \in Nat
          BY <1>6, <2>2, ChanTyped, RowTypes DEF Order
        <4>2. AtDb(k) <= Ahead(chan[t], k, AtDb(k))
          BY <4>1, <1>3, OrderedRest
        <4> QED  BY <4>2, <1>1, <1>6, <2>2 DEF Ahead
      <3>3. ~Deleting(k)
        <4> SUFFICES ASSUME Deleting(k) PROVE FALSE
          OBVIOUS
        <4>1. AtDb(k) = Gone
          BY <2>1 DEF RowOK, AtDb
        <4> QED  BY <4>1, <3>1, <3>2, Constants
      <3>4. AtDb(k)' = r[k]
        BY <3>1 DEF AtDb
      <3>5. sql'[k] = sql[k] /\ sql[k] <= r[k]
        BY <1>3, <2>1, <3>1, <3>2, RowTypes DEF RowOK
      <3>6. k \in m_idindex' /\ Saving(k)' /\ ~Deleting(k)'
        BY <1>3, <1>10, <2>2, <3>3
      <3>7. bound => sql'[k] # Gone
        BY <2>1, <3>5 DEF RowOK
      <3>8. bound' = bound
        BY <1>3
      <3> QED  BY <2>2, <3>1, <3>4, <3>5, <3>6, <3>7, <3>8 DEF RowOK
    <2>3. CASE k \notin DOMAIN r
      <3>1. db_data'[k] = db_data[k] /\ sql'[k] = sql[k] /\ bound' = bound
            /\ (k \in m_idindex' <=> k \in m_idindex)
        BY <1>3, <1>7, <2>3
      <3>2. (Deleting(k)' <=> Deleting(k)) /\ (Saving(k)' <=> Saving(k))
        BY <1>10, <2>3
      <3>3. AtDb(k)' = AtDb(k) /\ (Stored(k)' <=> Stored(k))
        BY <3>1, <3>2 DEF AtDb, Stored
      <3> QED  BY <2>1, <2>3, <3>1, <3>2, <3>3 DEF RowOK
    <2> QED  BY <2>2, <2>3
  <1>12. \A k \in Keys : AtDb(k)' =
            IF Table(k) = t THEN Ahead(chan[t], k, AtDb(k)) ELSE AtDb(k)
    BY <1>1, <1>6, <1>11 DEF Ahead
  <1>13. Order' /\ \A k \in Keys : Sent(k)' = Sent(k)
    <2>1. chan' = [chan EXCEPT ![t] = Tail(@)] /\ chan[t] # <<>> /\ bound' = bound
      BY <1>3
    <2> QED  BY <1>12, <2>1, TakenOrder
  <1>14. DbInv'
    BY <1>11 DEF DbInv
  <1> QED  BY <1>1, <1>3, <1>4, <1>8, <1>9, <1>13, <1>14

LEMMA DbDeleteDoes ==
    ASSUME TypeOK, Shape, DbInv, Order, NEW t \in Keys, DbDelete(t)
    PROVE  /\ DbInv' /\ Order' /\ \A k \in Keys : Sent(k)' = Sent(k)
           /\ chan' \in [Keys -> Seq(Messages)] /\ \A q \in Keys : chan'[q] \in Seq(MsgOf(q))
           /\ \A q \in Keys : chan'[q] = IF q = t THEN Rest(chan[t]) ELSE chan[q]
           /\ chan[t] # <<>> /\ Head(chan[t]).t = "del"
           /\ db_data' \in [Keys -> 0..MaxVersion]
           /\ {m_idindex', m_cache_del'} \subseteq SUBSET Keys
           /\ UNCHANGED <<bound, clientVars, resp, m_cache_save, flushes, sql, crashes>>
  <1>1. PICK h : h = Head(chan[t])
    OBVIOUS
  <1>3. /\ chan[t] # <<>> /\ h.t = "del"
        /\ chan' = [chan EXCEPT ![t] = Tail(@)]
        /\ db_data' = With(db_data, [k \in h.ids |-> 0])
        /\ m_idindex' = m_idindex \ h.ids
        /\ m_cache_del' = m_cache_del \cup h.ids
        /\ UNCHANGED <<bound, clientVars, resp, m_cache_save, flushes, sql, crashes>>
    BY <1>1 DEF DbDelete, Next1
  <1>4. /\ chan' \in [Keys -> Seq(Messages)] /\ \A q \in Keys : chan'[q] \in Seq(MsgOf(q))
        /\ \A q \in Keys : chan'[q] = IF q = t THEN Rest(chan[t]) ELSE chan[q]
        /\ h \in MsgOf(t) /\ h \in Messages
    BY <1>1, <1>3, Taken
  <1>5. h.ids \subseteq Keys /\ ~bound
    BY <1>3, <1>4, MessageIs DEF MsgOf
  <1>6. \A k \in Keys : /\ Mentions(k, h) <=> k \in h.ids
                        /\ Mentions(k, h) => Table(k) = t
                        /\ Val(k, h) = Gone
    BY <1>3, <1>4 DEF Mentions, MsgOf, Val
  <1>7. \A k \in Keys : db_data'[k] = IF k \in h.ids THEN 0 ELSE db_data[k]
    BY <1>3 DEF With
  <1>8. db_data' \in [Keys -> 0..MaxVersion]
    <2>1. \A k \in Keys : db_data'[k] \in 0..MaxVersion
      BY <1>7, RowTypes, Constants
    <2>2. db_data' = [k \in Keys |-> db_data'[k]]
      BY <1>3 DEF With
    <2> QED  BY <2>1, <2>2
  <1>9. {m_idindex', m_cache_del'} \subseteq SUBSET Keys
    BY <1>3, <1>5 DEF TypeOK
  <1>10. \A k \in Keys : /\ Deleting(k)' <=> Deleting(k) \/ k \in h.ids
                         /\ Saving(k)' <=> Saving(k)
    BY <1>3, DeletingIs, TablesSame
  <1>11. ASSUME NEW k \in Keys
         PROVE  RowOK(k)' /\ AtDb(k)' = IF k \in h.ids THEN Gone ELSE AtDb(k)
    <2>1. RowOK(k)
      BY DEF DbInv
    <2>2. CASE k \in h.ids
      <3>1. db_data'[k] = 0 /\ k \notin m_idindex' /\ Deleting(k)'
        BY <1>3, <1>7, <1>10, <2>2
      <3>2. AtDb(k)' = Gone
        BY <3>1 DEF AtDb
      <3>3. sql'[k] = sql[k] /\ sql[k] <= Gone /\ bound' = bound
        BY <1>3, RowTypes, Constants
      <3> QED  BY <1>5, <2>2, <3>1, <3>2, <3>3 DEF RowOK
    <2>3. CASE k \notin h.ids
      <3>1. db_data'[k] = db_data[k] /\ sql'[k] = sql[k] /\ bound' = bound
            /\ (k \in m_idindex' <=> k \in m_idindex)
        BY <1>3, <1>7, <2>3
      <3>2. (Deleting(k)' <=> Deleting(k)) /\ (Saving(k)' <=> Saving(k))
        BY <1>10, <2>3
      <3>3. AtDb(k)' = AtDb(k) /\ (Stored(k)' <=> Stored(k))
        BY <3>1, <3>2 DEF AtDb, Stored
      <3> QED  BY <2>1, <2>3, <3>1, <3>2, <3>3 DEF RowOK
    <2> QED  BY <2>2, <2>3
  <1>12. \A k \in Keys : AtDb(k)' =
            IF Table(k) = t THEN Ahead(chan[t], k, AtDb(k)) ELSE AtDb(k)
    BY <1>1, <1>6, <1>11 DEF Ahead
  <1>13. Order' /\ \A k \in Keys : Sent(k)' = Sent(k)
    <2>1. chan' = [chan EXCEPT ![t] = Tail(@)] /\ chan[t] # <<>> /\ bound' = bound
      BY <1>3
    <2> QED  BY <1>12, <2>1, TakenOrder
  <1>14. DbInv'
    BY <1>11 DEF DbInv
  <1> QED  BY <1>1, <1>3, <1>4, <1>8, <1>9, <1>13, <1>14

-----------------------------------------------------------------------------
(* The answer to a load *)
LEMMA InjectionOnto ==
    ASSUME NEW A, NEW B, NEW h \in Injection(A, B), IsFiniteSet(B),
           Cardinality(A) = Cardinality(B)
    PROVE  h \in Surjection(A, B)
  <1>1. Cardinality(A) = Cardinality(B) <=> h \in Surjection(A, B)
    BY FS_Injection, Zenon
  <1> QED  BY <1>1

LEMMA Listed ==
    ASSUME NEW S \in SUBSET Keys
    PROVE  /\ SetToSeq(S) \in Seq(S)
           /\ \A k \in S : \E i \in 1..Len(SetToSeq(S)) : SetToSeq(S)[i] = k
  <1>1. PICK n \in Nat : n = Cardinality(S) /\ IsFiniteSet(S) /\ ExistsBijection(1..n, S)
    BY Constants, FS_Subset, FS_CardinalityType
  <1>2. PICK f : f = SetToSeq(S)
    OBVIOUS
  <1>3. f \in [1..n -> S] /\ IsInjective(f)
    <2>1. \E g \in [1..n -> S] : IsInjective(g)
      <3>1. PICK g : g \in Bijection(1..n, S)
        BY <1>1 DEF ExistsBijection
      <3> QED  BY <3>1 DEF Bijection, Injection, IsInjective
    <2>2. f = CHOOSE g \in [1..n -> S] : IsInjective(g)
      BY <1>1, <1>2 DEF SetToSeq
    <2> QED  BY <2>1, <2>2
  <1>4. f \in Surjection(1..n, S)
    <2>1. PICK D : D = 1..n
      OBVIOUS
    <2>2. Cardinality(D) = Cardinality(S)
      BY <1>1, <2>1, FS_Interval
    <2>3. f \in Injection(D, S)
      BY <1>3, <2>1 DEF Injection
    <2>4. f \in Surjection(D, S)
      BY <1>1, <2>2, <2>3, InjectionOnto, Zenon
    <2> QED  BY <2>1, <2>4
  <1>5. f \in Seq(S) /\ Len(f) = n
    BY <1>3
  <1>6. \A k \in S : \E i \in 1..n : f[i] = k
    BY <1>3, <1>4 DEF Surjection
  <1> QED  BY <1>2, <1>5, <1>6

LEMMA Division ==
    ASSUME NEW a \in Nat, NEW b \in Nat, NEW m \in Nat \ {0}, a <= b
    PROVE  a \div m \in Nat /\ b \div m \in Nat /\ a \div m <= b \div m
  OBVIOUS

(* What an answer of rows f of S is: chunks of it, the last one marked. *)
Answering(c, f, S) ==
    /\ \A i \in DOMAIN c : c[i].m_over <=> i = Len(c)
    /\ \A i \in DOMAIN c : \A k \in DOMAIN c[i].rows : k \in S /\ c[i].rows[k] = f[k]
    /\ \A k \in S : \E i \in DOMAIN c : k \in DOMAIN c[i].rows

LEMMA ChunksAnswer ==
    ASSUME NEW S \in SUBSET Keys, NEW f, \A k \in S : f[k] \in 1..MaxVersion
    PROVE  /\ Chunks(f, S) \in Seq(Answers) /\ Chunks(f, S) # <<>>
           /\ Answering(Chunks(f, S), f, S)
  <1> DEFINE m == m_sendmaxcount
  <1>1. PICK ids : ids = SetToSeq(S)
    OBVIOUS
  <1>2. /\ ids \in Seq(S) /\ Len(ids) \in Nat /\ DOMAIN ids = 1..Len(ids)
        /\ \A i \in 1..Len(ids) : ids[i] \in S
        /\ \A k \in S : \E i \in 1..Len(ids) : ids[i] = k
    BY <1>1, Listed
  <1> DEFINE last == Len(ids) \div m
             Chunk(j) == {ids[i] : i \in {h \in DOMAIN ids : (h - 1) \div m = j}}
             Part(j) == [k \in Chunk(j) |-> f[k]]
  <1>3. m \in Nat \ {0} /\ last \in Nat
    BY <1>2, Constants, Division
  <1>4. PICK n \in Nat : n = last + 1 /\ n > 0
    BY <1>3
  <1>5. PICK c : c = [j \in 1..n |-> [rows |-> Part(j - 1), m_over |-> j = n]]
    OBVIOUS
  <1>6. Chunks(f, S) = c
    BY <1>1, <1>4, <1>5 DEF Chunks
  <1>7. \A j : Chunk(j) \subseteq S
    BY <1>2
  <1>8. ASSUME NEW j \in 1..n
        PROVE  /\ c[j] \in Answers /\ c[j].rows = Part(j - 1)
               /\ c[j].m_over <=> j = n
    <2>1. PICK P : P = Part(j - 1)
      OBVIOUS
    <2>2. PICK b \in BOOLEAN : b <=> j = n
      OBVIOUS
    <2>3. P \in Rows
      <3>1. PICK C \in SUBSET Keys : C = Chunk(j - 1) /\ C \subseteq S
        BY <1>7
      <3>2. P = [k \in C |-> f[k]]
        BY <2>1, <3>1
      <3>3. P \in [C -> 1..MaxVersion]
        BY <3>1, <3>2
      <3> QED  BY <3>3 DEF Rows
    <2>4. c[j] = [rows |-> P, m_over |-> b]
      BY <1>5, <2>1, <2>2
    <2> HIDE DEF Part
    <2> QED  BY <2>1, <2>2, <2>3, <2>4 DEF Answers
  <1>9. c \in Seq(Answers) /\ DOMAIN c = 1..n /\ Len(c) = n /\ c # <<>>
    <2>1. c \in [1..n -> Answers]
      BY <1>5, <1>8
    <2>2. c \in Seq(Answers) /\ Len(c) = n
      BY <2>1
    <2> QED  BY <1>4, <2>1, <2>2
  <1>10. ASSUME NEW j \in 1..n, NEW k \in DOMAIN c[j].rows
         PROVE  k \in S /\ c[j].rows[k] = f[k]
    <2>1. k \in Chunk(j - 1) /\ c[j].rows[k] = f[k]
      BY <1>8
    <2> QED  BY <1>7, <2>1
  <1>11. ASSUME NEW k \in S PROVE \E j \in 1..n : k \in DOMAIN c[j].rows
    <2>1. PICK i \in 1..Len(ids) : ids[i] = k
      BY <1>2
    <2>2. PICK j \in Nat : j = (i - 1) \div m /\ j <= last
      <3>1. i - 1 \in Nat /\ i - 1 <= Len(ids)
        BY <1>2
      <3> QED  BY <1>2, <1>3, <3>1, Division
    <2>3. PICK h \in 1..n : h - 1 = j
      <3>1. j + 1 \in 1..n /\ (j + 1) - 1 = j
        BY <1>3, <1>4, <2>2
      <3> QED  BY <3>1
    <2>4. k \in Chunk(j)
      BY <1>2, <2>1, <2>2
    <2>5. DOMAIN c[h].rows = Chunk(j)
      <3>1. c[h].rows = Part(h - 1)
        BY <1>8
      <3>2. c[h].rows = Part(j)
        BY <2>3, <3>1
      <3> QED  BY <3>2
    <2> QED  BY <2>3, <2>4, <2>5
  <1>12. Answering(c, f, S)
    BY <1>8, <1>9, <1>10, <1>11 DEF Answering
  <1> QED  BY <1>6, <1>9, <1>12

(* A load makes the row of an id nobody knows, and leaves the others. *)
Makes(t) == bound /\ t \notin m_idindex
LoadedRows(t) ==
    [db_data EXCEPT ![t] = IF bound /\ t \notin m_idindex THEN 1
                           ELSE IF bound /\ @ = 0 THEN sql[t] ELSE @]
LoadAnswer(t) ==
    IF bound THEN <<[rows |-> [k \in {t} |-> LoadedRows(t)[t]], m_over |-> TRUE]>>
    ELSE Chunks(LoadedRows(t), {k \in Keys : LoadedRows(t)[k] # 0})

LEMMA LoadIs ==
    ASSUME NEW t \in Keys, DbLoad(t)
    PROVE  /\ Next1(t, "load")
           /\ chan' = [chan EXCEPT ![t] = Tail(@)]
           /\ db_data' = LoadedRows(t)
           /\ m_idindex' = IF bound THEN m_idindex \cup {t} ELSE m_idindex
           /\ m_cache_save' = IF Makes(t) THEN m_cache_save \cup {t} ELSE m_cache_save
           /\ resp' = IF Head(chan[t]).from = crashes
                      THEN [resp EXCEPT ![t] = LoadAnswer(t)] ELSE resp
           /\ UNCHANGED <<bound, clientVars, m_cache_del, flushes, sql, crashes>>
  BY DEF DbLoad, LoadedRows, LoadAnswer, Makes

LEMMA LoadRows ==
    ASSUME TypeOK, DbInv, NEW t \in Keys, DbLoad(t)
    PROVE  /\ DbInv' /\ db_data' \in [Keys -> 0..MaxVersion]
           /\ {m_idindex', m_cache_save'} \subseteq SUBSET Keys
           /\ \A k \in Keys : AtDb(k)' = IF k = t /\ Makes(t) THEN 1 ELSE AtDb(k)
           /\ Makes(t) => AtDb(t) = 0
           /\ bound => db_data'[t] \in 1..MaxVersion /\ AtDb(t)' = db_data'[t]
           /\ ~bound => db_data' = db_data
  <1>1. /\ db_data' = LoadedRows(t)
        /\ m_idindex' = IF bound THEN m_idindex \cup {t} ELSE m_idindex
        /\ m_cache_save' = IF Makes(t) THEN m_cache_save \cup {t} ELSE m_cache_save
        /\ UNCHANGED <<bound, m_cache_del, flushes, sql>>
    BY LoadIs
  <1>2. db_data \in [Keys -> 0..MaxVersion]
    BY DEF TypeOK
  <1>3. \A k \in Keys : k # t => db_data'[k] = db_data[k]
    BY <1>1, <1>2 DEF LoadedRows
  <1>4. db_data'[t] = IF Makes(t) THEN 1 ELSE IF bound /\ db_data[t] = 0 THEN sql[t] ELSE db_data[t]
    BY <1>1, <1>2 DEF LoadedRows, Makes
  <1>5. RowOK(t) /\ \A k \in Keys : RowOK(k)
    BY DEF DbInv
  <1>6. Makes(t) => db_data[t] = 0 /\ sql[t] = 0 /\ ~Deleting(t) /\ AtDb(t) = 0
    BY <1>5, RowTypes DEF Makes, RowOK, Stored, AtDb
  <1>7. bound => db_data'[t] \in 1..MaxVersion /\ ~Deleting(t)
    <2>1. CASE Makes(t)
      BY <1>4, <1>6, <2>1, Constants
    <2>2. ASSUME bound, ~Makes(t) PROVE db_data'[t] \in 1..MaxVersion /\ ~Deleting(t)
      <3>1. db_data[t] # 0 \/ (sql[t] # 0 /\ sql[t] # Gone)
        BY <1>5, <2>2 DEF RowOK, Makes, Stored
      <3>2. db_data'[t] = IF db_data[t] = 0 THEN sql[t] ELSE db_data[t]
        BY <1>4, <2>2
      <3>3. db_data[t] \in 0..MaxVersion /\ sql[t] \in 0..Gone
        BY RowTypes
      <3>4. ~Deleting(t)
        BY <1>5, <2>2 DEF RowOK
      <3> QED  BY <3>1, <3>2, <3>3, <3>4, Constants
    <2> QED  BY <2>1, <2>2
  <1>8. ~bound => db_data' = db_data
    <2> SUFFICES ASSUME ~bound PROVE db_data' = db_data
      OBVIOUS
    <2>1. db_data'[t] = db_data[t]
      BY <1>4 DEF Makes
    <2> QED  BY <1>1, <1>2, <2>1 DEF LoadedRows
  <1>9. db_data' \in [Keys -> 0..MaxVersion]
    <2>1. db_data'[t] \in 0..MaxVersion
      <3>1. CASE bound
        BY <1>7, <3>1, Constants
      <3>2. CASE ~bound
        BY <1>2, <1>8, <3>2
      <3> QED  BY <3>1, <3>2
    <2>2. \A k \in Keys : db_data'[k] \in 0..MaxVersion
      BY <1>2, <1>3, <2>1
    <2>3. db_data' = [k \in Keys |-> db_data'[k]]
      BY <1>1, <1>2 DEF LoadedRows
    <2> QED  BY <2>2, <2>3
  <1>10. {m_idindex', m_cache_save'} \subseteq SUBSET Keys
    BY <1>1 DEF TypeOK
  <1>11. \A k \in Keys : /\ Deleting(k)' <=> Deleting(k)
                         /\ Saving(k)' <=> Saving(k) \/ (k = t /\ Makes(t))
    BY <1>1, DeletingIs, TablesSame
  <1>12. ASSUME NEW k \in Keys
         PROVE  RowOK(k)' /\ AtDb(k)' = IF k = t /\ Makes(t) THEN 1 ELSE AtDb(k)
    <2>1. CASE k = t /\ Makes(t)
      <3>1. db_data'[k] = 1 /\ AtDb(k)' = 1 /\ ~Deleting(k)' /\ Saving(k)' /\ sql'[k] = 0
        BY <1>1, <1>4, <1>6, <1>11, <2>1 DEF AtDb
      <3>2. k \in m_idindex' /\ bound /\ bound'
        BY <1>1, <2>1 DEF Makes
      <3>3. sql'[k] # Gone
        BY <3>1, Constants
      <3> QED  BY <2>1, <3>1, <3>2, <3>3 DEF RowOK
    <2>2. CASE k = t /\ bound /\ ~Makes(t)
      <3>1. /\ db_data'[k] = IF db_data[k] = 0 THEN sql[k] ELSE db_data[k]
            /\ k \in m_idindex' /\ k \in m_idindex
            /\ db_data'[k] \in 1..MaxVersion /\ ~Deleting(k)
            /\ sql'[k] = sql[k] /\ bound' = bound
        BY <1>1, <1>4, <1>7, <2>2 DEF Makes
      <3>2. db_data'[k] # 0 /\ AtDb(k)' = db_data'[k] /\ AtDb(k) = db_data'[k]
        BY <3>1 DEF AtDb
      <3>3. ~Deleting(k)' /\ (Saving(k)' <=> Saving(k))
        BY <1>11, <2>2, <3>1
      <3>4. RowOK(k)
        BY <1>5
      <3> QED  BY <2>2, <3>1, <3>2, <3>3, <3>4 DEF RowOK, Stored
    <2>3. CASE k # t \/ ~bound
      <3>1. /\ db_data'[k] = db_data[k] /\ sql'[k] = sql[k] /\ bound' = bound
            /\ k \in m_idindex' <=> k \in m_idindex
            /\ ~(k = t /\ Makes(t))
        BY <1>1, <1>3, <1>8, <2>3 DEF Makes
      <3>2. (Deleting(k)' <=> Deleting(k)) /\ (Saving(k)' <=> Saving(k))
        BY <1>11, <3>1
      <3>3. AtDb(k)' = AtDb(k) /\ (Stored(k)' <=> Stored(k)) /\ RowOK(k)
        BY <1>5, <3>1, <3>2 DEF AtDb, Stored
      <3> QED  BY <3>1, <3>2, <3>3 DEF RowOK
    <2> QED  BY <2>1, <2>2, <2>3
  <1>13. bound => AtDb(t)' = db_data'[t]
    BY <1>7 DEF AtDb
  <1>14. DbInv'
    BY <1>12 DEF DbInv
  <1> QED  BY <1>6, <1>7, <1>8, <1>9, <1>10, <1>12, <1>13, <1>14

LEMMA LoadOrder ==
    ASSUME TypeOK, Shape, DbInv, Order, NEW t \in Keys, DbLoad(t)
    PROVE  /\ Order'
           /\ \A k \in Keys : Sent(k)' =
                 IF k = t /\ Makes(t) /\ Sent(k) = 0 THEN 1 ELSE Sent(k)
           /\ chan' \in [Keys -> Seq(Messages)] /\ \A q \in Keys : chan'[q] \in Seq(MsgOf(q))
           /\ \A q \in Keys : chan'[q] = IF q = t THEN Rest(chan[t]) ELSE chan[q]
           /\ chan[t] # <<>> /\ Head(chan[t]).t = "load"
  <1>1. /\ chan[t] # <<>> /\ Head(chan[t]).t = "load"
        /\ chan' = [chan EXCEPT ![t] = Tail(@)] /\ bound' = bound
    BY LoadIs DEF Next1
  <1>2. /\ chan' \in [Keys -> Seq(Messages)] /\ \A q \in Keys : chan'[q] \in Seq(MsgOf(q))
        /\ \A q \in Keys : chan'[q] = IF q = t THEN Rest(chan[t]) ELSE chan[q]
    BY <1>1, Taken
  <1>3. \A k \in Keys : AtDb(k)' = IF k = t /\ Makes(t) THEN 1 ELSE AtDb(k)
    BY LoadRows
  <1>4. Makes(t) => AtDb(t) = 0 /\ bound
    BY LoadRows DEF Makes
  <1>5. ASSUME NEW k \in Keys
        PROVE  /\ Ordered(chan'[Table(k)'], k, AtDb(k)')
               /\ Final(chan'[Table(k)'], k, AtDb(k)') =
                     IF k = t /\ Makes(t) /\ Final(chan[Table(k)], k, AtDb(k)) = 0 THEN 1
                     ELSE Final(chan[Table(k)], k, AtDb(k))
    <2>1. Table(k)' = Table(k) /\ Table(k) \in Keys /\ (bound => Table(k) = k)
      BY <1>1, TablesSame, TablesAre
    <2>2. PICK s, a, b : s = chan[Table(k)] /\ a = AtDb(k) /\ b = AtDb(k)'
      OBVIOUS
    <2>3. s \in Seq(MsgOf(Table(k))) /\ Typed(s, k) /\ Ordered(s, k, a) /\ a \in Nat
      BY <2>2, ChanTyped, RowTypes DEF Order
    <2>4. b = IF k = t /\ Makes(t) THEN 1 ELSE a
      BY <1>3, <2>2
    <2>5. \A i \in About(s, k) : s[i] \in Messages /\ Mentions(k, s[i])
      BY <2>3 DEF About, MsgOf
    <2>6. \A i \in About(s, k) : Val(k, s[i]) \in Nat /\ Val(k, s[i]) >= 1
      BY <2>5, MessageIs, Constants
    <2>7. Ordered(s, k, b) /\ b \in Nat
      <3>1. CASE k = t /\ Makes(t)
        BY <2>3, <2>4, <2>6, <3>1 DEF Ordered
      <3>2. CASE ~(k = t /\ Makes(t))
        BY <2>3, <2>4, <3>2
      <3> QED  BY <3>1, <3>2
    <2>8. Final(s, k, b) = IF k = t /\ Makes(t) /\ Final(s, k, a) = 0 THEN 1 ELSE Final(s, k, a)
      <3>1. CASE About(s, k) = {}
        <4>1. Final(s, k, b) = b /\ Final(s, k, a) = a
          BY <3>1, FinalNone
        <4>2. k = t /\ Makes(t) => a = 0
          BY <1>4, <2>2
        <4> QED  BY <2>4, <4>1, <4>2
      <3>2. CASE About(s, k) # {}
        <4>1. PICK i \in About(s, k) : \A j \in About(s, k) : j <= i
          BY <2>3, <3>2, LastOne
        <4>2. Final(s, k, a) = Val(k, s[i]) /\ Final(s, k, b) = Val(k, s[i])
          BY <2>3, <4>1, FinalIs
        <4>3. Val(k, s[i]) # 0
          BY <2>6
        <4> QED  BY <4>2, <4>3
      <3> QED  BY <3>1, <3>2
    <2>9. CASE Table(k) = t
      <3>1. chan'[Table(k)'] = Rest(s) /\ s # <<>> /\ Head(s).t = "load"
        BY <1>1, <1>2, <2>1, <2>2, <2>9
      <3>2. Ahead(s, k, b) = b
        BY <3>1 DEF Ahead, Mentions
      <3>3. Ordered(Rest(s), k, Ahead(s, k, b))
        BY <2>3, <2>7, <3>1, OrderedRest
      <3>4. Final(Rest(s), k, Ahead(s, k, b)) = Final(s, k, b)
        BY <2>3, <3>1, FinalRest
      <3> QED  BY <2>2, <2>8, <3>1, <3>2, <3>3, <3>4
    <2>10. CASE Table(k) # t
      BY <1>2, <2>1, <2>2, <2>7, <2>8, <2>10
    <2> QED  BY <2>9, <2>10
  <1>6. Order'
    BY <1>5 DEF Order
  <1>7. \A k \in Keys : Sent(k)' =
            IF k = t /\ Makes(t) /\ Sent(k) = 0 THEN 1 ELSE Sent(k)
    BY <1>5, SentIs
  <1> QED  BY <1>1, <1>2, <1>6, <1>7

(* The answer has every row of the table, as the DB actor has it. *)
Answered(t, c) ==
    /\ \A i \in DOMAIN c : c[i].m_over <=> i = Len(c)
    /\ \A i \in DOMAIN c : \A k \in DOMAIN c[i].rows : c[i].rows[k] = AtDb(k)
    /\ \A k \in Keys : Table(k) = t /\ AtDb(k) \notin {0, Gone} =>
           \E i \in DOMAIN c : k \in DOMAIN c[i].rows
AllAnswered(t) == Answered(t, resp[t])

LEMMA LoadAnswers ==
    ASSUME TypeOK, Shape, DbInv, NEW t \in Keys, t \in Tables, DbLoad(t)
    PROVE  /\ resp' \in [Keys -> Seq(Answers)]
           /\ \A q \in Keys : resp'[q] \in Seq(AnsOf(q))
           /\ \A q \in Keys : q # t => resp'[q] = resp[q]
           /\ Head(chan[t]).from # crashes => resp' = resp
           /\ Head(chan[t]).from = crashes => resp'[t] # <<>> /\ AllAnswered(t)'
  <1>1. PICK c : c = LoadAnswer(t)
    OBVIOUS
  <1>2. /\ resp' = IF Head(chan[t]).from = crashes THEN [resp EXCEPT ![t] = c] ELSE resp
        /\ db_data' = LoadedRows(t) /\ bound' = bound
    BY <1>1, LoadIs
  <1>3. /\ DbInv' /\ db_data' \in [Keys -> 0..MaxVersion]
        /\ bound => db_data'[t] \in 1..MaxVersion /\ AtDb(t)' = db_data'[t]
    BY LoadRows
  <1>4. /\ \A k \in Keys : Table(k)' = Table(k) /\ (bound => Table(k) = k)
        /\ \A k \in Keys : ~bound => Table(k) = t
    BY <1>2, TablesSame, TablesAre DEF Tables, Table
  <1>5. c \in Seq(AnsOf(t)) /\ c # <<>> /\ Answered(t, c)'
    <2>1. CASE bound
      <3>1. PICK f : f = [k \in {t} |-> db_data'[t]]
        OBVIOUS
      <3>2. PICK m : m = [rows |-> f, m_over |-> TRUE]
        OBVIOUS
      <3>3. c = <<m>>
        BY <1>1, <1>2, <2>1, <3>1, <3>2 DEF LoadAnswer
      <3>4. f \in [{t} -> 1..MaxVersion] /\ {t} \in SUBSET Keys
        BY <1>3, <2>1, <3>1
      <3>5. f \in Rows /\ DOMAIN f = {t} /\ f[t] = db_data'[t]
        BY <3>1, <3>4 DEF Rows
      <3>6. m \in AnsOf(t) /\ m.rows = f /\ m.m_over
        BY <1>4, <2>1, <3>2, <3>5 DEF AnsOf, Answers, OwnTable
      <3>7. /\ c \in Seq(AnsOf(t)) /\ c # <<>> /\ DOMAIN c = {1} /\ Len(c) = 1
            /\ c[1] = m
        BY <3>3, <3>6
      <3>8. Answered(t, c)'
        BY <1>3, <1>4, <2>1, <3>5, <3>6, <3>7 DEF Answered
      <3> QED  BY <3>7, <3>8
    <2>2. CASE ~bound
      <3>1. PICK S \in SUBSET Keys : S = {k \in Keys : db_data'[k] # 0}
        OBVIOUS
      <3>2. PICK f : f = db_data'
        OBVIOUS
      <3>3. c = Chunks(f, S)
        BY <1>1, <1>2, <2>2, <3>1, <3>2 DEF LoadAnswer
      <3>4. \A k \in S : f[k] \in 1..MaxVersion
        BY <1>3, <3>1, <3>2, Constants
      <3>5. c \in Seq(Answers) /\ c # <<>> /\ Answering(c, f, S)
        BY <3>3, <3>4, ChunksAnswer
      <3>6. \A k \in S : AtDb(k)' = f[k]
        BY <3>1, <3>2 DEF AtDb
      <3>7. \A k \in Keys : k \notin S => AtDb(k)' \in {0, Gone}
        <4>1. \A k \in Keys : RowOK(k)'
          BY <1>3 DEF DbInv
        <4>2. ~bound'
          BY <1>2, <2>2
        <4> QED  BY <3>1, <4>1, <4>2 DEF RowOK
      <3>8. Answered(t, c)'
        BY <3>5, <3>6, <3>7, <1>4 DEF Answering, Answered, Gone
      <3>9. Answers \subseteq AnsOf(t)
        BY <1>4, <2>2 DEF AnsOf, OwnTable
      <3> QED  BY <3>5, <3>8, <3>9, SeqMore
    <2> QED  BY <2>1, <2>2
  <1>6. resp \in [Keys -> Seq(Answers)] /\ \A q \in Keys : resp[q] \in Seq(AnsOf(q))
    BY DEF TypeOK, Shape
  <1>7. \A q \in Keys : resp'[q] = IF q = t /\ Head(chan[t]).from = crashes THEN c ELSE resp[q]
    BY <1>2, <1>6
  <1>8. \A q \in Keys : resp'[q] \in Seq(AnsOf(q))
    BY <1>5, <1>6, <1>7
  <1>9. resp' \in [Keys -> Seq(Answers)]
    <2>1. AnsOf(t) \subseteq Answers
      BY DEF AnsOf
    <2>2. c \in Seq(Answers)
      BY <1>5, <2>1, SeqMore
    <2> QED  BY <1>2, <1>6, <2>2
  <1>10. ASSUME Head(chan[t]).from = crashes PROVE resp'[t] # <<>> /\ AllAnswered(t)'
    <2>1. resp'[t] = c
      BY <1>7, <1>10
    <2> QED  BY <1>5, <2>1 DEF AllAnswered, Answered
  <1>11. Head(chan[t]).from # crashes => resp' = resp
    BY <1>2
  <1> QED  BY <1>7, <1>8, <1>9, <1>10, <1>11

-----------------------------------------------------------------------------
(* The clients: what they marked, what they wait for, what they own.  An   *)
(* answer of an earlier life of the game server never reaches a client.    *)
Stale == {m \in Messages : m.t = "load" => m.from < crashes}
Plain == {m \in Messages : m.t # "load"}
Asking == [t |-> "load", from |-> crashes]

Marks ==
    /\ \A k \in m_dellist : m_data[k] = 0
    /\ bound => m_dellist = {}
    /\ phase # "running" => m_modified = {} /\ m_dellist = {}
    /\ phase = "down" => m_data = NoRows /\ m_load = {} /\ resp = Quiet

(* d of the row in memory, and the answers s still to come, are what the   *)
(* DB actor has.                                                           *)
ComesIn(k, d, s) ==
    /\ d \in {0, Sent(k)}
    /\ \A i \in DOMAIN s : k \in DOMAIN s[i].rows => s[i].rows[k] = Sent(k)
    /\ Sent(k) \notin {0, Gone} =>
          d = Sent(k) \/ \E i \in DOMAIN s : k \in DOMAIN s[i].rows
Comes(k) == ComesIn(k, m_data[k], resp[Table(k)])

Asked(t) ==
    /\ \E s \in Seq(Stale) : chan[t] = Put(s, Asking)
    /\ resp[t] = <<>> /\ t \notin m_load
    /\ \A k \in Keys : Table(k) = t => m_data[k] = 0
Served(t) ==
    /\ chan[t] = <<>> /\ (t \in m_load <=> resp[t] = <<>>)
    /\ \A i \in DOMAIN resp[t] : resp[t][i].m_over <=> i = Len(resp[t])
    /\ \A k \in Keys : Table(k) = t => Comes(k)

Talk ==
    /\ phase = "down" => \A t \in Keys : chan[t] \in Seq(Stale)
    /\ phase = "running" => \A t \in Keys : resp[t] = <<>> /\ chan[t] \in Seq(Plain)
    /\ phase = "loading" => \A t \in Tables : Asked(t) \/ Served(t)

Owner == phase = "running" => \A k \in Keys \ m_dellist :
    /\ m_data[k] # 0 => Sent(k) <= m_data[k]
    /\ m_data[k] = 0 => Sent(k) \in {0, Gone}

LEMMA PutRest ==
    ASSUME NEW S, NEW s \in Seq(S), NEW m
    PROVE  /\ s = <<>> => Rest(Put(s, m)) = <<>> /\ Head(Put(s, m)) = m
           /\ s # <<>> => /\ Rest(Put(s, m)) = Put(Rest(s), m)
                          /\ Head(Put(s, m)) = Head(s) /\ Head(s) \in S
                          /\ Rest(s) \in Seq(S)
           /\ Put(s, m) # <<>>
  <1>1. Append(s, m) # <<>> /\ Len(s) \in Nat
    OBVIOUS
  <1>2. ASSUME s = <<>> PROVE Tail(Append(s, m)) = <<>> /\ Head(Append(s, m)) = m
    BY <1>2
  <1>3. ASSUME s # <<>>
        PROVE  /\ Tail(Append(s, m)) = Append(Tail(s), m)
               /\ Head(Append(s, m)) = Head(s) /\ Head(s) \in S /\ Tail(s) \in Seq(S)
    <2>1. Head(Append(s, m)) = Head(s) /\ Head(s) \in S /\ Tail(s) \in Seq(S)
      BY <1>3
    <2>2. PICK T : T = S \cup {m}
      OBVIOUS
    <2>3. s \in Seq(T) /\ m \in T /\ Tail(s) \in Seq(T)
      BY <2>1, <2>2, SeqMore
    <2>4. PICK n \in Nat : n = Len(s) /\ n > 0
      BY <1>3, <2>3
    <2>5. PICK e : e = Append(s, m)
      OBVIOUS
    <2>6. /\ e \in Seq(T) /\ Len(e) = n + 1
          /\ \A i \in 1..(n + 1) : e[i] = IF i = n + 1 THEN m ELSE s[i]
      <3>1. /\ Append(s, m) \in Seq(T) /\ Len(Append(s, m)) = Len(s) + 1
            /\ \A i \in 1..(Len(s) + 1) : Append(s, m)[i] = IF i = Len(s) + 1 THEN m ELSE s[i]
        BY <2>3
      <3> QED  BY <2>4, <2>5, <3>1
    <2>7. PICK r : r = Tail(s)
      OBVIOUS
    <2>8. r \in Seq(T) /\ Len(r) = n - 1 /\ \A i \in 1..(n - 1) : r[i] = s[i + 1]
      <3>1. /\ Len(Tail(s)) = Len(s) - 1
            /\ \A i \in 1..(Len(s) - 1) : Tail(s)[i] = s[i + 1]
        BY <1>3, <2>3
      <3> QED  BY <2>3, <2>4, <2>7, <3>1
    <2>9. PICK f : f = Append(r, m)
      OBVIOUS
    <2>10. f \in Seq(T) /\ Len(f) = n /\ \A i \in 1..n : f[i] = IF i = n THEN m ELSE r[i]
      <3>1. /\ Append(r, m) \in Seq(T) /\ Len(Append(r, m)) = Len(r) + 1
            /\ \A i \in 1..(Len(r) + 1) : Append(r, m)[i] = IF i = Len(r) + 1 THEN m ELSE r[i]
        BY <2>3, <2>8
      <3> QED  BY <2>4, <2>8, <2>9, <3>1
    <2>11. PICK g : g = Tail(e)
      OBVIOUS
    <2>12. g \in Seq(T) /\ Len(g) = n /\ \A i \in 1..n : g[i] = e[i + 1]
      <3>1. e # <<>>
        BY <2>4, <2>6
      <3>2. /\ Tail(e) \in Seq(T) /\ Len(Tail(e)) = Len(e) - 1
            /\ \A i \in 1..(Len(e) - 1) : Tail(e)[i] = e[i + 1]
        BY <2>6, <3>1
      <3> QED  BY <2>4, <2>6, <2>11, <3>2
    <2>13. ASSUME NEW i \in 1..n PROVE g[i] = f[i]
      <3>1. g[i] = IF i = n THEN m ELSE s[i + 1]
        BY <2>4, <2>6, <2>12
      <3>2. f[i] = IF i = n THEN m ELSE s[i + 1]
        BY <2>4, <2>8, <2>10
      <3> QED  BY <3>1, <3>2
    <2>14. g = f
      BY <2>4, <2>10, <2>12, <2>13
    <2> QED  BY <2>1, <2>5, <2>7, <2>9, <2>11, <2>14
  <1> QED  BY <1>1, <1>2, <1>3 DEF Put, Rest

LEMMA SentQuiet ==
    ASSUME NEW k, chan'[Table(k)'] = chan[Table(k)], AtDb(k)' = AtDb(k)
    PROVE  Sent(k)' = Sent(k)
  <1>1. Sent(k)' = Final(chan[Table(k)], k, AtDb(k))
    BY SentIs
  <1> QED  BY <1>1, SentIs

LEMMA SentAlone ==
    \A k : /\ chan[Table(k)] = <<>> => Sent(k) = AtDb(k)
           /\ chan'[Table(k)'] = <<>> => Sent(k)' = AtDb(k)'
  <1>1. \A k, a : Final(<<>>, k, a) = a
    BY DEF Final, About
  <1> QED  BY <1>1, SentIs

(* A table nothing happens to *)
LEMMA ServedStays ==
    ASSUME NEW t \in Keys, Served(t), bound' = bound, t \in m_load' <=> t \in m_load,
           \A k \in Keys : Table(k) = t => m_data'[k] = m_data[k],
           chan'[t] = chan[t], resp'[t] = resp[t],
           \A k \in Keys : Table(k) = t => Sent(k)' = Sent(k)
    PROVE  Served(t)'
  <1>1. \A k \in Keys : Table(k)' = Table(k)
    BY TablesSame
  <1>2. \A k \in Keys : Table(k) = t => Comes(k)'
    <2> SUFFICES ASSUME NEW k \in Keys, Table(k) = t PROVE Comes(k)'
      OBVIOUS
    <2>1. Comes(k)
      BY DEF Served
    <2>2. Sent(k)' = Sent(k) /\ m_data'[k] = m_data[k] /\ resp'[Table(k)'] = resp[Table(k)]
      BY <1>1
    <2>3. Gone' = Gone
      BY DEF Gone
    <2> QED  BY <2>1, <2>2, <2>3 DEF Comes, ComesIn
  <1> QED  BY <1>1, <1>2 DEF Served

LEMMA AskedStays ==
    ASSUME NEW t \in Keys, Asked(t), UNCHANGED <<bound, crashes>>,
           t \in m_load' <=> t \in m_load,
           \A k \in Keys : Table(k) = t => m_data'[k] = m_data[k],
           chan'[t] = chan[t], resp'[t] = resp[t]
    PROVE  Asked(t)'
  <1>1. \A k \in Keys : Table(k)' = Table(k)
    BY TablesSame
  <1>2. Stale' = Stale /\ Asking' = Asking
    BY DEF Stale, Asking
  <1> QED  BY <1>1, <1>2 DEF Asked

(* A step of the disk's side, that moves nothing between the two *)
LEMMA ClientQuiet ==
    ASSUME Marks, Talk, Owner,
           UNCHANGED <<bound, clientVars, chan, resp, crashes>>,
           \A k \in Keys : AtDb(k)' = AtDb(k)
    PROVE  Marks' /\ Talk' /\ Owner' /\ \A k \in Keys : Sent(k)' = Sent(k)
  <1>1. UNCHANGED <<bound, phase, m_data, m_modified, m_dellist, m_load, chan, resp, crashes>>
    BY DEF clientVars
  <1>2. Tables' = Tables /\ Tables \subseteq Keys /\ \A k \in Keys : Table(k)' = Table(k)
    BY <1>1, TablesSame, TablesAre
  <1>3. \A k \in Keys : Sent(k)' = Sent(k)
    BY <1>1, <1>2, SentQuiet
  <1>4. Marks'
    BY <1>1 DEF Marks, NoRows, Quiet
  <1>5. Owner'
    BY <1>1, <1>3 DEF Owner, Gone
  <1>6. Stale' = Stale /\ Plain' = Plain
    BY <1>1 DEF Stale, Plain
  <1>7. \A t \in Keys : (Asked(t) => Asked(t)') /\ (Served(t) => Served(t)')
    BY <1>1, <1>3, AskedStays, ServedStays
  <1>8. Talk'
    BY <1>1, <1>2, <1>6, <1>7 DEF Talk
  <1> QED  BY <1>3, <1>4, <1>5, <1>8

LEMMA PutNone == \A m : Rest(Put(<<>>, m)) = <<>> /\ Head(Put(<<>>, m)) = m
  BY DEF Put, Rest

(* A message of table t is taken up by the DB actor, which may answer it. *)
LEMMA ClientTaken ==
    ASSUME TypeOK, Marks, Talk, Owner, NEW t \in Keys, t \in Tables, chan[t] # <<>>,
           \A q \in Keys : chan'[q] = IF q = t THEN Rest(chan[t]) ELSE chan[q],
           UNCHANGED <<bound, clientVars, crashes>>,
           \A q \in Keys : q # t => resp'[q] = resp[q],
           Head(chan[t]) # Asking => resp' = resp,
           Head(chan[t]) = Asking => resp'[t] # <<>> /\ AllAnswered(t)',
           \A k \in Keys : Table(k) # t \/ Head(chan[t]).t # "load" => Sent(k)' = Sent(k)
    PROVE  Marks' /\ Talk' /\ Owner'
  <1>1. UNCHANGED <<bound, phase, m_data, m_modified, m_dellist, m_load, crashes>>
    BY DEF clientVars
  <1>2. /\ Tables' = Tables /\ Tables \subseteq Keys
        /\ \A k \in Keys : Table(k)' = Table(k) /\ Table(k) \in Keys
    BY <1>1, TablesSame, TablesAre
  <1>3. Stale' = Stale /\ Plain' = Plain /\ Asking' = Asking /\ Gone' = Gone
    BY <1>1 DEF Stale, Plain, Asking, Gone
  <1>4. Asking \notin Stale /\ Asking \notin Plain /\ Asking.t = "load" /\ Asking.from = crashes
    <2>1. Asking.t = "load" /\ Asking.from = crashes
      BY DEF Asking
    <2>2. ~(crashes < crashes)
      <3>1. crashes \in Nat
        BY Constants DEF TypeOK
      <3> QED  BY <3>1
    <2> QED  BY <2>1, <2>2 DEF Stale, Plain
  <1>5. ASSUME phase = "down" PROVE resp' = resp /\ \A q \in Keys : chan'[q] \in Seq(Stale)
    <2>1. chan[t] \in Seq(Stale) /\ \A q \in Keys : chan[q] \in Seq(Stale)
      BY <1>5 DEF Talk
    <2>2. Head(chan[t]) \in Stale /\ Rest(chan[t]) \in Seq(Stale)
      BY <2>1 DEF Rest
    <2> QED  BY <1>4, <2>1, <2>2
  <1>6. ASSUME phase = "running"
        PROVE  /\ resp' = resp /\ \A q \in Keys : chan'[q] \in Seq(Plain)
               /\ \A k \in Keys : Sent(k)' = Sent(k)
    <2>1. chan[t] \in Seq(Plain) /\ \A q \in Keys : chan[q] \in Seq(Plain)
      BY <1>6 DEF Talk
    <2>2. Head(chan[t]) \in Plain /\ Rest(chan[t]) \in Seq(Plain)
      BY <2>1 DEF Rest
    <2>3. Head(chan[t]).t # "load"
      BY <2>2 DEF Plain
    <2> QED  BY <1>4, <2>1, <2>2, <2>3
  <1>7. ASSUME phase = "loading", NEW q \in Tables PROVE Asked(q)' \/ Served(q)'
    <2>0. q \in Keys
      BY <1>2
    <2>1. Asked(q) \/ Served(q)
      BY <1>7 DEF Talk
    <2>2. ASSUME q # t PROVE Asked(q)' \/ Served(q)'
      <3>1. chan'[q] = chan[q] /\ resp'[q] = resp[q]
        BY <2>0, <2>2
      <3>2. \A k \in Keys : Table(k) = q => Sent(k)' = Sent(k)
        BY <2>2
      <3>3. Asked(q) => Asked(q)'
        BY <1>1, <2>0, <3>1, AskedStays
      <3>4. Served(q) => Served(q)'
        BY <1>1, <2>0, <3>1, <3>2, ServedStays
      <3> QED  BY <2>1, <3>3, <3>4
    <2>3. ASSUME q = t PROVE Asked(q)' \/ Served(q)'
      <3>1. Asked(t)
        BY <2>1, <2>3 DEF Served
      <3>2. PICK s \in Seq(Stale) : chan[t] = Put(s, Asking)
        BY <3>1 DEF Asked
      <3>3. /\ resp[t] = <<>> /\ t \notin m_load
            /\ \A k \in Keys : Table(k) = t => m_data[k] = 0
        BY <3>1 DEF Asked
      <3>4. ASSUME s # <<>> PROVE Asked(t)'
        <4>1. /\ Rest(chan[t]) = Put(Rest(s), Asking) /\ Head(chan[t]) \in Stale
              /\ Rest(s) \in Seq(Stale)
          BY <3>2, <3>4, PutRest
        <4>2. chan'[t] = Put(Rest(s), Asking) /\ resp' = resp
          BY <4>1, <1>4
        <4>3. \A k \in Keys : Table(k)' = t => m_data'[k] = 0
          BY <1>1, <1>2, <3>3
        <4>4. \E r \in Seq(Stale') : chan'[t] = Put(r, Asking')
          BY <1>3, <4>1, <4>2
        <4>5. resp'[t] = <<>> /\ t \notin m_load'
          BY <1>1, <3>3, <4>2
        <4> QED  BY <4>3, <4>4, <4>5 DEF Asked, Put
      <3>5. ASSUME s = <<>> PROVE Served(t)'
        <4>1. Rest(chan[t]) = <<>> /\ Head(chan[t]) = Asking
          <5>1. Rest(Put(s, Asking)) = <<>> /\ Head(Put(s, Asking)) = Asking
            BY <3>5, PutNone
          <5> QED  BY <3>2, <5>1
        <4>2. chan'[t] = <<>> /\ resp'[t] # <<>> /\ AllAnswered(t)'
          BY <4>1
        <4>3. ASSUME NEW k \in Keys, Table(k)' = t PROVE Comes(k)'
          <5>1. Sent(k)' = AtDb(k)'
            BY <4>2, <4>3, SentAlone
          <5>2. m_data'[k] = 0
            BY <1>1, <1>2, <3>3, <4>3
          <5>3. PICK c : c = resp'[t]
            OBVIOUS
          <5>4. /\ \A i \in DOMAIN c : k \in DOMAIN c[i].rows => c[i].rows[k] = AtDb(k)'
                /\ AtDb(k)' \notin {0, Gone'} => \E i \in DOMAIN c : k \in DOMAIN c[i].rows
            BY <4>2, <4>3, <5>3 DEF AllAnswered, Answered
          <5> QED  BY <4>3, <5>1, <5>2, <5>3, <5>4 DEF Comes, ComesIn
        <4>4. \A i \in DOMAIN resp'[t] : resp'[t][i].m_over <=> i = Len(resp'[t])
          BY <4>2 DEF AllAnswered, Answered
        <4>5. t \notin m_load'
          BY <1>1, <3>3
        <4> QED  BY <4>2, <4>3, <4>4, <4>5 DEF Served
      <3> QED  BY <2>3, <3>4, <3>5
    <2> QED  BY <2>2, <2>3
  <1>8. Talk'
    <2>1. phase' = "down" => \A q \in Keys : chan'[q] \in Seq(Stale')
      BY <1>1, <1>3, <1>5
    <2>2. phase' = "running" => \A q \in Keys : resp'[q] = <<>> /\ chan'[q] \in Seq(Plain')
      BY <1>1, <1>3, <1>6 DEF Talk
    <2>3. phase' = "loading" => \A q \in Tables' : Asked(q)' \/ Served(q)'
      BY <1>1, <1>2, <1>7
    <2> QED  BY <2>1, <2>2, <2>3 DEF Talk
  <1>9. Marks'
    BY <1>1, <1>5 DEF Marks, NoRows, Quiet
  <1>10. Owner'
    BY <1>1, <1>3, <1>6 DEF Owner
  <1> QED  BY <1>8, <1>9, <1>10

-----------------------------------------------------------------------------
(* The inductive invariant *)
Inv == TypeOK /\ Shape /\ DbInv /\ Order /\ Marks /\ Talk /\ Owner

LEMMA Types ==
    TypeOK =>
        /\ bound \in BOOLEAN /\ phase \in {"down", "loading", "running"}
        /\ m_data \in [Keys -> 0..MaxVersion] /\ db_data \in [Keys -> 0..MaxVersion]
        /\ sql \in [Keys -> 0..Gone]
        /\ m_modified \in SUBSET Keys /\ m_dellist \in SUBSET Keys /\ m_load \in SUBSET Keys
        /\ m_idindex \in SUBSET Keys
        /\ m_cache_save \in SUBSET Keys /\ m_cache_del \in SUBSET Keys
        /\ chan \in [Keys -> Seq(Messages)] /\ resp \in [Keys -> Seq(Answers)]
        /\ flushes \in [Keys -> Seq(Flushes)]
        /\ \A t \in Keys : t \notin Tables => chan[t] = <<>> /\ resp[t] = <<>> /\ flushes[t] = <<>>
        /\ crashes \in 0..MaxCrash /\ crashes \in Nat
  <1> SUFFICES ASSUME TypeOK PROVE crashes \in Nat
    BY DEF TypeOK
  <1>1. crashes \in 0..MaxCrash
    BY DEF TypeOK
  <1> QED  BY <1>1, Constants

(* The DB actor's timers and what they post *)
LEMMA TypesDisk ==
    ASSUME TypeOK, NEW t \in Tables, UNCHANGED <<bound, clientVars, chan, resp, crashes>>,
           flushes' \in [Keys -> Seq(Flushes)], \A q \in Keys : q # t => flushes'[q] = flushes[q],
           db_data' \in [Keys -> 0..MaxVersion], sql' \in [Keys -> 0..Gone],
           m_idindex' \in SUBSET Keys, {m_cache_save', m_cache_del'} \subseteq SUBSET Keys
    PROVE  TypeOK'
  <1>1. UNCHANGED <<bound, phase, m_data, m_modified, m_dellist, m_load, chan, resp, crashes>>
    BY DEF clientVars
  <1>2. Tables' = Tables
    BY <1>1, TablesSame
  <1>3. \A q \in Keys \ Tables' : chan'[q] = <<>> /\ resp'[q] = <<>> /\ flushes'[q] = <<>>
    BY <1>1, <1>2, Types
  <1> QED  BY <1>1, <1>3 DEF TypeOK, Gone, Messages, Answers, Flushes, Rows

LEMMA ShapeDisk ==
    ASSUME Shape, UNCHANGED <<bound, chan, resp>>,
           \A q \in Keys : flushes'[q] \in Seq(FlushOf(q))
    PROVE  Shape'
  <1>1. \A q : MsgOf(q)' = MsgOf(q) /\ AnsOf(q)' = AnsOf(q) /\ FlushOf(q)' = FlushOf(q)
    BY OfSame
  <1> QED  BY <1>1 DEF Shape

LEMMA OrderDisk ==
    ASSUME Order, UNCHANGED <<bound, chan>>, \A k \in Keys : AtDb(k)' = AtDb(k)
    PROVE  Order'
  <1>1. \A k \in Keys : Table(k)' = Table(k)
    BY TablesSame
  <1> QED  BY <1>1 DEF Order, Ordered, About, Val, Mentions, Gone

LEMMA DiskStep ==
    ASSUME Inv, NEW t \in Keys, SaveTimer(t) \/ DelTimer(t) \/ DbFlush(t)
    PROVE  /\ Inv' /\ \A k \in Keys : Sent(k)' = Sent(k) /\ sql[k] <= sql'[k]
           /\ UNCHANGED <<bound, clientVars>>
  <1>1. TypeOK /\ Shape /\ DbInv /\ Order /\ Marks /\ Talk /\ Owner
    BY DEF Inv
  <1>2. /\ DbInv' /\ \A k \in Keys : AtDb(k)' = AtDb(k) /\ sql[k] <= sql'[k]
        /\ \A q \in Keys : flushes'[q] \in Seq(FlushOf(q))
        /\ UNCHANGED <<bound, clientVars, chan, resp, crashes>>
        /\ flushes' \in [Keys -> Seq(Flushes)]
        /\ db_data' \in [Keys -> 0..MaxVersion] /\ sql' \in [Keys -> 0..Gone]
        /\ m_idindex' \in SUBSET Keys /\ {m_cache_save', m_cache_del'} \subseteq SUBSET Keys
    <2>1. ASSUME SaveTimer(t) \/ DelTimer(t)
          PROVE  /\ DbInv' /\ \A k \in Keys : AtDb(k)' = AtDb(k) /\ sql[k] <= sql'[k]
                 /\ \A q \in Keys : flushes'[q] \in Seq(FlushOf(q))
                 /\ UNCHANGED <<bound, clientVars, chan, resp, crashes>>
                 /\ flushes' \in [Keys -> Seq(Flushes)]
                 /\ db_data' \in [Keys -> 0..MaxVersion] /\ sql' \in [Keys -> 0..Gone]
                 /\ m_idindex' \in SUBSET Keys
                 /\ {m_cache_save', m_cache_del'} \subseteq SUBSET Keys
      <3>1. /\ DbInv' /\ \A k \in Keys : AtDb(k)' = AtDb(k)
            /\ flushes' \in [Keys -> Seq(Flushes)]
            /\ \A q \in Keys : flushes'[q] \in Seq(FlushOf(q))
            /\ UNCHANGED <<bound, clientVars, chan, resp, dbVars, sql, crashes>>
            /\ {m_cache_save', m_cache_del'} \subseteq SUBSET Keys
        BY <1>1, <2>1, TimerDoes
      <3>2. db_data' = db_data /\ m_idindex' = m_idindex /\ sql' = sql
        BY <3>1 DEF dbVars
      <3>3. \A k \in Keys : sql[k] <= sql'[k]
        BY <1>1, <3>2, RowTypes
      <3>4. db_data' \in [Keys -> 0..MaxVersion] /\ sql' \in [Keys -> 0..Gone]
            /\ m_idindex' \in SUBSET Keys
        BY <1>1, <3>2, Types
      <3> QED  BY <3>1, <3>3, <3>4
    <2>2. ASSUME FlushSave(t)
          PROVE  /\ DbInv' /\ \A k \in Keys : AtDb(k)' = AtDb(k) /\ sql[k] <= sql'[k]
                 /\ \A q \in Keys : flushes'[q] \in Seq(FlushOf(q))
                 /\ UNCHANGED <<bound, clientVars, chan, resp, crashes>>
                 /\ flushes' \in [Keys -> Seq(Flushes)]
                 /\ db_data' \in [Keys -> 0..MaxVersion] /\ sql' \in [Keys -> 0..Gone]
                 /\ m_idindex' \in SUBSET Keys
                 /\ {m_cache_save', m_cache_del'} \subseteq SUBSET Keys
      <3>1. /\ DbInv' /\ \A k \in Keys : AtDb(k)' = AtDb(k) /\ sql[k] <= sql'[k]
            /\ flushes' \in [Keys -> Seq(Flushes)] /\ sql' \in [Keys -> 0..Gone]
            /\ \A q \in Keys : flushes'[q] \in Seq(FlushOf(q))
            /\ UNCHANGED <<bound, clientVars, chan, resp, dbVars, cacheVars, crashes>>
        BY <1>1, <2>2, FlushSaveDoes
      <3>2. /\ db_data' = db_data /\ m_idindex' = m_idindex
            /\ m_cache_save' = m_cache_save /\ m_cache_del' = m_cache_del
        BY <3>1 DEF dbVars, cacheVars
      <3>3. /\ db_data' \in [Keys -> 0..MaxVersion] /\ m_idindex' \in SUBSET Keys
            /\ {m_cache_save', m_cache_del'} \subseteq SUBSET Keys
        BY <1>1, <3>2, Types
      <3> QED  BY <3>1, <3>3
    <2>3. ASSUME FlushDel(t)
          PROVE  /\ DbInv' /\ \A k \in Keys : AtDb(k)' = AtDb(k) /\ sql[k] <= sql'[k]
                 /\ \A q \in Keys : flushes'[q] \in Seq(FlushOf(q))
                 /\ UNCHANGED <<bound, clientVars, chan, resp, crashes>>
                 /\ flushes' \in [Keys -> Seq(Flushes)]
                 /\ db_data' \in [Keys -> 0..MaxVersion] /\ sql' \in [Keys -> 0..Gone]
                 /\ m_idindex' \in SUBSET Keys
                 /\ {m_cache_save', m_cache_del'} \subseteq SUBSET Keys
      <3>1. /\ DbInv' /\ \A k \in Keys : AtDb(k)' = AtDb(k) /\ sql[k] <= sql'[k]
            /\ flushes' \in [Keys -> Seq(Flushes)] /\ sql' \in [Keys -> 0..Gone]
            /\ db_data' \in [Keys -> 0..MaxVersion] /\ m_idindex' \in SUBSET Keys
            /\ \A q \in Keys : flushes'[q] \in Seq(FlushOf(q))
            /\ UNCHANGED <<bound, clientVars, chan, resp, cacheVars, crashes>>
        BY <1>1, <2>3, FlushDelDoes
      <3>2. m_cache_save' = m_cache_save /\ m_cache_del' = m_cache_del
        BY <3>1 DEF cacheVars
      <3>3. {m_cache_save', m_cache_del'} \subseteq SUBSET Keys
        BY <1>1, <3>2, Types
      <3> QED  BY <3>1, <3>3
    <2> QED  BY <2>1, <2>2, <2>3 DEF DbFlush
  <1>3. t \in Tables /\ \A q \in Keys : q # t => flushes'[q] = flushes[q]
    <2>1. flushes \in [Keys -> Seq(Flushes)]
      BY <1>1, Types
    <2>2. ASSUME SaveTimer(t) \/ DelTimer(t)
          PROVE  t \in Tables /\ \A q \in Keys : q # t => flushes'[q] = flushes[q]
      <3>1. t \in Tables
        <4>1. \A S \in SUBSET Keys : Of(t, S) # {} => t \in Tables
          BY DEF Of, Tables
        <4> QED  BY <1>1, <2>2, <4>1, Types DEF SaveTimer, DelTimer
      <3>2. \A q \in Keys : q # t => flushes'[q] = flushes[q]
        BY <2>1, <2>2 DEF SaveTimer, DelTimer
      <3> QED  BY <3>1, <3>2
    <2>3. ASSUME DbFlush(t)
          PROVE  t \in Tables /\ \A q \in Keys : q # t => flushes'[q] = flushes[q]
      <3>1. flushes[t] # <<>> /\ flushes' = [flushes EXCEPT ![t] = Tail(@)]
        BY <2>3 DEF DbFlush, FlushSave, FlushDel
      <3> QED  BY <1>1, <2>1, <3>1, Types
    <2> QED  BY <2>2, <2>3
  <1>4. TypeOK'
    BY <1>1, <1>2, <1>3, TypesDisk
  <1>5. Shape' /\ Order'
    BY <1>1, <1>2, ShapeDisk, OrderDisk
  <1>6. Marks' /\ Talk' /\ Owner' /\ \A k \in Keys : Sent(k)' = Sent(k)
    BY <1>1, <1>2, ClientQuiet
  <1> QED  BY <1>2, <1>4, <1>5, <1>6 DEF Inv

(* The DB actor's handlers *)
LEMMA TypesHandle ==
    ASSUME TypeOK, NEW t \in Tables, UNCHANGED <<bound, clientVars, flushes, sql, crashes>>,
           chan' \in [Keys -> Seq(Messages)], \A q \in Keys : q # t => chan'[q] = chan[q],
           resp' \in [Keys -> Seq(Answers)], \A q \in Keys : q # t => resp'[q] = resp[q],
           db_data' \in [Keys -> 0..MaxVersion],
           m_idindex' \in SUBSET Keys, {m_cache_save', m_cache_del'} \subseteq SUBSET Keys
    PROVE  TypeOK'
  <1>1. UNCHANGED <<bound, phase, m_data, m_modified, m_dellist, m_load, flushes, sql, crashes>>
    BY DEF clientVars
  <1>2. Tables' = Tables
    BY <1>1, TablesSame
  <1>3. \A q \in Keys \ Tables' : chan'[q] = <<>> /\ resp'[q] = <<>> /\ flushes'[q] = <<>>
    BY <1>1, <1>2, Types
  <1> QED  BY <1>1, <1>3 DEF TypeOK, Gone, Messages, Answers, Flushes, Rows

LEMMA ShapeHandle ==
    ASSUME Shape, UNCHANGED <<bound, flushes>>,
           \A q \in Keys : chan'[q] \in Seq(MsgOf(q)),
           \A q \in Keys : resp'[q] \in Seq(AnsOf(q))
    PROVE  Shape'
  <1>1. \A q : MsgOf(q)' = MsgOf(q) /\ AnsOf(q)' = AnsOf(q) /\ FlushOf(q)' = FlushOf(q)
    BY OfSame
  <1> QED  BY <1>1 DEF Shape

LEMMA HasTable ==
    ASSUME TypeOK, NEW t \in Keys, chan[t] # <<>> PROVE t \in Tables
  BY Types

LEMMA SaveStep ==
    ASSUME Inv, NEW t \in Keys, DbSave(t)
    PROVE  /\ Inv' /\ \A k \in Keys : Sent(k)' = Sent(k)
           /\ UNCHANGED <<bound, clientVars, sql>>
  <1>1. TypeOK /\ Shape /\ DbInv /\ Order /\ Marks /\ Talk /\ Owner
    BY DEF Inv
  <1>2. /\ DbInv' /\ Order' /\ \A k \in Keys : Sent(k)' = Sent(k)
        /\ chan' \in [Keys -> Seq(Messages)] /\ \A q \in Keys : chan'[q] \in Seq(MsgOf(q))
        /\ \A q \in Keys : chan'[q] = IF q = t THEN Rest(chan[t]) ELSE chan[q]
        /\ chan[t] # <<>> /\ Head(chan[t]).t = "save"
        /\ db_data' \in [Keys -> 0..MaxVersion]
        /\ {m_idindex', m_cache_save'} \subseteq SUBSET Keys
        /\ UNCHANGED <<bound, clientVars, resp, m_cache_del, flushes, sql, crashes>>
    BY <1>1, DbSaveDoes
  <1>3. t \in Tables /\ Head(chan[t]) # Asking
    BY <1>1, <1>2, HasTable DEF Asking
  <1>4. TypeOK'
    <2>1. {m_cache_save', m_cache_del'} \subseteq SUBSET Keys /\ m_idindex' \in SUBSET Keys
      BY <1>1, <1>2, Types
    <2>2. resp' \in [Keys -> Seq(Answers)] /\ \A q \in Keys : q # t => resp'[q] = resp[q]
      BY <1>1, <1>2, Types
    <2>3. \A q \in Keys : q # t => chan'[q] = chan[q]
      BY <1>2
    <2> QED  BY <1>1, <1>2, <1>3, <2>1, <2>2, <2>3, TypesHandle
  <1>5. Shape'
    <2>1. \A q \in Keys : resp'[q] \in Seq(AnsOf(q))
      BY <1>1, <1>2 DEF Shape
    <2> QED  BY <1>1, <1>2, <2>1, ShapeHandle
  <1>6. Marks' /\ Talk' /\ Owner'
    <2>1. \A q \in Keys : q # t => resp'[q] = resp[q]
      BY <1>2
    <2> QED  BY <1>1, <1>2, <1>3, <2>1, ClientTaken
  <1> QED  BY <1>2, <1>4, <1>5, <1>6 DEF Inv

LEMMA DeleteStep ==
    ASSUME Inv, NEW t \in Keys, DbDelete(t)
    PROVE  /\ Inv' /\ \A k \in Keys : Sent(k)' = Sent(k)
           /\ UNCHANGED <<bound, clientVars, sql>>
  <1>1. TypeOK /\ Shape /\ DbInv /\ Order /\ Marks /\ Talk /\ Owner
    BY DEF Inv
  <1>2. /\ DbInv' /\ Order' /\ \A k \in Keys : Sent(k)' = Sent(k)
        /\ chan' \in [Keys -> Seq(Messages)] /\ \A q \in Keys : chan'[q] \in Seq(MsgOf(q))
        /\ \A q \in Keys : chan'[q] = IF q = t THEN Rest(chan[t]) ELSE chan[q]
        /\ chan[t] # <<>> /\ Head(chan[t]).t = "del"
        /\ db_data' \in [Keys -> 0..MaxVersion]
        /\ {m_idindex', m_cache_del'} \subseteq SUBSET Keys
        /\ UNCHANGED <<bound, clientVars, resp, m_cache_save, flushes, sql, crashes>>
    BY <1>1, DbDeleteDoes
  <1>3. t \in Tables /\ Head(chan[t]) # Asking
    BY <1>1, <1>2, HasTable DEF Asking
  <1>4. TypeOK'
    <2>1. {m_cache_save', m_cache_del'} \subseteq SUBSET Keys /\ m_idindex' \in SUBSET Keys
      BY <1>1, <1>2, Types
    <2>2. resp' \in [Keys -> Seq(Answers)] /\ \A q \in Keys : q # t => resp'[q] = resp[q]
      BY <1>1, <1>2, Types
    <2>3. \A q \in Keys : q # t => chan'[q] = chan[q]
      BY <1>2
    <2> QED  BY <1>1, <1>2, <1>3, <2>1, <2>2, <2>3, TypesHandle
  <1>5. Shape'
    <2>1. \A q \in Keys : resp'[q] \in Seq(AnsOf(q))
      BY <1>1, <1>2 DEF Shape
    <2> QED  BY <1>1, <1>2, <2>1, ShapeHandle
  <1>6. Marks' /\ Talk' /\ Owner'
    <2>1. \A q \in Keys : q # t => resp'[q] = resp[q]
      BY <1>2
    <2> QED  BY <1>1, <1>2, <1>3, <2>1, ClientTaken
  <1> QED  BY <1>2, <1>4, <1>5, <1>6 DEF Inv

LEMMA LoadStep ==
    ASSUME Inv, NEW t \in Keys, DbLoad(t)
    PROVE  /\ Inv' /\ UNCHANGED <<bound, clientVars, sql>> /\ phase # "running"
           /\ \A k \in Keys : Sent(k)' =
                 IF k = t /\ Makes(t) /\ Sent(k) = 0 THEN 1 ELSE Sent(k)
  <1>1. TypeOK /\ Shape /\ DbInv /\ Order /\ Marks /\ Talk /\ Owner
    BY DEF Inv
  <1>2. /\ Order'
        /\ \A k \in Keys : Sent(k)' =
              IF k = t /\ Makes(t) /\ Sent(k) = 0 THEN 1 ELSE Sent(k)
        /\ chan' \in [Keys -> Seq(Messages)] /\ \A q \in Keys : chan'[q] \in Seq(MsgOf(q))
        /\ \A q \in Keys : chan'[q] = IF q = t THEN Rest(chan[t]) ELSE chan[q]
        /\ chan[t] # <<>> /\ Head(chan[t]).t = "load"
    BY <1>1, LoadOrder
  <1>3. /\ DbInv' /\ db_data' \in [Keys -> 0..MaxVersion]
        /\ {m_idindex', m_cache_save'} \subseteq SUBSET Keys
    BY <1>1, LoadRows
  <1>4. UNCHANGED <<bound, clientVars, m_cache_del, flushes, sql, crashes>>
    BY LoadIs
  <1>5. t \in Tables
    BY <1>1, <1>2, HasTable
  <1>6. /\ resp' \in [Keys -> Seq(Answers)]
        /\ \A q \in Keys : resp'[q] \in Seq(AnsOf(q))
        /\ \A q \in Keys : q # t => resp'[q] = resp[q]
        /\ Head(chan[t]).from # crashes => resp' = resp
        /\ Head(chan[t]).from = crashes => resp'[t] # <<>> /\ AllAnswered(t)'
    BY <1>1, <1>5, LoadAnswers
  <1>7. Head(chan[t]) # Asking => Head(chan[t]).from # crashes
    <2>1. Head(chan[t]) \in Messages
      <3>1. chan[t] \in Seq(Messages)
        BY <1>1, Types
      <3> QED  BY <1>2, <3>1
    <2> QED  BY <1>2, <2>1 DEF Messages, Asking
  <1>8. phase # "running"
    <2> SUFFICES ASSUME phase = "running" PROVE FALSE
      OBVIOUS
    <2>1. chan[t] \in Seq(Plain)
      BY <1>1 DEF Talk
    <2>2. Head(chan[t]) \in Plain
      BY <1>2, <2>1
    <2> QED  BY <1>2, <2>2 DEF Plain
  <1>9. TypeOK'
    <2>1. {m_cache_save', m_cache_del'} \subseteq SUBSET Keys /\ m_idindex' \in SUBSET Keys
      BY <1>1, <1>3, <1>4, Types
    <2>2. \A q \in Keys : q # t => chan'[q] = chan[q]
      BY <1>2
    <2> QED  BY <1>1, <1>2, <1>3, <1>4, <1>5, <1>6, <2>1, <2>2, TypesHandle
  <1>10. Shape'
    BY <1>1, <1>2, <1>4, <1>6, ShapeHandle
  <1>11. Marks' /\ Talk' /\ Owner'
    <2>1. Head(chan[t]) = Asking => Head(chan[t]).from = crashes
      BY DEF Asking
    <2>2. \A k \in Keys : Table(k) # t \/ Head(chan[t]).t # "load" => Sent(k)' = Sent(k)
      <3> SUFFICES ASSUME NEW k \in Keys, Table(k) # t PROVE Sent(k)' = Sent(k)
        BY <1>2
      <3>1. Makes(t) => Table(t) = t
        BY TablesAre DEF Makes
      <3> QED  BY <1>2, <3>1
    <2> QED  BY <1>1, <1>2, <1>4, <1>5, <1>6, <1>7, <2>1, <2>2, ClientTaken
  <1> QED  BY <1>2, <1>3, <1>4, <1>8, <1>9, <1>10, <1>11 DEF Inv

-----------------------------------------------------------------------------
(* The actor's own steps: the DB actor and the disk stay as they are. *)
LEMMA TypesOwn ==
    ASSUME TypeOK, UNCHANGED <<bound, dbVars, cacheVars, flushes, sql, crashes>>,
           phase' \in {"down", "loading", "running"}, m_data' \in [Keys -> 0..MaxVersion],
           m_modified' \in SUBSET Keys, m_dellist' \in SUBSET Keys, m_load' \in SUBSET Keys,
           chan' \in [Keys -> Seq(Messages)], resp' \in [Keys -> Seq(Answers)],
           \A q \in Keys : q \notin Tables => chan'[q] = <<>> /\ resp'[q] = <<>>
    PROVE  TypeOK'
  <1>1. UNCHANGED <<bound, db_data, m_idindex, m_cache_save, m_cache_del, flushes, sql, crashes>>
    BY DEF dbVars, cacheVars
  <1>2. Tables' = Tables
    BY <1>1, TablesSame
  <1>3. \A q \in Keys \ Tables' : chan'[q] = <<>> /\ resp'[q] = <<>> /\ flushes'[q] = <<>>
    BY <1>1, <1>2, Types
  <1> QED  BY <1>1, <1>3 DEF TypeOK, Gone, Messages, Answers, Flushes, Rows

LEMMA AskingIs ==
    ASSUME TypeOK, NEW t
    PROVE  /\ Asking \in MsgOf(t) /\ Asking \in Messages
           /\ \A k : ~Mentions(k, Asking)
  <1>1. Asking \in Messages /\ Asking.t = "load"
    BY Types DEF Asking, Messages
  <1>2. \A k : ~Mentions(k, Asking)
    BY <1>1 DEF Mentions
  <1> QED  BY <1>1, <1>2 DEF MsgOf

LEMMA CreateStep ==
    ASSUME Inv, Create
    PROVE  /\ Inv' /\ \A k \in Keys : Sent(k)' = Sent(k)
           /\ UNCHANGED <<bound, sql>> /\ phase = "down" /\ phase' = "loading"
  <1>1. TypeOK /\ Shape /\ DbInv /\ Order /\ Marks /\ Talk /\ Owner
    BY DEF Inv
  <1>2. /\ phase = "down" /\ phase' = "loading"
        /\ chan' = [t \in Keys |-> IF t \in Tables THEN Put(chan[t], Asking) ELSE chan[t]]
        /\ UNCHANGED <<bound, m_data, m_modified, m_dellist, m_load, resp, dbVars,
                       cacheVars, flushes, sql, crashes>>
    BY DEF Create, Put, Asking
  <1>3. DbInv' /\ \A k \in Keys : AtDb(k)' = AtDb(k)
    BY <1>1, <1>2, DbUntouched
  <1>4. \A q \in Keys : chan[q] \in Seq(MsgOf(q)) /\ chan[q] \in Seq(Messages)
    BY <1>1, Types DEF Shape
  <1>5. \A q \in Keys : chan'[q] = IF q \in Tables THEN Put(chan[q], Asking) ELSE chan[q]
    BY <1>2
  <1>6. \A q \in Keys : chan'[q] \in Seq(MsgOf(q)) /\ chan'[q] \in Seq(Messages)
    <2> SUFFICES ASSUME NEW q \in Keys
                 PROVE  chan'[q] \in Seq(MsgOf(q)) /\ chan'[q] \in Seq(Messages)
      OBVIOUS
    <2>1. Put(chan[q], Asking) \in Seq(MsgOf(q))
      BY <1>1, <1>4, AskingIs DEF Put
    <2>2. Put(chan[q], Asking) \in Seq(Messages)
      BY <1>1, <1>4, AskingIs DEF Put
    <2> QED  BY <1>4, <1>5, <2>1, <2>2
  <1>7. \A k \in Keys : Table(k)' = Table(k) /\ Table(k) \in Tables /\ Table(k) \in Keys
    BY <1>2, TablesSame, TablesAre
  <1>8. ASSUME NEW k \in Keys
        PROVE  Ordered(chan'[Table(k)'], k, AtDb(k)') /\ Sent(k)' = Sent(k)
    <2>1. PICK s, a : s = chan[Table(k)] /\ a = AtDb(k)
      OBVIOUS
    <2>2. /\ s \in Seq(MsgOf(Table(k))) /\ Typed(s, k) /\ Ordered(s, k, a) /\ a \in Nat
          /\ Asking \in MsgOf(Table(k)) /\ ~Mentions(k, Asking)
      BY <1>1, <2>1, ChanTyped, RowTypes, AskingIs DEF Order
    <2>3. Ordered(Put(s, Asking), k, a)
      BY <2>2, OrderedPut
    <2>4. Final(Put(s, Asking), k, a) = Final(s, k, a)
      BY <2>2, FinalPut
    <2>5. chan'[Table(k)'] = Put(s, Asking) /\ AtDb(k)' = a
      BY <1>3, <1>5, <1>7, <2>1
    <2> QED  BY <2>1, <2>3, <2>4, <2>5, SentIs
  <1>9. Order'
    BY <1>8 DEF Order
  <1>10. TypeOK'
    <2>1. chan' \in [Keys -> Seq(Messages)]
      BY <1>2, <1>6
    <2>2. \A q \in Keys : q \notin Tables => chan'[q] = <<>> /\ resp'[q] = <<>>
      BY <1>1, <1>2, <1>5, Types
    <2>3. /\ m_data' \in [Keys -> 0..MaxVersion] /\ m_modified' \in SUBSET Keys
          /\ m_dellist' \in SUBSET Keys /\ m_load' \in SUBSET Keys
          /\ resp' \in [Keys -> Seq(Answers)]
      BY <1>1, <1>2, Types
    <2> QED  BY <1>1, <1>2, <2>1, <2>2, <2>3, TypesOwn
  <1>11. Shape'
    <2>1. \A q \in Keys : resp'[q] \in Seq(AnsOf(q)) /\ flushes' = flushes
      BY <1>1, <1>2 DEF Shape
    <2> QED  BY <1>1, <1>2, <1>6, <2>1, ShapeHandle
  <1>12. Marks'
    BY <1>1, <1>2 DEF Marks
  <1>13. Talk'
    <2> SUFFICES ASSUME NEW t \in Tables' PROVE Asked(t)'
      BY <1>2 DEF Talk
    <2>1. t \in Keys /\ t \in Tables
      BY <1>2, TablesSame, TablesAre
    <2>2. chan[t] \in Seq(Stale) /\ m_data = NoRows /\ m_load = {} /\ resp = Quiet
      BY <1>1, <1>2, <2>1 DEF Talk, Marks
    <2>3. Stale' = Stale /\ Asking' = Asking
      BY <1>2 DEF Stale, Asking
    <2>4. \E s \in Seq(Stale') : chan'[t] = Put(s, Asking')
      BY <1>5, <2>1, <2>2, <2>3
    <2>5. resp'[t] = <<>> /\ t \notin m_load' /\ \A k \in Keys : m_data'[k] = 0
      BY <1>2, <2>1, <2>2 DEF NoRows, Quiet
    <2> QED  BY <2>4, <2>5 DEF Asked, Put
  <1>14. Owner'
    BY <1>2 DEF Owner
  <1> QED  BY <1>2, <1>3, <1>8, <1>9, <1>10, <1>11, <1>12, <1>13, <1>14 DEF Inv

(* A handler changes or deletes a row in memory. *)
LEMMA MemoryStep ==
    ASSUME Inv, phase = "running", phase' = "running",
           m_data' \in [Keys -> 0..MaxVersion], m_modified' \in SUBSET Keys,
           m_dellist' \in SUBSET Keys, bound => m_dellist' = {},
           UNCHANGED <<bound, m_load, chan, resp, dbVars, cacheVars, flushes, sql, crashes>>,
           \A k \in m_dellist' : m_data'[k] = 0,
           \A k \in Keys \ m_dellist' : /\ m_data'[k] # 0 => Sent(k) <= m_data'[k]
                                        /\ m_data'[k] = 0 => Sent(k) \in {0, Gone}
    PROVE  Inv' /\ \A k \in Keys : Sent(k)' = Sent(k)
  <1>1. TypeOK /\ Shape /\ DbInv /\ Order /\ Marks /\ Talk /\ Owner
    BY DEF Inv
  <1>2. DbInv' /\ \A k \in Keys : AtDb(k)' = AtDb(k)
    BY <1>1, DbUntouched
  <1>3. \A k \in Keys : Table(k)' = Table(k)
    BY TablesSame
  <1>4. \A k \in Keys : Sent(k)' = Sent(k)
    BY <1>2, <1>3, SentQuiet
  <1>5. Order'
    BY <1>1, <1>2, OrderDisk
  <1>6. TypeOK'
    <2>1. /\ chan' \in [Keys -> Seq(Messages)] /\ resp' \in [Keys -> Seq(Answers)]
          /\ \A q \in Keys : q \notin Tables => chan'[q] = <<>> /\ resp'[q] = <<>>
          /\ m_load' \in SUBSET Keys
      BY <1>1, Types
    <2> QED  BY <1>1, <2>1, TypesOwn
  <1>7. Shape'
    BY <1>1, ShapeHandle DEF Shape
  <1>8. Marks'
    BY DEF Marks
  <1>9. Talk'
    <2>1. Plain' = Plain
      BY DEF Plain
    <2> QED  BY <1>1, <2>1 DEF Talk
  <1>10. Owner'
    BY <1>4 DEF Owner, Gone
  <1> QED  BY <1>2, <1>4, <1>5, <1>6, <1>7, <1>8, <1>9, <1>10 DEF Inv

(* What the owner sees *)
LEMMA ValueIs ==
    ASSUME Inv, NEW k \in Keys
    PROVE  /\ k \in m_dellist => Value(k) = Gone
           /\ k \notin m_dellist /\ phase = "running" /\ m_data[k] # 0 => Value(k) = m_data[k]
           /\ k \notin m_dellist /\ (phase # "running" \/ m_data[k] = 0) => Value(k) = Sent(k)
           /\ phase # "running" => Value(k) = Sent(k)
           /\ Value(k) \in 0..Gone /\ Value(k) \in Nat /\ sql[k] <= Value(k)
           /\ Sent(k) \in 0..Gone /\ Sent(k) \in Nat /\ Sent(k) <= Value(k)
           /\ m_data[k] \in 0..MaxVersion /\ sql[k] \in 0..Gone
  <1>1. TypeOK /\ Shape /\ DbInv /\ Order /\ Marks /\ Talk /\ Owner
    BY DEF Inv
  <1>2. /\ Sent(k) \in Nat /\ AtDb(k) <= Sent(k) /\ Sent(k) \in 0..Gone
    BY <1>1, SentTypes
  <1>3. /\ m_data[k] \in 0..MaxVersion /\ sql[k] \in 0..Gone /\ m_data[k] \in Nat
        /\ sql[k] \in Nat /\ AtDb(k) \in Nat
    BY <1>1, RowTypes
  <1>4. sql[k] <= Sent(k)
    <2>1. sql[k] <= AtDb(k)
      BY <1>1 DEF DbInv, RowOK
    <2> QED  BY <1>2, <1>3, <2>1
  <1>5. /\ k \in m_dellist => Value(k) = Gone
        /\ k \notin m_dellist /\ phase = "running" /\ m_data[k] # 0 => Value(k) = m_data[k]
        /\ k \notin m_dellist /\ (phase # "running" \/ m_data[k] = 0) => Value(k) = Sent(k)
    <2>1. \A j \in m_dellist : m_data[j] = 0
      BY <1>1 DEF Marks
    <2> QED  BY <2>1, Zenon DEF Value
  <1>6. phase # "running" => m_dellist = {}
    BY <1>1 DEF Marks
  <1>7. k \notin m_dellist /\ phase = "running" /\ m_data[k] # 0 => Sent(k) <= m_data[k]
    BY <1>1 DEF Owner
  <1>8. CASE k \in m_dellist
    BY <1>2, <1>3, <1>4, <1>5, <1>6, <1>8, Constants
  <1>9. CASE k \notin m_dellist /\ phase = "running" /\ m_data[k] # 0
    <2>1. Value(k) = m_data[k] /\ Sent(k) <= m_data[k]
      BY <1>5, <1>7, <1>9
    <2> QED  BY <1>2, <1>3, <1>4, <1>5, <1>6, <1>9, <2>1, Constants
  <1>10. CASE k \notin m_dellist /\ (phase # "running" \/ m_data[k] = 0)
    BY <1>2, <1>3, <1>4, <1>5, <1>6, <1>10
  <1> QED  BY <1>8, <1>9, <1>10

LEMMA ValueThen ==
    ASSUME Marks', NEW k
    PROVE  /\ k \in m_dellist' => Value(k)' = Gone
           /\ k \notin m_dellist' /\ phase' = "running" /\ m_data'[k] # 0 => Value(k)' = m_data'[k]
           /\ k \notin m_dellist' /\ (phase' # "running" \/ m_data'[k] = 0) => Value(k)' = Sent(k)'
           /\ phase' # "running" => Value(k)' = Sent(k)'
  <1>1. /\ \A j \in m_dellist' : m_data'[j] = 0
        /\ phase' # "running" => m_dellist' = {}
    BY DEF Marks
  <1>2. /\ k \in m_dellist' => Value(k)' = Gone
        /\ k \notin m_dellist' /\ phase' = "running" /\ m_data'[k] # 0 => Value(k)' = m_data'[k]
        /\ k \notin m_dellist' /\ (phase' # "running" \/ m_data'[k] = 0) => Value(k)' = Sent(k)'
    BY <1>1, Zenon DEF Value, Gone
  <1> QED  BY <1>1, <1>2

LEMMA ValueSame ==
    ASSUME Inv, Inv', NEW k \in Keys, UNCHANGED clientVars, Sent(k)' = Sent(k)
    PROVE  Value(k)' = Value(k)
  <1>1. UNCHANGED <<phase, m_data, m_dellist>> /\ Marks'
    BY DEF clientVars, Inv
  <1> QED  BY <1>1, ValueIs, ValueThen

LEMMA ChangeStep ==
    ASSUME Inv, NEW k \in Keys, Change(k)
    PROVE  /\ Inv' /\ UNCHANGED <<bound, sql>> /\ Value(k) < MaxVersion
           /\ \A j \in Keys : Value(j)' = IF j = k THEN Value(k) + 1 ELSE Value(j)
           /\ \A j \in Keys : Sent(j)' = Sent(j)
           /\ phase' = "running" /\ m_modified' = m_modified \cup {k}
           /\ \A j \in Keys : j # k => m_data'[j] = m_data[j]
  <1>1. TypeOK /\ Shape /\ DbInv /\ Order /\ Marks /\ Talk /\ Owner
    BY DEF Inv
  <1>2. /\ phase = "running" /\ Value(k) < MaxVersion
        /\ m_data' = [m_data EXCEPT ![k] = @ + 1]
        /\ m_modified' = m_modified \cup {k}
        /\ UNCHANGED <<bound, phase, m_dellist, m_load, chan, resp, dbVars, cacheVars,
                       flushes, sql, crashes>>
    BY DEF Change
  <1>3. k \notin m_dellist
    BY <1>2, ValueIs, Constants
  <1>4. m_data[k] + 1 \in 1..MaxVersion /\ Sent(k) <= m_data[k] + 1 /\ Value(k) = m_data[k]
    <2>1. CASE m_data[k] # 0
      <3>1. Value(k) = m_data[k] /\ Sent(k) <= Value(k) /\ m_data[k] \in 0..MaxVersion
        BY <1>2, <1>3, <2>1, ValueIs
      <3> QED  BY <1>2, <3>1, ValueIs, Constants
    <2>2. CASE m_data[k] = 0
      <3>1. Value(k) = Sent(k) /\ Sent(k) \in {0, Gone}
        BY <1>1, <1>2, <1>3, <2>2, ValueIs DEF Owner
      <3>2. Sent(k) = 0
        BY <1>2, <3>1, Constants
      <3> QED  BY <2>2, <3>1, <3>2, Constants
    <2> QED  BY <2>1, <2>2
  <1>5. m_data \in [Keys -> 0..MaxVersion]
    BY <1>1, Types
  <1>6. \A j \in Keys : m_data'[j] = IF j = k THEN m_data[k] + 1 ELSE m_data[j]
    BY <1>2, <1>5
  <1>7. m_data' \in [Keys -> 0..MaxVersion]
    <2>1. \A j \in Keys : m_data'[j] \in 0..MaxVersion
      BY <1>4, <1>5, <1>6, Constants
    <2>2. m_data' = [j \in Keys |-> m_data'[j]]
      BY <1>2, <1>5
    <2> QED  BY <2>1, <2>2
  <1>8. m_data'[k] # 0
    BY <1>4, <1>6, Constants
  <1>9. \A j \in m_dellist' : m_data'[j] = 0
    <2>1. \A j \in m_dellist : j \in Keys /\ j # k /\ m_data[j] = 0
      BY <1>1, <1>3, Types DEF Marks
    <2> QED  BY <1>2, <1>6, <2>1
  <1>10. ASSUME NEW j \in Keys \ m_dellist'
         PROVE  /\ m_data'[j] # 0 => Sent(j) <= m_data'[j]
                /\ m_data'[j] = 0 => Sent(j) \in {0, Gone}
    <2>1. CASE j = k
      BY <1>4, <1>6, <1>8, <2>1
    <2>2. CASE j # k
      BY <1>1, <1>2, <1>6, <2>2 DEF Owner
    <2> QED  BY <2>1, <2>2
  <1>11. Inv' /\ \A j \in Keys : Sent(j)' = Sent(j)
    <2>1. /\ m_modified' \in SUBSET Keys /\ m_dellist' \in SUBSET Keys
          /\ bound => m_dellist' = {}
      BY <1>1, <1>2, Types DEF Marks
    <2>2. phase' = "running"
      BY <1>2
    <2> QED  BY <1>2, <1>7, <1>9, <1>10, <2>1, <2>2, MemoryStep
  <1>12. Marks' /\ phase' = "running" /\ m_dellist' = m_dellist
    BY <1>2, <1>11 DEF Inv
  <1>13. ASSUME NEW j \in Keys PROVE Value(j)' = IF j = k THEN Value(k) + 1 ELSE Value(j)
    <2>1. CASE j = k
      BY <1>3, <1>4, <1>6, <1>8, <1>12, <2>1, ValueThen
    <2>2. CASE j # k
      BY <1>2, <1>6, <1>11, <1>12, <2>2, ValueThen, ValueIs
    <2> QED  BY <2>1, <2>2
  <1> QED  BY <1>2, <1>6, <1>11, <1>13

LEMMA DelStep ==
    ASSUME Inv, NEW k \in Keys, Del(k)
    PROVE  /\ Inv' /\ UNCHANGED <<bound, sql>> /\ Value(k) \in 1..MaxVersion
           /\ \A j \in Keys : Value(j)' = IF j = k THEN Gone ELSE Value(j)
           /\ \A j \in Keys : Sent(j)' = Sent(j)
           /\ phase' = "running" /\ m_modified' = m_modified
           /\ \A j \in Keys : m_data'[j] = IF j = k THEN 0 ELSE m_data[j]
  <1>1. TypeOK /\ Shape /\ DbInv /\ Order /\ Marks /\ Talk /\ Owner
    BY DEF Inv
  <1>2. /\ phase = "running" /\ ~bound /\ m_data[k] # 0
        /\ m_data' = [m_data EXCEPT ![k] = 0]
        /\ m_dellist' = m_dellist \cup {k}
        /\ UNCHANGED <<bound, phase, m_modified, m_load, chan, resp, dbVars, cacheVars,
                       flushes, sql, crashes>>
    BY DEF Del
  <1>3. k \notin m_dellist
    BY <1>1, <1>2 DEF Marks
  <1>4. Value(k) = m_data[k] /\ Value(k) \in 1..MaxVersion
    <2>1. Value(k) = m_data[k] /\ m_data[k] \in 0..MaxVersion
      BY <1>2, <1>3, ValueIs
    <2> QED  BY <1>2, <2>1, Constants
  <1>5. m_data \in [Keys -> 0..MaxVersion]
    BY <1>1, Types
  <1>6. \A j \in Keys : m_data'[j] = IF j = k THEN 0 ELSE m_data[j]
    BY <1>2, <1>5
  <1>7. m_data' \in [Keys -> 0..MaxVersion]
    <2>1. 0 \in 0..MaxVersion
      BY Constants
    <2> QED  BY <1>2, <1>5, <2>1
  <1>9. \A j \in m_dellist' : m_data'[j] = 0
    <2>1. \A j \in m_dellist : j \in Keys /\ m_data[j] = 0
      BY <1>1, <1>3, Types DEF Marks
    <2> QED  BY <1>2, <1>6, <2>1
  <1>10. ASSUME NEW j \in Keys \ m_dellist'
         PROVE  /\ m_data'[j] # 0 => Sent(j) <= m_data'[j]
                /\ m_data'[j] = 0 => Sent(j) \in {0, Gone}
    <2>1. j # k /\ j \in Keys \ m_dellist
      BY <1>2
    <2> QED  BY <1>1, <1>2, <1>6, <2>1 DEF Owner
  <1>11. Inv' /\ \A j \in Keys : Sent(j)' = Sent(j)
    <2>1. /\ m_modified' \in SUBSET Keys /\ m_dellist' \in SUBSET Keys
          /\ bound => m_dellist' = {}
      BY <1>1, <1>2, Types
    <2>2. phase' = "running"
      BY <1>2
    <2> QED  BY <1>2, <1>7, <1>9, <1>10, <2>1, <2>2, MemoryStep
  <1>12. Marks' /\ phase' = "running" /\ m_dellist' = m_dellist \cup {k}
    BY <1>2, <1>11 DEF Inv
  <1>13. ASSUME NEW j \in Keys PROVE Value(j)' = IF j = k THEN Gone ELSE Value(j)
    <2>1. CASE j = k
      BY <1>12, <2>1, ValueThen
    <2>2. CASE j # k
      BY <1>2, <1>6, <1>11, <1>12, <2>2, ValueThen, ValueIs
    <2> QED  BY <2>1, <2>2
  <1> QED  BY <1>2, <1>4, <1>6, <1>11, <1>13

(* An answer is taken up by its client. *)
LEMMA TakeAnswer ==
    ASSUME NEW S, NEW s \in Seq(S), s # <<>>, NEW k, NEW d, NEW e, ComesIn(k, d, s),
           e = IF k \in DOMAIN Head(s).rows THEN Head(s).rows[k] ELSE d
    PROVE  ComesIn(k, e, Rest(s))
  <1>1. PICK r, h : r = Rest(s) /\ h = Head(s)
    OBVIOUS
  <1>2. /\ h = s[1] /\ Len(s) \in Nat /\ Len(s) > 0
        /\ DOMAIN s = 1..Len(s) /\ DOMAIN r = 1..(Len(s) - 1)
        /\ \A i \in 1..(Len(s) - 1) : r[i] = s[i + 1]
    BY <1>1 DEF Rest
  <1>3. /\ \A i \in DOMAIN s : i # 1 => i - 1 \in DOMAIN r /\ (i - 1) + 1 = i
        /\ \A i \in DOMAIN r : i + 1 \in DOMAIN s
        /\ 1 \in DOMAIN s
    BY <1>2
  <1>4. /\ \A i \in DOMAIN s : s[i] = h \/ (i - 1 \in DOMAIN r /\ r[i - 1] = s[i])
        /\ \A i \in DOMAIN r : i + 1 \in DOMAIN s /\ r[i] = s[i + 1]
        /\ 1 \in DOMAIN s /\ s[1] = h
    BY <1>2, <1>3
  <1>5. e \in {0, Sent(k)}
    BY <1>1, <1>4 DEF ComesIn
  <1>6. \A i \in DOMAIN r : k \in DOMAIN r[i].rows => r[i].rows[k] = Sent(k)
    BY <1>4 DEF ComesIn
  <1>7. ASSUME Sent(k) \notin {0, Gone}
        PROVE  e = Sent(k) \/ \E i \in DOMAIN r : k \in DOMAIN r[i].rows
    <2>1. CASE k \in DOMAIN h.rows
      BY <1>1, <1>4, <2>1 DEF ComesIn
    <2>2. CASE k \notin DOMAIN h.rows
      BY <1>1, <1>4, <1>7, <2>2 DEF ComesIn
    <2> QED  BY <2>1, <2>2
  <1>8. ComesIn(k, e, r)
    BY <1>5, <1>6, <1>7 DEF ComesIn
  <1> QED  BY <1>1, <1>8

LEMMA TakeOver ==
    ASSUME NEW S, NEW s \in Seq(S), s # <<>>,
           \A i \in DOMAIN s : s[i].m_over <=> i = Len(s)
    PROVE  /\ \A i \in DOMAIN Rest(s) : Rest(s)[i].m_over <=> i = Len(Rest(s))
           /\ Head(s).m_over <=> Rest(s) = <<>>
  <1>1. PICK r, h : r = Rest(s) /\ h = Head(s)
    OBVIOUS
  <1>2. /\ h = s[1] /\ Len(s) \in Nat /\ Len(s) > 0 /\ Len(r) = Len(s) - 1
        /\ DOMAIN s = 1..Len(s) /\ DOMAIN r = 1..(Len(s) - 1)
        /\ \A i \in 1..(Len(s) - 1) : r[i] = s[i + 1]
        /\ r \in Seq(S)
    <2>1. /\ Head(s) = s[1] /\ Len(s) \in Nat /\ Len(s) > 0 /\ DOMAIN s = 1..Len(s)
          /\ Tail(s) \in Seq(S) /\ Len(Tail(s)) = Len(s) - 1
          /\ DOMAIN Tail(s) = 1..(Len(s) - 1)
          /\ \A i \in 1..(Len(s) - 1) : Tail(s)[i] = s[i + 1]
      OBVIOUS
    <2> QED  BY <1>1, <2>1 DEF Rest
  <1>3. ASSUME NEW i \in DOMAIN r PROVE r[i].m_over <=> i = Len(r)
    <2>1. PICK j \in DOMAIN s : j = i + 1 /\ (j = Len(s) <=> i = Len(r))
      BY <1>2
    <2>2. r[i] = s[j]
      BY <1>2, <2>1
    <2>3. s[j].m_over <=> j = Len(s)
      OBVIOUS
    <2> QED  BY <2>1, <2>2, <2>3
  <1>4. h.m_over <=> r = <<>>
    <2>1. r = <<>> <=> Len(r) = 0
      BY <1>2
    <2>2. h.m_over <=> Len(s) = 1
      BY <1>2
    <2> QED  BY <1>2, <2>1, <2>2
  <1> QED  BY <1>1, <1>3, <1>4

LEMMA AnswerIs ==
    ASSUME NEW m \in Answers
    PROVE  DOMAIN m.rows \subseteq Keys /\ \A k \in DOMAIN m.rows : m.rows[k] \in 1..MaxVersion
  <1>1. m.rows \in Rows
    BY DEF Answers
  <1>2. PICK S \in SUBSET Keys : m.rows \in [S -> 1..MaxVersion]
    BY <1>1 DEF Rows
  <1> QED  BY <1>2

LEMMA EmptySeq == \A S : <<>> \in Seq(S)
  OBVIOUS

(* The rows in memory with the answer put over them *)
WithAnswer(t) == With(m_data, Head(resp[t]).rows)
Inited(t) ==
    [k \in Keys |-> WithAnswer(t)[k] +
        IF bound /\ k \in InitChanges /\ WithAnswer(t)[k] \in 1..MaxVersion - 1 THEN 1 ELSE 0]
Loaded(t) == IF Head(resp[t]).m_over THEN m_load \cup {t} ELSE m_load

LEMMA FinishIs ==
    ASSUME NEW t \in Keys, LoadFinish(t)
    PROVE  /\ resp[t] # <<>> /\ resp' = [resp EXCEPT ![t] = Tail(@)]
           /\ m_load' = Loaded(t)
           /\ Loaded(t) = Tables => /\ phase' = "running" /\ m_data' = Inited(t)
                                    /\ m_modified' = {}
           /\ Loaded(t) # Tables => /\ m_data' = WithAnswer(t)
                                    /\ UNCHANGED <<phase, m_modified>>
           /\ UNCHANGED <<bound, m_dellist, chan, dbVars, cacheVars, flushes, sql, crashes>>
  BY DEF LoadFinish, WithAnswer, Inited, Loaded

LEMMA FinishStep ==
    ASSUME Inv, NEW t \in Keys, LoadFinish(t)
    PROVE  /\ Inv' /\ UNCHANGED <<bound, sql>> /\ \A k \in Keys : Sent(k)' = Sent(k)
           /\ InitChanges = {} => \A k \in Keys : Value(k)' = Value(k)
           /\ InitChanges = {} /\ phase' = "running" =>
                 \A k \in Keys : m_data'[k] \in {0, Sent(k)'}
  <1>1. TypeOK /\ Shape /\ DbInv /\ Order /\ Marks /\ Talk /\ Owner
    BY DEF Inv
  <1>2. /\ resp[t] # <<>> /\ resp' = [resp EXCEPT ![t] = Tail(@)]
        /\ m_load' = Loaded(t)
        /\ Loaded(t) = Tables => phase' = "running" /\ m_data' = Inited(t) /\ m_modified' = {}
        /\ Loaded(t) # Tables => m_data' = WithAnswer(t) /\ UNCHANGED <<phase, m_modified>>
        /\ UNCHANGED <<bound, m_dellist, chan, dbVars, cacheVars, flushes, sql, crashes>>
    BY FinishIs
  <1>3. /\ t \in Tables /\ phase = "loading" /\ Served(t)
    <2>1. t \in Tables
      BY <1>1, <1>2, Types
    <2>2. phase = "loading"
      BY <1>1, <1>2, Types DEF Talk, Marks, Quiet
    <2> QED  BY <1>1, <1>2, <2>1, <2>2 DEF Talk, Asked
  <1>4. DbInv' /\ \A k \in Keys : AtDb(k)' = AtDb(k)
    BY <1>1, <1>2, DbUntouched
  <1>5. /\ Tables' = Tables /\ Tables \subseteq Keys
        /\ \A k \in Keys : Table(k)' = Table(k) /\ Table(k) \in Tables
    BY <1>2, TablesSame, TablesAre
  <1>6. \A k \in Keys : Sent(k)' = Sent(k)
    BY <1>2, <1>4, <1>5, SentQuiet
  <1>7. PICK m : m = Head(resp[t])
    OBVIOUS
  <1>8. /\ m \in AnsOf(t) /\ m \in Answers
        /\ resp[t] \in Seq(AnsOf(t)) /\ Rest(resp[t]) \in Seq(AnsOf(t))
        /\ Rest(resp[t]) \in Seq(Answers)
    <2>1. resp[t] \in Seq(AnsOf(t)) /\ resp[t] \in Seq(Answers)
      BY <1>1, Types DEF Shape
    <2>2. Head(resp[t]) \in AnsOf(t) /\ Rest(resp[t]) \in Seq(AnsOf(t))
      BY <1>2, <2>1 DEF Rest
    <2>3. Head(resp[t]) \in Answers /\ Rest(resp[t]) \in Seq(Answers)
      BY <1>2, <2>1 DEF Rest
    <2> QED  BY <1>7, <2>1, <2>2, <2>3
  <1>9. /\ \A k \in Keys : k \in DOMAIN m.rows => Table(k) = t /\ m.rows[k] \in 1..MaxVersion
        /\ DOMAIN m.rows \subseteq Keys
    BY <1>8, AnswerIs DEF AnsOf, OwnTable
  <1>10. \A q \in Keys : resp'[q] = IF q = t THEN Rest(resp[t]) ELSE resp[q]
    BY <1>1, <1>2, Types DEF Rest
  <1>11. PICK rows : rows = WithAnswer(t)
    OBVIOUS
  <1>12. /\ \A k \in Keys : rows[k] = IF k \in DOMAIN m.rows THEN m.rows[k] ELSE m_data[k]
         /\ \A k \in Keys : rows[k] \in 0..MaxVersion
         /\ rows \in [Keys -> 0..MaxVersion]
    <2>1. \A k \in Keys : rows[k] = IF k \in DOMAIN m.rows THEN m.rows[k] ELSE m_data[k]
      BY <1>7, <1>11 DEF WithAnswer, With
    <2>2. \A k \in Keys : rows[k] \in 0..MaxVersion
      BY <1>1, <1>9, <2>1, RowTypes, Constants
    <2>3. rows = [k \in Keys |-> rows[k]]
      BY <1>11 DEF WithAnswer, With
    <2> QED  BY <2>1, <2>2, <2>3
  <1>13. /\ t \in m_load <=> FALSE
         /\ m.m_over <=> Rest(resp[t]) = <<>>
         /\ \A i \in DOMAIN Rest(resp[t]) :
               Rest(resp[t])[i].m_over <=> i = Len(Rest(resp[t]))
    BY <1>2, <1>3, <1>7, <1>8, TakeOver DEF Served
  <1>14. /\ t \in m_load' <=> Rest(resp[t]) = <<>>
         /\ \A q \in Keys : q # t => (q \in m_load' <=> q \in m_load)
         /\ m_load' \in SUBSET Keys
    BY <1>1, <1>2, <1>7, <1>13, Types DEF Loaded
  <1>15. \A k \in Keys : Table(k) = t => ComesIn(k, rows[k], Rest(resp[t]))
    <2> SUFFICES ASSUME NEW k \in Keys, Table(k) = t
                 PROVE  ComesIn(k, rows[k], Rest(resp[t]))
      OBVIOUS
    <2>1. ComesIn(k, m_data[k], resp[t])
      BY <1>3 DEF Served, Comes
    <2>2. PICK e : e = rows[k]
      OBVIOUS
    <2>3. e = IF k \in DOMAIN Head(resp[t]).rows THEN Head(resp[t]).rows[k] ELSE m_data[k]
      BY <1>7, <1>12, <2>2
    <2>4. ComesIn(k, e, Rest(resp[t]))
      BY <1>2, <1>8, <2>1, <2>3, TakeAnswer
    <2> QED  BY <2>2, <2>4
  <1>16. m_dellist = {} /\ m_dellist' = {}
    BY <1>1, <1>2, <1>3 DEF Marks
  <1>17. resp' \in [Keys -> Seq(Answers)] /\ \A q \in Keys : resp'[q] \in Seq(AnsOf(q))
    <2>1. resp' \in [Keys -> Seq(Answers)]
      BY <1>1, <1>2, <1>8, Types DEF Rest
    <2>2. \A q \in Keys : resp'[q] \in Seq(AnsOf(q))
      BY <1>1, <1>8, <1>10 DEF Shape
    <2> QED  BY <2>1, <2>2
  <1>18. Shape' /\ Order'
    <2>1. \A q \in Keys : chan'[q] \in Seq(MsgOf(q))
      BY <1>1, <1>2 DEF Shape
    <2> QED  BY <1>1, <1>2, <1>4, <1>17, <2>1, ShapeHandle, OrderDisk
  <1>19. ASSUME phase' \in {"loading", "running"}, m_data' \in [Keys -> 0..MaxVersion],
                m_modified' \in SUBSET Keys
         PROVE  TypeOK'
    <2>1. chan' \in [Keys -> Seq(Messages)] /\ m_dellist' \in SUBSET Keys
      BY <1>1, <1>2, Types
    <2>2. \A q \in Keys : q \notin Tables => chan'[q] = <<>> /\ resp'[q] = <<>>
      BY <1>1, <1>2, <1>3, <1>10, Types
    <2> QED  BY <1>1, <1>2, <1>14, <1>17, <1>19, <2>1, <2>2, TypesOwn
  <1>20. \A k \in Keys : Value(k) = Sent(k)
    BY <1>3, ValueIs
  <1>21. CASE Loaded(t) # Tables
    <2>1. /\ phase' = "loading" /\ m_data' = rows /\ m_modified' = m_modified
      BY <1>2, <1>3, <1>11, <1>21
    <2>2. TypeOK'
      BY <1>1, <1>12, <1>19, <2>1, Types
    <2>3. Marks' /\ Owner'
      BY <1>1, <1>2, <1>3, <1>16, <2>1 DEF Marks, Owner
    <2>4. ASSUME NEW q \in Tables PROVE Asked(q)' \/ Served(q)'
      <3>1. q \in Keys
        BY <1>5
      <3>2. ASSUME q # t PROVE Asked(q)' \/ Served(q)'
        <4>1. chan'[q] = chan[q] /\ resp'[q] = resp[q] /\ (q \in m_load' <=> q \in m_load)
          BY <1>2, <1>10, <1>14, <3>1, <3>2
        <4>2. \A k \in Keys : Table(k) = q => m_data'[k] = m_data[k]
          BY <1>9, <1>12, <2>1, <3>2
        <4>3. Asked(q) \/ Served(q)
          BY <1>1, <1>3 DEF Talk
        <4>4. bound' = bound /\ crashes' = crashes
          BY <1>2
        <4>5. Asked(q) => Asked(q)'
          BY <3>1, <4>1, <4>2, <4>4, AskedStays
        <4>6. Served(q) => Served(q)'
          BY <1>6, <3>1, <4>1, <4>2, <4>4, ServedStays
        <4> QED  BY <4>3, <4>5, <4>6
      <3>3. ASSUME q = t PROVE Served(q)'
        <4>1. resp'[t] = Rest(resp[t]) /\ chan'[t] = <<>>
          BY <1>2, <1>3, <1>10 DEF Served
        <4>2. ASSUME NEW k \in Keys, Table(k)' = t PROVE Comes(k)'
          <5>1. ComesIn(k, rows[k], Rest(resp[t]))
            BY <1>5, <1>15, <4>2
          <5>2. /\ Sent(k)' = Sent(k) /\ m_data'[k] = rows[k]
                /\ resp'[Table(k)'] = Rest(resp[t])
            BY <1>6, <2>1, <4>1, <4>2
          <5> QED  BY <5>1, <5>2 DEF Comes, ComesIn, Gone
        <4> QED  BY <1>13, <1>14, <3>3, <4>1, <4>2 DEF Served
      <3> QED  BY <3>2, <3>3
    <2>5. Talk'
      BY <1>5, <2>1, <2>4 DEF Talk
    <2>6. Inv'
      BY <1>4, <1>18, <2>2, <2>3, <2>5 DEF Inv
    <2>7. \A k \in Keys : Value(k)' = Value(k)
      BY <1>6, <1>20, <2>1, <2>3, ValueThen
    <2> QED  BY <1>2, <1>6, <2>1, <2>6, <2>7
  <1>22. CASE Loaded(t) = Tables
    <2>1. phase' = "running" /\ m_data' = Inited(t) /\ m_modified' = {}
      BY <1>2, <1>22
    <2>2. /\ \A k \in Keys : m_data'[k] = rows[k] +
                IF bound /\ k \in InitChanges /\ rows[k] \in 1..MaxVersion - 1 THEN 1 ELSE 0
          /\ m_data' = [k \in Keys |-> m_data'[k]]
      BY <1>11, <2>1 DEF Inited
    <2>3. /\ \A k \in Keys : m_data'[k] \in 0..MaxVersion /\ rows[k] <= m_data'[k]
          /\ \A k \in Keys : InitChanges = {} => m_data'[k] = rows[k]
      BY <1>12, <2>2, Constants
    <2>4. TypeOK'
      <3>1. m_data' \in [Keys -> 0..MaxVersion]
        BY <2>2, <2>3
      <3> QED  BY <1>19, <2>1, <3>1
    <2>5. \A q \in Tables : chan[q] = <<>> /\ resp'[q] = <<>>
      <3> SUFFICES ASSUME NEW q \in Tables PROVE chan[q] = <<>> /\ resp'[q] = <<>>
        OBVIOUS
      <3>1. q \in Keys /\ q \in m_load'
        BY <1>2, <1>5, <1>22
      <3>2. CASE q = t
        BY <1>3, <1>10, <1>14, <3>1, <3>2 DEF Served
      <3>3. CASE q # t
        <4>1. q \in m_load /\ resp'[q] = resp[q]
          BY <1>10, <1>14, <3>1, <3>3
        <4>2. Served(q)
          BY <1>1, <1>3, <4>1 DEF Talk, Asked
        <4> QED  BY <4>1, <4>2 DEF Served
      <3> QED  BY <3>2, <3>3
    <2>6. \A q \in Keys : chan'[q] = <<>> /\ resp'[q] = <<>>
      BY <1>1, <1>2, <1>5, <2>4, <2>5, Types DEF TypeOK
    <2>7. Talk'
      <3>1. \A q \in Keys : chan'[q] \in Seq(Plain')
        BY <2>6, EmptySeq
      <3> QED  BY <2>1, <2>6, <3>1 DEF Talk
    <2>8. Marks'
      BY <1>16, <2>1 DEF Marks
    <2>9. ASSUME NEW k \in Keys
          PROVE  rows[k] \in {0, Sent(k)} /\ (rows[k] = 0 => Sent(k) \in {0, Gone})
      <3>1. CASE Table(k) = t
        <4>1. ComesIn(k, rows[k], Rest(resp[t])) /\ Rest(resp[t]) = <<>>
          BY <1>5, <1>10, <1>15, <2>5, <3>1
        <4> QED  BY <4>1 DEF ComesIn
      <3>2. CASE Table(k) # t
        <4>1. Table(k) \in Tables /\ rows[k] = m_data[k] /\ Table(k) \in Keys
          BY <1>5, <1>9, <1>12, <3>2
        <4>2. Table(k) \in m_load /\ resp[Table(k)] = <<>>
          BY <1>2, <1>10, <1>14, <1>22, <2>5, <3>2, <4>1
        <4>3. Served(Table(k))
          BY <1>1, <1>3, <4>1, <4>2 DEF Talk, Asked
        <4>4. ComesIn(k, m_data[k], <<>>)
          BY <4>2, <4>3 DEF Served, Comes
        <4> QED  BY <4>1, <4>4 DEF ComesIn
      <3> QED  BY <3>1, <3>2
    <2>10. ASSUME NEW k \in Keys
           PROVE  /\ m_data'[k] # 0 => Sent(k) <= m_data'[k]
                  /\ m_data'[k] = 0 => Sent(k) \in {0, Gone}
      <3>1. /\ rows[k] \in 0..MaxVersion /\ m_data'[k] \in 0..MaxVersion
            /\ rows[k] <= m_data'[k] /\ Sent(k) \in 0..Gone
        BY <1>12, <2>3, ValueIs
      <3>2. CASE rows[k] = 0
        <4>1. m_data'[k] = 0
          BY <2>2, <3>2, Constants
        <4> QED  BY <2>9, <3>2, <4>1
      <3>3. CASE rows[k] # 0
        BY <2>9, <3>1, <3>3, Constants
      <3> QED  BY <3>2, <3>3
    <2>11. Owner'
      BY <1>6, <2>10 DEF Owner, Gone
    <2>12. Inv'
      BY <1>4, <1>18, <2>4, <2>7, <2>8, <2>11 DEF Inv
    <2>13. ASSUME InitChanges = {}, NEW k \in Keys
           PROVE  Value(k)' = Value(k) /\ m_data'[k] \in {0, Sent(k)'}
      <3>1. m_data'[k] = rows[k] /\ Sent(k)' = Sent(k)
        BY <1>6, <2>3, <2>13
      <3>2. m_data'[k] # 0 => Value(k)' = m_data'[k]
        BY <1>16, <2>1, <2>8, ValueThen
      <3>3. m_data'[k] = 0 => Value(k)' = Sent(k)'
        BY <1>16, <2>1, <2>8, ValueThen
      <3> QED  BY <1>20, <2>9, <3>1, <3>2, <3>3
    <2> QED  BY <1>2, <1>6, <2>12, <2>13
  <1> QED  BY <1>21, <1>22

-----------------------------------------------------------------------------
(* What save() and del() send *)
Marked(t) == {k \in Of(t, m_modified) : m_data[k] # 0}
SaveMessage(t) == [t |-> "save", rows |-> [k \in Marked(t) |-> m_data[k]]]
DelMessage(t) == [t |-> "del", ids |-> Of(t, m_dellist)]

LEMMA Concat ==
    ASSUME NEW S, NEW s \in Seq(S), NEW m \in S
    PROVE  s \o <<m>> = Put(s, m) /\ s \o <<>> = s
  <1>1. s \o <<m>> = Append(s, m) /\ s \o <<>> = s
    OBVIOUS
  <1> QED  BY <1>1 DEF Put

LEMMA SaveMessageIs ==
    ASSUME TypeOK, NEW t \in Keys
    PROVE  /\ SaveMessage(t) \in MsgOf(t) /\ SaveMessage(t) \in Plain
           /\ \A k \in Keys : Mentions(k, SaveMessage(t)) <=>
                 k \in m_modified /\ m_data[k] # 0 /\ Table(k) = t
           /\ \A k \in Keys : Val(k, SaveMessage(t)) = IF k \in Marked(t) THEN m_data[k]
                                                       ELSE SaveMessage(t).rows[k]
           /\ \A k \in Keys : k \in Marked(t) <=>
                 k \in m_modified /\ m_data[k] # 0 /\ Table(k) = t
  <1>1. PICK S : S = Marked(t)
    OBVIOUS
  <1>2. /\ S \in SUBSET Keys
        /\ \A k \in Keys : k \in S <=> k \in m_modified /\ m_data[k] # 0 /\ Table(k) = t
    BY <1>1, Types DEF Marked, Of
  <1>3. PICK r : r = [k \in S |-> m_data[k]]
    OBVIOUS
  <1>4. \A k \in S : m_data[k] \in 1..MaxVersion
    BY <1>2, RowTypes, Constants
  <1>5. r \in Rows /\ DOMAIN r = S /\ \A k \in S : r[k] = m_data[k]
    <2>1. r \in [S -> 1..MaxVersion]
      BY <1>3, <1>4
    <2> QED  BY <1>2, <1>3, <2>1 DEF Rows
  <1>6. PICK m : m = [t |-> "save", rows |-> r]
    OBVIOUS
  <1>7. m = SaveMessage(t) /\ m.t = "save" /\ m.rows = r /\ m \in Messages
    BY <1>1, <1>3, <1>5, <1>6 DEF SaveMessage, Messages
  <1>8. \A k \in Keys : Mentions(k, m) <=> k \in S
    BY <1>5, <1>7 DEF Mentions
  <1>9. m \in MsgOf(t) /\ m \in Plain
    BY <1>2, <1>7, <1>8 DEF MsgOf, Plain
  <1>10. \A k \in Keys : Val(k, m) = IF k \in S THEN m_data[k] ELSE m.rows[k]
    BY <1>5, <1>7 DEF Val
  <1> QED  BY <1>1, <1>2, <1>7, <1>8, <1>9, <1>10

LEMMA DelMessageIs ==
    ASSUME TypeOK, ~bound, NEW t \in Keys
    PROVE  /\ DelMessage(t) \in MsgOf(t) /\ DelMessage(t) \in Plain
           /\ \A k \in Keys : Mentions(k, DelMessage(t)) <=> k \in m_dellist /\ Table(k) = t
           /\ \A k \in Keys : Val(k, DelMessage(t)) = Gone
  <1>1. PICK S : S = Of(t, m_dellist)
    OBVIOUS
  <1>2. /\ S \in SUBSET Keys
        /\ \A k \in Keys : k \in S <=> k \in m_dellist /\ Table(k) = t
    BY <1>1, Types DEF Of
  <1>3. PICK m : m = [t |-> "del", ids |-> S]
    OBVIOUS
  <1>4. m = DelMessage(t) /\ m.t = "del" /\ m.ids = S /\ m \in Messages
    BY <1>1, <1>2, <1>3 DEF DelMessage, Messages
  <1>5. \A k \in Keys : Mentions(k, m) <=> k \in S
    BY <1>4 DEF Mentions
  <1>6. m \in MsgOf(t) /\ m \in Plain
    BY <1>2, <1>4, <1>5 DEF MsgOf, Plain
  <1>7. \A k \in Keys : Val(k, m) = Gone
    BY <1>4 DEF Val
  <1> QED  BY <1>2, <1>4, <1>5, <1>6, <1>7

LEMMA TypedMessages ==
    ASSUME NEW t, NEW s \in Seq(MsgOf(t)), NEW k \in Keys
    PROVE  Typed(s, k)
  <1>1. \A i \in DOMAIN s : s[i] \in Messages
    BY DEF MsgOf
  <1> QED  BY <1>1, MessageIs DEF Typed, About

(* The messages s to table t with those of the tick behind them *)
LEMMA SavedBehind ==
    ASSUME TypeOK, NEW t \in Keys, NEW s \in Seq(MsgOf(t))
    PROVE  /\ s \o Saved(t) \in Seq(MsgOf(t))
           /\ s \in Seq(Plain) => s \o Saved(t) \in Seq(Plain)
           /\ \A k \in Keys : Table(k) = t => \A a \in Nat :
                 /\ Final(s \o Saved(t), k, a) =
                       IF k \in m_modified /\ m_data[k] # 0 THEN m_data[k] ELSE Final(s, k, a)
                 /\ /\ Ordered(s, k, a)
                    /\ k \in m_modified /\ m_data[k] # 0 => Final(s, k, a) <= m_data[k]
                    => Ordered(s \o Saved(t), k, a)
  <1>1. PICK w : w = s \o Saved(t)
    OBVIOUS
  <1>2. PICK m : m = SaveMessage(t)
    OBVIOUS
  <1>3. /\ m \in MsgOf(t) /\ m \in Plain
        /\ \A k \in Keys : Mentions(k, m) <=> k \in m_modified /\ m_data[k] # 0 /\ Table(k) = t
        /\ \A k \in Keys : k \in Marked(t) => Val(k, m) = m_data[k]
        /\ \A k \in Keys : k \in Marked(t) <=> k \in m_modified /\ m_data[k] # 0 /\ Table(k) = t
    BY <1>2, SaveMessageIs
  <1>4. CASE Marked(t) = {}
    <2>1. w = s
      <3>1. Saved(t) = <<>>
        BY <1>4 DEF Saved, Marked
      <3> QED  BY <1>1, <1>3, <3>1, Concat
    <2>2. \A k \in Keys : Table(k) = t => ~(k \in m_modified /\ m_data[k] # 0)
      BY <1>3, <1>4
    <2> QED  BY <1>1, <2>1, <2>2
  <1>5. CASE Marked(t) # {}
    <2>1. w = Put(s, m)
      <3>1. Saved(t) = <<m>>
        BY <1>2, <1>5 DEF Saved, Marked, SaveMessage
      <3> QED  BY <1>1, <1>3, <3>1, Concat
    <2>2. w \in Seq(MsgOf(t)) /\ (s \in Seq(Plain) => w \in Seq(Plain))
      BY <1>3, <2>1 DEF Put
    <2>3. ASSUME NEW k \in Keys, Table(k) = t, NEW a \in Nat
          PROVE  /\ Final(w, k, a) =
                       IF k \in m_modified /\ m_data[k] # 0 THEN m_data[k] ELSE Final(s, k, a)
                 /\ /\ Ordered(s, k, a)
                    /\ k \in m_modified /\ m_data[k] # 0 => Final(s, k, a) <= m_data[k]
                    => Ordered(w, k, a)
      <3>1. Final(Put(s, m), k, a) = IF Mentions(k, m) THEN Val(k, m) ELSE Final(s, k, a)
        BY <1>3, FinalPut
      <3>2. Mentions(k, m) => Val(k, m) = m_data[k]
        BY <1>3
      <3>3. Final(w, k, a) =
               IF k \in m_modified /\ m_data[k] # 0 THEN m_data[k] ELSE Final(s, k, a)
        BY <1>3, <2>1, <2>3, <3>1, <3>2
      <3>4. ASSUME Ordered(s, k, a),
                   k \in m_modified /\ m_data[k] # 0 => Final(s, k, a) <= m_data[k]
            PROVE  Ordered(w, k, a)
        <4>1. Typed(s, k)
          BY TypedMessages
        <4>2. Mentions(k, m) => Val(k, m) \in Nat /\ Final(s, k, a) <= Val(k, m)
          BY <1>3, <3>2, <3>4, RowTypes
        <4>3. Ordered(Put(s, m), k, a)
          BY <1>3, <3>4, <4>1, <4>2, OrderedPut
        <4> QED  BY <2>1, <4>3
      <3> QED  BY <3>3, <3>4
    <2> QED  BY <1>1, <2>2, <2>3
  <1> QED  BY <1>4, <1>5

LEMMA DeletedBehind ==
    ASSUME TypeOK, NEW t \in Keys, NEW s \in Seq(MsgOf(t)), bound => m_dellist = {}
    PROVE  /\ s \o Deleted(t) \in Seq(MsgOf(t))
           /\ s \in Seq(Plain) => s \o Deleted(t) \in Seq(Plain)
           /\ \A k \in Keys : Table(k) = t => \A a \in Nat :
                 /\ Final(s \o Deleted(t), k, a) =
                       IF k \in m_dellist THEN Gone ELSE Final(s, k, a)
                 /\ Ordered(s, k, a) /\ Final(s, k, a) <= Gone => Ordered(s \o Deleted(t), k, a)
  <1>1. PICK w : w = s \o Deleted(t)
    OBVIOUS
  <1>2. PICK m : m = DelMessage(t)
    OBVIOUS
  <1>3. PICK S : S = Of(t, m_dellist)
    OBVIOUS
  <1>4. \A k \in Keys : k \in S <=> k \in m_dellist /\ Table(k) = t
    BY <1>3 DEF Of
  <1>5. CASE S = {}
    <2>1. w = s
      <3>1. Deleted(t) = <<>>
        BY <1>3, <1>5 DEF Deleted
      <3>2. \A T : \A r \in Seq(T) : r \o <<>> = r
        OBVIOUS
      <3> QED  BY <1>1, <3>1, <3>2
    <2>2. \A k \in Keys : Table(k) = t => k \notin m_dellist
      BY <1>4, <1>5
    <2> QED  BY <1>1, <2>1, <2>2
  <1>6. CASE S # {}
    <2>0. ~bound
      BY <1>3, <1>6 DEF Of
    <2>1. /\ m \in MsgOf(t) /\ m \in Plain
          /\ \A k \in Keys : Mentions(k, m) <=> k \in m_dellist /\ Table(k) = t
          /\ \A k \in Keys : Val(k, m) = Gone
      BY <1>2, <2>0, DelMessageIs
    <2>2. w = Put(s, m)
      <3>1. Deleted(t) = <<m>>
        BY <1>2, <1>3, <1>6 DEF Deleted, DelMessage
      <3> QED  BY <1>1, <2>1, <3>1, Concat
    <2>3. w \in Seq(MsgOf(t)) /\ (s \in Seq(Plain) => w \in Seq(Plain))
      BY <2>1, <2>2 DEF Put
    <2>4. ASSUME NEW k \in Keys, Table(k) = t, NEW a \in Nat
          PROVE  /\ Final(w, k, a) = IF k \in m_dellist THEN Gone ELSE Final(s, k, a)
                 /\ Ordered(s, k, a) /\ Final(s, k, a) <= Gone => Ordered(w, k, a)
      <3>1. Final(Put(s, m), k, a) = IF Mentions(k, m) THEN Val(k, m) ELSE Final(s, k, a)
        BY <2>1, FinalPut
      <3>2. Final(w, k, a) = IF k \in m_dellist THEN Gone ELSE Final(s, k, a)
        BY <2>1, <2>2, <2>4, <3>1
      <3>3. ASSUME Ordered(s, k, a), Final(s, k, a) <= Gone PROVE Ordered(w, k, a)
        <4>1. Typed(s, k)
          BY TypedMessages
        <4>2. Mentions(k, m) => Val(k, m) \in Nat /\ Final(s, k, a) <= Val(k, m)
          BY <2>1, <3>3, Constants
        <4>3. Ordered(Put(s, m), k, a)
          BY <2>1, <3>3, <4>1, <4>2, OrderedPut
        <4> QED  BY <2>2, <4>3
      <3> QED  BY <3>2, <3>3
    <2> QED  BY <1>1, <2>3, <2>4
  <1> QED  BY <1>5, <1>6

LEMMA TickStep ==
    ASSUME Inv, Tick
    PROVE  /\ Inv' /\ UNCHANGED <<bound, sql>> /\ phase' = "running" /\ m_modified' = {}
           /\ \A k \in Keys : Value(k)' = Value(k)
           /\ \A k \in Keys : Sent(k)' = IF k \in m_dellist THEN Gone
                                         ELSE IF k \in m_modified /\ m_data[k] # 0
                                              THEN m_data[k] ELSE Sent(k)
           /\ \A k \in m_dellist : m_data[k] = 0
           /\ m_data' = m_data
  <1>1. TypeOK /\ Shape /\ DbInv /\ Order /\ Marks /\ Talk /\ Owner
    BY DEF Inv
  <1>2. /\ phase = "running" /\ m_modified' = {} /\ m_dellist' = {}
        /\ chan' = [t \in Keys |-> chan[t] \o Saved(t) \o Deleted(t)]
        /\ UNCHANGED <<bound, phase, m_data, m_load, resp, dbVars, cacheVars, flushes,
                       sql, crashes>>
    BY DEF Tick
  <1>3. DbInv' /\ \A k \in Keys : AtDb(k)' = AtDb(k)
    BY <1>1, <1>2, DbUntouched
  <1>4. \A k \in Keys : Table(k)' = Table(k) /\ Table(k) \in Tables /\ Table(k) \in Keys
    BY <1>2, TablesSame, TablesAre
  <1>5. \A q \in Keys : chan'[q] = (chan[q] \o Saved(q)) \o Deleted(q)
    BY <1>2
  <1>6. /\ \A k \in m_dellist : m_data[k] = 0
        /\ bound => m_dellist = {}
    BY <1>1 DEF Marks
  <1>7. ASSUME NEW q \in Keys
        PROVE  chan'[q] \in Seq(MsgOf(q)) /\ chan'[q] \in Seq(Plain)
    <2>1. chan[q] \in Seq(MsgOf(q)) /\ chan[q] \in Seq(Plain)
      BY <1>1, <1>2 DEF Shape, Talk
    <2>2. PICK w : w = chan[q] \o Saved(q)
      OBVIOUS
    <2>3. w \in Seq(MsgOf(q)) /\ w \in Seq(Plain)
      BY <1>1, <2>1, <2>2, SavedBehind
    <2>4. w \o Deleted(q) \in Seq(MsgOf(q)) /\ w \o Deleted(q) \in Seq(Plain)
      BY <1>1, <1>6, <2>3, DeletedBehind
    <2> QED  BY <1>5, <2>2, <2>4
  <1>8. ASSUME NEW k \in Keys
        PROVE  /\ Ordered(chan'[Table(k)'], k, AtDb(k)')
               /\ Sent(k)' = IF k \in m_dellist THEN Gone
                             ELSE IF k \in m_modified /\ m_data[k] # 0
                                  THEN m_data[k] ELSE Sent(k)
    <2>1. PICK t \in Keys : t = Table(k)
      BY <1>4
    <2>2. PICK s, a : s = chan[t] /\ a = AtDb(k)
      OBVIOUS
    <2>3. s \in Seq(MsgOf(t)) /\ Ordered(s, k, a) /\ a \in Nat
      BY <1>1, <2>1, <2>2, ChanTyped, RowTypes DEF Order
    <2>4. Sent(k) = Final(s, k, a) /\ Sent(k) \in 0..Gone /\ m_data[k] \in 0..MaxVersion
      BY <2>1, <2>2, SentIs, ValueIs
    <2>5. k \in m_modified /\ m_data[k] # 0 => Final(s, k, a) <= m_data[k]
      BY <1>1, <1>2, <1>6, <2>4 DEF Owner
    <2>6. PICK w : w = s \o Saved(t)
      OBVIOUS
    <2>7. /\ w \in Seq(MsgOf(t)) /\ Ordered(w, k, a)
          /\ Final(w, k, a) =
                IF k \in m_modified /\ m_data[k] # 0 THEN m_data[k] ELSE Final(s, k, a)
      BY <1>1, <2>1, <2>3, <2>5, <2>6, SavedBehind
    <2>8. Final(w, k, a) <= Gone
      BY <2>4, <2>7, Constants
    <2>9. /\ Ordered(w \o Deleted(t), k, a)
          /\ Final(w \o Deleted(t), k, a) = IF k \in m_dellist THEN Gone ELSE Final(w, k, a)
      BY <1>1, <1>6, <2>1, <2>3, <2>7, <2>8, DeletedBehind
    <2>10. chan'[Table(k)'] = w \o Deleted(t) /\ AtDb(k)' = a
      BY <1>3, <1>4, <1>5, <2>1, <2>2, <2>6
    <2> QED  BY <2>4, <2>7, <2>9, <2>10, SentIs
  <1>9. Order'
    BY <1>8 DEF Order
  <1>10. TypeOK'
    <2>1. \A q \in Keys : chan'[q] \in Seq(Messages)
      <3> SUFFICES ASSUME NEW q \in Keys PROVE chan'[q] \in Seq(Messages)
        OBVIOUS
      <3>1. MsgOf(q) \subseteq Messages
        BY DEF MsgOf
      <3> QED  BY <1>7, <3>1, SeqMore
    <2>2. chan' \in [Keys -> Seq(Messages)]
      BY <1>2, <2>1
    <2>3. ASSUME NEW q \in Keys, q \notin Tables PROVE chan'[q] = <<>> /\ resp'[q] = <<>>
      <3>1. chan[q] = <<>> /\ resp[q] = <<>>
        BY <1>1, <2>3, Types
      <3>2. \A S \in SUBSET Keys : Of(q, S) = {}
        BY <1>4, <2>3 DEF Of
      <3>3. Of(q, m_modified) = {} /\ Of(q, m_dellist) = {}
        BY <1>1, <3>2, Types
      <3>4. Saved(q) = <<>> /\ Deleted(q) = <<>>
        BY <3>3 DEF Saved, Deleted
      <3> QED  BY <1>2, <1>5, <3>1, <3>4
    <2>4. /\ m_data' \in [Keys -> 0..MaxVersion] /\ m_modified' \in SUBSET Keys
          /\ m_dellist' \in SUBSET Keys /\ m_load' \in SUBSET Keys
          /\ resp' \in [Keys -> Seq(Answers)]
      BY <1>1, <1>2, Types
    <2> QED  BY <1>1, <1>2, <2>2, <2>3, <2>4, TypesOwn
  <1>11. Shape'
    <2>1. \A q \in Keys : resp'[q] \in Seq(AnsOf(q)) /\ flushes' = flushes
      BY <1>1, <1>2 DEF Shape
    <2> QED  BY <1>1, <1>2, <1>7, <2>1, ShapeHandle
  <1>12. Marks'
    BY <1>2 DEF Marks
  <1>13. Talk'
    <2>1. Plain' = Plain
      BY DEF Plain
    <2> QED  BY <1>1, <1>2, <1>7, <2>1 DEF Talk
  <1>14. ASSUME NEW k \in Keys
         PROVE  /\ m_data'[k] # 0 => Sent(k)' <= m_data'[k]
                /\ m_data'[k] = 0 => Sent(k)' \in {0, Gone}
    <2>1. /\ k \notin m_dellist /\ m_data[k] # 0 => Sent(k) <= m_data[k]
          /\ k \notin m_dellist /\ m_data[k] = 0 => Sent(k) \in {0, Gone}
      BY <1>1, <1>2 DEF Owner
    <2>2. m_data[k] \in 0..MaxVersion
      BY ValueIs
    <2>3. Sent(k)' = IF k \in m_dellist THEN Gone
                     ELSE IF k \in m_modified /\ m_data[k] # 0 THEN m_data[k] ELSE Sent(k)
      BY <1>8
    <2>4. m_data'[k] = m_data[k] /\ m_data[k] <= m_data[k]
      BY <1>2, <2>2
    <2>5. CASE m_data[k] # 0
      BY <1>6, <2>1, <2>3, <2>4, <2>5
    <2>6. CASE m_data[k] = 0
      BY <2>1, <2>3, <2>4, <2>6
    <2> QED  BY <2>5, <2>6
  <1>15. Owner'
    BY <1>14 DEF Owner, Gone
  <1>16. ASSUME NEW k \in Keys PROVE Value(k)' = Value(k)
    <2>1. phase' = "running" /\ m_dellist' = {} /\ m_data' = m_data
      BY <1>2
    <2>2. CASE m_data[k] # 0
      BY <1>2, <1>6, <1>12, <2>1, <2>2, ValueIs, ValueThen
    <2>3. CASE m_data[k] = 0
      <3>1. Value(k)' = Sent(k)'
        BY <1>12, <2>1, <2>3, ValueThen
      <3>2. Sent(k)' = IF k \in m_dellist THEN Gone ELSE Sent(k)
        BY <1>8, <2>3
      <3>3. Value(k) = IF k \in m_dellist THEN Gone ELSE Sent(k)
        BY <2>3, ValueIs
      <3> QED  BY <3>1, <3>2, <3>3
    <2> QED  BY <2>2, <2>3
  <1>17. Inv'
    BY <1>1, <1>3, <1>9, <1>10, <1>11, <1>12, <1>13, <1>15 DEF Inv
  <1> QED  BY <1>2, <1>6, <1>8, <1>16, <1>17

LEMMA ReleaseStep ==
    ASSUME Inv, Release
    PROVE  /\ Inv' /\ UNCHANGED <<bound, sql>> /\ phase' = "down"
           /\ CleanMeansSent => \A k \in Keys : Value(k)' = Value(k)
  <1>1. TypeOK /\ Shape /\ DbInv /\ Order /\ Marks /\ Talk /\ Owner
    BY DEF Inv
  <1>2. /\ phase = "running" /\ bound /\ phase' = "down"
        /\ chan' = [t \in Keys |-> chan[t] \o Saved(t)]
        /\ m_data' = NoRows /\ m_modified' = {} /\ m_dellist' = {} /\ m_load' = {}
        /\ UNCHANGED <<bound, resp, dbVars, cacheVars, flushes, sql, crashes>>
    BY DEF Release
  <1>3. DbInv' /\ \A k \in Keys : AtDb(k)' = AtDb(k)
    BY <1>1, <1>2, DbUntouched
  <1>4. \A k \in Keys : Table(k)' = Table(k) /\ Table(k) \in Tables /\ Table(k) \in Keys
    BY <1>2, TablesSame, TablesAre
  <1>5. \A q \in Keys : chan'[q] = chan[q] \o Saved(q)
    BY <1>2
  <1>6. m_dellist = {}
    BY <1>1, <1>2 DEF Marks
  <1>7. ASSUME NEW q \in Keys
        PROVE  chan'[q] \in Seq(MsgOf(q)) /\ chan'[q] \in Seq(Plain)
    <2>1. chan[q] \in Seq(MsgOf(q)) /\ chan[q] \in Seq(Plain)
      BY <1>1, <1>2 DEF Shape, Talk
    <2> QED  BY <1>1, <1>5, <2>1, SavedBehind
  <1>8. ASSUME NEW k \in Keys
        PROVE  /\ Ordered(chan'[Table(k)'], k, AtDb(k)')
               /\ Sent(k)' = IF k \in m_modified /\ m_data[k] # 0 THEN m_data[k] ELSE Sent(k)
    <2>1. PICK t \in Keys : t = Table(k)
      BY <1>4
    <2>2. PICK s, a : s = chan[t] /\ a = AtDb(k)
      OBVIOUS
    <2>3. s \in Seq(MsgOf(t)) /\ Ordered(s, k, a) /\ a \in Nat
      BY <1>1, <2>1, <2>2, ChanTyped, RowTypes DEF Order
    <2>4. Sent(k) = Final(s, k, a)
      BY <2>1, <2>2, SentIs
    <2>5. k \in m_modified /\ m_data[k] # 0 => Final(s, k, a) <= m_data[k]
      BY <1>1, <1>2, <1>6, <2>4 DEF Owner
    <2>6. PICK w : w = s \o Saved(t)
      OBVIOUS
    <2>7. /\ Ordered(w, k, a)
          /\ Final(w, k, a) =
                IF k \in m_modified /\ m_data[k] # 0 THEN m_data[k] ELSE Final(s, k, a)
      BY <1>1, <2>1, <2>3, <2>5, <2>6, SavedBehind
    <2>8. chan'[Table(k)'] = w /\ AtDb(k)' = a
      BY <1>3, <1>4, <1>5, <2>1, <2>2, <2>6
    <2> QED  BY <2>4, <2>7, <2>8, SentIs
  <1>9. Order'
    BY <1>8 DEF Order
  <1>10. TypeOK'
    <2>1. \A q \in Keys : chan'[q] \in Seq(Messages)
      <3> SUFFICES ASSUME NEW q \in Keys PROVE chan'[q] \in Seq(Messages)
        OBVIOUS
      <3>1. MsgOf(q) \subseteq Messages
        BY DEF MsgOf
      <3> QED  BY <1>7, <3>1, SeqMore
    <2>2. chan' \in [Keys -> Seq(Messages)]
      BY <1>2, <2>1
    <2>3. ASSUME NEW q \in Keys, q \notin Tables PROVE chan'[q] = <<>> /\ resp'[q] = <<>>
      <3>1. q \in Tables
        BY <1>2, TablesAre
      <3> QED  BY <2>3, <3>1
    <2>4. NoRows \in [Keys -> 0..MaxVersion]
      BY Constants DEF NoRows
    <2>5. /\ m_data' \in [Keys -> 0..MaxVersion] /\ m_modified' \in SUBSET Keys
          /\ m_dellist' \in SUBSET Keys /\ m_load' \in SUBSET Keys
          /\ resp' \in [Keys -> Seq(Answers)]
      BY <1>1, <1>2, <2>4, Types
    <2> QED  BY <1>1, <1>2, <2>2, <2>3, <2>5, TypesOwn
  <1>11. Shape'
    <2>1. \A q \in Keys : resp'[q] \in Seq(AnsOf(q)) /\ flushes' = flushes
      BY <1>1, <1>2 DEF Shape
    <2> QED  BY <1>1, <1>2, <1>7, <2>1, ShapeHandle
  <1>12. resp = Quiet
    <2>1. resp \in [Keys -> Seq(Answers)] /\ \A q \in Keys : resp[q] = <<>>
      BY <1>1, <1>2, Types DEF Talk
    <2> QED  BY <2>1 DEF Quiet
  <1>13. Marks'
    BY <1>2, <1>12 DEF Marks, NoRows, Quiet
  <1>14. Talk'
    <2>1. Plain \subseteq Stale /\ Stale' = Stale
      BY <1>2 DEF Plain, Stale
    <2>2. \A q \in Keys : chan'[q] \in Seq(Stale)
      BY <1>7, <2>1, SeqMore
    <2> QED  BY <1>2, <2>1, <2>2 DEF Talk
  <1>15. Owner'
    BY <1>2 DEF Owner
  <1>16. ASSUME CleanMeansSent, NEW k \in Keys PROVE Value(k)' = Value(k)
    <2>1. Value(k)' = Sent(k)'
      BY <1>2, <1>13, ValueThen
    <2>2. CASE m_data[k] # 0
      <3>1. Value(k) = m_data[k]
        BY <1>2, <1>6, <2>2, ValueIs
      <3>2. k \notin m_modified => m_data[k] = Sent(k)
        BY <1>2, <1>16, <2>2 DEF CleanMeansSent
      <3> QED  BY <1>8, <2>1, <2>2, <3>1, <3>2
    <2>3. CASE m_data[k] = 0
      BY <1>6, <1>8, <2>1, <2>3, ValueIs
    <2> QED  BY <2>2, <2>3
  <1>17. Inv'
    BY <1>1, <1>3, <1>9, <1>10, <1>11, <1>13, <1>14, <1>15 DEF Inv
  <1> QED  BY <1>2, <1>16, <1>17

-----------------------------------------------------------------------------
(* Crashes *)
LEMMA NothingSent == ASSUME NEW k, NEW a PROVE Ordered(<<>>, k, a) /\ Final(<<>>, k, a) = a
  BY DEF Ordered, Final, About

LEMMA GameCrashStep ==
    ASSUME Inv, GameCrash
    PROVE  /\ Inv' /\ UNCHANGED <<bound, sql>> /\ phase' = "down"
           /\ \A k \in Keys : /\ Value(k)' \in 0..Gone
                              /\ sql[k] <= Value(k)' /\ Value(k)' <= Value(k)
  <1>1. TypeOK /\ Shape /\ DbInv /\ Order /\ Marks /\ Talk /\ Owner
    BY DEF Inv
  <1>2. /\ crashes < MaxCrash /\ crashes' = crashes + 1
        /\ phase' = "down" /\ m_data' = NoRows
        /\ m_modified' = {} /\ m_dellist' = {} /\ m_load' = {} /\ resp' = Quiet
        /\ UNCHANGED <<bound, dbVars, cacheVars, flushes, sql>>
    BY DEF GameCrash
  <1>3. PICK kept : /\ \A t \in Keys : kept[t] \in Nat /\ kept[t] <= Len(chan[t])
                    /\ chan' = [t \in Keys |-> Cut(chan[t], kept[t])]
    <2>1. PICK kept \in [Keys -> UNION {0..Len(chan[t]) : t \in Keys}] :
             /\ \A t \in Keys : kept[t] <= Len(chan[t])
             /\ chan' = [t \in Keys |-> SubSeq(chan[t], 1, kept[t])]
      BY DEF GameCrash
    <2>2. UNION {0..Len(chan[t]) : t \in Keys} \subseteq Nat
      OBVIOUS
    <2>3. \A t \in Keys : kept[t] \in Nat
      BY <2>1, <2>2
    <2> QED  BY <2>1, <2>3 DEF Cut
  <1>4. DbInv' /\ \A k \in Keys : AtDb(k)' = AtDb(k)
    BY <1>1, <1>2, DbUntouched
  <1>5. /\ Tables' = Tables
        /\ \A k \in Keys : Table(k)' = Table(k) /\ Table(k) \in Tables /\ Table(k) \in Keys
    BY <1>2, TablesSame, TablesAre
  <1>6. \A q \in Keys : chan'[q] = Cut(chan[q], kept[q])
    BY <1>3
  <1>7. ASSUME NEW q \in Keys, NEW S, chan[q] \in Seq(S)
        PROVE  chan'[q] \in Seq(S) /\ kept[q] \in 0..Len(chan[q])
    <2>1. PICK s \in Seq(S) : s = chan[q]
      BY <1>7
    <2>2. PICK n \in Nat : n = kept[q] /\ n <= Len(s)
      BY <1>3, <2>1
    <2>3. n \in 0..Len(s) /\ Cut(s, n) \in Seq(S)
      <3>1. Len(s) \in Nat
        OBVIOUS
      <3>2. n \in 0..Len(s)
        BY <2>2, <3>1
      <3> QED  BY <3>2, AboutCut
    <2> QED  BY <1>6, <2>1, <2>2, <2>3
  <1>8. \A q \in Keys : chan'[q] \in Seq(MsgOf(q)) /\ chan'[q] \in Seq(Messages)
    <2>1. \A q \in Keys : chan[q] \in Seq(MsgOf(q)) /\ chan[q] \in Seq(Messages)
      BY <1>1, Types DEF Shape
    <2> QED  BY <1>7, <2>1
  <1>9. ASSUME NEW k \in Keys
        PROVE  /\ Ordered(chan'[Table(k)'], k, AtDb(k)')
               /\ Sent(k)' \in Nat /\ AtDb(k) <= Sent(k)' /\ Sent(k)' <= Sent(k)
    <2>1. PICK t \in Keys : t = Table(k)
      BY <1>5
    <2>2. PICK s, a, n : s = chan[t] /\ a = AtDb(k) /\ n = kept[t]
      OBVIOUS
    <2>3. /\ s \in Seq(MsgOf(t)) /\ Ordered(s, k, a) /\ Typed(s, k) /\ a \in Nat
          /\ n \in 0..Len(s)
      BY <1>1, <1>7, <2>1, <2>2, ChanTyped, RowTypes DEF Order
    <2>4. /\ Ordered(Cut(s, n), k, a)
          /\ a <= Final(Cut(s, n), k, a) /\ Final(Cut(s, n), k, a) <= Final(s, k, a)
          /\ Final(Cut(s, n), k, a) \in Nat
      BY <2>3, FinalCut
    <2>5. chan'[Table(k)'] = Cut(s, n) /\ AtDb(k)' = a
      BY <1>4, <1>5, <1>6, <2>1, <2>2
    <2> QED  BY <2>1, <2>2, <2>4, <2>5, SentIs
  <1>10. Order'
    BY <1>9 DEF Order
  <1>11. crashes' \in 0..MaxCrash /\ crashes \in Nat
    <2>1. crashes \in 0..MaxCrash /\ MaxCrash \in Nat
      BY <1>1, Types, Constants
    <2> QED  BY <1>2, <2>1
  <1>12. ASSUME NEW q \in Keys, q \notin Tables PROVE chan'[q] = <<>>
    <2>1. PICK s : s = chan[q] /\ s = <<>>
      BY <1>1, <1>12, Types
    <2>2. kept[q] = 0
      <3>1. Len(<<>>) = 0
        OBVIOUS
      <3>2. kept[q] \in Nat /\ kept[q] <= Len(<<>>)
        BY <1>3, <2>1
      <3> QED  BY <3>1, <3>2
    <2>3. Cut(<<>>, 0) = <<>>
      BY DEF Cut
    <2> QED  BY <1>6, <2>1, <2>2, <2>3
  <1>13. TypeOK'
    <2>1. chan' \in [Keys -> Seq(Messages)]
      BY <1>3, <1>8
    <2>2. m_data' \in [Keys -> 0..MaxVersion]
      BY <1>2, Constants DEF NoRows
    <2>3. resp' \in [Keys -> Seq(Answers)] /\ \A q \in Keys : resp'[q] = <<>>
      BY <1>2, EmptySeq DEF Quiet
    <2>4. UNCHANGED <<bound, db_data, m_idindex, m_cache_save, m_cache_del, flushes, sql>>
      BY <1>2 DEF dbVars, cacheVars
    <2>5. \A q \in Keys \ Tables' : chan'[q] = <<>> /\ resp'[q] = <<>> /\ flushes'[q] = <<>>
      BY <1>1, <1>5, <1>12, <2>3, <2>4, Types
    <2>6. phase' \in {"down", "loading", "running"} /\ bound' \in BOOLEAN
      BY <1>1, <1>2, Types
    <2>7. {m_data', db_data'} \subseteq [Keys -> 0..MaxVersion] /\ sql' \in [Keys -> 0..Gone]
      BY <1>1, <2>2, <2>4, Types
    <2>8. {m_modified', m_dellist', m_load', m_idindex', m_cache_save', m_cache_del'}
              \subseteq SUBSET Keys
      BY <1>1, <1>2, <2>4, Types
    <2>9. flushes' \in [Keys -> Seq(Flushes)]
      BY <1>1, <1>2, Types
    <2> QED
      BY <1>11, <2>1, <2>3, <2>5, <2>6, <2>7, <2>8, <2>9
      DEF TypeOK, Gone, Messages, Answers, Flushes, Rows
  <1>14. Shape'
    <2>1. \A q \in Keys : resp'[q] \in Seq(AnsOf(q)) /\ flushes' = flushes
      BY <1>2, EmptySeq DEF Quiet
    <2> QED  BY <1>1, <1>2, <1>8, <2>1, ShapeHandle
  <1>15. Marks'
    BY <1>2 DEF Marks, NoRows, Quiet
  <1>16. \A q \in Keys : chan'[q] \in Seq(Stale')
    <2> SUFFICES ASSUME NEW q \in Keys PROVE chan[q] \in Seq(Stale')
      BY <1>7
    <2>1. /\ Stale \subseteq Stale' /\ Plain \subseteq Stale' /\ Asking \in Stale'
      <3>1. crashes < crashes'
        BY <1>2, <1>11
      <3>2. \A m \in Messages : m.t = "load" => m.from \in Nat
        BY MessageIs, Constants
      <3>3. Stale \subseteq Stale'
        BY <1>2, <1>11, <3>2 DEF Stale, Messages, Rows
      <3>4. Plain \subseteq Stale'
        BY DEF Plain, Stale, Messages, Rows
      <3>5. Asking.t = "load" /\ Asking.from = crashes
        BY DEF Asking
      <3>6. Asking \in Stale'
        BY <1>1, <3>1, <3>5, AskingIs DEF Stale, Messages, Rows
      <3> QED  BY <3>3, <3>4, <3>6
    <2>2. CASE phase = "down"
      BY <1>1, <2>1, <2>2, SeqMore DEF Talk
    <2>3. CASE phase = "running"
      BY <1>1, <2>1, <2>3, SeqMore DEF Talk
    <2>4. CASE phase = "loading"
      <3>1. CASE q \notin Tables
        BY <1>1, <3>1, Types, EmptySeq
      <3>2. ASSUME q \in Tables, Served(q) PROVE chan[q] \in Seq(Stale')
        BY <3>2, EmptySeq DEF Served
      <3>3. ASSUME q \in Tables, Asked(q) PROVE chan[q] \in Seq(Stale')
        <4>1. PICK s \in Seq(Stale) : chan[q] = Put(s, Asking)
          BY <3>3 DEF Asked
        <4>2. s \in Seq(Stale')
          BY <2>1, SeqMore
        <4>3. Put(s, Asking) \in Seq(Stale')
          BY <2>1, <4>2 DEF Put
        <4> QED  BY <4>1, <4>3
      <3> QED  BY <1>1, <2>4, <3>1, <3>2, <3>3 DEF Talk
    <2> QED  BY <1>1, <2>2, <2>3, <2>4, Types
  <1>17. Talk' /\ Owner'
    BY <1>2, <1>16 DEF Talk, Owner
  <1>18. ASSUME NEW k \in Keys
         PROVE  Value(k)' \in 0..Gone /\ sql[k] <= Value(k)' /\ Value(k)' <= Value(k)
    <2>1. Value(k)' = Sent(k)'
      BY <1>2, <1>15, ValueThen
    <2>2. /\ Sent(k)' \in Nat /\ AtDb(k) <= Sent(k)' /\ Sent(k)' <= Sent(k)
          /\ sql[k] <= AtDb(k)
      BY <1>1, <1>9 DEF DbInv, RowOK
    <2>3. /\ Sent(k) \in 0..Gone /\ Sent(k) <= Value(k) /\ Value(k) \in Nat
          /\ sql[k] \in 0..Gone /\ AtDb(k) \in 0..Gone
      BY <1>1, ValueIs, RowTypes
    <2> QED  BY <2>1, <2>2, <2>3, Constants
  <1>19. Inv'
    BY <1>4, <1>10, <1>13, <1>14, <1>15, <1>17 DEF Inv
  <1> QED  BY <1>2, <1>18, <1>19

(* A DB server that starts from the disk, and an actor that is not there *)
Fresh ==
    /\ bound \in BOOLEAN /\ phase = "down" /\ m_data = NoRows
    /\ m_modified = {} /\ m_dellist = {} /\ m_load = {}
    /\ chan = Quiet /\ resp = Quiet /\ flushes = Quiet
    /\ sql \in [Keys -> 0..Gone] /\ (bound => \A k \in Keys : sql[k] # Gone)
    /\ db_data = Preloaded(sql)
    /\ m_idindex = {k \in Keys : Stored(k)}
    /\ m_cache_save = {} /\ m_cache_del = {}
    /\ crashes \in 0..MaxCrash

LEMMA FreshIs ==
    Fresh => Inv /\ \A k \in Keys : Value(k) = sql[k]
  <1> SUFFICES ASSUME Fresh PROVE Inv /\ \A k \in Keys : Value(k) = sql[k]
    OBVIOUS
  <1>1. /\ bound \in BOOLEAN /\ phase = "down" /\ m_data = NoRows
        /\ m_modified = {} /\ m_dellist = {} /\ m_load = {}
        /\ chan = Quiet /\ resp = Quiet /\ flushes = Quiet
        /\ sql \in [Keys -> 0..Gone] /\ (bound => \A k \in Keys : sql[k] # Gone)
        /\ db_data = Preloaded(sql)
        /\ m_idindex = {k \in Keys : Stored(k)}
        /\ m_cache_save = {} /\ m_cache_del = {}
        /\ crashes \in 0..MaxCrash
    BY DEF Fresh
  <1>2. \A q \in Keys : chan[q] = <<>> /\ resp[q] = <<>> /\ flushes[q] = <<>>
    BY <1>1 DEF Quiet
  <1>3. \A k \in Keys : sql[k] \in 0..Gone /\ sql[k] \in Nat
    BY <1>1, Constants
  <1>4. \A k \in Keys : db_data[k] = IF bound \/ sql[k] = Gone THEN 0 ELSE sql[k]
    BY <1>1 DEF Preloaded
  <1>5. \A k \in Keys : Table(k) \in Keys
    BY TablesAre
  <1>6. TypeOK
    <2>1. /\ chan \in [Keys -> Seq(Messages)] /\ resp \in [Keys -> Seq(Answers)]
          /\ flushes \in [Keys -> Seq(Flushes)]
      BY <1>1, EmptySeq DEF Quiet
    <2>2. m_data \in [Keys -> 0..MaxVersion]
      BY <1>1, Constants DEF NoRows
    <2>3. db_data \in [Keys -> 0..MaxVersion]
      <3>1. \A k \in Keys : db_data[k] \in 0..MaxVersion
        BY <1>3, <1>4, Constants
      <3>2. db_data = [k \in Keys |-> db_data[k]]
        BY <1>1 DEF Preloaded
      <3> QED  BY <3>1, <3>2
    <2>4. m_idindex \in SUBSET Keys
      BY <1>1
    <2> QED  BY <1>1, <1>2, <2>1, <2>2, <2>3, <2>4 DEF TypeOK
  <1>7. Shape
    BY <1>2, EmptySeq DEF Shape
  <1>8. ASSUME NEW k \in Keys PROVE ~Deleting(k) /\ AtDb(k) = sql[k] /\ RowOK(k)
    <2>1. ~Deleting(k)
      BY <1>1, <1>2, <1>5 DEF Deleting
    <2>2. AtDb(k) = sql[k]
      BY <1>4, <2>1 DEF AtDb
    <2>3. k \in m_idindex <=> Stored(k)
      BY <1>1
    <2>4. db_data[k] \in {0, sql[k]} /\ (db_data[k] # 0 => Stored(k))
      BY <1>3, <1>4 DEF Stored
    <2>5. ~bound /\ db_data[k] = 0 => sql[k] \in {0, Gone}
      BY <1>4
    <2>6. sql[k] <= AtDb(k)
      BY <1>3, <2>2
    <2>7. bound => sql[k] # Gone
      BY <1>1
    <2> QED  BY <2>1, <2>2, <2>3, <2>4, <2>5, <2>6, <2>7 DEF RowOK
  <1>9. DbInv
    BY <1>8 DEF DbInv
  <1>10. Order
    BY <1>2, <1>5, NothingSent DEF Order
  <1>11. Marks
    BY <1>1 DEF Marks
  <1>12. Talk /\ Owner
    BY <1>1, <1>2, EmptySeq DEF Talk, Owner
  <1>13. Inv
    BY <1>6, <1>7, <1>9, <1>10, <1>11, <1>12 DEF Inv
  <1>14. \A k \in Keys : Value(k) = sql[k]
    <2>1. \A k \in Keys : Value(k) = Sent(k)
      BY <1>1, <1>13, ValueIs
    <2> QED  BY <1>2, <1>5, <1>8, <2>1, SentAlone
  <1> QED  BY <1>13, <1>14

LEMMA FreshThen == Fresh' => Inv' /\ (\A k \in Keys : Value(k) = sql[k])'
  BY FreshIs, PTL

LEMMA InitFresh == Init => Fresh
  <1> SUFFICES ASSUME Init PROVE Fresh
    OBVIOUS
  <1>1. sql \in [Keys -> 0..Gone] /\ \A k \in Keys : sql[k] # Gone
    BY Constants DEF Init
  <1>2. crashes \in 0..MaxCrash
    BY Constants DEF Init
  <1> QED  BY <1>1, <1>2 DEF Init, Fresh

LEMMA DbCrashStep ==
    ASSUME Inv, DbCrash
    PROVE  /\ Inv' /\ UNCHANGED <<bound, sql>> /\ phase' = "down"
           /\ \A k \in Keys : /\ Value(k)' \in 0..Gone
                              /\ sql[k] <= Value(k)' /\ Value(k)' <= Value(k)
  <1>1. TypeOK /\ DbInv
    BY DEF Inv
  <1>2. /\ crashes < MaxCrash /\ crashes' = crashes + 1
        /\ phase' = "down" /\ m_data' = NoRows
        /\ m_modified' = {} /\ m_dellist' = {} /\ m_load' = {}
        /\ chan' = Quiet /\ resp' = Quiet /\ flushes' = Quiet
        /\ db_data' = Preloaded(sql) /\ m_idindex' = {k \in Keys : Stored(k)}
        /\ m_cache_save' = {} /\ m_cache_del' = {}
        /\ UNCHANGED <<bound, sql>>
    BY DEF DbCrash
  <1>3. crashes' \in 0..MaxCrash
    <2>1. crashes \in 0..MaxCrash /\ MaxCrash \in Nat
      BY <1>1, Types, Constants
    <2> QED  BY <1>2, <2>1
  <1>4. bound' => \A k \in Keys : sql'[k] # Gone
    BY <1>1, <1>2 DEF DbInv, RowOK
  <1>5. sql' \in [Keys -> 0..Gone] /\ bound' \in BOOLEAN
    BY <1>1, <1>2, Types
  <1>6. Preloaded(sql') = Preloaded(sql) /\ Preloaded(sql)' = Preloaded(sql)
    BY <1>2 DEF Preloaded, Gone
  <1>7. \A k \in Keys : Stored(k)' <=> Stored(k)
    BY <1>2 DEF Stored, Gone
  <1>8. Fresh'
    BY <1>2, <1>3, <1>4, <1>5, <1>6, <1>7 DEF Fresh, NoRows, Quiet, Gone
  <1>9. Inv' /\ \A k \in Keys : Value(k)' = sql'[k]
    BY <1>8, FreshThen
  <1>10. ASSUME NEW k \in Keys
         PROVE  Value(k)' \in 0..Gone /\ sql[k] <= Value(k)' /\ Value(k)' <= Value(k)
    <2>1. Value(k)' = sql[k]
      BY <1>2, <1>9
    <2>2. sql[k] \in 0..Gone /\ sql[k] <= Value(k) /\ Value(k) \in Nat
      BY ValueIs
    <2> QED  BY <2>1, <2>2, Constants
  <1> QED  BY <1>2, <1>9, <1>10
LEMMA StutterStep ==
    ASSUME Inv, UNCHANGED vars
    PROVE  /\ Inv' /\ UNCHANGED <<bound, clientVars, sql>>
           /\ \A k \in Keys : Sent(k)' = Sent(k)
  <1>1. TypeOK /\ Shape /\ DbInv /\ Order /\ Marks /\ Talk /\ Owner
    BY DEF Inv
  <1>2. UNCHANGED <<bound, clientVars, chan, resp, dbVars, cacheVars, flushes, sql, crashes>>
    BY DEF vars
  <1>3. UNCHANGED <<db_data, m_idindex, m_cache_save, m_cache_del>>
    BY <1>2 DEF dbVars, cacheVars
  <1>4. DbInv' /\ \A k \in Keys : AtDb(k)' = AtDb(k)
    BY <1>1, <1>2, DbUntouched
  <1>5. PICK t \in Tables : TRUE
    BY Constants, TablesAre
  <1>6. /\ flushes' \in [Keys -> Seq(Flushes)] /\ sql' \in [Keys -> 0..Gone]
        /\ db_data' \in [Keys -> 0..MaxVersion] /\ m_idindex' \in SUBSET Keys
        /\ {m_cache_save', m_cache_del'} \subseteq SUBSET Keys
    BY <1>1, <1>2, <1>3, Types
  <1>7. TypeOK'
    BY <1>1, <1>2, <1>5, <1>6, TypesDisk
  <1>8. \A q \in Keys : flushes'[q] \in Seq(FlushOf(q))
    BY <1>1, <1>2 DEF Shape
  <1>9. Shape' /\ Order'
    BY <1>1, <1>2, <1>4, <1>8, ShapeDisk, OrderDisk
  <1>10. Marks' /\ Talk' /\ Owner' /\ \A k \in Keys : Sent(k)' = Sent(k)
    BY <1>1, <1>2, <1>4, ClientQuiet
  <1> QED  BY <1>2, <1>4, <1>7, <1>9, <1>10 DEF Inv
-----------------------------------------------------------------------------
(* The inductive invariant, action by action *)
LEMMA InvStep == Inv /\ [Next]_vars => Inv'
  <1> SUFFICES ASSUME Inv, [Next]_vars PROVE Inv'
    OBVIOUS
  <1>1. CASE Create \/ Tick \/ Release
    BY <1>1, CreateStep, TickStep, ReleaseStep
  <1>2. CASE GameCrash \/ DbCrash
    BY <1>2, GameCrashStep, DbCrashStep
  <1>3. ASSUME NEW k \in Keys, Change(k) \/ Del(k) PROVE Inv'
    BY <1>3, ChangeStep, DelStep
  <1>4. ASSUME NEW t \in Keys, LoadFinish(t) PROVE Inv'
    BY <1>4, FinishStep
  <1>5. ASSUME NEW t \in Keys, DbHandle(t) PROVE Inv'
    BY <1>5, LoadStep, SaveStep, DeleteStep DEF DbHandle
  <1>6. ASSUME NEW t \in Keys, SaveTimer(t) \/ DelTimer(t) \/ DbFlush(t) PROVE Inv'
    BY <1>6, DiskStep
  <1>7. CASE UNCHANGED vars
    BY <1>7, StutterStep
  <1> QED  BY <1>1, <1>2, <1>3, <1>4, <1>5, <1>6, <1>7 DEF Next

(* The invariant holds in every state of every behaviour. *)
THEOREM DbInvariant == Spec => []Inv
  <1>1. Init => Inv
    BY InitFresh, FreshIs
  <1> QED  BY <1>1, InvStep, PTL DEF Spec

(* Every variable of the actor's clients and of the DB actor has its type. *)
THEOREM DbTypeInvariant == Spec => []TypeOK
  <1>1. Inv => TypeOK
    BY DEF Inv
  <1> QED  BY <1>1, DbInvariant, PTL

(* What differs between the memory of the DB actor and the disk is queued  *)
(* for one of the two flushes.                                             *)
THEOREM DifferenceQueuedAlways == Spec => []DifferenceQueued
  <1>1. Inv => DifferenceQueued
    <2> SUFFICES ASSUME Inv, NEW k \in Keys
                 PROVE  /\ db_data[k] \notin {0, sql[k]} => Flushing(k, "save", m_cache_save)
                        /\ k \notin m_idindex /\ Stored(k) => Flushing(k, "del", m_cache_del)
      BY DEF DifferenceQueued
    <2>1. RowOK(k)
      BY DEF Inv, DbInv
    <2>2. Deleting(k) <=> Flushing(k, "del", m_cache_del)
      BY DEF Deleting, Flushing
    <2> QED  BY <2>1, <2>2 DEF RowOK, Saving
  <1> QED  BY <1>1, DbInvariant, PTL
-----------------------------------------------------------------------------
(* A mark is cleared only by a step that leaves the row as it was sent. *)
LEMMA CleanStep ==
    InitChanges = {} /\ Inv /\ CleanMeansSent /\ [Next]_vars => CleanMeansSent'
  <1> SUFFICES ASSUME InitChanges = {}, Inv, CleanMeansSent, [Next]_vars,
                      NEW j \in Keys, phase' = "running", m_data'[j] # 0, j \notin m_modified'
               PROVE  m_data'[j] = Sent(j)'
    BY DEF CleanMeansSent
  <1>1. phase = "running" /\ m_data[j] # 0 /\ j \notin m_modified => m_data[j] = Sent(j)
    BY DEF CleanMeansSent
  <1>2. ASSUME UNCHANGED clientVars, \A k \in Keys : Sent(k)' = Sent(k)
        PROVE  m_data'[j] = Sent(j)'
    BY <1>1, <1>2 DEF clientVars
  <1>3. CASE Create \/ Release \/ GameCrash \/ DbCrash
    BY <1>3, CreateStep, ReleaseStep, GameCrashStep, DbCrashStep
  <1>4. CASE Tick
    <2>1. /\ Sent(j)' = IF j \in m_dellist THEN Gone
                        ELSE IF j \in m_modified /\ m_data[j] # 0 THEN m_data[j] ELSE Sent(j)
          /\ j \in m_dellist => m_data[j] = 0
          /\ m_data' = m_data
      BY <1>4, TickStep
    <2>2. phase = "running"
      BY <1>4 DEF Tick
    <2> QED  BY <1>1, <2>1, <2>2
  <1>5. ASSUME NEW k \in Keys, Change(k) PROVE m_data'[j] = Sent(j)'
    <2>1. /\ Sent(j)' = Sent(j) /\ m_modified' = m_modified \cup {k}
          /\ j # k => m_data'[j] = m_data[j]
      BY <1>5, ChangeStep
    <2>2. phase = "running"
      BY <1>5 DEF Change
    <2> QED  BY <1>1, <2>1, <2>2
  <1>6. ASSUME NEW k \in Keys, Del(k) PROVE m_data'[j] = Sent(j)'
    <2>1. /\ Sent(j)' = Sent(j) /\ m_modified' = m_modified
          /\ m_data'[j] = IF j = k THEN 0 ELSE m_data[j]
      BY <1>6, DelStep
    <2>2. phase = "running"
      BY <1>6 DEF Del
    <2> QED  BY <1>1, <2>1, <2>2
  <1>7. ASSUME NEW t \in Keys, LoadFinish(t) PROVE m_data'[j] = Sent(j)'
    <2>1. m_data'[j] \in {0, Sent(j)'}
      BY <1>7, FinishStep
    <2> QED  BY <2>1
  <1>8. ASSUME NEW t \in Keys, DbLoad(t) PROVE m_data'[j] = Sent(j)'
    <2>1. phase # "running" /\ UNCHANGED clientVars
      BY <1>8, LoadStep
    <2> QED  BY <2>1 DEF clientVars
  <1>9. ASSUME NEW t \in Keys, DbSave(t) \/ DbDelete(t) PROVE m_data'[j] = Sent(j)'
    BY <1>2, <1>9, SaveStep, DeleteStep
  <1>10. ASSUME NEW t \in Keys, SaveTimer(t) \/ DelTimer(t) \/ DbFlush(t)
         PROVE  m_data'[j] = Sent(j)'
    BY <1>2, <1>10, DiskStep
  <1>11. CASE UNCHANGED vars
    BY <1>2, <1>11, StutterStep
  <1> QED  BY <1>3, <1>4, <1>5, <1>6, <1>7, <1>8, <1>9, <1>10, <1>11 DEF Next, DbHandle

(* A row that carries no mark is as the DB actor has it or will have it,   *)
(* when initdata() changes no row before the marks are cleared.            *)
THEOREM CleanMeansSentAlways ==
    ASSUME InitChanges = {} PROVE Spec => []CleanMeansSent
  <1>1. Init => CleanMeansSent
    BY DEF Init, CleanMeansSent
  <1>2. Inv /\ CleanMeansSent /\ [Next]_vars => CleanMeansSent'
    BY CleanStep
  <1> QED  BY <1>1, <1>2, DbInvariant, PTL DEF Spec
-----------------------------------------------------------------------------
(* The row store: what the owner sees, and what is on disk *)
Seen == [k \in Keys |-> Value(k)]
Bounds ==
    /\ Seen \in [Keys -> 0..Gone] /\ sql \in [Keys -> 0..Gone]
    /\ \A k \in Keys : sql[k] <= Seen[k]

LEMMA InvBounds == Inv => Bounds
  <1> SUFFICES ASSUME Inv PROVE Bounds
    OBVIOUS
  <1>1. \A k \in Keys : Value(k) \in 0..Gone /\ sql[k] <= Value(k)
    BY ValueIs
  <1>2. sql \in [Keys -> 0..Gone]
    BY Types DEF Inv
  <1> QED  BY <1>1, <1>2 DEF Bounds, Seen

LEMMA SeenThen ==
    /\ Inv' => Bounds'
    /\ Seen' = [k \in Keys |-> Value(k)']
  <1>1. Inv' => Bounds'
    BY InvBounds, PTL
  <1> QED  BY <1>1 DEF Seen

LEMMA SeenSame ==
    ASSUME \A k \in Keys : Value(k)' = Value(k) PROVE Seen' = Seen
  BY DEF Seen

LEMMA StoreIs ==
    /\ RS!Gone = Gone /\ RS!States = [Keys -> 0..Gone]
    /\ \A f, g : RS!UpTo(f, g) <=> \A k \in Keys : f[k] <= g[k]
    /\ RS!RowInit <=> Seen \in [Keys -> 0..Gone] /\ sql = Seen
    /\ \A k : RS!Change(k) <=>
          /\ Seen[k] < MaxVersion /\ Seen' = [Seen EXCEPT ![k] = @ + 1] /\ UNCHANGED sql
    /\ \A k : RS!Delete(k) <=>
          /\ Seen[k] \in 1..MaxVersion /\ Seen' = [Seen EXCEPT ![k] = Gone] /\ UNCHANGED sql
    /\ RS!Persist <=>
          /\ sql' \in [Keys -> 0..Gone] /\ UNCHANGED Seen
          /\ \A k \in Keys : sql[k] <= sql'[k] /\ sql'[k] <= Seen[k]
    /\ RS!Crash <=>
          /\ Seen' \in [Keys -> 0..Gone] /\ UNCHANGED sql
          /\ \A k \in Keys : sql[k] <= Seen'[k] /\ Seen'[k] <= Seen[k]
  BY DEF RS!Gone, RS!States, RS!UpTo, RS!RowInit, RS!Change, RS!Delete, RS!Persist,
         RS!Crash, Gone, Seen

(* Each step of the system is a step of the row store or leaves it alone. *)
LEMMA StoreStep ==
    InitChanges = {} /\ Inv /\ Inv' /\ CleanMeansSent /\ [Next]_vars
        => RS!RowNext \/ UNCHANGED <<Seen, sql>>
  <1> SUFFICES ASSUME InitChanges = {}, Inv, Inv', CleanMeansSent, [Next]_vars
               PROVE  RS!RowNext \/ UNCHANGED <<Seen, sql>>
    OBVIOUS
  <1> DEFINE Goal == RS!RowNext \/ UNCHANGED <<Seen, sql>>
  <1>1. Bounds /\ Bounds'
    BY InvBounds, SeenThen
  <1>2. /\ Seen \in [Keys -> 0..Gone] /\ Seen' \in [Keys -> 0..Gone]
        /\ \A k \in Keys : Seen[k] = Value(k) /\ Seen'[k] = Value(k)'
    <2>1. \A k \in Keys : Seen[k] = Value(k) /\ Seen'[k] = Value(k)'
      BY SeenThen DEF Seen
    <2>2. Gone' = Gone
      BY DEF Gone
    <2> QED  BY <1>1, <2>1, <2>2 DEF Bounds
  <1>3. ASSUME sql' = sql, \A k \in Keys : Value(k)' = Value(k) PROVE Goal
    BY <1>3, SeenSame
  <1>4. ASSUME UNCHANGED <<clientVars, sql>>, \A k \in Keys : Sent(k)' = Sent(k) PROVE Goal
    BY <1>3, <1>4, ValueSame
  <1>5. CASE Create
    <2>1. /\ UNCHANGED sql /\ phase # "running" /\ phase' # "running"
          /\ \A k \in Keys : Sent(k)' = Sent(k)
      BY <1>5, CreateStep
    <2>2. \A k \in Keys : Value(k)' = Value(k)
      <3>1. Marks'
        BY DEF Inv
      <3> QED  BY <2>1, <3>1, ValueIs, ValueThen
    <2> QED  BY <1>3, <2>1, <2>2
  <1>6. CASE Tick \/ Release
    BY <1>3, <1>6, TickStep, ReleaseStep
  <1>7. CASE GameCrash \/ DbCrash
    <2>1. /\ UNCHANGED sql
          /\ \A k \in Keys : sql[k] <= Value(k)' /\ Value(k)' <= Value(k)
      BY <1>7, GameCrashStep, DbCrashStep
    <2>2. RS!Crash
      BY <1>2, <2>1, StoreIs
    <2> QED  BY <2>2 DEF RS!RowNext
  <1>8. ASSUME NEW k \in Keys, Change(k) PROVE Goal
    <2>1. /\ UNCHANGED sql /\ Value(k) < MaxVersion
          /\ \A j \in Keys : Value(j)' = IF j = k THEN Value(k) + 1 ELSE Value(j)
      BY <1>8, ChangeStep
    <2>2. Seen' = [Seen EXCEPT ![k] = @ + 1]
      BY <1>2, <2>1
    <2>3. Seen[k] < MaxVersion
      BY <1>2, <2>1
    <2>4. RS!Change(k)
      BY <2>1, <2>2, <2>3, StoreIs
    <2> QED  BY <2>4 DEF RS!RowNext
  <1>9. ASSUME NEW k \in Keys, Del(k) PROVE Goal
    <2>1. /\ UNCHANGED sql /\ Value(k) \in 1..MaxVersion
          /\ \A j \in Keys : Value(j)' = IF j = k THEN Gone ELSE Value(j)
      BY <1>9, DelStep
    <2>2. Seen' = [Seen EXCEPT ![k] = Gone]
      BY <1>2, <2>1
    <2>3. Seen[k] \in 1..MaxVersion
      BY <1>2, <2>1
    <2>4. RS!Delete(k)
      BY <2>1, <2>2, <2>3, StoreIs
    <2> QED  BY <2>4 DEF RS!RowNext
  <1>10. ASSUME NEW t \in Keys, LoadFinish(t) PROVE Goal
    BY <1>3, <1>10, FinishStep
  <1>11. ASSUME NEW t \in Keys, DbLoad(t) PROVE Goal
    <2>1. /\ UNCHANGED sql /\ phase # "running" /\ phase' # "running"
          /\ \A k \in Keys : Sent(k)' =
                IF k = t /\ Makes(t) /\ Sent(k) = 0 THEN 1 ELSE Sent(k)
      BY <1>11, LoadStep DEF clientVars
    <2>2. \A k \in Keys : Value(k) = Sent(k) /\ Value(k)' = Sent(k)'
      <3>1. Marks'
        BY DEF Inv
      <3> QED  BY <2>1, <3>1, ValueIs, ValueThen
    <2>3. CASE Makes(t) /\ Sent(t) = 0
      <3>1. Seen' = [Seen EXCEPT ![t] = @ + 1] /\ Seen[t] < MaxVersion
        BY <1>2, <2>1, <2>2, <2>3, Constants
      <3>2. RS!Change(t)
        BY <2>1, <3>1, StoreIs
      <3> QED  BY <3>2 DEF RS!RowNext
    <2>4. CASE ~(Makes(t) /\ Sent(t) = 0)
      BY <1>3, <2>1, <2>2, <2>4
    <2> QED  BY <2>3, <2>4
  <1>12. ASSUME NEW t \in Keys, DbSave(t) \/ DbDelete(t) PROVE Goal
    BY <1>4, <1>12, SaveStep, DeleteStep
  <1>13. ASSUME NEW t \in Keys, SaveTimer(t) \/ DelTimer(t) \/ DbFlush(t) PROVE Goal
    <2>1. /\ UNCHANGED clientVars
          /\ \A k \in Keys : Sent(k)' = Sent(k) /\ sql[k] <= sql'[k]
      BY <1>13, DiskStep
    <2>2. Seen' = Seen
      BY <2>1, ValueSame, SeenSame
    <2>3. /\ sql' \in [Keys -> 0..Gone]
          /\ \A k \in Keys : sql'[k] <= Seen[k]
      BY <1>1, <2>2 DEF Bounds, Gone
    <2>4. RS!Persist
      BY <2>1, <2>2, <2>3, StoreIs
    <2> QED  BY <2>4 DEF RS!RowNext
  <1>14. CASE UNCHANGED vars
    BY <1>4, <1>14, StutterStep
  <1> QED
    BY <1>5, <1>6, <1>7, <1>8, <1>9, <1>10, <1>11, <1>12, <1>13, <1>14 DEF Next, DbHandle

(* What the owner of a row sees and what is on disk behave as the row      *)
(* store: one history per row, the disk behind it, no save or load that    *)
(* turns it back, and only a crash that takes changes away.                *)
THEOREM ClientsImplementRowStore ==
    ASSUME InitChanges = {} PROVE Spec => ImplementsRowStore
  <1>1. Init => RS!RowInit
    <2> SUFFICES ASSUME Init PROVE RS!RowInit
      OBVIOUS
    <2>1. Inv /\ \A k \in Keys : Value(k) = sql[k]
      BY InitFresh, FreshIs
    <2>2. Bounds
      BY <2>1, InvBounds
    <2>3. sql = Seen
      BY <2>1, <2>2 DEF Bounds, Seen
    <2> QED  BY <2>2, <2>3, StoreIs DEF Bounds
  <1>2. Inv /\ Inv' /\ CleanMeansSent /\ [Next]_vars
            => [RS!RowNext]_<<[k \in Keys |-> Value(k)], sql>>
    BY StoreStep DEF Seen
  <1>3. Spec => []CleanMeansSent
    BY CleanMeansSentAlways
  <1> QED
    BY <1>1, <1>2, <1>3, DbInvariant, PTL DEF Spec, ImplementsRowStore, RS!RowSpec

=============================================================================
