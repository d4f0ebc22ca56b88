----------------------------- MODULE Nsp_proofs -----------------------------
(***************************************************************************)
(* What holds of NSP for any peers, any rows and scopes, any chunk size    *)
(* and any number of changes and registrations on their way.               *)
(***************************************************************************)
EXTENDS Nsp, FiniteSetTheorems, TLAPS

In(s, x) == \E n \in DOMAIN s : s[n] = x

(* What Tail and \o do to membership *)
LEMMA TailIn ==
    ASSUME NEW S, NEW s \in Seq(S), s # <<>>
    PROVE  /\ Head(s) \in S /\ Tail(s) \in Seq(S) /\ In(s, Head(s))
           /\ \A x : In(s, x) <=> x = Head(s) \/ In(Tail(s), x)
  <1>1. /\ Len(s) \in Nat /\ Len(s) > 0 /\ Head(s) = s[1]
        /\ DOMAIN s = 1..Len(s) /\ DOMAIN Tail(s) = 1..(Len(s) - 1)
        /\ \A n \in 1..(Len(s) - 1) : Tail(s)[n] = s[n + 1]
        /\ Tail(s) \in Seq(S)
    OBVIOUS
  <1>2. 1 \in 1..Len(s)
    BY <1>1
  <1>3. In(s, Head(s)) /\ Head(s) \in S
    BY <1>1, <1>2 DEF In
  <1>4. ASSUME NEW x, In(s, x), x # Head(s) PROVE In(Tail(s), x)
    <2>1. PICK n \in 1..Len(s) : s[n] = x
      BY <1>1, <1>4 DEF In
    <2>2. n - 1 \in 1..(Len(s) - 1) /\ (n - 1) + 1 = n
      BY <1>1, <1>4, <2>1
    <2>3. Tail(s)[n - 1] = x
      BY <1>1, <2>1, <2>2
    <2> QED  BY <1>1, <2>2, <2>3 DEF In
  <1>5. ASSUME NEW x, In(Tail(s), x) PROVE In(s, x)
    <2>1. PICK n \in 1..(Len(s) - 1) : Tail(s)[n] = x
      BY <1>1, <1>5 DEF In
    <2>2. n + 1 \in 1..Len(s)
      BY <1>1
    <2> QED  BY <1>1, <2>1, <2>2 DEF In
  <1> QED  BY <1>1, <1>3, <1>4, <1>5

LEMMA ConcatIn ==
    ASSUME NEW S, NEW s \in Seq(S), NEW t \in Seq(S)
    PROVE  /\ s \o t \in Seq(S)
           /\ \A x : In(s \o t, x) <=> In(s, x) \/ In(t, x)
  <1>1. /\ Len(s) \in Nat /\ Len(t) \in Nat /\ s \o t \in Seq(S)
        /\ DOMAIN s = 1..Len(s) /\ DOMAIN t = 1..Len(t)
        /\ DOMAIN (s \o t) = 1..(Len(s) + Len(t))
        /\ \A n \in 1..(Len(s) + Len(t)) :
              (s \o t)[n] = IF n <= Len(s) THEN s[n] ELSE t[n - Len(s)]
    OBVIOUS
  <1>2. ASSUME NEW x, In(s \o t, x) PROVE In(s, x) \/ In(t, x)
    <2>1. PICK n \in 1..(Len(s) + Len(t)) : (s \o t)[n] = x
      BY <1>1, <1>2 DEF In
    <2>2. CASE n <= Len(s)
      <3>1. n \in 1..Len(s) /\ s[n] = x
        BY <1>1, <2>1, <2>2
      <3> QED  BY <1>1, <3>1 DEF In
    <2>3. CASE ~(n <= Len(s))
      <3>1. n - Len(s) \in 1..Len(t) /\ t[n - Len(s)] = x
        BY <1>1, <2>1, <2>3
      <3> QED  BY <1>1, <3>1 DEF In
    <2> QED  BY <2>2, <2>3
  <1>3. ASSUME NEW x, In(s, x) PROVE In(s \o t, x)
    <2>1. PICK n \in 1..Len(s) : s[n] = x
      BY <1>1, <1>3 DEF In
    <2>2. n \in 1..(Len(s) + Len(t)) /\ n <= Len(s)
      BY <1>1
    <2> QED  BY <1>1, <2>1, <2>2 DEF In
  <1>4. ASSUME NEW x, In(t, x) PROVE In(s \o t, x)
    <2>1. PICK n \in 1..Len(t) : t[n] = x
      BY <1>1, <1>4 DEF In
    <2>2. n + Len(s) \in 1..(Len(s) + Len(t)) /\ ~(n + Len(s) <= Len(s))
          /\ (n + Len(s)) - Len(s) = n
      BY <1>1
    <2>3. (s \o t)[n + Len(s)] = x
      BY <1>1, <2>1, <2>2
    <2> QED  BY <1>1, <2>2, <2>3 DEF In
  <1> QED  BY <1>1, <1>2, <1>3, <1>4

LEMMA EmptyIn == \A x : ~In(<<>>, x)
  BY DEF In

LEMMA OneIn ==
    ASSUME NEW S, NEW a \in S
    PROVE  <<a>> \in Seq(S) /\ \A x : In(<<a>>, x) <=> x = a
  <1>1. <<a>> \in Seq(S) /\ DOMAIN <<a>> = 1..1 /\ <<a>>[1] = a /\ 1 \in 1..1
    OBVIOUS
  <1>2. \A n \in 1..1 : n = 1
    OBVIOUS
  <1> QED  BY <1>1, <1>2 DEF In
-----------------------------------------------------------------------------
(* Every set of numbers that is not empty has a lowest one. *)
LEMMA Lowest ==
    ASSUME NEW U \in SUBSET Nat, U # {}
    PROVE  \E n \in U : \A k \in U : n <= k
  <1> DEFINE V(n) == {k \in U : k < n}
             T == {V(n) : n \in U}
  <1>1. ASSUME NEW n \in U PROVE V(n) \in FiniteSubsetsOf(Nat)
    <2>1. \A k \in V(n) : k <= n
      OBVIOUS
    <2>2. V(n) \in SUBSET Nat /\ n \in Nat
      OBVIOUS
    <2>3. IsFiniteSet(V(n))
      BY <2>1, <2>2, FS_BoundedSetOfNaturals
    <2> QED  BY <2>2, <2>3 DEF FiniteSubsetsOf
  <1>2. T \subseteq FiniteSubsetsOf(Nat) /\ T # {}
    BY <1>1
  <1>3. PICK W \in T : \A X \in T : ~(<<X, W>> \in StrictSubsetOrdering(Nat))
    <2> HIDE DEF T
    <2> QED  BY <1>2, FS_StrictSubsetOrderingWellFounded, WFMin
  <1>4. PICK n \in U : W = V(n)
    OBVIOUS
  <1>5. ASSUME NEW k \in U, k < n PROVE FALSE
    <2>1. k \in Nat /\ n \in Nat
      OBVIOUS
    <2>2. V(k) \subseteq V(n)
      <3> SUFFICES ASSUME NEW j \in U, j < k PROVE j < n
        OBVIOUS
      <3>1. j \in Nat
        OBVIOUS
      <3> QED  BY <1>5, <2>1, <3>1
    <2>3. k \in V(n) /\ k \notin V(k)
      BY <1>5, <2>1
    <2>4. <<V(k), V(n)>> \in StrictSubsetOrdering(Nat)
      BY <2>2, <2>3 DEF StrictSubsetOrdering
    <2> QED  BY <2>4, <1>3, <1>4
  <1> QED  BY <1>5

(* A finite set of rows can be walked in ascending order: a smallest set   *)
(* that could not be would be a row in front of one that can.              *)
IsAscending(f, S) ==
    /\ f \in [1..Cardinality(S) -> S]
    /\ \A i, j \in 1..Cardinality(S) : i < j => f[i] < f[j]

LEMMA AscendingExists ==
    ASSUME NEW S \in SUBSET Nat, IsFiniteSet(S)
    PROVE  \E f : IsAscending(f, S)
  <1> DEFINE Bad == {T \in SUBSET S : ~\E f : IsAscending(f, T)}
             U == {Cardinality(T) : T \in Bad}
  <1>1. SUFFICES ASSUME Bad # {} PROVE FALSE
    <2>1. S \in SUBSET S
      OBVIOUS
    <2> QED  BY <2>1
  <1>2. \A T \in SUBSET S : IsFiniteSet(T) /\ Cardinality(T) \in Nat
    BY FS_Subset, FS_CardinalityType
  <1>3. PICK n \in U : \A k \in U : n <= k
    <2>1. U \subseteq Nat /\ U # {}
      BY <1>1, <1>2
    <2> HIDE DEF U
    <2> QED  BY <2>1, Lowest
  <1>4. PICK T \in SUBSET S : T \in Bad /\ Cardinality(T) = n
    OBVIOUS
  <1>5. T # {}
    <2>1. ASSUME T = {} PROVE \E f : IsAscending(f, T)
      <3>1. Cardinality(T) = 0
        BY <2>1, FS_EmptySet
      <3>2. PICK f : f = [x \in 1..0 |-> x]
        OBVIOUS
      <3>3. f \in [1..0 -> T] /\ \A i, j \in 1..0 : i < j => f[i] < f[j]
        BY <3>2
      <3> QED  BY <3>1, <3>3 DEF IsAscending
    <2> QED  BY <1>4, <2>1
  <1>6. PICK m \in T : \A k \in T : m <= k
    BY <1>5, Lowest
  <1>7. PICK R \in SUBSET S : R = T \ {m}
    OBVIOUS
  <1>8. Cardinality(R) = n - 1 /\ n \in Nat /\ n > 0
    <2>1. IsFiniteSet(T) /\ n \in Nat
      BY <1>2, <1>4
    <2>2. n # 0
      BY <1>4, <1>5, <2>1, FS_EmptySet
    <2>3. Cardinality(R) = n - 1
      BY <1>4, <1>6, <1>7, <2>1, FS_RemoveElement
    <2> QED  BY <2>1, <2>2, <2>3
  <1>9. R \notin Bad
    BY <1>3, <1>8
  <1>10. PICK g : IsAscending(g, R)
    BY <1>9
  <1>11. /\ g \in [1..(n - 1) -> R]
         /\ \A i, j \in 1..(n - 1) : i < j => g[i] < g[j]
    BY <1>8, <1>10 DEF IsAscending
  <1> HIDE DEF Bad, U
  <1>12. PICK f : f = [i \in 1..n |-> IF i = 1 THEN m ELSE g[i - 1]]
    OBVIOUS
  <1>13. \A i \in 1..n : i # 1 => i - 1 \in 1..(n - 1)
    BY <1>8
  <1>14. f \in [1..n -> T]
    BY <1>7, <1>11, <1>12, <1>13
  <1>15. ASSUME NEW i \in 1..n, NEW j \in 1..n, i < j PROVE f[i] < f[j]
    <2>1. j # 1 /\ j - 1 \in 1..(n - 1) /\ f[j] = g[j - 1]
      BY <1>8, <1>12, <1>13, <1>15
    <2>2. CASE i = 1
      <3>1. f[i] = m /\ f[j] \in T /\ f[j] # m
        BY <1>7, <1>11, <1>12, <2>1, <2>2
      <3>2. m \in Nat /\ f[j] \in Nat /\ m <= f[j]
        BY <1>6, <3>1
      <3> QED  BY <3>1, <3>2
    <2>3. CASE i # 1
      <3>1. i - 1 \in 1..(n - 1) /\ f[i] = g[i - 1] /\ i - 1 < j - 1
        BY <1>8, <1>12, <1>13, <1>15, <2>3
      <3> QED  BY <1>11, <2>1, <3>1
    <2> QED  BY <2>2, <2>3
  <1>16. IsAscending(f, T)
    BY <1>4, <1>14, <1>15 DEF IsAscending
  <1> QED  BY <1>4, <1>16 DEF Bad

LEMMA InjectionOnto ==
    ASSUME NEW A, NEW B, NEW h \in Injection(A, B), IsFiniteSet(B),
           Cardinality(A) = Cardinality(B)
    PROVE  h \in Surjection(A, B)
  <1>1. Cardinality(A) = Cardinality(B) <=> h \in Surjection(A, B)
    BY FS_Injection, Zenon
  <1> QED  BY <1>1

(* So the order of a first load lists every row of the set. *)
LEMMA AscendingLists ==
    ASSUME NEW S \in SUBSET Ids
    PROVE  /\ Ascending(S) \in Seq(Ids)
           /\ \A d : In(Ascending(S), d) <=> d \in S
  <1>1. IsFiniteSet(S) /\ S \in SUBSET Nat /\ Cardinality(S) \in Nat
    BY NspAssumption, FS_Subset, FS_CardinalityType
  <1>2. PICK f : f = Ascending(S)
    OBVIOUS
  <1>3. IsAscending(f, S)
    <2>1. \E g \in [1..Cardinality(S) -> S] :
             \A i, j \in 1..Cardinality(S) : i < j => g[i] < g[j]
      BY <1>1, AscendingExists DEF IsAscending
    <2> QED  BY <1>2, <2>1 DEF Ascending, IsAscending
  <1>4. f \in Injection(1..Cardinality(S), S)
    <2>1. ASSUME NEW i \in 1..Cardinality(S), NEW j \in 1..Cardinality(S), i # j
          PROVE  f[i] # f[j]
      <3>1. f[i] \in Nat /\ f[j] \in Nat
        BY <1>1, <1>3 DEF IsAscending
      <3>2. i < j \/ j < i
        BY <1>1, <2>1
      <3>3. f[i] < f[j] \/ f[j] < f[i]
        BY <1>3, <3>2 DEF IsAscending
      <3> QED  BY <3>1, <3>3
    <2> QED  BY <1>3, <2>1 DEF Injection, IsInjective, IsAscending
  <1>5. f \in Surjection(1..Cardinality(S), S)
    <2>1. PICK D : D = 1..Cardinality(S)
      OBVIOUS
    <2>2. Cardinality(D) = Cardinality(S)
      BY <1>1, <2>1, FS_Interval
    <2>3. f \in Injection(D, S)
      BY <1>4, <2>1
    <2>4. f \in Surjection(D, S)
      BY <1>1, <2>2, <2>3, InjectionOnto, Zenon
    <2> QED  BY <2>1, <2>4
  <1>6. f \in Seq(Ids) /\ DOMAIN f = 1..Cardinality(S)
    <2>1. PICK n \in Nat : n = Cardinality(S)
      BY <1>1
    <2>2. f \in [1..n -> Ids]
      BY <1>3, <2>1 DEF IsAscending
    <2>3. f \in Seq(Ids)
      BY <2>2
    <2> QED  BY <2>1, <2>2, <2>3
  <1>7. \A d : In(f, d) <=> d \in S
    BY <1>3, <1>5, <1>6 DEF In, Surjection, IsAscending
  <1> QED  BY <1>2, <1>6, <1>7
-----------------------------------------------------------------------------
(* The chunks of a first load *)
LEMMA Division ==
    ASSUME NEW a \in Nat, NEW b \in Nat, NEW m \in Nat \ {0}, a <= b
    PROVE  a \div m \in Nat /\ b \div m \in Nat /\ a \div m <= b \div m
  OBVIOUS

LEMMA ChunksOf ==
    ASSUME rows \in [Ids -> Nat], NEW ds \in Seq(Ids)
    PROVE  /\ Chunks(ds) \in Seq(Messages)
           /\ \A x : In(Chunks(ds), x) =>
                 /\ x \in Messages /\ x.t = "data" /\ x.first /\ x.dels = {}
                 /\ \A d \in Ids, v \in Nat : <<d, v>> \in x.rows => v = rows[d]
           /\ \E x : In(Chunks(ds), x) /\ x.fin
           /\ \A d : In(ds, d) =>
                 \E x : In(Chunks(ds), x) /\ <<d, rows[d]>> \in x.rows
  <1> DEFINE m == esend_maxcount
             full == Len(ds) \div m
             Rows(k) == {<<ds[i], rows[ds[i]]>> :
                            i \in {j \in DOMAIN ds : (j - 1) \div m = k}}
  <1>1. m \in Nat \ {0} /\ Len(ds) \in Nat /\ DOMAIN ds = 1..Len(ds)
        /\ \A i \in 1..Len(ds) : ds[i] \in Ids
    BY NspAssumption
  <1>2. PICK n \in Nat : n = full + 1 /\ n > 0
    BY <1>1, Division
  <1>3. PICK c : c = [k \in 1..n |-> Data(TRUE, k = n, Rows(k - 1), {})]
    OBVIOUS
  <1>4. Chunks(ds) = c
    BY <1>2, <1>3 DEF Chunks
  <1>5. \A k : Rows(k) \in SUBSET (Ids \X Nat)
    BY <1>1
  <1>6. ASSUME NEW k \in 1..n
        PROVE  /\ c[k] = Data(TRUE, k = n, Rows(k - 1), {})
               /\ c[k] \in Messages
    <2>1. c[k] = Data(TRUE, k = n, Rows(k - 1), {})
      BY <1>3
    <2>2. PICK R \in SUBSET (Ids \X Nat) : R = Rows(k - 1)
      BY <1>5
    <2>3. Data(TRUE, k = n, R, {}) \in Messages
      BY DEF Data, Messages
    <2> QED  BY <2>1, <2>2, <2>3
  <1>7. c \in Seq(Messages) /\ DOMAIN c = 1..n
    <2>1. c \in [1..n -> Messages]
      BY <1>3, <1>6
    <2> QED  BY <2>1
  <1>8. ASSUME NEW k \in 1..n
        PROVE  /\ c[k].t = "data" /\ c[k].first /\ c[k].dels = {}
               /\ c[k].rows = Rows(k - 1) /\ (k = n => c[k].fin)
    <2>1. PICK R : R = Rows(k - 1)
      OBVIOUS
    <2>2. PICK b \in BOOLEAN : b <=> k = n
      OBVIOUS
    <2> HIDE DEF Rows
    <2>3. c[k] = [t |-> "data", first |-> TRUE, fin |-> b, rows |-> R, dels |-> {}]
      BY <1>6, <2>1, <2>2 DEF Data
    <2> QED  BY <2>1, <2>2, <2>3
  <1>9. ASSUME NEW x, In(c, x)
        PROVE  /\ x \in Messages /\ x.t = "data" /\ x.first /\ x.dels = {}
               /\ \A d \in Ids, v \in Nat : <<d, v>> \in x.rows => v = rows[d]
    <2>1. PICK k \in 1..n : x = c[k]
      BY <1>7, <1>9 DEF In
    <2>2. ASSUME NEW d \in Ids, NEW v \in Nat, <<d, v>> \in x.rows PROVE v = rows[d]
      BY <1>8, <2>1, <2>2
    <2> QED  BY <1>6, <1>8, <2>1, <2>2
  <1>10. \E x : In(c, x) /\ x.fin
    <2>1. n \in 1..n
      BY <1>2
    <2> QED  BY <1>7, <1>8, <2>1 DEF In
  <1>11. ASSUME NEW d, In(ds, d) PROVE \E x : In(c, x) /\ <<d, rows[d]>> \in x.rows
    <2>1. PICK i \in 1..Len(ds) : ds[i] = d
      BY <1>1, <1>11 DEF In
    <2>2. PICK k \in Nat : k = (i - 1) \div m /\ k <= full
      <3>1. i - 1 \in Nat /\ i - 1 <= Len(ds)
        BY <1>1
      <3> QED  BY <1>1, <3>1, Division
    <2>3. k + 1 \in 1..n /\ (k + 1) - 1 = k
      BY <1>1, <1>2, <2>2, Division
    <2>4. <<d, rows[d]>> \in Rows(k)
      BY <1>1, <2>1, <2>2
    <2>5. c[k + 1].rows = Rows(k)
      BY <1>8, <2>3
    <2> QED  BY <1>7, <2>3, <2>4, <2>5 DEF In
  <1> QED  BY <1>4, <1>7, <1>9, <1>10, <1>11

(* What a peer asked for: the rows it reads or writes that are in the table *)
Wants(p, d) == p \in All \/ d \in readids[p] \/ (p \in Writers /\ d \in writeids[p])

LEMMA OrderLists ==
    ASSUME rows \in [Ids -> Nat], NEW p \in Peers
    PROVE  /\ RowOrder(p) \in Seq(Ids)
           /\ \A d \in Ids : In(RowOrder(p), d) <=> rows[d] # 0 /\ Wants(p, d)
  <1> DEFINE Present(S) == {d \in S : rows[d] # 0}
  <1>1. readids[p] \in SUBSET Ids /\ writeids[p] \in SUBSET Ids
    BY NspAssumption
  <1>2. Present(Ids) \in SUBSET Ids /\ Present(readids[p]) \in SUBSET Ids
        /\ Present(writeids[p]) \in SUBSET Ids
    BY <1>1
  <1>3. CASE p \in All
    <2>1. RowOrder(p) = Ascending(Present(Ids))
      BY <1>3 DEF RowOrder
    <2> HIDE DEF Present
    <2>2. /\ RowOrder(p) \in Seq(Ids)
          /\ \A d : In(RowOrder(p), d) <=> d \in Present(Ids)
      BY <1>2, <2>1, AscendingLists
    <2> QED  BY <1>3, <2>2 DEF Wants, Present
  <1>4. CASE p \notin All
    <2>1. PICK s : s = Ascending(Present(readids[p]))
      OBVIOUS
    <2>2. PICK t : t = IF p \in Writers THEN Ascending(Present(writeids[p])) ELSE <<>>
      OBVIOUS
    <2>3. RowOrder(p) = s \o t
      BY <1>4, <2>1, <2>2 DEF RowOrder
    <2> HIDE DEF Present
    <2>4. s \in Seq(Ids) /\ \A d : In(s, d) <=> d \in Present(readids[p])
      BY <1>2, <2>1, AscendingLists
    <2>5. /\ t \in Seq(Ids)
          /\ \A d : In(t, d) <=> p \in Writers /\ d \in Present(writeids[p])
      <3>1. CASE p \in Writers
        BY <1>2, <2>2, <3>1, AscendingLists
      <3>2. CASE p \notin Writers
        BY <2>2, <3>2, EmptyIn
      <3> QED  BY <3>1, <3>2
    <2>6. s \o t \in Seq(Ids) /\ \A d : In(s \o t, d) <=> In(s, d) \/ In(t, d)
      BY <2>4, <2>5, ConcatIn
    <2> QED  BY <1>4, <2>3, <2>4, <2>5, <2>6 DEF Wants, Present
  <1> QED  BY <1>3, <1>4

(* The answer to a registration: the peers known so far and the load *)
LEMMA AnswerHolds ==
    ASSUME rows \in [Ids -> Nat], care \subseteq Peers, NEW p \in Peers
    PROVE  /\ Answer(p) \in Seq(Messages)
           /\ In(Answer(p), [t |-> "reply", care |-> care])
           /\ \A x : In(Answer(p), x) =>
                 \/ x = [t |-> "reply", care |-> care]
                 \/ /\ x \in Messages /\ x.t = "data" /\ x.first /\ x.dels = {}
                    /\ \A d \in Ids, v \in Nat : <<d, v>> \in x.rows => v = rows[d]
           /\ \E x : In(Answer(p), x) /\ x.t = "data" /\ x.first /\ x.fin
           /\ \A d \in Ids : rows[d] # 0 /\ Wants(p, d) =>
                 \E x : /\ In(Answer(p), x) /\ x.t = "data" /\ x.first
                       /\ <<d, rows[d]>> \in x.rows
  <1>1. PICK r \in Messages : r = [t |-> "reply", care |-> care]
    BY DEF Messages
  <1>2. PICK ds \in Seq(Ids) : ds = RowOrder(p)
    BY OrderLists
  <1>3. PICK c \in Seq(Messages) : c = Chunks(ds)
    BY ChunksOf
  <1>4. Answer(p) = <<r>> \o c
    BY <1>1, <1>2, <1>3 DEF Answer
  <1>5. <<r>> \in Seq(Messages) /\ \A x : In(<<r>>, x) <=> x = r
    BY OneIn
  <1>6. /\ <<r>> \o c \in Seq(Messages)
        /\ \A x : In(<<r>> \o c, x) <=> x = r \/ In(c, x)
    BY <1>5, ConcatIn
  <1>7. /\ \A x : In(c, x) =>
                 /\ x \in Messages /\ x.t = "data" /\ x.first /\ x.dels = {}
                 /\ \A d \in Ids, v \in Nat : <<d, v>> \in x.rows => v = rows[d]
        /\ \E x : In(c, x) /\ x.fin
        /\ \A d : In(ds, d) =>
                 \E x : In(c, x) /\ <<d, rows[d]>> \in x.rows
    BY <1>3, ChunksOf
  <1>8. \A d \in Ids : In(ds, d) <=> rows[d] # 0 /\ Wants(p, d)
    BY <1>2, OrderLists
  <1>9. \E x : In(<<r>> \o c, x) /\ x.t = "data" /\ x.first /\ x.fin
    BY <1>6, <1>7
  <1>10. \A d \in Ids : rows[d] # 0 /\ Wants(p, d) =>
            \E x : /\ In(<<r>> \o c, x) /\ x.t = "data" /\ x.first
                  /\ <<d, rows[d]>> \in x.rows
    BY <1>6, <1>7, <1>8
  <1> QED  BY <1>1, <1>4, <1>6, <1>7, <1>9, <1>10
-----------------------------------------------------------------------------
(* The channels, by what is under way in them *)
Way(m, n, x) == In(chan[m][n], x)
Chans == [Nodes -> [Nodes -> Seq(Messages)]]

LEMMA PutAllIn ==
    ASSUME NEW c \in Chans, NEW from \in Nodes, NEW S, NEW ms \in Seq(Messages),
           NEW e, e = PutAll(c, from, S, ms)
    PROVE  /\ e \in Chans
           /\ \A m, n \in Nodes :
                 e[m][n] = IF m = from /\ n \in S /\ Alive(n) THEN c[m][n] \o ms ELSE c[m][n]
           /\ \A m, n \in Nodes : \A x :
                 In(e[m][n], x) <=>
                     In(c[m][n], x) \/ (m = from /\ n \in S /\ Alive(n) /\ In(ms, x))
  <1>2. \A m, n \in Nodes : c[m][n] \in Seq(Messages)
    BY DEF Chans
  <1>3. \A m, n \in Nodes :
           e[m][n] = IF m = from /\ n \in S /\ Alive(n) THEN c[m][n] \o ms ELSE c[m][n]
    BY DEF PutAll, Chans
  <1>4. \A m, n \in Nodes :
           /\ c[m][n] \o ms \in Seq(Messages)
           /\ \A x : In(c[m][n] \o ms, x) <=> In(c[m][n], x) \/ In(ms, x)
    <2> SUFFICES ASSUME NEW m \in Nodes, NEW n \in Nodes
                 PROVE  /\ c[m][n] \o ms \in Seq(Messages)
                        /\ \A x : In(c[m][n] \o ms, x) <=> In(c[m][n], x) \/ In(ms, x)
      OBVIOUS
    <2>1. PICK s \in Seq(Messages) : s = c[m][n]
      BY <1>2
    <2>2. s \o ms \in Seq(Messages) /\ \A x : In(s \o ms, x) <=> In(s, x) \/ In(ms, x)
      BY ConcatIn
    <2> QED  BY <2>1, <2>2
  <1>5. e \in Chans
    <2>1. ASSUME NEW m \in Nodes, NEW n \in Nodes PROVE e[m][n] \in Seq(Messages)
      <3>1. c[m][n] \o ms \in Seq(Messages) /\ c[m][n] \in Seq(Messages)
        BY <1>2, <1>4
      <3> QED  BY <1>3, <3>1
    <2>2. DOMAIN e = Nodes /\ e = [m \in Nodes |-> e[m]]
      BY DEF PutAll, Chans
    <2>3. \A m \in Nodes : e[m] = [n \in Nodes |-> e[m][n]]
      BY DEF PutAll, Chans
    <2>4. \A m \in Nodes : e[m] \in [Nodes -> Seq(Messages)]
      BY <2>1, <2>3
    <2> QED  BY <2>2, <2>4 DEF Chans
  <1>6. \A m, n \in Nodes : \A x :
           In(e[m][n], x) <=>
               In(c[m][n], x) \/ (m = from /\ n \in S /\ Alive(n) /\ In(ms, x))
    BY <1>3, <1>4
  <1> QED  BY <1>3, <1>5, <1>6

(* One message *)
Put(c, from, S, a) == PutAll(c, from, S, <<a>>)
Puts(c, e, from, S, a) ==
    /\ e \in Chans
    /\ \A m, n \in Nodes :
          e[m][n] = IF m = from /\ n \in S /\ Alive(n) THEN Append(c[m][n], a) ELSE c[m][n]
    /\ \A m, n \in Nodes : \A x :
          In(e[m][n], x) <=> In(c[m][n], x) \/ (m = from /\ n \in S /\ Alive(n) /\ x = a)

LEMMA PutOneIn ==
    ASSUME NEW c \in Chans, NEW from \in Nodes, NEW S, NEW a \in Messages
    PROVE  Puts(c, Put(c, from, S, a), from, S, a)
  <1>1. <<a>> \in Seq(Messages) /\ \A x : In(<<a>>, x) <=> x = a
    BY OneIn
  <1>2. PICK ms \in Seq(Messages) : ms = <<a>> /\ \A x : In(ms, x) <=> x = a
    BY <1>1
  <1>3. \A m, n \in Nodes : c[m][n] \o ms = Append(c[m][n], a)
    <2>1. \A m, n \in Nodes : c[m][n] \in Seq(Messages)
      BY DEF Chans
    <2>2. \A s \in Seq(Messages) : s \o <<a>> = Append(s, a)
      OBVIOUS
    <2> QED  BY <1>2, <2>1, <2>2
  <1>4. PICK e : e = PutAll(c, from, S, ms)
    OBVIOUS
  <1>5. /\ e \in Chans
        /\ \A m, n \in Nodes :
              e[m][n] = IF m = from /\ n \in S /\ Alive(n) THEN c[m][n] \o ms ELSE c[m][n]
        /\ \A m, n \in Nodes : \A x :
              In(e[m][n], x) <=>
                  In(c[m][n], x) \/ (m = from /\ n \in S /\ Alive(n) /\ In(ms, x))
    BY <1>4, PutAllIn
  <1>6. Puts(c, e, from, S, a)
    BY <1>2, <1>3, <1>5 DEF Puts
  <1>7. e = Put(c, from, S, a)
    BY <1>2, <1>4 DEF Put
  <1> QED  BY <1>6, <1>7

LEMMA TakeIn ==
    ASSUME chan \in Chans, NEW from \in Nodes, NEW to \in Nodes, chan[from][to] # <<>>,
           NEW e, e = Take(from, to)
    PROVE  /\ Head(chan[from][to]) \in Messages
           /\ Way(from, to, Head(chan[from][to]))
           /\ e \in Chans
           /\ \A m, n \in Nodes :
                 e[m][n] = IF m = from /\ n = to THEN Tail(chan[m][n]) ELSE chan[m][n]
           /\ \A m, n \in Nodes : \A x :
                 /\ In(e[m][n], x) => Way(m, n, x)
                 /\ Way(m, n, x) => \/ In(e[m][n], x)
                                    \/ m = from /\ n = to /\ x = Head(chan[from][to])
  <1>2. PICK s \in Seq(Messages) : s = chan[from][to]
    BY DEF Chans
  <1>3. /\ Head(s) \in Messages /\ Tail(s) \in Seq(Messages) /\ In(s, Head(s))
        /\ \A x : In(s, x) <=> x = Head(s) \/ In(Tail(s), x)
    BY <1>2, TailIn
  <1>4. \A m, n \in Nodes :
           e[m][n] = IF m = from /\ n = to THEN Tail(chan[m][n]) ELSE chan[m][n]
    BY DEF Take, Chans
  <1>5. e \in Chans
    <2>1. [chan[from] EXCEPT ![to] = Tail(s)] \in [Nodes -> Seq(Messages)]
      BY <1>3 DEF Chans
    <2>2. e = [chan EXCEPT ![from] = [chan[from] EXCEPT ![to] = Tail(s)]]
      BY <1>2 DEF Take, Chans
    <2> QED  BY <2>1, <2>2 DEF Chans
  <1>6. \A m, n \in Nodes : \A x :
           /\ In(e[m][n], x) => In(chan[m][n], x)
           /\ In(chan[m][n], x) => \/ In(e[m][n], x)
                                   \/ m = from /\ n = to /\ x = Head(s)
    BY <1>2, <1>3, <1>4
  <1> QED  BY <1>2, <1>3, <1>4, <1>5, <1>6 DEF Way
-----------------------------------------------------------------------------
(* What each action does to the channels, in terms of what is under way    *)
Reg == [t |-> "register"]
Bye == [t |-> "exit"]
Sync(p, s) == [t |-> "sync", peer |-> p, scope |-> s]
Reply(S) == [t |-> "reply", care |-> S]

LEMMA MessageFields ==
    ASSUME NEW x \in Messages
    PROVE  /\ x.t = "reply" => x.care \in SUBSET Peers /\ x = Reply(x.care)
           /\ x.t = "sync" => /\ x.peer \in Peers /\ x.scope \in Scopes
                              /\ x = Sync(x.peer, x.scope)
           /\ x.t = "data" => /\ x.rows \in SUBSET (Ids \X Nat) /\ x.dels \in SUBSET Ids
                              /\ x.first \in BOOLEAN /\ x.fin \in BOOLEAN
           /\ x.t \in {"register", "reply", "sync", "data", "exit"}
  BY DEF Messages, Reply, Sync

LEMMA MessageKinds ==
    /\ Reg \in Messages /\ Reg.t = "register" /\ Bye \in Messages /\ Bye.t = "exit"
    /\ \A p \in Peers, s \in Scopes :
          /\ Sync(p, s) \in Messages /\ Sync(p, s).t = "sync"
          /\ Sync(p, s).peer = p /\ Sync(p, s).scope = s
    /\ \A S \in SUBSET Peers :
          Reply(S) \in Messages /\ Reply(S).t = "reply" /\ Reply(S).care = S
    /\ \A f, g \in BOOLEAN, R \in SUBSET (Ids \X Nat), D \in SUBSET Ids :
          /\ Data(f, g, R, D) \in Messages /\ Data(f, g, R, D).t = "data"
          /\ Data(f, g, R, D).first = f /\ Data(f, g, R, D).fin = g
          /\ Data(f, g, R, D).rows = R /\ Data(f, g, R, D).dels = D
  BY DEF Messages, Reply, Sync, Data, Reg, Bye

LEMMA FullScope == \A p \in Peers : Full(p) \in Scopes /\ Full(p) # "none"
  BY DEF Full, Scopes

LEMMA NodesAre == Server \in Nodes /\ Peers \subseteq Nodes /\ \A p \in Peers : p # Server
  BY NspAssumption DEF Nodes

LEMMA TypeChans == TypeOK => chan \in Chans
  BY DEF TypeOK, Chans

LEMMA CheckDoes ==
    ASSUME TypeOK, NEW p \in Peers, Check(p)
    PROVE  /\ chan' \in Chans
           /\ \A m, n \in Nodes : \A x :
                 Way(m, n, x)' <=> Way(m, n, x) \/ (m = p /\ n = Server /\ x = Reg)
           /\ \A m, n \in Nodes : \/ chan'[m][n] = chan[m][n]
                                  \/ m = p /\ chan'[m][n] = Append(chan[m][n], Reg)
  <1>1. chan \in Chans /\ Reg \in Messages /\ p \in Nodes
    BY TypeChans, MessageKinds, NodesAre
  <1>2. PICK S : S = {Server}
    OBVIOUS
  <1>3. PICK a \in Messages : a = Reg
    BY <1>1
  <1>4. PICK e : e = chan'
    OBVIOUS
  <1>5. e = Put(chan, p, S, a)
    BY <1>2, <1>3, <1>4 DEF Check, Reg, Put
  <1>6. Puts(chan, e, p, S, a)
    BY <1>1, <1>5, PutOneIn
  <1>7. Alive(Server)
    BY DEF Alive
  <1>8. \A m, n \in Nodes : \A x :
           Way(m, n, x)' <=> Way(m, n, x) \/ (m = p /\ n \in S /\ Alive(n) /\ x = a)
    BY <1>4, <1>6 DEF Way, Puts
  <1>9. /\ chan' \in Chans
        /\ \A m, n \in Nodes : \/ chan'[m][n] = chan[m][n]
                               \/ m = p /\ chan'[m][n] = Append(chan[m][n], Reg)
    BY <1>3, <1>4, <1>6 DEF Puts
  <1>10. \A m, n \in Nodes : \A x :
            Way(m, n, x)' <=> Way(m, n, x) \/ (m = p /\ n = Server /\ x = Reg)
    BY <1>2, <1>3, <1>7, <1>8
  <1> QED  BY <1>9, <1>10

(* A send to a set reaches some of it, and skips the rest. *)
LEMMA ReachedIs ==
    ASSUME NEW from, NEW S
    PROVE  Reached(from, S) \subseteq S /\ Skipped(from, S) = S \ Reached(from, S)
  BY DEF Reached, Skipped

(* Whom a change reaches *)
Audience(p, d) == Reached(p, Wide(p)) \cup Reached(p, Narrow(p, d))

LEMMA AudienceIs ==
    ASSUME TypeOK, NEW p \in Peers, NEW d
    PROVE  /\ Audience(p, d) \subseteq Nodes
           /\ \A q \in Peers : q \in Audience(p, d) => known[p][q] # "none"
           /\ p \notin Audience(p, d)
           /\ Server \in Audience(p, d) \/ Server \in Skipped(p, Wide(p))
  <1>1. /\ Wide(p) \subseteq Nodes /\ Narrow(p, d) \subseteq Peers /\ Server \in Wide(p)
        /\ \A q \in Peers : q \in Wide(p) => known[p][q] = "all"
        /\ \A q \in Peers : q \in Narrow(p, d) => known[p][q] = "part"
    BY NodesAre DEF Wide, Narrow
  <1>2. PICK W, N : W = Reached(p, Wide(p)) /\ N = Reached(p, Narrow(p, d))
    OBVIOUS
  <1>3. W \subseteq Wide(p) /\ N \subseteq Narrow(p, d) /\ Skipped(p, Wide(p)) = Wide(p) \ W
    BY <1>2, ReachedIs
  <1>4. Audience(p, d) = W \cup N
    BY <1>2 DEF Audience
  <1>5. \A q \in Peers : q \in Audience(p, d) => known[p][q] # "none"
    BY <1>1, <1>3, <1>4
  <1>6. known[p][p] = "none"
    BY DEF TypeOK
  <1> QED  BY <1>1, <1>3, <1>4, <1>5, <1>6, NodesAre

(* What a handler sends *)
Changed(p, d, x) ==
    /\ x \in Messages /\ x.t = "data" /\ ~x.first
    /\ \/ x.rows = {} /\ x.dels = {d}
       \/ x.rows = {<<d, version + 1>>} /\ x.dels = {}

(* Who is owed a change from now on *)
Owes(p, d) == Owed(p, d) \ (Skipped(p, Wide(p)) \cup Skipped(p, Narrow(p, d)))

LEMMA HandlerDoes ==
    ASSUME TypeOK, NEW p \in Peers, NEW d \in Ids, Handler(p, d)
    PROVE  /\ chan' \in Chans
           /\ \E a \in Messages :
                 /\ Changed(p, d, a)
                 /\ \A m, n \in Nodes : \A x :
                       Way(m, n, x)' <=>
                           Way(m, n, x) \/ (m = p /\ n \in Audience(p, d) /\ Alive(n) /\ x = a)
                 /\ \A m, n \in Nodes : \/ chan'[m][n] = chan[m][n]
                                        \/ m = p /\ chan'[m][n] = Append(chan[m][n], a)
           /\ \E v \in Nat : /\ m_data' = [m_data EXCEPT ![p][d] = v]
                             /\ v = 0 \/ v = version + 1
           /\ life[p] = "up"
           /\ version \in 1..MaxWrite /\ version' = version + 1
           /\ promised' = [promised EXCEPT ![d] = Owes(p, d)]
           /\ missed' = missed \cup {e \in {d} : Server \in Skipped(p, Wide(p))}
           /\ UNCHANGED <<rows, care, addressed, life, m_register, m_loadfinish, known,
                          layout, untold>>
  <1>1. chan \in Chans /\ p \in Nodes /\ version \in 1..(MaxWrite + 1) /\ MaxWrite \in Nat
    BY TypeChans, NodesAre, NspAssumption DEF TypeOK
  <1>2. PICK erase \in BOOLEAN :
           /\ life[p] = "up" /\ version <= MaxWrite
           /\ version' = version + 1
           /\ promised' = [promised EXCEPT ![d] = Owes(p, d)]
           /\ missed' = missed \cup {e \in {d} : Server \in Skipped(p, Wide(p))}
           /\ m_data' = [m_data EXCEPT ![p][d] = IF erase THEN 0 ELSE version + 1]
           /\ chan' = PutAll(chan, p, Audience(p, d),
                             <<IF erase THEN Data(FALSE, TRUE, {}, {d})
                               ELSE Data(FALSE, TRUE, {<<d, version + 1>>}, {})>>)
           /\ UNCHANGED <<rows, care, addressed, life, m_register, m_loadfinish, known,
                          layout, untold>>
    BY DEF Handler, Audience, Owes
  <1>3. PICK v \in Nat : v = IF erase THEN 0 ELSE version + 1
    BY <1>1
  <1>4. PICK R \in SUBSET (Ids \X Nat) : R = IF erase THEN {} ELSE {<<d, version + 1>>}
    <2>1. version + 1 \in Nat
      BY <1>1
    <2>2. PICK w \in Nat : w = version + 1
      BY <2>1
    <2>3. {<<d, w>>} \in SUBSET (Ids \X Nat) /\ {} \in SUBSET (Ids \X Nat)
      OBVIOUS
    <2> QED  BY <2>2, <2>3
  <1>5. PICK D \in SUBSET Ids : D = IF erase THEN {d} ELSE {}
    OBVIOUS
  <1>6. PICK a \in Messages :
           /\ a = Data(FALSE, TRUE, R, D)
           /\ a.t = "data" /\ a.first = FALSE /\ a.rows = R /\ a.dels = D
    <2>1. FALSE \in BOOLEAN /\ TRUE \in BOOLEAN
      OBVIOUS
    <2>2. PICK f \in BOOLEAN, g \in BOOLEAN : f = FALSE /\ g = TRUE
      BY <2>1
    <2>3. PICK a : a = Data(f, g, R, D)
      OBVIOUS
    <2>4. a \in Messages /\ a.t = "data" /\ a.first = f /\ a.rows = R /\ a.dels = D
      BY <2>3, MessageKinds
    <2> QED  BY <2>2, <2>3, <2>4
  <1>7. chan' = PutAll(chan, p, Audience(p, d), <<a>>)
    <2>1. CASE erase
      BY <1>2, <1>4, <1>5, <1>6, <2>1
    <2>2. CASE ~erase
      BY <1>2, <1>4, <1>5, <1>6, <2>2
    <2> QED  BY <2>1, <2>2
  <1>8. PICK S : S = Audience(p, d)
    OBVIOUS
  <1>9. /\ chan' \in Chans
        /\ \A m, n \in Nodes : \A x :
              Way(m, n, x)' <=> Way(m, n, x) \/ (m = p /\ n \in S /\ Alive(n) /\ x = a)
        /\ \A m, n \in Nodes : \/ chan'[m][n] = chan[m][n]
                               \/ m = p /\ chan'[m][n] = Append(chan[m][n], a)
    <2>1. PICK e : e = chan'
      OBVIOUS
    <2>2. e = Put(chan, p, S, a)
      BY <1>7, <1>8, <2>1 DEF Put
    <2>3. Puts(chan, e, p, S, a)
      BY <1>1, <2>2, PutOneIn
    <2> QED  BY <2>1, <2>3 DEF Way, Puts
  <1>10. Changed(p, d, a)
    BY <1>4, <1>5, <1>6 DEF Changed
  <1>11. m_data' = [m_data EXCEPT ![p][d] = v]
    BY <1>2, <1>3
  <1>12. \E b \in Messages :
            /\ Changed(p, d, b)
            /\ \A m, n \in Nodes : \A x :
                  Way(m, n, x)' <=>
                      Way(m, n, x) \/ (m = p /\ n \in Audience(p, d) /\ Alive(n) /\ x = b)
            /\ \A m, n \in Nodes : \/ chan'[m][n] = chan[m][n]
                                   \/ m = p /\ chan'[m][n] = Append(chan[m][n], b)
    BY <1>8, <1>9, <1>10
  <1>13. \E w \in Nat : /\ m_data' = [m_data EXCEPT ![p][d] = w]
                        /\ w = 0 \/ w = version + 1
    BY <1>3, <1>11
  <1>14. version \in 1..MaxWrite
    BY <1>1, <1>2
  <1> QED  BY <1>2, <1>9, <1>12, <1>13, <1>14

LEMMA ExitDoes ==
    ASSUME TypeOK, NEW p \in Peers, Exit(p)
    PROVE  /\ chan' \in Chans
           /\ \A m, n \in Nodes : \A x :
                 Way(m, n, x)' => 
                     \/ Way(m, n, x) /\ n # p
                     \/ /\ m = p /\ n # p /\ Alive(n) /\ (n = Server \/ known[p][n] # "none")
                        /\ x = Bye \/ (n # Server /\ x = Sync(p, "part"))
           /\ \A m, n \in Nodes : \A x : Way(m, n, x) => Way(m, n, x)' \/ n = p
           /\ \A m \in Nodes : chan'[m][p] = <<>>
           /\ \A m, n \in Nodes : m # p /\ n # p => chan'[m][n] = chan[m][n]
           /\ \/ chan'[p][Server] = chan[p][Server]
              \/ chan'[p][Server] = Append(chan[p][Server], Bye)
  <1> DEFINE heard == {q \in Peers : known[p][q] # "none"}
             announced == IF p \notin Writers THEN {}
                          ELSE {q \in heard : known[p][q] = "part" \/ q \in Writers}
  <1>1. chan \in Chans /\ p \in Nodes /\ Bye \in Messages /\ Sync(p, "part") \in Messages
        /\ Server \in Nodes /\ Server # p /\ Server \notin Peers
    BY TypeChans, NodesAre, MessageKinds DEF Scopes
  <1>2. PICK H : H = Reached(p, heard \cup {Server})
    OBVIOUS
  <1>3. PICK A : A = announced \cap Reached(p, announced \cup {Server})
    OBVIOUS
  <1>0. PICK a \in Messages, b \in Messages : a = Sync(p, "part") /\ b = Bye
    BY <1>1
  <1>4. PICK c1 : c1 = Put(chan, p, A, a)
    OBVIOUS
  <1>5. PICK c2 : c2 = Put(c1, p, H, b)
    OBVIOUS
  <1>6. Puts(chan, c1, p, A, a)
    BY <1>1, <1>4, PutOneIn
  <1>7. Puts(c1, c2, p, H, b)
    <2>1. c1 \in Chans
      BY <1>6 DEF Puts
    <2> QED  BY <1>1, <1>5, <2>1, PutOneIn
  <1>8. chan' = [m \in Nodes |-> [c2[m] EXCEPT ![p] = <<>>]]
    BY <1>0, <1>2, <1>3, <1>4, <1>5 DEF Exit, Sync, Bye, Put
  <1>9. \A m, n \in Nodes : chan'[m][n] = IF n = p THEN <<>> ELSE c2[m][n]
    BY <1>1, <1>7, <1>8 DEF Chans, Puts
  <1>10. chan' \in Chans
    <2>1. \A m \in Nodes : [c2[m] EXCEPT ![p] = <<>>] \in [Nodes -> Seq(Messages)]
      <3>1. <<>> \in Seq(Messages)
        OBVIOUS
      <3> QED  BY <1>7, <3>1 DEF Chans, Puts
    <2> QED  BY <1>8, <2>1 DEF Chans
  <1>11. \A x : ~In(<<>>, x)
    BY EmptyIn
  <1>12. \A m, n \in Nodes : \A x : Way(m, n, x)' <=> n # p /\ In(c2[m][n], x)
    BY <1>9, <1>11 DEF Way
  <1>13. \A n : n \in A => n \in Peers /\ known[p][n] # "none"
    BY <1>3
  <1>14. \A n : n \in H => n = Server \/ (n \in Peers /\ known[p][n] # "none")
    BY <1>2, ReachedIs
  <1>15. Alive(Server)
    BY DEF Alive
  <1> HIDE DEF heard, announced
  <1>16. \A m, n \in Nodes : \A x :
                 Way(m, n, x)' => 
                     \/ Way(m, n, x) /\ n # p
                     \/ /\ m = p /\ n # p /\ Alive(n) /\ (n = Server \/ known[p][n] # "none")
                        /\ x = Bye \/ (n # Server /\ x = Sync(p, "part"))
    <2> SUFFICES ASSUME NEW m \in Nodes, NEW n \in Nodes, NEW x, Way(m, n, x)', ~Way(m, n, x)
                 PROVE  /\ m = p /\ n # p /\ Alive(n)
                        /\ n = Server \/ known[p][n] # "none"
                        /\ x = Bye \/ (n # Server /\ x = Sync(p, "part"))
      BY <1>12
    <2>1. n # p /\ In(c2[m][n], x)
      BY <1>12
    <2>2. In(c1[m][n], x) \/ (m = p /\ n \in H /\ Alive(n) /\ x = b)
      BY <1>7, <2>1 DEF Puts
    <2>3. In(c1[m][n], x) => m = p /\ n \in A /\ Alive(n) /\ x = a
      BY <1>6 DEF Puts, Way
    <2> QED  BY <1>0, <1>1, <1>13, <1>14, <2>1, <2>2, <2>3
  <1>17. \A m, n \in Nodes : \A x : Way(m, n, x) => Way(m, n, x)' \/ n = p
    BY <1>6, <1>7, <1>12 DEF Way, Puts
  <1>18. \A m, n \in Nodes : m # p /\ n # p => chan'[m][n] = chan[m][n]
    BY <1>6, <1>7, <1>9 DEF Puts
  <1>19. \/ chan'[p][Server] = chan[p][Server]
         \/ chan'[p][Server] = Append(chan[p][Server], Bye)
    BY <1>0, <1>1, <1>6, <1>7, <1>9, <1>13, <1>15 DEF Puts
  <1> QED  BY <1>1, <1>9, <1>10, <1>16, <1>17, <1>18, <1>19

(* One delivery takes the first message of one channel.                    *)
Delivers(from, to) ==
    /\ from \in Nodes /\ to \in Nodes /\ chan[from][to] # <<>>
    /\ chan' = Take(from, to)

LEMMA DeliverDoes ==
    ASSUME TypeOK, NEW from, NEW to, Delivers(from, to)
    PROVE  /\ chan' \in Chans
           /\ Head(chan[from][to]) \in Messages /\ Way(from, to, Head(chan[from][to]))
           /\ \A m, n \in Nodes : \A x : Way(m, n, x)' => Way(m, n, x)
           /\ \A m, n \in Nodes : \A x :
                 Way(m, n, x) => \/ Way(m, n, x)'
                                 \/ m = from /\ n = to /\ x = Head(chan[from][to])
           /\ \A m, n \in Nodes : chan'[m][n] = IF m = from /\ n = to THEN Tail(chan[m][n])
                                                ELSE chan[m][n]
  <1>1. chan \in Chans
    BY TypeChans
  <1>2. PICK e : e = chan'
    OBVIOUS
  <1>3. e = Take(from, to)
    BY <1>2 DEF Delivers
  <1>4. /\ Head(chan[from][to]) \in Messages
        /\ Way(from, to, Head(chan[from][to]))
        /\ e \in Chans
        /\ \A m, n \in Nodes :
              e[m][n] = IF m = from /\ n = to THEN Tail(chan[m][n]) ELSE chan[m][n]
        /\ \A m, n \in Nodes : \A x :
              /\ In(e[m][n], x) => Way(m, n, x)
              /\ Way(m, n, x) => \/ In(e[m][n], x)
                                 \/ m = from /\ n = to /\ x = Head(chan[from][to])
    BY <1>1, <1>3, TakeIn DEF Delivers
  <1> QED  BY <1>2, <1>4 DEF Way

LEMMA RegisterDoes ==
    ASSUME TypeOK, NEW p \in Peers, ServerRegister(p), p \notin care
    PROVE  /\ chan' \in Chans
           /\ Head(chan[p][Server]).t = "register" /\ chan[p][Server] # <<>>
           /\ \A m, n \in Nodes : \A x :
                 Way(m, n, x)' =>
                     \/ Way(m, n, x)
                     \/ m = Server /\ n = p /\ p \in addressed /\ Alive(p) /\ In(Answer(p), x)
                     \/ m = Server /\ n \in care \cap addressed /\ Alive(n) /\ x = Sync(p, Full(p))
           /\ \A m, n \in Nodes : \A x :
                 Way(m, n, x) => \/ Way(m, n, x)'
                                 \/ m = p /\ n = Server /\ x.t = "register"
           /\ p \in addressed /\ Alive(p) => \A x : In(Answer(p), x) => Way(Server, p, x)'
           /\ \A n \in addressed \cap Reached(Server, care) :
                 Alive(n) => Way(Server, n, Sync(p, Full(p)))'
           /\ \A m, n \in Nodes : m # Server =>
                 chan'[m][n] = IF m = p /\ n = Server THEN Tail(chan[m][n]) ELSE chan[m][n]
  <1>19. chan \in Chans /\ rows \in [Ids -> Nat] /\ care \subseteq Peers
    BY TypeChans DEF TypeOK
  <1>20. Sync(p, Full(p)) \in Messages
    BY MessageKinds, FullScope
  <1>1. /\ chan \in Chans /\ p \in Nodes /\ Sync(p, Full(p)) \in Messages /\ Server \in Nodes
        /\ rows \in [Ids -> Nat] /\ care \subseteq Peers /\ Server # p /\ Peers \subseteq Nodes
    BY <1>19, <1>20, NodesAre
  <1>2. chan[p][Server] # <<>> /\ Head(chan[p][Server]).t = "register"
    BY DEF ServerRegister, Get
  <1>3. PICK ms \in Seq(Messages) : ms = Answer(p)
    BY <1>1, AnswerHolds
  <1>4. PICK c0 : c0 = Take(p, Server)
    OBVIOUS
  <1>5. PICK A : A = {p} \cap addressed
    OBVIOUS
  <1>6. PICK B : B = addressed \cap Reached(Server, care)
    OBVIOUS
  <1>18. B \subseteq care \cap addressed
    BY <1>6, ReachedIs
  <1>7. PICK c1 : c1 = PutAll(c0, Server, A, ms)
    OBVIOUS
  <1>0. PICK a \in Messages : a = Sync(p, Full(p))
    BY <1>1
  <1>8. PICK e : e = chan' /\ e = Put(c1, Server, B, a)
    BY <1>0, <1>3, <1>4, <1>5, <1>6, <1>7 DEF ServerRegister, Sync, Put
  <1>9. /\ c0 \in Chans
        /\ \A m, n \in Nodes :
              c0[m][n] = IF m = p /\ n = Server THEN Tail(chan[m][n]) ELSE chan[m][n]
        /\ \A m, n \in Nodes : \A x :
              /\ In(c0[m][n], x) => Way(m, n, x)
              /\ Way(m, n, x) => \/ In(c0[m][n], x)
                                 \/ m = p /\ n = Server /\ x = Head(chan[p][Server])
    BY <1>1, <1>2, <1>4, TakeIn
  <1>10. /\ c1 \in Chans
         /\ \A m, n \in Nodes :
               c1[m][n] = IF m = Server /\ n \in A /\ Alive(n) THEN c0[m][n] \o ms ELSE c0[m][n]
         /\ \A m, n \in Nodes : \A x :
               In(c1[m][n], x) <=>
                   In(c0[m][n], x) \/ (m = Server /\ n \in A /\ Alive(n) /\ In(ms, x))
    BY <1>1, <1>7, <1>9, PutAllIn
  <1>17. Puts(c1, e, Server, B, a)
    BY <1>1, <1>8, <1>10, PutOneIn
  <1>11. /\ chan' \in Chans
         /\ \A m, n \in Nodes :
               chan'[m][n] = IF m = Server /\ n \in B /\ Alive(n)
                             THEN Append(c1[m][n], Sync(p, Full(p))) ELSE c1[m][n]
         /\ \A m, n \in Nodes : \A x :
               Way(m, n, x)' <=>
                   In(c1[m][n], x) \/ (m = Server /\ n \in B /\ Alive(n) /\ x = Sync(p, Full(p)))
    BY <1>0, <1>8, <1>17 DEF Way, Puts
  <1>12. \A m, n \in Nodes : \A x :
                 Way(m, n, x)' =>
                     \/ Way(m, n, x)
                     \/ m = Server /\ n = p /\ p \in addressed /\ Alive(p) /\ In(Answer(p), x)
                     \/ m = Server /\ n \in care \cap addressed /\ Alive(n) /\ x = Sync(p, Full(p))
    BY <1>3, <1>5, <1>9, <1>10, <1>11, <1>18
  <1>13. \A m, n \in Nodes : \A x :
                 Way(m, n, x) => \/ Way(m, n, x)'
                                 \/ m = p /\ n = Server /\ x.t = "register"
    BY <1>2, <1>9, <1>10, <1>11
  <1>14. p \in addressed /\ Alive(p) => \A x : In(Answer(p), x) => Way(Server, p, x)'
    BY <1>1, <1>3, <1>5, <1>10, <1>11
  <1>15. \A n \in addressed \cap Reached(Server, care) :
                 Alive(n) => Way(Server, n, Sync(p, Full(p)))'
    BY <1>1, <1>6, <1>11, <1>18
  <1>16. \A m, n \in Nodes : m # Server =>
                 chan'[m][n] = IF m = p /\ n = Server THEN Tail(chan[m][n]) ELSE chan[m][n]
    BY <1>9, <1>10, <1>11
  <1> QED  BY <1>2, <1>11, <1>12, <1>13, <1>14, <1>15, <1>16
-----------------------------------------------------------------------------
(* Who knows whom.  A registered peer that was answered knows every other  *)
(* registered peer, or is about to: from the answer itself if the other    *)
(* one was there before, from the announcement if it came later - unless   *)
(* the send of the announcement skipped it.                                *)
Up(p) == life[p] = "up"
Answered(p) ==
    p \in m_register \/ \E x \in Messages : Way(Server, p, x) /\ x.t = "reply"
Told(p, q) ==
    \E x \in Messages : /\ Way(Server, p, x)
                        /\ \/ x.t = "sync" /\ x.peer = q
                           \/ x.t = "reply" /\ q \in x.care

(* A peer announces itself, and says that it leaves, only as it goes. *)
Farewells ==
    \A r \in Peers, n \in Nodes, x \in Messages : Way(r, n, x) =>
        /\ x.t = "sync" => x.peer = r /\ ~Up(r)
        /\ x.t = "exit" => ~Up(r)
(* The server announces a peer with its whole scope. *)
Announced ==
    \A n \in Nodes, x \in Messages :
        Way(Server, n, x) /\ x.t = "sync" => x.scope = Full(x.peer)
(* No one is told of itself. *)
OthersOnly ==
    \A m, n \in Nodes, x \in Messages : Way(m, n, x) =>
        /\ x.t = "sync" => x.peer # n
        /\ x.t = "reply" => n \notin x.care
AnsweredListed == \A p \in Peers : Up(p) /\ Answered(p) => p \in care /\ p \in addressed
Heard ==
    \A p, q \in Peers : p # q /\ Up(p) /\ Up(q) /\ Answered(p) /\ q \in care =>
        known[p][q] = Full(q) \/ Told(p, q) \/ <<p, q>> \in untold

Talk == Farewells /\ Announced /\ OthersOnly /\ AnsweredListed /\ Heard

(* A step that sends rows or asks for a registration, and changes neither  *)
(* who knows whom nor, of the peers that are up, who is registered.        *)
LEMMA Quiet ==
    ASSUME Talk, UNCHANGED <<life, m_register, known, untold>>, addressed \subseteq addressed',
           \A q \in Peers : Up(q) => (q \in care' <=> q \in care),
           \A m, n \in Nodes, x \in Messages :
               Way(m, n, x)' => Way(m, n, x) \/ x.t \in {"register", "data"},
           \A m, n \in Nodes, x \in Messages :
               Way(m, n, x) => Way(m, n, x)' \/ x.t \in {"register", "data", "exit"}
    PROVE  Talk'
  <1>1. \A p \in Peers : Up(p)' <=> Up(p)
    BY DEF Up
  <1>2. \A p \in Peers : Answered(p)' <=> Answered(p)
    BY NodesAre DEF Answered
  <1>3. \A p, q \in Peers : Told(p, q)' <=> Told(p, q)
    BY NodesAre DEF Told
  <1>4. Farewells'
    BY <1>1, NodesAre DEF Talk, Farewells
  <1>5. Announced'
    BY NodesAre DEF Talk, Announced
  <1>6. OthersOnly'
    BY DEF Talk, OthersOnly
  <1>7. AnsweredListed'
    BY <1>1, <1>2 DEF Talk, AnsweredListed
  <1>8. Heard'
    BY <1>1, <1>2, <1>3 DEF Talk, Heard
  <1> QED  BY <1>4, <1>5, <1>6, <1>7, <1>8 DEF Talk

LEMMA LearnKnown ==
    ASSUME TypeOK, Talk, NEW p \in Peers, LearnAddress(p)
    PROVE  TypeOK' /\ Talk'
  <1>1. TypeOK'
    BY DEF TypeOK, LearnAddress, peerVars, auxVars
  <1>2. \A m, n \in Nodes, x \in Messages : Way(m, n, x)' <=> Way(m, n, x)
    BY DEF LearnAddress, Way
  <1> QED  BY <1>1, <1>2, Quiet DEF LearnAddress, peerVars, auxVars

LEMMA CheckKnown ==
    ASSUME TypeOK, Talk, NEW p \in Peers, Check(p)
    PROVE  TypeOK' /\ Talk'
  <1>1. /\ chan' \in Chans
        /\ \A m, n \in Nodes : \A x :
              Way(m, n, x)' <=> Way(m, n, x) \/ (m = p /\ n = Server /\ x = Reg)
    BY CheckDoes
  <1>2. UNCHANGED <<rows, care, addressed, peerVars, auxVars>>
    BY DEF Check
  <1>3. TypeOK'
    BY <1>1, <1>2 DEF TypeOK, Chans, peerVars, auxVars
  <1>4. Talk'
    BY <1>1, <1>2, Quiet, MessageKinds DEF peerVars, auxVars
  <1> QED  BY <1>3, <1>4

LEMMA HandlerKnown ==
    ASSUME TypeOK, Talk, NEW p \in Peers, NEW d \in Ids, Handler(p, d)
    PROVE  TypeOK' /\ Talk'
  <1>1. /\ chan' \in Chans
        /\ version \in 1..MaxWrite /\ version' = version + 1
        /\ promised' = [promised EXCEPT ![d] = Owes(p, d)]
        /\ missed' = missed \cup {e \in {d} : Server \in Skipped(p, Wide(p))}
        /\ UNCHANGED <<rows, care, addressed, life, m_register, m_loadfinish, known,
                       layout, untold>>
    BY HandlerDoes
  <1>2. PICK a \in Messages :
           /\ Changed(p, d, a)
           /\ \A m, n \in Nodes : \A x :
                 Way(m, n, x)' <=>
                     Way(m, n, x) \/ (m = p /\ n \in Audience(p, d) /\ Alive(n) /\ x = a)
    BY HandlerDoes
  <1>3. PICK v \in Nat : m_data' = [m_data EXCEPT ![p][d] = v]
    BY HandlerDoes
  <1>4. m_data' \in [Peers -> [Ids -> Nat]]
    BY <1>3 DEF TypeOK
  <1>5. promised' \in [Ids -> SUBSET Nodes]
    <2>1. Owes(p, d) \in SUBSET Nodes
      BY NodesAre DEF Owes, Owed, TypeOK
    <2> QED  BY <1>1, <2>1 DEF TypeOK
  <1>6. version' \in 1..MaxWrite + 1
    BY <1>1, NspAssumption
  <1>9. missed' \subseteq Ids
    BY <1>1 DEF TypeOK
  <1>7. TypeOK'
    BY <1>1, <1>4, <1>5, <1>6, <1>9 DEF TypeOK, Chans
  <1>8. Talk'
    BY <1>1, <1>2, Quiet DEF Changed
  <1> QED  BY <1>7, <1>8

LEMMA ExitKnown ==
    ASSUME TypeOK, Talk, NEW p \in Peers, Exit(p)
    PROVE  TypeOK' /\ Talk'
  <1>1. /\ chan' \in Chans
        /\ \A m, n \in Nodes : \A x :
              Way(m, n, x)' => 
                  \/ Way(m, n, x) /\ n # p
                  \/ /\ m = p /\ n # p /\ Alive(n) /\ (n = Server \/ known[p][n] # "none")
                     /\ x = Bye \/ (n # Server /\ x = Sync(p, "part"))
        /\ \A m, n \in Nodes : \A x : Way(m, n, x) => Way(m, n, x)' \/ n = p
    BY ExitDoes
  <1>2. /\ life[p] = "up" /\ life' = [life EXCEPT ![p] = "gone"]
        /\ m_register' = m_register \ {p} /\ m_loadfinish' = m_loadfinish \ {p}
        /\ known' = [known EXCEPT ![p] = [q \in Peers |-> "none"]]
        /\ m_data' = [m_data EXCEPT ![p] = [d \in Ids |-> 0]]
        /\ UNCHANGED <<rows, care, addressed, auxVars>>
    BY DEF Exit
  <1>3. TypeOK'
    <2>1. known' \in [Peers -> [Peers -> Scopes]] /\ \A q \in Peers : known'[q][q] = "none"
      BY <1>2 DEF TypeOK, Scopes
    <2>2. m_data' \in [Peers -> [Ids -> Nat]]
      BY <1>2 DEF TypeOK
    <2>3. life' \in [Peers -> {"up", "gone"}]
      BY <1>2 DEF TypeOK
    <2> QED  BY <1>1, <1>2, <2>1, <2>2, <2>3 DEF TypeOK, Chans, auxVars
  <1>4. \A q \in Peers : Up(q)' <=> Up(q) /\ q # p
    BY <1>2 DEF Up, TypeOK
  <1>5. \A q \in Peers : q # p => (Answered(q)' <=> Answered(q))
    BY <1>1, <1>2, NodesAre DEF Answered
  <1>6. \A q, r \in Peers : q # p => (Told(q, r)' <=> Told(q, r))
    BY <1>1, NodesAre DEF Told
  <1>7. \A q, r \in Peers : q # p => known'[q][r] = known[q][r]
    BY <1>2 DEF TypeOK
  <1>8. /\ Bye.t = "exit" /\ "part" \in Scopes
        /\ Sync(p, "part").t = "sync" /\ Sync(p, "part").peer = p
    BY MessageKinds DEF Scopes
  <1>9. Farewells'
    BY <1>1, <1>4, <1>8, NodesAre DEF Talk, Farewells
  <1>10. Announced'
    BY <1>1, NodesAre DEF Talk, Announced
  <1>11. OthersOnly'
    BY <1>1, <1>8 DEF Talk, OthersOnly
  <1>12. AnsweredListed'
    BY <1>2, <1>4, <1>5 DEF Talk, AnsweredListed
  <1>13. Heard'
    BY <1>2, <1>4, <1>5, <1>6, <1>7 DEF Talk, Heard, auxVars
  <1> QED  BY <1>3, <1>9, <1>10, <1>11, <1>12, <1>13 DEF Talk

LEMMA RegisterKnown ==
    ASSUME TypeOK, Talk, NEW p \in Peers, ServerRegister(p)
    PROVE  TypeOK' /\ Talk'
  <1>1. /\ care' = care \cup {p}
        /\ UNCHANGED <<rows, addressed, peerVars, version, layout, promised, missed>>
        /\ chan[p][Server] # <<>> /\ Head(chan[p][Server]).t = "register"
    BY DEF ServerRegister, Get
  <1>2. CASE p \in care
    <2>1. Delivers(p, Server) /\ UNCHANGED untold
      BY <1>1, <1>2, NodesAre DEF ServerRegister, Delivers
    <2>2. /\ chan' \in Chans
          /\ \A m, n \in Nodes : \A x : Way(m, n, x)' => Way(m, n, x)
          /\ \A m, n \in Nodes : \A x :
                Way(m, n, x) => Way(m, n, x)' \/ x.t = "register"
      BY <1>1, <2>1, DeliverDoes
    <2>3. TypeOK'
      BY <1>1, <1>2, <2>1, <2>2 DEF TypeOK, Chans, peerVars
    <2>4. Talk'
      BY <1>1, <1>2, <2>1, <2>2, Quiet DEF peerVars
    <2> QED  BY <2>3, <2>4
  <1>3. CASE p \notin care
    <2>1. /\ chan' \in Chans
          /\ \A m, n \in Nodes : \A x :
                 Way(m, n, x)' =>
                     \/ Way(m, n, x)
                     \/ m = Server /\ n = p /\ p \in addressed /\ Alive(p) /\ In(Answer(p), x)
                     \/ m = Server /\ n \in care \cap addressed /\ Alive(n) /\ x = Sync(p, Full(p))
          /\ \A m, n \in Nodes : \A x :
                 Way(m, n, x) => \/ Way(m, n, x)'
                                 \/ m = p /\ n = Server /\ x.t = "register"
          /\ p \in addressed /\ Alive(p) => \A x : In(Answer(p), x) => Way(Server, p, x)'
          /\ \A n \in addressed \cap Reached(Server, care) :
                 Alive(n) => Way(Server, n, Sync(p, Full(p)))'
      BY <1>3, RegisterDoes
    <2>19. chan' \in Chans
      BY <2>1
    <2>20. untold' = untold \cup (Skipped(Server, care) \X {p})
           /\ Skipped(Server, care) = care \ Reached(Server, care)
      BY <1>3, ReachedIs DEF ServerRegister
    <2>21. untold' \subseteq Peers \X Peers
      BY <2>20 DEF TypeOK
    <2>2. TypeOK'
      BY <1>1, <2>19, <2>21 DEF TypeOK, Chans, peerVars
    <2>3. /\ In(Answer(p), Reply(care))
          /\ \A x : In(Answer(p), x) => x = Reply(care) \/ x.t = "data"
      BY AnswerHolds DEF TypeOK, Reply
    <2>4. /\ Sync(p, Full(p)) \in Messages
          /\ Sync(p, Full(p)).t = "sync" /\ Sync(p, Full(p)).peer = p
          /\ Sync(p, Full(p)).scope = Full(p)
          /\ Reply(care) \in Messages /\ Reply(care).t = "reply" /\ Reply(care).care = care
      BY MessageKinds, FullScope DEF TypeOK
    <2>5. PICK a \in Messages, y \in Messages : y = Sync(p, Full(p)) /\ a = Reply(care)
      BY <2>4
    <2>6. \A q \in Peers : (Up(q)' <=> Up(q)) /\ (Alive(q) <=> Up(q))
      BY <1>1, NodesAre DEF Up, Alive, peerVars
    <2>7. /\ \A m, n \in Nodes : \A x :
                 Way(m, n, x)' =>
                     \/ Way(m, n, x)
                     \/ m = Server /\ n = p /\ (x = a \/ x.t = "data") /\ p \in addressed
                     \/ m = Server /\ n \in care /\ x = y
          /\ a.t = "reply" /\ a.care = care
          /\ y.t = "sync" /\ y.peer = p /\ y.scope = Full(p)
      BY <2>1, <2>3, <2>4, <2>5
    <2>8. \A m, n \in Nodes : \A x : Way(m, n, x) => Way(m, n, x)' \/ x.t = "register"
      BY <2>1
    <2>9. /\ p \in addressed /\ Up(p) => Way(Server, p, a)'
          /\ \A n \in addressed \cap Reached(Server, care) :
                 n \in Peers /\ Up(n) => Way(Server, n, y)'
      BY <2>1, <2>3, <2>5, <2>6 DEF TypeOK
    <2>10. Farewells'
      BY <2>6, <2>7, NodesAre DEF Talk, Farewells
    <2>11. Announced'
      BY <2>7, NodesAre DEF Talk, Announced
    <2>12. OthersOnly'
      BY <1>3, <2>7 DEF Talk, OthersOnly
    <2>13. \A q \in Peers : Answered(q)' => Answered(q) \/ (q = p /\ p \in addressed)
      BY <1>1, <2>7, NodesAre DEF Answered, peerVars
    <2>14. AnsweredListed'
      BY <1>1, <2>6, <2>13 DEF Talk, AnsweredListed
    <2>15. \A q, r \in Peers : Told(q, r) => Told(q, r)'
      BY <2>8, NodesAre DEF Told
    <2>16. \A q \in care : Way(Server, p, a)' => Told(p, q)'
      BY <2>7 DEF Told
    <2>17. \A q \in Peers : Way(Server, q, y)' => Told(q, p)'
      BY <2>7 DEF Told
    <2>18. Heard'
      <3> SUFFICES ASSUME NEW q \in Peers, NEW r \in Peers, q # r, Up(q)', Up(r)',
                          Answered(q)', r \in care'
                   PROVE  (known[q][r] = Full(r) \/ Told(q, r) \/ <<q, r>> \in untold)'
        BY DEF Heard
      <3>1. CASE Answered(q) /\ r \in care
        BY <1>1, <2>6, <2>15, <2>20, <3>1 DEF Talk, Heard, peerVars
      <3>2. CASE ~Answered(q)
        <4>1. q = p /\ p \in addressed /\ Up(p) /\ r \in care
          BY <1>1, <2>6, <2>13, <3>2
        <4> QED  BY <2>9, <2>16, <4>1
      <3>3. CASE Answered(q) /\ r \notin care
        <4>1. r = p /\ q \in care \cap addressed /\ Up(q)
          BY <1>1, <2>6, <3>3 DEF Talk, AnsweredListed
        <4>2. q \in Reached(Server, care) => Told(q, p)'
          BY <2>9, <2>17, <4>1
        <4>3. q \notin Reached(Server, care) => <<q, p>> \in untold'
          BY <2>20, <4>1
        <4> QED  BY <4>1, <4>2, <4>3
      <3> QED  BY <3>1, <3>2, <3>3
    <2> QED  BY <2>2, <2>10, <2>11, <2>12, <2>14, <2>18 DEF Talk
  <1> QED  BY <1>2, <1>3

LEMMA ServerDataKnown ==
    ASSUME TypeOK, Talk, NEW p \in Peers, ServerData(p)
    PROVE  TypeOK' /\ Talk'
  <1>1. /\ UNCHANGED <<care, addressed, peerVars, auxVars>>
        /\ chan[p][Server] # <<>> /\ Head(chan[p][Server]).t = "data"
    BY DEF ServerData, Get
  <1>2. Delivers(p, Server)
    BY <1>1, NodesAre DEF ServerData, Delivers
  <1>3. /\ chan' \in Chans
        /\ \A m, n \in Nodes : \A x : Way(m, n, x)' => Way(m, n, x)
        /\ \A m, n \in Nodes : \A x : Way(m, n, x) => Way(m, n, x)' \/ x.t = "data"
    BY <1>1, <1>2, DeliverDoes
  <1>4. rows' \in [Ids -> Nat]
    <2>1. MaxWrite \in Nat /\ rows \in [Ids -> Nat]
      BY NspAssumption DEF TypeOK
    <2>2. PICK m : m = Head(chan[p][Server])
      OBVIOUS
    <2>3. CASE p \notin care
      BY <2>1, <2>3 DEF ServerData
    <2>4. CASE p \in care
      <3>1. rows' = [d \in Ids |->
                        IF d \in m.dels THEN 0
                        ELSE IF \E v \in 1..MaxWrite + 1 : <<d, v>> \in m.rows
                             THEN CHOOSE v \in 1..MaxWrite + 1 : <<d, v>> \in m.rows
                             ELSE rows[d]]
        BY <2>2, <2>4 DEF ServerData
      <3>2. ASSUME NEW d \in Ids PROVE rows'[d] \in Nat
        <4>1. PICK w : w = CHOOSE v \in 1..MaxWrite + 1 : <<d, v>> \in m.rows
          OBVIOUS
        <4>2. ASSUME \E v \in 1..MaxWrite + 1 : <<d, v>> \in m.rows PROVE w \in Nat
          <5>1. w \in 1..MaxWrite + 1
            BY <4>1, <4>2
          <5> QED  BY <2>1, <5>1
        <4>3. \/ rows'[d] = 0 \/ rows'[d] = rows[d]
              \/ rows'[d] = w /\ \E v \in 1..MaxWrite + 1 : <<d, v>> \in m.rows
          BY <3>1, <4>1
        <4> QED  BY <2>1, <4>2, <4>3
      <3>3. rows' = [d \in Ids |-> rows'[d]]
        BY <3>1
      <3> QED  BY <3>2, <3>3
    <2> QED  BY <2>3, <2>4
  <1>5. TypeOK'
    BY <1>1, <1>3, <1>4 DEF TypeOK, Chans, peerVars, auxVars
  <1>6. Talk'
    BY <1>1, <1>3, Quiet DEF peerVars, auxVars
  <1> QED  BY <1>5, <1>6

LEMMA ServerExitKnown ==
    ASSUME TypeOK, Talk, NEW p \in Peers, ServerExit(p)
    PROVE  TypeOK' /\ Talk'
  <1>1. /\ care' = care \ {p} /\ UNCHANGED <<rows, addressed, peerVars, auxVars>>
        /\ chan[p][Server] # <<>> /\ Head(chan[p][Server]).t = "exit"
    BY DEF ServerExit, Get
  <1>2. Delivers(p, Server)
    BY <1>1, NodesAre DEF ServerExit, Delivers
  <1>3. /\ chan' \in Chans
        /\ Head(chan[p][Server]) \in Messages /\ Way(p, Server, Head(chan[p][Server]))
        /\ \A m, n \in Nodes : \A x : Way(m, n, x)' => Way(m, n, x)
        /\ \A m, n \in Nodes : \A x : Way(m, n, x) => Way(m, n, x)' \/ x.t = "exit"
    BY <1>1, <1>2, DeliverDoes
  <1>4. ~Up(p)
    BY <1>1, <1>3, NodesAre DEF Talk, Farewells
  <1>5. TypeOK'
    <2>1. care' \in SUBSET Peers
      BY <1>1 DEF TypeOK
    <2>2. UNCHANGED <<rows, addressed, life, m_register, m_loadfinish, known, m_data,
                      version, promised, layout, untold, missed>>
      BY <1>1 DEF peerVars, auxVars
    <2> QED  BY <1>3, <2>1, <2>2 DEF TypeOK, Chans
  <1>6. Talk'
    BY <1>1, <1>3, <1>4, Quiet DEF peerVars, auxVars
  <1> QED  BY <1>5, <1>6

LEMMA PeerReplyKnown ==
    ASSUME TypeOK, Talk, NEW p \in Peers, PeerReply(p)
    PROVE  TypeOK' /\ Talk'
  <1>1. PICK h : h = Head(chan[Server][p])
    OBVIOUS
  <1>2. /\ chan[Server][p] # <<>> /\ h.t = "reply"
        /\ m_register' = m_register \cup {p}
        /\ known' = [known EXCEPT ![p] = [q \in Peers |->
                        IF q \in h.care THEN Full(q) ELSE known[p][q]]]
        /\ UNCHANGED <<rows, care, addressed, life, m_loadfinish, m_data, auxVars>>
    BY <1>1 DEF PeerReply, Get, TypeOK
  <1>3. Delivers(Server, p)
    BY <1>2, NodesAre DEF PeerReply, Delivers
  <1>4. /\ chan' \in Chans
        /\ h \in Messages /\ Way(Server, p, h)
        /\ \A m, n \in Nodes : \A x : Way(m, n, x)' => Way(m, n, x)
        /\ \A m, n \in Nodes : \A x :
              Way(m, n, x) => Way(m, n, x)' \/ (m = Server /\ n = p /\ x = h)
    BY <1>1, <1>3, DeliverDoes
  <1>5. p \notin h.care
    BY <1>2, <1>4, NodesAre DEF Talk, OthersOnly
  <1>6. known' \in [Peers -> [Peers -> Scopes]] /\ \A q \in Peers : known'[q][q] = "none"
    BY <1>2, <1>5, FullScope DEF TypeOK
  <1>7. TypeOK'
    BY <1>2, <1>4, <1>6 DEF TypeOK, Chans, auxVars
  <1>8. \A q, r \in Peers : known'[q][r] = IF q = p /\ r \in h.care THEN Full(r) ELSE known[q][r]
    BY <1>2 DEF TypeOK
  <1>9. \A q \in Peers : Up(q)' <=> Up(q)
    BY <1>2 DEF Up
  <1>10. \A q \in Peers : Answered(q)' <=> Answered(q)
    BY <1>2, <1>4, NodesAre DEF Answered
  <1>11. \A q, r \in Peers : Told(q, r) => Told(q, r)' \/ (q = p /\ r \in h.care)
    BY <1>2, <1>4, NodesAre DEF Told
  <1>12. Farewells' /\ Announced' /\ OthersOnly'
    BY <1>4, <1>9, NodesAre DEF Talk, Farewells, Announced, OthersOnly
  <1>13. AnsweredListed'
    BY <1>2, <1>9, <1>10 DEF Talk, AnsweredListed
  <1>14. Heard'
    BY <1>2, <1>8, <1>9, <1>10, <1>11 DEF Talk, Heard, auxVars
  <1> QED  BY <1>7, <1>12, <1>13, <1>14 DEF Talk

LEMMA PeerSyncKnown ==
    ASSUME TypeOK, Talk, NEW p \in Peers, NEW from \in Nodes, PeerSync(p, from)
    PROVE  TypeOK' /\ Talk'
  <1>1. PICK h : h = Head(chan[from][p])
    OBVIOUS
  <1>2. /\ chan[from][p] # <<>> /\ h.t = "sync"
        /\ known' = [known EXCEPT ![p][h.peer] = h.scope]
        /\ UNCHANGED <<rows, care, addressed, life, m_register, m_loadfinish, m_data, auxVars>>
    BY <1>1 DEF PeerSync, Get
  <1>3. Delivers(from, p)
    BY <1>2, NodesAre DEF PeerSync, Delivers
  <1>4. /\ chan' \in Chans
        /\ h \in Messages /\ Way(from, p, h)
        /\ \A m, n \in Nodes : \A x : Way(m, n, x)' => Way(m, n, x)
        /\ \A m, n \in Nodes : \A x :
              Way(m, n, x) => Way(m, n, x)' \/ (m = from /\ n = p /\ x = h)
    BY <1>1, <1>3, DeliverDoes
  <1>5. h.peer \in Peers /\ h.scope \in Scopes /\ h.peer # p
    BY <1>2, <1>4, MessageFields, NodesAre DEF Talk, OthersOnly
  <1>6. PICK r0 \in Peers, s0 \in Scopes : r0 = h.peer /\ s0 = h.scope
    BY <1>5
  <1>7. known' = [known EXCEPT ![p] = [known[p] EXCEPT ![r0] = s0]] /\ r0 # p
    BY <1>2, <1>5, <1>6
  <1>8. known' \in [Peers -> [Peers -> Scopes]] /\ \A q \in Peers : known'[q][q] = "none"
    BY <1>7 DEF TypeOK
  <1>9. TypeOK'
    BY <1>2, <1>4, <1>8 DEF TypeOK, Chans, auxVars
  <1>10. \A q, r \in Peers : known'[q][r] = IF q = p /\ r = r0 THEN s0 ELSE known[q][r]
    BY <1>7 DEF TypeOK
  <1>11. Up(r0) => s0 = Full(r0)
    <2>1. CASE from = Server
      BY <1>2, <1>4, <1>6, <2>1, NodesAre DEF Talk, Announced
    <2>2. CASE from \in Peers
      BY <1>2, <1>4, <1>6, <2>2, NodesAre DEF Talk, Farewells
    <2> QED  BY <2>1, <2>2 DEF Nodes
  <1>12. \A q \in Peers : Up(q)' <=> Up(q)
    BY <1>2 DEF Up
  <1>13. \A q \in Peers : Answered(q)' <=> Answered(q)
    BY <1>2, <1>4, NodesAre DEF Answered
  <1>14. \A q, r \in Peers : Told(q, r) => Told(q, r)' \/ (q = p /\ r = r0)
    BY <1>2, <1>4, <1>6, NodesAre DEF Told
  <1>15. Farewells' /\ Announced' /\ OthersOnly'
    BY <1>4, <1>12, NodesAre DEF Talk, Farewells, Announced, OthersOnly
  <1>16. AnsweredListed'
    BY <1>2, <1>12, <1>13 DEF Talk, AnsweredListed
  <1>17. Heard'
    BY <1>2, <1>10, <1>11, <1>12, <1>13, <1>14 DEF Talk, Heard, auxVars
  <1> QED  BY <1>9, <1>15, <1>16, <1>17 DEF Talk

LEMMA PeerExitKnown ==
    ASSUME TypeOK, Talk, NEW p \in Peers, NEW from \in Nodes, PeerExit(p, from)
    PROVE  TypeOK' /\ Talk'
  <1>1. PICK h : h = Head(chan[from][p])
    OBVIOUS
  <1>2. /\ chan[from][p] # <<>> /\ h.t = "exit"
        /\ known' = IF p \in Writers THEN [known EXCEPT ![p][from] = "none"] ELSE known
        /\ UNCHANGED <<rows, care, addressed, life, m_register, m_loadfinish, m_data, auxVars>>
    BY <1>1 DEF PeerExit, Get
  <1>3. Delivers(from, p)
    BY <1>2, NodesAre DEF PeerExit, Delivers
  <1>4. /\ chan' \in Chans
        /\ h \in Messages /\ Way(from, p, h)
        /\ \A m, n \in Nodes : \A x : Way(m, n, x)' => Way(m, n, x)
        /\ \A m, n \in Nodes : \A x :
              Way(m, n, x) => Way(m, n, x)' \/ (m = from /\ n = p /\ x = h)
    BY <1>1, <1>3, DeliverDoes
  <1>5. \A q, r \in Peers : known'[q][r] = IF p \in Writers /\ q = p /\ r = from
                                           THEN "none" ELSE known[q][r]
    BY <1>2 DEF TypeOK
  <1>6. known' \in [Peers -> [Peers -> Scopes]] /\ \A q \in Peers : known'[q][q] = "none"
    <2>1. [known[p] EXCEPT ![from] = "none"] \in [Peers -> Scopes]
      BY DEF TypeOK, Scopes
    <2>2. known' \in [Peers -> [Peers -> Scopes]]
      BY <1>2, <2>1 DEF TypeOK
    <2> QED  BY <1>5, <2>2 DEF TypeOK
  <1>7. TypeOK'
    BY <1>2, <1>4, <1>6 DEF TypeOK, Chans, auxVars
  <1>8. from \in Peers => ~Up(from)
    BY <1>2, <1>4, NodesAre DEF Talk, Farewells
  <1>9. \A q \in Peers : Up(q)' <=> Up(q)
    BY <1>2 DEF Up
  <1>10. \A q \in Peers : Answered(q)' <=> Answered(q)
    BY <1>2, <1>4, NodesAre DEF Answered
  <1>11. \A q, r \in Peers : Told(q, r) => Told(q, r)'
    BY <1>2, <1>4, NodesAre DEF Told
  <1>12. Farewells' /\ Announced' /\ OthersOnly'
    BY <1>4, <1>9, NodesAre DEF Talk, Farewells, Announced, OthersOnly
  <1>13. AnsweredListed'
    BY <1>2, <1>9, <1>10 DEF Talk, AnsweredListed
  <1>14. Heard'
    BY <1>2, <1>5, <1>8, <1>9, <1>10, <1>11 DEF Talk, Heard, auxVars
  <1> QED  BY <1>7, <1>12, <1>13, <1>14 DEF Talk

LEMMA PeerDataKnown ==
    ASSUME TypeOK, Talk, NEW p \in Peers, NEW from \in Nodes, PeerData(p, from)
    PROVE  TypeOK' /\ Talk'
  <1>1. /\ UNCHANGED <<rows, care, addressed, life, m_register, known, auxVars>>
        /\ chan[from][p] # <<>> /\ Head(chan[from][p]).t = "data"
        /\ m_loadfinish' \subseteq m_loadfinish \cup {p}
    BY DEF PeerData, Get
  <1>2. Delivers(from, p)
    BY <1>1, NodesAre DEF PeerData, Delivers
  <1>3. /\ chan' \in Chans
        /\ \A m, n \in Nodes : \A x : Way(m, n, x)' => Way(m, n, x)
        /\ \A m, n \in Nodes : \A x : Way(m, n, x) => Way(m, n, x)' \/ x.t = "data"
    BY <1>1, <1>2, DeliverDoes
  <1>4. m_data' \in [Peers -> [Ids -> Nat]]
    <2>1. PICK h : h = Head(chan[from][p])
      OBVIOUS
    <2>2. PICK f : f = [d \in Ids |->
                IF Cares(p, Full(p), d) /\ d \in h.dels THEN 0
                ELSE IF Cares(p, Full(p), d) /\ \E v \in 1..MaxWrite + 1 : <<d, v>> \in h.rows
                     THEN CHOOSE v \in 1..MaxWrite + 1 : <<d, v>> \in h.rows
                     ELSE m_data[p][d]]
      OBVIOUS
    <2>3. MaxWrite \in Nat /\ m_data \in [Peers -> [Ids -> Nat]]
      BY NspAssumption DEF TypeOK
    <2>4. ASSUME NEW d \in Ids PROVE f[d] \in Nat
      <3>1. PICK w : w = CHOOSE v \in 1..MaxWrite + 1 : <<d, v>> \in h.rows
        OBVIOUS
      <3>2. ASSUME \E v \in 1..MaxWrite + 1 : <<d, v>> \in h.rows PROVE w \in Nat
        <4>1. w \in 1..MaxWrite + 1
          BY <3>1, <3>2
        <4> QED  BY <2>3, <4>1
      <3>3. \/ f[d] = 0 \/ f[d] = m_data[p][d]
            \/ f[d] = w /\ \E v \in 1..MaxWrite + 1 : <<d, v>> \in h.rows
        BY <2>2, <3>1
      <3> QED  BY <2>3, <3>2, <3>3
    <2>5. f \in [Ids -> Nat]
      <3>1. f = [d \in Ids |-> f[d]]
        BY <2>2
      <3> QED  BY <2>4, <3>1
    <2>6. m_data' = [m_data EXCEPT ![p] = f]
      BY <2>1, <2>2, <2>3 DEF PeerData
    <2> QED  BY <2>3, <2>5, <2>6
  <1>5. TypeOK'
    BY <1>1, <1>3, <1>4 DEF TypeOK, Chans, auxVars
  <1>6. Talk'
    BY <1>1, <1>3, Quiet DEF auxVars
  <1> QED  BY <1>5, <1>6
-----------------------------------------------------------------------------
LEMMA KnownInit == Init => TypeOK /\ Talk
  <1> SUFFICES ASSUME Init PROVE TypeOK /\ Talk
    OBVIOUS
  <1>1. <<>> \in Seq(Messages)
    OBVIOUS
  <1>2. TypeOK
    <2>1. chan \in [Nodes -> [Nodes -> Seq(Messages)]]
      BY <1>1 DEF Init
    <2>2. 1 \in 1..MaxWrite + 1
      BY NspAssumption
    <2>3. known \in [Peers -> [Peers -> Scopes]] /\ \A p \in Peers : known[p][p] = "none"
      BY DEF Init, Scopes
    <2>4. rows \in [Ids -> Nat] /\ m_data \in [Peers -> [Ids -> Nat]]
      BY DEF Init
    <2> QED  BY <2>1, <2>2, <2>3, <2>4 DEF Init, TypeOK
  <1>3. \A m, n \in Nodes : \A x : ~Way(m, n, x)
    BY EmptyIn DEF Init, Way
  <1>4. \A p \in Peers : ~Answered(p)
    BY <1>3, NodesAre DEF Init, Answered
  <1> QED  BY <1>2, <1>3, <1>4, NodesAre
           DEF Talk, Farewells, Announced, OthersOnly, AnsweredListed, Heard

LEMMA KnownStep == TypeOK /\ Talk /\ [Next]_vars => TypeOK' /\ Talk'
  <1> SUFFICES ASSUME TypeOK, Talk, [Next]_vars PROVE TypeOK' /\ Talk'
    OBVIOUS
  <1>1. CASE Next
    <2>1. PICK p \in Peers :
              \/ LearnAddress(p) \/ Check(p) \/ Exit(p)
              \/ \E d \in Ids : Handler(p, d)
              \/ ServerDeliver(p)
              \/ \E from \in Nodes : PeerDeliver(p, from)
      BY <1>1 DEF Next
    <2>2. CASE LearnAddress(p)
      BY <2>2, LearnKnown
    <2>3. CASE Check(p)
      BY <2>3, CheckKnown
    <2>4. CASE Exit(p)
      BY <2>4, ExitKnown
    <2>5. CASE \E d \in Ids : Handler(p, d)
      BY <2>5, HandlerKnown
    <2>6. CASE ServerDeliver(p)
      BY <2>6, RegisterKnown, ServerDataKnown, ServerExitKnown DEF ServerDeliver
    <2>7. CASE \E from \in Nodes : PeerDeliver(p, from)
      BY <2>7, PeerReplyKnown, PeerSyncKnown, PeerExitKnown, PeerDataKnown DEF PeerDeliver
    <2> QED  BY <2>1, <2>2, <2>3, <2>4, <2>5, <2>6, <2>7
  <1>2. CASE UNCHANGED vars
    <2>1. TypeOK'
      BY <1>2 DEF vars, auxVars, TypeOK
    <2>2. \A m, n \in Nodes, x \in Messages : Way(m, n, x)' <=> Way(m, n, x)
      BY <1>2 DEF vars, Way
    <2>3. Talk'
      BY <1>2, <2>2, Quiet DEF vars, auxVars
    <2> QED  BY <2>1, <2>3
  <1> QED  BY <1>1, <1>2

(* Every variable keeps the shape the code gives it; in particular no peer *)
(* ever lists itself among those it sends to (nsp_write and nsp_read would *)
(* send their own changes to themselves), which rests on what is said in   *)
(* the answers and the announcements.                                      *)
THEOREM NspTypeInvariant == Spec => []TypeOK
  <1>1. Spec => [](TypeOK /\ Talk)
    BY KnownInit, KnownStep, PTL DEF Spec
  <1> QED  BY <1>1, PTL

(* However registrations overlap with each other, with addresses learned   *)
(* late and with peers that leave: once nothing about registrations is on  *)
(* its way to a writer (handle of np_channel_register_reply and            *)
(* np_channel_dataid_sync), it knows every registered peer with its whole  *)
(* scope, or the server's send of the announcement to a set of actors      *)
(* (nsp_server, handle of np_channel_register) skipped the writer.         *)
THEOREM EveryoneIsKnown == Spec => []EveryoneKnown
  <1>1. TypeOK /\ Talk => EveryoneKnown
    <2> SUFFICES ASSUME TypeOK, Talk,
                        NEW p \in Writers \cap m_register, NEW q \in m_register,
                        p # q, life[p] = "up", life[q] = "up",
                        ~UnderWay(p, {"reply", "sync"})
                 PROVE  known[p][q] = Full(q) \/ <<p, q>> \in untold
      BY DEF EveryoneKnown
    <2>1. p \in Peers /\ q \in Peers
      BY DEF TypeOK
    <2>2. Up(p) /\ Up(q) /\ Answered(p) /\ Answered(q)
      BY DEF Up, Answered
    <2>3. known[p][q] = Full(q) \/ Told(p, q) \/ <<p, q>> \in untold
      BY <2>1, <2>2 DEF Talk, AnsweredListed, Heard
    <2>4. ~Told(p, q)
      <3>1. \A x : Way(Server, p, x) => ~(x.t \in {"reply", "sync"})
        BY NodesAre DEF UnderWay, Way, In
      <3> QED  BY <3>1 DEF Told
    <2> QED  BY <2>3, <2>4
  <1>2. Spec => [](TypeOK /\ Talk)
    BY KnownInit, KnownStep, PTL DEF Spec
  <1> QED  BY <1>1, <1>2, PTL
-----------------------------------------------------------------------------
(* The first load.  A row that is still as the database had it is in every *)
(* peer whose load has begun, or in a chunk on its way there, or is about  *)
(* to change: a change that can reach a peer is on its way to the server   *)
(* as well, from a peer the server has registered, so it will be taken; or *)
(* the send of the change skipped the server.                              *)
Touches(x, d) ==
    x.t = "data" /\ (d \in x.dels \/ \E v \in Nat : <<d, v>> \in x.rows)
Pending(d) ==
    \/ d \in missed
    \/ \E r \in care, x \in Messages : r \in Peers /\ Way(r, Server, x) /\ Touches(x, d)
Started(p) ==
    p \in m_loadfinish \/ \E x \in Messages : Way(Server, p, x) /\ x.t = "data"
Coming(p, d) ==
    \E x \in Messages : Way(Server, p, x) /\ x.t = "data" /\ <<d, 1>> \in x.rows
Finishing(p) ==
    \/ p \in m_loadfinish
    \/ \E x \in Messages : Way(Server, p, x) /\ x.t = "data" /\ x.first /\ x.fin

(* Rows of the server are first loads, and no older than the table. *)
FromServer ==
    \A p \in Peers, x \in Messages : Way(Server, p, x) /\ x.t = "data" =>
        /\ x.first /\ x.dels = {}
        /\ \A d \in Ids, v \in Nat : <<d, v>> \in x.rows /\ rows[d] = 1 => v = 1
(* Rows of a peer are changes. *)
FromPeers ==
    \A r \in Peers, n \in Nodes, x \in Messages : Way(r, n, x) /\ x.t = "data" =>
        /\ ~x.first
        /\ \A d \in Ids, v \in Nat : <<d, v>> \in x.rows => v \in 2..MaxWrite + 1
(* Only registered peers are spoken of, and only to registered peers. *)
Both(r, q) == (Up(r) => r \in care) /\ (Up(q) => q \in care)
KnownListed == \A r, q \in Peers : known[r][q] # "none" => Both(r, q)
SpokenListed ==
    \A m \in Nodes, r \in Peers, x \in Messages : Way(m, r, x) =>
        /\ x.t = "reply" => (Up(r) => r \in care) /\ \A q \in x.care : Up(q) => q \in care
        /\ x.t = "sync" => Both(r, x.peer)
ChangesPending ==
    \A d \in Ids, r, p \in Peers, x \in Messages :
        rows[d] = 1 /\ Way(r, p, x) /\ Touches(x, d) => Pending(d)
LoadedFresh ==
    \A d \in Ids, p \in Peers :
        rows[d] = 1 /\ Up(p) /\ Started(p) /\ Wants(p, d) =>
            m_data[p][d] = 1 \/ Pending(d) \/ Coming(p, d)
(* Nothing follows a farewell to the server. *)
ExitLast ==
    \A r \in Peers : \A i \in 1..Len(chan[r][Server]) :
        chan[r][Server][i].t = "exit" => i = Len(chan[r][Server])
Gone ==
    \A p \in Peers : ~Up(p) => p \notin m_loadfinish
                               /\ \A m \in Nodes, x \in Messages : ~Way(m, p, x)
StartedListed == \A p \in Peers : Up(p) /\ Started(p) => p \in care
AllAnswered ==
    /\ Peers \ Unaddressed \subseteq addressed
    /\ \A p \in Peers : p \in care /\ p \notin Unaddressed /\ Up(p) =>
          Answered(p) /\ Finishing(p)

Load == /\ FromServer /\ FromPeers /\ KnownListed /\ SpokenListed /\ ChangesPending
        /\ LoadedFresh /\ Gone /\ StartedListed /\ AllAnswered

LEMMA Tells == \A p \in Peers, d \in Ids : Cares(p, Full(p), d) <=> Wants(p, d)
  BY DEF Cares, Full, Wants

LEMMA LastStep ==
    ASSUME TypeOK, Talk, ExitLast, chan' \in Chans,
           \A r \in Peers :
               \/ chan'[r][Server] = chan[r][Server]
               \/ chan[r][Server] # <<>> /\ chan'[r][Server] = Tail(chan[r][Server])
               \/ Up(r) /\ \E a \in Messages : chan'[r][Server] = Append(chan[r][Server], a)
    PROVE  ExitLast'
  <1> SUFFICES ASSUME NEW r \in Peers PROVE
          \A i \in 1..Len(chan'[r][Server]) :
              chan'[r][Server][i].t = "exit" => i = Len(chan'[r][Server])
    BY DEF ExitLast
  <1>1. PICK s \in Seq(Messages) : s = chan[r][Server]
    BY TypeChans, NodesAre DEF Chans
  <1>2. PICK s2 \in Seq(Messages) : s2 = chan'[r][Server]
    BY NodesAre DEF Chans
  <1>3. \A i \in 1..Len(s) : s[i].t = "exit" => i = Len(s)
    BY <1>1 DEF ExitLast
  <1>4. CASE s2 = s
    BY <1>2, <1>3, <1>4
  <1>5. CASE s # <<>> /\ s2 = Tail(s)
    <2>1. /\ Len(s2) = Len(s) - 1
          /\ \A i \in 1..Len(s2) : s2[i] = s[i + 1] /\ i + 1 \in 1..Len(s)
      BY <1>5
    <2> QED  BY <1>2, <1>3, <2>1
  <1>6. ASSUME Up(r), NEW a \in Messages, s2 = Append(s, a)
        PROVE  \A i \in 1..Len(s2) : s2[i].t = "exit" => i = Len(s2)
    <2>1. /\ Len(s2) = Len(s) + 1 /\ DOMAIN s = 1..Len(s)
          /\ \A i \in 1..Len(s) : s2[i] = s[i] /\ s[i] \in Messages
          /\ \A i \in 1..Len(s2) : i \in 1..Len(s) \/ i = Len(s2)
      BY <1>6
    <2>2. \A i \in 1..Len(s) : Way(r, Server, s[i])
      BY <1>1, <2>1 DEF Way, In
    <2>3. \A i \in 1..Len(s) : s[i].t # "exit"
      BY <1>6, <2>1, <2>2, NodesAre DEF Talk, Farewells
    <2> QED  BY <2>1, <2>3
  <1> QED  BY <1>1, <1>2, <1>4, <1>5, <1>6

(* A step that leaves the rows, in the peers, at the server and on their   *)
(* way, as they are. *)
LEMMA QuietLoad ==
    ASSUME Load, UNCHANGED <<rows, life, m_data, m_loadfinish>>,
           addressed \subseteq addressed',
           \A q \in Peers : Up(q) => (q \in care' <=> q \in care),
           \A d \in Ids : Pending(d) => Pending(d)',
           \A p \in Peers : Answered(p) => Answered(p)',
           \A r, q \in Peers : known'[r][q] # "none" => known[r][q] # "none" \/ Both(r, q),
           \A m \in Nodes, n \in Peers, x \in Messages : Way(m, n, x)' => Way(m, n, x),
           \A m \in Nodes, n \in Peers, x \in Messages :
               Way(m, n, x) /\ x.t = "data" => Way(m, n, x)',
           \A r \in Peers, x \in Messages :
               Way(r, Server, x)' => Way(r, Server, x) \/ x.t # "data"
    PROVE  Load'
  <1>1. \A p \in Peers : Up(p)' <=> Up(p)
    BY DEF Up
  <1>2. \A r, q \in Peers : Both(r, q)' <=> Both(r, q)
    BY <1>1 DEF Both
  <1>3. \A p \in Peers : Started(p)' <=> Started(p)
    BY NodesAre DEF Started
  <1>4. \A p \in Peers, d \in Ids : Coming(p, d)' <=> Coming(p, d)
    BY NodesAre DEF Coming
  <1>5. \A p \in Peers : Finishing(p)' <=> Finishing(p)
    BY NodesAre DEF Finishing
  <1>6. FromServer'
    BY NodesAre DEF Load, FromServer
  <1>7. FromPeers'
    BY NodesAre DEF Load, FromPeers, Nodes
  <1>8. KnownListed'
    BY <1>2 DEF Load, KnownListed
  <1>9. SpokenListed'
    <2> SUFFICES ASSUME NEW m \in Nodes, NEW r \in Peers, NEW x \in Messages, Way(m, r, x)'
                 PROVE  /\ x.t = "reply" => /\ Up(r)' => r \in care'
                                            /\ \A q \in x.care : Up(q)' => q \in care'
                        /\ x.t = "sync" => Both(r, x.peer)'
      BY DEF SpokenListed
    <2>1. /\ x.t = "reply" => /\ Up(r) => r \in care
                              /\ \A q \in x.care : Up(q) => q \in care
          /\ x.t = "sync" => Both(r, x.peer)
      BY DEF Load, SpokenListed
    <2>2. /\ x.t = "reply" => x.care \in SUBSET Peers
          /\ x.t = "sync" => x.peer \in Peers
      BY MessageFields
    <2> QED  BY <1>1, <1>2, <2>1, <2>2
  <1>10. ChangesPending'
    BY NodesAre DEF Load, ChangesPending
  <1>11. LoadedFresh'
    BY <1>1, <1>3, <1>4 DEF Load, LoadedFresh
  <1>12. Gone'
    BY <1>1 DEF Load, Gone
  <1>13. StartedListed'
    BY <1>1, <1>3 DEF Load, StartedListed
  <1>14. AllAnswered'
    BY <1>1, <1>5 DEF Load, AllAnswered
  <1> QED  BY <1>6, <1>7, <1>8, <1>9, <1>10, <1>11, <1>12, <1>13, <1>14 DEF Load

LEMMA LearnLoad ==
    ASSUME TypeOK, Talk, Load, NEW p \in Peers, LearnAddress(p)
    PROVE  Load'
  <1>1. /\ UNCHANGED <<rows, life, m_data, m_loadfinish, care, known, chan,
                       m_register, missed>>
        /\ addressed \subseteq addressed'
    BY DEF LearnAddress, peerVars, auxVars
  <1>2. \A m, n \in Nodes : \A x : Way(m, n, x)' <=> Way(m, n, x)
    BY <1>1 DEF Way
  <1>3. \A d \in Ids : Pending(d)' <=> Pending(d)
    BY <1>1, <1>2, NodesAre DEF Pending
  <1>4. \A q \in Peers : Answered(q)' <=> Answered(q)
    BY <1>1, <1>2, NodesAre DEF Answered
  <1> QED  BY <1>1, <1>2, <1>3, <1>4, QuietLoad, NodesAre

LEMMA CheckLoad ==
    ASSUME TypeOK, Talk, Load, NEW p \in Peers, Check(p)
    PROVE  Load'
  <1>1. UNCHANGED <<rows, life, m_data, m_loadfinish, care, addressed, known, m_register,
                missed>>
    BY DEF Check, peerVars, auxVars
  <1>2. \A m, n \in Nodes : \A x :
            Way(m, n, x)' <=> Way(m, n, x) \/ (m = p /\ n = Server /\ x = Reg)
    BY CheckDoes
  <1>3. \A d \in Ids : Pending(d) => Pending(d)'
    BY <1>1, <1>2, NodesAre DEF Pending
  <1>4. \A q \in Peers : Answered(q)' <=> Answered(q)
    BY <1>1, <1>2, NodesAre DEF Answered
  <1>5. /\ \A m \in Nodes, n \in Peers, x \in Messages : Way(m, n, x)' <=> Way(m, n, x)
        /\ \A r \in Peers, x \in Messages :
               Way(r, Server, x)' => Way(r, Server, x) \/ x.t # "data"
    BY <1>2, NodesAre, MessageKinds
  <1> QED  BY <1>1, <1>3, <1>4, <1>5, QuietLoad

LEMMA AgainLoad ==
    ASSUME TypeOK, Talk, Load, NEW p \in Peers, ServerRegister(p), p \in care
    PROVE  Load'
  <1>1. /\ UNCHANGED <<rows, life, m_data, m_loadfinish, care, addressed, known, m_register,
                       missed>>
        /\ chan[p][Server] # <<>> /\ Head(chan[p][Server]).t = "register"
        /\ Delivers(p, Server)
    BY NodesAre DEF ServerRegister, Get, peerVars, Delivers
  <1>2. /\ \A m, n \in Nodes : \A x : Way(m, n, x)' => Way(m, n, x)
        /\ \A m, n \in Nodes : \A x :
              Way(m, n, x) => Way(m, n, x)' \/ (n = Server /\ x.t = "register")
    BY <1>1, DeliverDoes
  <1>3. \A d \in Ids : Pending(d) => Pending(d)'
    BY <1>1, <1>2, NodesAre DEF Pending, Touches
  <1>4. \A q \in Peers : Answered(q)' <=> Answered(q)
    BY <1>1, <1>2, NodesAre DEF Answered
  <1> QED  BY <1>1, <1>2, <1>3, <1>4, QuietLoad, NodesAre

LEMMA ServerExitLoad ==
    ASSUME TypeOK, Talk, Load, ExitLast, NEW p \in Peers, ServerExit(p)
    PROVE  Load'
  <1>1. /\ UNCHANGED <<rows, life, m_data, m_loadfinish, addressed, known, m_register, missed>>
        /\ care' = care \ {p}
        /\ chan[p][Server] # <<>> /\ Head(chan[p][Server]).t = "exit"
        /\ Delivers(p, Server)
    BY NodesAre DEF ServerExit, Get, peerVars, auxVars, Delivers
  <1>2. /\ \A m, n \in Nodes : \A x : Way(m, n, x)' => Way(m, n, x)
        /\ \A m, n \in Nodes : \A x :
              Way(m, n, x) => Way(m, n, x)' \/ (n = Server /\ x.t = "exit")
        /\ Head(chan[p][Server]) \in Messages /\ Way(p, Server, Head(chan[p][Server]))
    BY <1>1, DeliverDoes
  <1>3. ~Up(p)
    BY <1>1, <1>2, NodesAre DEF Talk, Farewells
  <1>4. \A x : Way(p, Server, x) => x.t = "exit"
    <2>1. PICK s \in Seq(Messages) : s = chan[p][Server]
      BY TypeChans, NodesAre DEF Chans
    <2>2. /\ Len(s) \in Nat /\ 1 \in 1..Len(s) /\ DOMAIN s = 1..Len(s) /\ Head(s) = s[1]
      BY <1>1, <2>1
    <2>3. Len(s) = 1
      BY <1>1, <2>1, <2>2 DEF ExitLast
    <2>4. \A i \in DOMAIN s : s[i].t = "exit"
      BY <1>1, <2>1, <2>2, <2>3
    <2> QED  BY <2>1, <2>4 DEF Way, In
  <1>5. \A d \in Ids : Pending(d) => Pending(d)'
    BY <1>1, <1>2, <1>4, NodesAre DEF Pending, Touches
  <1>6. \A q \in Peers : Answered(q)' <=> Answered(q)
    BY <1>1, <1>2, NodesAre DEF Answered
  <1> QED  BY <1>1, <1>2, <1>3, <1>5, <1>6, QuietLoad, NodesAre

(* A delivery to a peer of anything but rows *)
LEMMA HearLoad ==
    ASSUME TypeOK, Talk, Load, NEW p \in Peers, NEW from \in Nodes, Delivers(from, p),
           Head(chan[from][p]).t # "data",
           UNCHANGED <<rows, life, m_data, m_loadfinish, care, addressed, missed>>,
           m_register \subseteq m_register',
           Head(chan[from][p]).t = "reply" => p \in m_register',
           \A r, q \in Peers : known'[r][q] # "none" => known[r][q] # "none" \/ Both(r, q)
    PROVE  Load'
  <1>1. PICK h : h = Head(chan[from][p])
    OBVIOUS
  <1>2. /\ \A m, n \in Nodes : \A x : Way(m, n, x)' => Way(m, n, x)
        /\ \A m, n \in Nodes : \A x :
              Way(m, n, x) => Way(m, n, x)' \/ (n = p /\ x = h)
    BY <1>1, DeliverDoes
  <1>3. \A d \in Ids : Pending(d) => Pending(d)'
    BY <1>2, NodesAre DEF Pending
  <1>4. \A q \in Peers : Answered(q) => Answered(q)'
    BY <1>1, <1>2, NodesAre DEF Answered
  <1>5. \A m \in Nodes, n \in Peers, x \in Messages :
               Way(m, n, x) /\ x.t = "data" => Way(m, n, x)'
    BY <1>1, <1>2, NodesAre
  <1> QED  BY <1>2, <1>3, <1>4, <1>5, QuietLoad, NodesAre

LEMMA PeerReplyLoad ==
    ASSUME TypeOK, Talk, Load, NEW p \in Peers, PeerReply(p)
    PROVE  Load'
  <1>1. PICK h : h = Head(chan[Server][p])
    OBVIOUS
  <1>2. /\ chan[Server][p] # <<>> /\ h.t = "reply"
        /\ m_register' = m_register \cup {p}
        /\ \A r, q \in Peers : known'[r][q] = IF r = p /\ q \in h.care THEN Full(q)
                                              ELSE known[r][q]
        /\ UNCHANGED <<rows, life, m_data, m_loadfinish, care, addressed, missed>>
    BY <1>1 DEF PeerReply, Get, TypeOK, auxVars
  <1>3. Delivers(Server, p)
    BY <1>2, NodesAre DEF PeerReply, Delivers
  <1>4. h \in Messages /\ Way(Server, p, h)
    BY <1>1, <1>3, DeliverDoes
  <1>5. \A q \in Peers : q \in h.care => Both(p, q)
    BY <1>2, <1>4, NodesAre DEF Load, SpokenListed, Both
  <1> QED  BY <1>1, <1>2, <1>3, <1>5, HearLoad, NodesAre

LEMMA PeerSyncLoad ==
    ASSUME TypeOK, Talk, Load, NEW p \in Peers, NEW from \in Nodes, PeerSync(p, from)
    PROVE  Load'
  <1>1. PICK h : h = Head(chan[from][p])
    OBVIOUS
  <1>2. /\ chan[from][p] # <<>> /\ h.t = "sync"
        /\ UNCHANGED <<rows, care, addressed, life, m_register, m_loadfinish, m_data,
                       missed>>
    BY <1>1 DEF PeerSync, Get, auxVars
  <1>3. Delivers(from, p)
    BY <1>2, NodesAre DEF PeerSync, Delivers
  <1>4. h \in Messages /\ Way(from, p, h)
    BY <1>1, <1>3, DeliverDoes
  <1>5. Both(p, h.peer)
    BY <1>2, <1>4, NodesAre DEF Load, SpokenListed
  <1>6. \A r, q \in Peers : known'[r][q] # "none" => known[r][q] # "none" \/ Both(r, q)
    <2>1. \A r, q \in Peers : known'[r][q] = known[r][q] \/ (r = p /\ q = h.peer)
      BY <1>1 DEF PeerSync, TypeOK
    <2> QED  BY <1>5, <2>1
  <1> QED  BY <1>1, <1>2, <1>3, <1>6, HearLoad

LEMMA PeerExitLoad ==
    ASSUME TypeOK, Talk, Load, NEW p \in Peers, NEW from \in Nodes, PeerExit(p, from)
    PROVE  Load'
  <1>1. PICK h : h = Head(chan[from][p])
    OBVIOUS
  <1>2. /\ chan[from][p] # <<>> /\ h.t = "exit"
        /\ UNCHANGED <<rows, care, addressed, life, m_register, m_loadfinish, m_data,
                       missed>>
    BY <1>1 DEF PeerExit, Get, auxVars
  <1>3. Delivers(from, p)
    BY <1>2, NodesAre DEF PeerExit, Delivers
  <1>4. \A r, q \in Peers : known'[r][q] = known[r][q] \/ known'[r][q] = "none"
    BY DEF PeerExit, TypeOK
  <1> QED  BY <1>1, <1>2, <1>3, <1>4, HearLoad

LEMMA HandlerLoad ==
    ASSUME TypeOK, Talk, Load, NEW p \in Peers, NEW e \in Ids, Handler(p, e)
    PROVE  Load'
  <1>1. /\ version \in 1..MaxWrite /\ life[p] = "up"
        /\ missed' = missed \cup {d \in {e} : Server \in Skipped(p, Wide(p))}
        /\ UNCHANGED <<rows, care, addressed, life, m_register, m_loadfinish, known>>
    BY HandlerDoes
  <1>2. PICK a \in Messages :
           /\ Changed(p, e, a)
           /\ \A m, n \in Nodes : \A x :
                 Way(m, n, x)' <=>
                     Way(m, n, x) \/ (m = p /\ n \in Audience(p, e) /\ Alive(n) /\ x = a)
    BY HandlerDoes
  <1>3. \A q \in Peers : q # p => m_data'[q] = m_data[q]
    BY HandlerDoes DEF TypeOK
  <1>4. \A d \in Ids : d # e => m_data'[p][d] = m_data[p][d]
    BY HandlerDoes DEF TypeOK
  <1>5. /\ a.t = "data" /\ ~a.first
        /\ \A d \in Ids : Touches(a, d) => d = e
        /\ Touches(a, e)
        /\ \A d \in Ids, v \in Nat : <<d, v>> \in a.rows => v \in 2..MaxWrite + 1
    <2>1. version + 1 \in 2..MaxWrite + 1 /\ version + 1 \in Nat
      BY <1>1, NspAssumption
    <2> QED  BY <1>2, <2>1 DEF Changed, Touches
  <1>6. Up(p)
    BY <1>1 DEF Up
  <1>7. Way(p, Server, a)' \/ e \in missed'
    <2>1. Server \in Audience(p, e) \/ Server \in Skipped(p, Wide(p))
      BY AudienceIs
    <2> QED  BY <1>1, <1>2, <2>1, NodesAre DEF Alive
  <1>8. p \notin care => \A n \in Peers : n \notin Audience(p, e)
    <2>1. p \notin care => \A q \in Peers : known[p][q] = "none"
      BY <1>6 DEF Load, KnownListed, Both
    <2> QED  BY <2>1, AudienceIs
  <1>9. \A d \in Ids : Pending(d) => Pending(d)'
    BY <1>1, <1>2, NodesAre DEF Pending
  <1>10. p \in care => Pending(e)'
    BY <1>1, <1>5, <1>7 DEF Pending
  <1>11. \A q \in Peers : Up(q)' <=> Up(q)
    BY <1>1 DEF Up
  <1>12. \A m \in Nodes, n \in Nodes, x \in Messages :
            Way(m, n, x)' <=> Way(m, n, x) \/ (m = p /\ n \in Audience(p, e) /\ Alive(n) /\ x = a)
    BY <1>2
  <1>13. \A n \in Nodes, x \in Messages : Way(Server, n, x)' <=> Way(Server, n, x)
    BY <1>12, NodesAre
  <1>14. \A q \in Peers : /\ Started(q)' <=> Started(q)
                          /\ Finishing(q)' <=> Finishing(q)
                          /\ Answered(q)' <=> Answered(q)
                          /\ \A d \in Ids : Coming(q, d)' <=> Coming(q, d)
    BY <1>1, <1>13, NodesAre DEF Started, Finishing, Answered, Coming
  <1>15. \A r, q \in Peers : Both(r, q)' <=> Both(r, q)
    BY <1>1, <1>11 DEF Both
  <1>16. FromServer'
    BY <1>1, <1>13, NodesAre DEF Load, FromServer
  <1>17. FromPeers'
    BY <1>5, <1>12, NodesAre DEF Load, FromPeers
  <1>18. KnownListed'
    BY <1>1, <1>15 DEF Load, KnownListed
  <1>19. SpokenListed'
    <2> SUFFICES ASSUME NEW m \in Nodes, NEW r \in Peers, NEW x \in Messages, Way(m, r, x)'
                 PROVE  /\ x.t = "reply" => /\ Up(r)' => r \in care'
                                            /\ \A q \in x.care : Up(q)' => q \in care'
                        /\ x.t = "sync" => Both(r, x.peer)'
      BY DEF SpokenListed
    <2>1. Way(m, r, x) \/ x.t = "data"
      BY <1>5, <1>12, NodesAre
    <2>2. Way(m, r, x) => 
              /\ x.t = "reply" => /\ Up(r) => r \in care
                                  /\ \A q \in x.care : Up(q) => q \in care
              /\ x.t = "sync" => Both(r, x.peer)
      BY DEF Load, SpokenListed
    <2>3. /\ x.t = "reply" => x.care \in SUBSET Peers
          /\ x.t = "sync" => x.peer \in Peers
      BY MessageFields
    <2> QED  BY <1>1, <1>11, <1>15, <2>1, <2>2, <2>3
  <1>20. ChangesPending'
    <2> SUFFICES ASSUME NEW d \in Ids, NEW r \in Peers, NEW q \in Peers, NEW x \in Messages,
                        rows[d] = 1, Way(r, q, x)', Touches(x, d)
                 PROVE  Pending(d)'
      BY <1>1 DEF ChangesPending, Touches
    <2>1. CASE Way(r, q, x)
      BY <1>9, <2>1 DEF Load, ChangesPending
    <2>2. CASE ~Way(r, q, x)
      <3>1. x = a /\ q \in Audience(p, e) /\ d = e
        BY <1>5, <1>12, <2>2, NodesAre
      <3> QED  BY <1>8, <1>10, <3>1
    <2> QED  BY <2>1, <2>2
  <1>21. LoadedFresh'
    <2> SUFFICES ASSUME NEW d \in Ids, NEW q \in Peers, rows[d] = 1, Up(q), Started(q), Wants(q, d)
                 PROVE  m_data'[q][d] = 1 \/ Pending(d)' \/ Coming(q, d)'
      BY <1>1, <1>11, <1>14 DEF LoadedFresh
    <2>1. m_data[q][d] = 1 \/ Pending(d) \/ Coming(q, d)
      BY DEF Load, LoadedFresh
    <2>2. CASE q = p /\ d = e
      BY <1>10, <2>2 DEF Load, StartedListed
    <2>3. CASE ~(q = p /\ d = e)
      BY <1>3, <1>4, <1>9, <1>14, <2>1, <2>3
    <2> QED  BY <2>2, <2>3
  <1>22. Gone'
    <2>1. \A q \in Peers : Alive(q) <=> Up(q)
      BY NodesAre DEF Alive, Up
    <2> QED  BY <1>1, <1>11, <1>12, <2>1, NodesAre DEF Load, Gone
  <1>23. StartedListed' /\ AllAnswered'
    BY <1>1, <1>11, <1>14 DEF Load, StartedListed, AllAnswered
  <1> QED  BY <1>16, <1>17, <1>18, <1>19, <1>20, <1>21, <1>22, <1>23 DEF Load

LEMMA ExitLoad ==
    ASSUME TypeOK, Talk, Load, NEW p \in Peers, Exit(p)
    PROVE  Load'
  <1>1. /\ \A m, n \in Nodes : \A x :
              Way(m, n, x)' => 
                  \/ Way(m, n, x) /\ n # p
                  \/ /\ m = p /\ n # p /\ Alive(n) /\ (n = Server \/ known[p][n] # "none")
                     /\ x = Bye \/ (n # Server /\ x = Sync(p, "part"))
        /\ \A m, n \in Nodes : \A x : Way(m, n, x) => Way(m, n, x)' \/ n = p
    BY ExitDoes
  <1>2. \A m \in Nodes : \A x : ~Way(m, p, x)'
    BY <1>1, NodesAre
  <1>3. /\ m_register' = m_register \ {p} /\ m_loadfinish' = m_loadfinish \ {p}
        /\ \A q \in Peers : q # p => m_data'[q] = m_data[q]
        /\ \A r, q \in Peers : known'[r][q] # "none" => known[r][q] # "none" /\ r # p
        /\ UNCHANGED <<rows, care, addressed, missed>>
    BY DEF Exit, TypeOK, auxVars
  <1>4. \A q \in Peers : Up(q)' <=> Up(q) /\ q # p
    BY DEF Exit, Up, TypeOK
  <1>5. \A q \in Peers : q # p =>
            /\ Started(q)' <=> Started(q)
            /\ Finishing(q)' <=> Finishing(q)
            /\ Answered(q)' <=> Answered(q)
            /\ \A d \in Ids : Coming(q, d)' <=> Coming(q, d)
    BY <1>1, <1>3, NodesAre DEF Started, Finishing, Answered, Coming
  <1>6. \A d \in Ids : Pending(d) => Pending(d)'
    BY <1>1, <1>3, NodesAre DEF Pending
  <1>7. /\ Bye.t = "exit"
        /\ Sync(p, "part").t = "sync" /\ Sync(p, "part").peer = p
    BY MessageKinds DEF Scopes
  <1>8. \A m, n \in Nodes : \A x : Way(m, n, x)' /\ x.t \in {"data", "reply"} => Way(m, n, x)
    BY <1>1, <1>7
  <1>9. FromServer' /\ FromPeers'
    BY <1>3, <1>8, NodesAre DEF Load, FromServer, FromPeers
  <1>10. \A r, q \in Peers : Both(r, q) => Both(r, q)'
    BY <1>3, <1>4 DEF Both
  <1>11. KnownListed'
    BY <1>3, <1>10 DEF Load, KnownListed
  <1>12. SpokenListed'
    <2> SUFFICES ASSUME NEW m \in Nodes, NEW r \in Peers, NEW x \in Messages, Way(m, r, x)'
                 PROVE  /\ x.t = "reply" => /\ Up(r)' => r \in care'
                                            /\ \A q \in x.care : Up(q)' => q \in care'
                        /\ x.t = "sync" => Both(r, x.peer)'
      BY DEF SpokenListed
    <2>1. /\ x.t = "reply" => x.care \in SUBSET Peers
          /\ x.t = "sync" => x.peer \in Peers
      BY MessageFields
    <2>2. CASE Way(m, r, x)
      BY <1>3, <1>4, <1>10, <2>1, <2>2 DEF Load, SpokenListed
    <2>3. CASE ~Way(m, r, x)
      <3>1. known[p][r] # "none" /\ (x = Bye \/ x = Sync(p, "part"))
        BY <1>1, <2>3, NodesAre
      <3>2. Both(p, r)
        BY <3>1 DEF Load, KnownListed
      <3>3. Both(r, p)'
        BY <1>3, <1>4, <3>2 DEF Both
      <3> QED  BY <1>7, <3>1, <3>3
    <2> QED  BY <2>2, <2>3
  <1>13. ChangesPending'
    BY <1>3, <1>6, <1>8, NodesAre DEF Load, ChangesPending, Touches
  <1>14. LoadedFresh'
    <2> SUFFICES ASSUME NEW d \in Ids, NEW q \in Peers, rows[d] = 1, Up(q), q # p,
                        Started(q), Wants(q, d)
                 PROVE  m_data'[q][d] = 1 \/ Pending(d)' \/ Coming(q, d)'
      BY <1>3, <1>4, <1>5 DEF LoadedFresh
    <2>1. m_data[q][d] = 1 \/ Pending(d) \/ Coming(q, d)
      BY DEF Load, LoadedFresh
    <2> QED  BY <1>3, <1>5, <1>6, <2>1
  <1>15. Gone'
    <2>1. \A q \in Peers : Alive(q) <=> Up(q)
      BY NodesAre DEF Alive, Up
    <2> QED  BY <1>1, <1>2, <1>3, <1>4, <2>1, NodesAre DEF Load, Gone
  <1>16. StartedListed' /\ AllAnswered'
    BY <1>3, <1>4, <1>5 DEF Load, StartedListed, AllAnswered
  <1> QED  BY <1>9, <1>11, <1>12, <1>13, <1>14, <1>15, <1>16 DEF Load

LEMMA RegisterLoad ==
    ASSUME TypeOK, Talk, Load, NEW p \in Peers, ServerRegister(p), p \notin care
    PROVE  Load'
  <1>1. care' = care \cup {p} /\ UNCHANGED <<rows, addressed, peerVars, missed>>
    BY DEF ServerRegister
  <1>2. /\ \A m, n \in Nodes : \A x :
                 Way(m, n, x)' =>
                     \/ Way(m, n, x)
                     \/ m = Server /\ n = p /\ p \in addressed /\ Alive(p) /\ In(Answer(p), x)
                     \/ m = Server /\ n \in care \cap addressed /\ Alive(n) /\ x = Sync(p, Full(p))
        /\ \A m, n \in Nodes : \A x :
                 Way(m, n, x) => \/ Way(m, n, x)'
                                 \/ m = p /\ n = Server /\ x.t = "register"
        /\ p \in addressed /\ Alive(p) => \A x : In(Answer(p), x) => Way(Server, p, x)'
    BY RegisterDoes
  <1>3. /\ In(Answer(p), Reply(care))
        /\ \A x : In(Answer(p), x) =>
              \/ x = Reply(care)
              \/ /\ x \in Messages /\ x.t = "data" /\ x.first /\ x.dels = {}
                 /\ \A d \in Ids, v \in Nat : <<d, v>> \in x.rows => v = rows[d]
        /\ \E x : In(Answer(p), x) /\ x.t = "data" /\ x.first /\ x.fin
        /\ \A d \in Ids : rows[d] # 0 /\ Wants(p, d) =>
              \E x : /\ In(Answer(p), x) /\ x.t = "data" /\ x.first
                    /\ <<d, rows[d]>> \in x.rows
    BY AnswerHolds DEF TypeOK, Reply
  <1>4. /\ Sync(p, Full(p)) \in Messages
        /\ Sync(p, Full(p)).t = "sync" /\ Sync(p, Full(p)).peer = p
        /\ Reply(care) \in Messages /\ Reply(care).t = "reply" /\ Reply(care).care = care
    BY MessageKinds, FullScope DEF TypeOK
  <1>5. PICK a \in Messages, y \in Messages :
           /\ y = Sync(p, Full(p)) /\ y.t = "sync" /\ y.peer = p
           /\ a = Reply(care) /\ a.t = "reply" /\ a.care = care
    BY <1>4
  <1>6. \A q \in Peers : (Up(q)' <=> Up(q)) /\ (Alive(q) <=> Up(q))
    BY <1>1, NodesAre DEF Up, Alive, peerVars
  <1>7. \A n \in Nodes : \A x : 
           Way(Server, n, x)' =>
               \/ Way(Server, n, x)
               \/ /\ n = p /\ p \in addressed /\ Up(p)
                  /\ \/ x = a
                     \/ /\ x.t = "data" /\ x.first /\ x.dels = {}
                        /\ \A d \in Ids, v \in Nat : <<d, v>> \in x.rows => v = rows[d]
               \/ n \in care /\ x = y /\ Up(n)
    <2> SUFFICES ASSUME NEW n \in Nodes, NEW x, Way(Server, n, x)', ~Way(Server, n, x)
                 PROVE  \/ /\ n = p /\ p \in addressed /\ Up(p)
                           /\ \/ x = a
                              \/ /\ x.t = "data" /\ x.first /\ x.dels = {}
                                 /\ \A d \in Ids, v \in Nat : <<d, v>> \in x.rows => v = rows[d]
                        \/ n \in care /\ x = y /\ Up(n)
      OBVIOUS
    <2>1. \/ n = p /\ p \in addressed /\ Alive(p) /\ In(Answer(p), x)
          \/ n \in care \cap addressed /\ Alive(n) /\ x = Sync(p, Full(p))
      BY <1>2, NodesAre
    <2>2. CASE n = p /\ p \in addressed /\ Alive(p) /\ In(Answer(p), x)
      BY <1>3, <1>5, <1>6, <2>2
    <2>3. CASE n \in care \cap addressed /\ Alive(n) /\ x = Sync(p, Full(p))
      <3>1. n \in Peers
        BY <2>3 DEF TypeOK
      <3> QED  BY <1>5, <1>6, <2>3, <3>1
    <2> QED  BY <2>1, <2>2, <2>3
  <1>8. \A r \in Peers, n \in Nodes : \A x : Way(r, n, x)' => Way(r, n, x)
    BY <1>2, NodesAre
  <1>9. \A m, n \in Nodes : \A x : Way(m, n, x) => Way(m, n, x)' \/ x.t = "register"
    BY <1>2
  <1>10. p \in addressed /\ Up(p) =>
            /\ Way(Server, p, a)'
            /\ \E x \in Messages : Way(Server, p, x)' /\ x.t = "data" /\ x.first /\ x.fin
            /\ \A d \in Ids : rows[d] # 0 /\ Wants(p, d) =>
                  \E x \in Messages : Way(Server, p, x)' /\ x.t = "data"
                                      /\ <<d, rows[d]>> \in x.rows
    <2> SUFFICES ASSUME p \in addressed, Up(p)
                 PROVE  /\ Way(Server, p, a)'
                        /\ \E x \in Messages : Way(Server, p, x)' /\ x.t = "data" /\ x.first /\ x.fin
                        /\ \A d \in Ids : rows[d] # 0 /\ Wants(p, d) =>
                              \E x \in Messages : Way(Server, p, x)' /\ x.t = "data"
                                                  /\ <<d, rows[d]>> \in x.rows
      OBVIOUS
    <2>1. \A x : In(Answer(p), x) => Way(Server, p, x)'
      BY <1>2, <1>6
    <2>2. Way(Server, p, a)'
      BY <1>3, <1>5, <2>1
    <2>3. \A x : In(Answer(p), x) => x \in Messages
      BY <1>3, <1>4
    <2>4. \E x \in Messages : Way(Server, p, x)' /\ x.t = "data" /\ x.first /\ x.fin
      BY <1>3, <2>1, <2>3
    <2>5. \A d \in Ids : rows[d] # 0 /\ Wants(p, d) =>
              \E x \in Messages : Way(Server, p, x)' /\ x.t = "data"
                                  /\ <<d, rows[d]>> \in x.rows
      BY <1>3, <2>1, <2>3
    <2> QED  BY <2>2, <2>4, <2>5
  <1>11. \A d \in Ids : Pending(d) => Pending(d)'
    BY <1>1, <1>9, NodesAre DEF Pending, Touches
  <1>12. \A q \in Peers : Answered(q) => Answered(q)'
    BY <1>1, <1>9, NodesAre DEF Answered, peerVars
  <1>13. \A q \in Peers : Finishing(q) => Finishing(q)'
    BY <1>1, <1>9, NodesAre DEF Finishing, peerVars
  <1>14. \A q \in Peers : Started(q)' => Started(q) \/ (q = p /\ p \in addressed /\ Up(p))
    BY <1>1, <1>5, <1>7, NodesAre DEF Started, peerVars
  <1>15. \A q \in Peers, d \in Ids : Coming(q, d) => Coming(q, d)'
    BY <1>9, NodesAre DEF Coming
  <1>16. \A r, q \in Peers : Both(r, q) => Both(r, q)'
    BY <1>1, <1>6 DEF Both
  <1>17. FromServer'
    <2> SUFFICES ASSUME NEW q \in Peers, NEW x \in Messages, Way(Server, q, x)', x.t = "data"
                 PROVE  /\ x.first /\ x.dels = {}
                        /\ \A d \in Ids, v \in Nat : <<d, v>> \in x.rows /\ rows[d] = 1 => v = 1
      BY <1>1 DEF FromServer
    <2>1. CASE Way(Server, q, x)
      BY <2>1 DEF Load, FromServer
    <2>2. CASE ~Way(Server, q, x)
      BY <1>5, <1>7, <2>2, NodesAre
    <2> QED  BY <2>1, <2>2
  <1>18. FromPeers'
    BY <1>8, NodesAre DEF Load, FromPeers
  <1>19. KnownListed'
    BY <1>1, <1>16 DEF Load, KnownListed, peerVars
  <1>20. SpokenListed'
    <2> SUFFICES ASSUME NEW m \in Nodes, NEW r \in Peers, NEW x \in Messages, Way(m, r, x)'
                 PROVE  /\ x.t = "reply" => /\ Up(r)' => r \in care'
                                            /\ \A q \in x.care : Up(q)' => q \in care'
                        /\ x.t = "sync" => Both(r, x.peer)'
      BY DEF SpokenListed
    <2>1. /\ x.t = "reply" => x.care \in SUBSET Peers
          /\ x.t = "sync" => x.peer \in Peers
      BY MessageFields
    <2>2. CASE Way(m, r, x)
      BY <1>1, <1>6, <1>16, <2>1, <2>2 DEF Load, SpokenListed
    <2>3. CASE ~Way(m, r, x)
      <3>1. m = Server
        BY <1>8, <2>3 DEF Nodes
      <3>2. \/ r = p /\ x = a
            \/ x.t = "data"
            \/ r \in care /\ x = y
        BY <1>7, <2>3, <3>1, NodesAre
      <3>3. CASE r = p /\ x = a
        BY <1>1, <1>5, <3>3
      <3>4. CASE x.t = "data"
        BY <3>4
      <3>5. CASE r \in care /\ x = y
        BY <1>1, <1>5, <3>5 DEF Both
      <3> QED  BY <3>2, <3>3, <3>4, <3>5
    <2> QED  BY <2>2, <2>3
  <1>21. ChangesPending'
    BY <1>1, <1>8, <1>11, NodesAre DEF Load, ChangesPending, Touches
  <1>22. LoadedFresh'
    <2> SUFFICES ASSUME NEW d \in Ids, NEW q \in Peers, rows[d] = 1, Up(q), Started(q)',
                        Wants(q, d)
                 PROVE  m_data[q][d] = 1 \/ Pending(d)' \/ Coming(q, d)'
      BY <1>1, <1>6 DEF LoadedFresh, peerVars
    <2>1. CASE Started(q)
      BY <1>11, <1>15, <2>1 DEF Load, LoadedFresh
    <2>2. CASE ~Started(q)
      <3>1. q = p /\ p \in addressed /\ Up(p)
        BY <1>14, <2>2
      <3>2. PICK x \in Messages : /\ Way(Server, p, x)' /\ x.t = "data"
                                  /\ <<d, rows[d]>> \in x.rows
        BY <1>10, <3>1
      <3> QED  BY <3>1, <3>2 DEF Coming
    <2> QED  BY <2>1, <2>2
  <1>23. Gone'
    <2>1. \A m \in Nodes, q \in Peers : \A x : Way(m, q, x)' => Way(m, q, x) \/ Up(q)
      BY <1>7, <1>8, NodesAre DEF Nodes
    <2> QED  BY <1>1, <1>6, <2>1 DEF Load, Gone, peerVars
  <1>24. StartedListed'
    BY <1>1, <1>6, <1>14 DEF Load, StartedListed
  <1>25. AllAnswered'
    <2> SUFFICES ASSUME NEW q \in Peers, q \in care', q \notin Unaddressed, Up(q)
                 PROVE  Answered(q)' /\ Finishing(q)'
      BY <1>1, <1>6 DEF Load, AllAnswered
    <2>1. CASE q \in care
      BY <1>12, <1>13, <2>1 DEF Load, AllAnswered
    <2>2. CASE q \notin care
      <3>1. q = p /\ p \in addressed
        BY <1>1, <2>2 DEF Load, AllAnswered
      <3>2. Way(Server, p, a)'
        BY <1>10, <3>1
      <3>3. \E x \in Messages : Way(Server, p, x)' /\ x.t = "data" /\ x.first /\ x.fin
        BY <1>10, <3>1
      <3> QED  BY <1>5, <3>1, <3>2, <3>3 DEF Answered, Finishing
    <2> QED  BY <2>1, <2>2
  <1> QED  BY <1>17, <1>18, <1>19, <1>20, <1>21, <1>22, <1>23, <1>24, <1>25 DEF Load

LEMMA ServerDataLoad ==
    ASSUME TypeOK, Talk, Load, NEW p \in Peers, ServerData(p)
    PROVE  Load'
  <1>1. PICK h : h = Head(chan[p][Server])
    OBVIOUS
  <1>2. /\ UNCHANGED <<care, addressed, peerVars, missed>>
        /\ chan[p][Server] # <<>> /\ h.t = "data"
        /\ Delivers(p, Server)
    BY <1>1, NodesAre DEF ServerData, Get, Delivers, auxVars
  <1>3. /\ h \in Messages /\ Way(p, Server, h)
        /\ \A m, n \in Nodes : \A x : Way(m, n, x)' => Way(m, n, x)
        /\ \A m, n \in Nodes : \A x :
              Way(m, n, x) => Way(m, n, x)' \/ (m = p /\ n = Server /\ x = h)
    BY <1>1, <1>2, DeliverDoes
  <1>4. \A d \in Ids, v \in Nat : <<d, v>> \in h.rows => v \in 2..MaxWrite + 1
    BY <1>2, <1>3, NodesAre DEF Load, FromPeers
  <1>5. ASSUME NEW d \in Ids, rows'[d] = 1
        PROVE  rows[d] = 1 /\ (p \in care => ~Touches(h, d))
    <2>1. CASE p \notin care
      BY <1>5, <2>1 DEF ServerData
    <2>2. CASE p \in care
      <3>1. rows'[d] = IF d \in h.dels THEN 0
                       ELSE IF \E v \in 1..MaxWrite + 1 : <<d, v>> \in h.rows
                            THEN CHOOSE v \in 1..MaxWrite + 1 : <<d, v>> \in h.rows
                            ELSE rows[d]
        BY <1>1, <2>2 DEF ServerData
      <3>2. d \notin h.dels
        BY <1>5, <3>1
      <3>3. ~\E v \in 1..MaxWrite + 1 : <<d, v>> \in h.rows
        <4> SUFFICES ASSUME \E v \in 1..MaxWrite + 1 : <<d, v>> \in h.rows PROVE FALSE
          OBVIOUS
        <4>1. PICK w : w = CHOOSE v \in 1..MaxWrite + 1 : <<d, v>> \in h.rows
          OBVIOUS
        <4>2. w \in 1..MaxWrite + 1 /\ <<d, w>> \in h.rows
          BY <4>1
        <4>3. w \in Nat /\ w # 1
          BY <1>4, <4>2, NspAssumption
        <4> QED  BY <1>5, <3>1, <3>2, <4>1, <4>3
      <3>4. ~\E v \in Nat : <<d, v>> \in h.rows
        <4>1. \A v \in 2..MaxWrite + 1 : v \in 1..MaxWrite + 1
          BY NspAssumption
        <4> QED  BY <1>4, <3>3, <4>1
      <3> QED  BY <1>5, <3>1, <3>2, <3>3, <3>4 DEF Touches
    <2> QED  BY <2>1, <2>2
  <1>6. \A d \in Ids : rows'[d] = 1 /\ Pending(d) => Pending(d)'
    BY <1>2, <1>3, <1>5, NodesAre DEF Pending
  <1>7. \A n \in Peers, m \in Nodes : \A x : Way(m, n, x)' <=> Way(m, n, x)
    BY <1>3, NodesAre
  <1>8. \A q \in Peers : Up(q)' <=> Up(q)
    BY <1>2 DEF Up, peerVars
  <1>9. \A q \in Peers : /\ Started(q)' <=> Started(q)
                         /\ Finishing(q)' <=> Finishing(q)
                         /\ Answered(q)' <=> Answered(q)
                         /\ \A d \in Ids : Coming(q, d)' <=> Coming(q, d)
    BY <1>2, <1>7, NodesAre DEF Started, Finishing, Answered, Coming, peerVars
  <1>10. \A r, q \in Peers : Both(r, q)' <=> Both(r, q)
    BY <1>2, <1>8 DEF Both
  <1>11. FromServer'
    BY <1>5, <1>7, NodesAre DEF Load, FromServer
  <1>12. FromPeers'
    BY <1>3, NodesAre DEF Load, FromPeers
  <1>13. KnownListed'
    BY <1>2, <1>10 DEF Load, KnownListed, peerVars
  <1>14. SpokenListed'
    <2> SUFFICES ASSUME NEW m \in Nodes, NEW r \in Peers, NEW x \in Messages, Way(m, r, x)'
                 PROVE  /\ x.t = "reply" => /\ Up(r)' => r \in care'
                                            /\ \A q \in x.care : Up(q)' => q \in care'
                        /\ x.t = "sync" => Both(r, x.peer)'
      BY DEF SpokenListed
    <2>1. /\ x.t = "reply" => x.care \in SUBSET Peers
          /\ x.t = "sync" => x.peer \in Peers
      BY MessageFields
    <2>2. Way(m, r, x)
      BY <1>7
    <2> QED  BY <1>2, <1>8, <1>10, <2>1, <2>2 DEF Load, SpokenListed
  <1>15. ChangesPending'
    BY <1>5, <1>6, <1>7, NodesAre DEF Load, ChangesPending, Touches
  <1>16. LoadedFresh'
    BY <1>2, <1>5, <1>6, <1>8, <1>9 DEF Load, LoadedFresh, peerVars
  <1>17. Gone'
    BY <1>2, <1>7, <1>8 DEF Load, Gone, peerVars
  <1>18. StartedListed' /\ AllAnswered'
    BY <1>2, <1>8, <1>9 DEF Load, StartedListed, AllAnswered
  <1> QED  BY <1>11, <1>12, <1>13, <1>14, <1>15, <1>16, <1>17, <1>18 DEF Load

LEMMA PeerDataLoad ==
    ASSUME TypeOK, Talk, Load, NEW p \in Peers, NEW from \in Nodes, PeerData(p, from)
    PROVE  Load'
  <1>1. PICK h : h = Head(chan[from][p])
    OBVIOUS
  <1>2. /\ UNCHANGED <<rows, care, addressed, life, m_register, known, missed>>
        /\ chan[from][p] # <<>> /\ h.t = "data"
        /\ m_loadfinish' = IF h.first /\ h.fin THEN m_loadfinish \cup {p} ELSE m_loadfinish
        /\ \A q \in Peers : q # p => m_data'[q] = m_data[q]
        /\ Delivers(from, p)
    BY <1>1, NodesAre DEF PeerData, Get, Delivers, TypeOK, auxVars
  <1>3. /\ h \in Messages /\ Way(from, p, h)
        /\ \A m, n \in Nodes : \A x : Way(m, n, x)' => Way(m, n, x)
        /\ \A m, n \in Nodes : \A x :
              Way(m, n, x) => Way(m, n, x)' \/ (m = from /\ n = p /\ x = h)
    BY <1>1, <1>2, DeliverDoes
  <1>4. \A d \in Ids : Wants(p, d) =>
           m_data'[p][d] = IF d \in h.dels THEN 0
                           ELSE IF \E v \in 1..MaxWrite + 1 : <<d, v>> \in h.rows
                                THEN CHOOSE v \in 1..MaxWrite + 1 : <<d, v>> \in h.rows
                                ELSE m_data[p][d]
    <2>1. m_data' = [m_data EXCEPT ![p] = [d \in Ids |->
                IF Cares(p, Full(p), d) /\ d \in h.dels THEN 0
                ELSE IF Cares(p, Full(p), d) /\ \E v \in 1..MaxWrite + 1 : <<d, v>> \in h.rows
                     THEN CHOOSE v \in 1..MaxWrite + 1 : <<d, v>> \in h.rows
                     ELSE m_data[p][d]]]
      BY <1>1 DEF PeerData, TypeOK
    <2>2. \A d \in Ids : Cares(p, Full(p), d) <=> Wants(p, d)
      BY Tells
    <2> QED  BY <2>1, <2>2 DEF TypeOK
  <1>5. Up(p) /\ \A q \in Peers : Up(q)' <=> Up(q)
    <2>1. \A q \in Peers : Up(q)' <=> Up(q)
      BY <1>2 DEF Up
    <2>2. Up(p)
      BY <1>3, NodesAre DEF Load, Gone
    <2> QED  BY <2>1, <2>2
  <1>6. \A d \in Ids : Pending(d)' <=> Pending(d)
    BY <1>2, <1>3, NodesAre DEF Pending
  <1>7. \A m \in Nodes, q \in Peers : \A x : q # p => (Way(m, q, x)' <=> Way(m, q, x))
    BY <1>3, NodesAre
  <1>8. \A q \in Peers : q # p =>
            /\ Started(q)' <=> Started(q)
            /\ Finishing(q)' <=> Finishing(q)
            /\ Answered(q)' <=> Answered(q)
            /\ \A d \in Ids : Coming(q, d)' <=> Coming(q, d)
    BY <1>2, <1>7, NodesAre DEF Started, Finishing, Answered, Coming
  <1>9. h.first => from = Server
    BY <1>2, <1>3, NodesAre DEF Load, FromPeers, Nodes
  <1>10. Started(p)' => Started(p)
    BY <1>2, <1>3, <1>9, NodesAre DEF Started
  <1>11. Answered(p) => Answered(p)'
    BY <1>2, <1>3, NodesAre DEF Answered
  <1>12. Finishing(p) => Finishing(p)'
    BY <1>2, <1>3, NodesAre DEF Finishing
  <1>13. \A r, q \in Peers : Both(r, q)' <=> Both(r, q)
    BY <1>2, <1>5 DEF Both
  <1>14. FromServer'
    BY <1>2, <1>3, NodesAre DEF Load, FromServer
  <1>15. FromPeers'
    BY <1>3, NodesAre DEF Load, FromPeers
  <1>16. KnownListed'
    BY <1>2, <1>13 DEF Load, KnownListed
  <1>17. SpokenListed'
    <2> SUFFICES ASSUME NEW m \in Nodes, NEW r \in Peers, NEW x \in Messages, Way(m, r, x)'
                 PROVE  /\ x.t = "reply" => /\ Up(r)' => r \in care'
                                            /\ \A q \in x.care : Up(q)' => q \in care'
                        /\ x.t = "sync" => Both(r, x.peer)'
      BY DEF SpokenListed
    <2>1. /\ x.t = "reply" => x.care \in SUBSET Peers
          /\ x.t = "sync" => x.peer \in Peers
      BY MessageFields
    <2>2. Way(m, r, x)
      BY <1>3, NodesAre
    <2> QED  BY <1>2, <1>5, <1>13, <2>1, <2>2 DEF Load, SpokenListed
  <1>18. ChangesPending'
    BY <1>2, <1>3, <1>6, NodesAre DEF Load, ChangesPending, Touches
  <1>19. LoadedFresh'
    <2> SUFFICES ASSUME NEW d \in Ids, NEW q \in Peers, rows[d] = 1, Up(q), Started(q)',
                        Wants(q, d)
                 PROVE  m_data'[q][d] = 1 \/ Pending(d) \/ Coming(q, d)'
      BY <1>2, <1>5, <1>6 DEF LoadedFresh
    <2>1. m_data[q][d] = 1 \/ Pending(d) \/ Coming(q, d)
      BY <1>8, <1>10 DEF Load, LoadedFresh
    <2>2. CASE q # p
      BY <1>2, <1>8, <2>1, <2>2
    <2>3. CASE q = p /\ from \in Peers
      <3>1. CASE Touches(h, d)
        BY <1>3, <2>3, <3>1 DEF Load, ChangesPending
      <3>2. CASE ~Touches(h, d)
        <4>1. \A v \in 1..MaxWrite + 1 : v \in Nat
          BY NspAssumption
        <4>2. m_data'[p][d] = m_data[p][d]
          BY <1>2, <1>4, <2>3, <3>2, <4>1 DEF Touches
        <4>3. Coming(p, d)' <=> Coming(p, d)
          BY <1>3, <2>3, NodesAre DEF Coming
        <4> QED  BY <2>1, <2>3, <4>2, <4>3
      <3> QED  BY <3>1, <3>2
    <2>4. CASE q = p /\ from = Server
      <3>1. /\ h.dels = {}
            /\ \A v \in Nat : <<d, v>> \in h.rows => v = 1
        BY <1>2, <1>3, <2>4 DEF Load, FromServer
      <3>2. 1 \in 1..MaxWrite + 1 /\ \A v \in 1..MaxWrite + 1 : v \in Nat
        BY NspAssumption
      <3>3. CASE <<d, 1>> \in h.rows
        <4>1. PICK w : w = CHOOSE v \in 1..MaxWrite + 1 : <<d, v>> \in h.rows
          OBVIOUS
        <4>2. w \in 1..MaxWrite + 1 /\ <<d, w>> \in h.rows
          BY <3>2, <3>3, <4>1
        <4>3. w = 1
          BY <3>1, <3>2, <4>2
        <4>4. m_data'[p][d] = w
          BY <1>4, <2>4, <3>1, <4>1, <4>2
        <4> QED  BY <2>4, <4>3, <4>4
      <3>4. CASE <<d, 1>> \notin h.rows
        <4>1. m_data'[p][d] = m_data[p][d]
          BY <1>4, <2>4, <3>1, <3>2, <3>4
        <4>2. Coming(p, d) => Coming(p, d)'
          BY <1>3, <3>4, NodesAre DEF Coming
        <4> QED  BY <2>1, <2>4, <4>1, <4>2
      <3> QED  BY <3>3, <3>4
    <2> QED  BY <2>2, <2>3, <2>4 DEF Nodes
  <1>20. Gone'
    BY <1>2, <1>3, <1>5, NodesAre DEF Load, Gone
  <1>21. StartedListed'
    BY <1>2, <1>5, <1>8, <1>10 DEF Load, StartedListed
  <1>22. AllAnswered'
    BY <1>2, <1>5, <1>8, <1>11, <1>12 DEF Load, AllAnswered
  <1> QED  BY <1>14, <1>15, <1>16, <1>17, <1>18, <1>19, <1>20, <1>21, <1>22 DEF Load
-----------------------------------------------------------------------------
LEMMA LoadInit == Init => Load /\ ExitLast
  <1> SUFFICES ASSUME Init PROVE Load /\ ExitLast
    OBVIOUS
  <1>1. \A m, n \in Nodes : \A x : ~Way(m, n, x)
    BY EmptyIn DEF Init, Way
  <1>2. \A r \in Peers : chan[r][Server] = <<>>
    BY NodesAre DEF Init
  <1>3. ExitLast
    BY <1>2 DEF ExitLast
  <1>4. \A p \in Peers : ~Started(p)
    BY <1>1, NodesAre DEF Init, Started
  <1> QED  BY <1>1, <1>3, <1>4, NodesAre
           DEF Init, Load, FromServer, FromPeers, KnownListed, SpokenListed, ChangesPending,
               LoadedFresh, Gone, StartedListed, AllAnswered, Up

LEMMA ExitLastStep ==
    ASSUME TypeOK, Talk, ExitLast, [Next]_vars
    PROVE  ExitLast'
  <1>1. chan' \in Chans
    BY KnownStep, TypeChans DEF TypeOK, Chans
  <1>2. CASE \E p \in Peers : LearnAddress(p)
    BY <1>1, <1>2, LastStep DEF LearnAddress
  <1>3. ASSUME NEW p \in Peers, Check(p) PROVE ExitLast'
    <2>1. \A m, n \in Nodes : \/ chan'[m][n] = chan[m][n]
                              \/ m = p /\ chan'[m][n] = Append(chan[m][n], Reg)
      BY <1>3, CheckDoes
    <2>2. Up(p)
      BY <1>3 DEF Check, Up
    <2> QED  BY <1>1, <2>1, <2>2, LastStep, MessageKinds, NodesAre
  <1>4. ASSUME NEW p \in Peers, NEW d \in Ids, Handler(p, d) PROVE ExitLast'
    <2>1. PICK a \in Messages :
            \A m, n \in Nodes : \/ chan'[m][n] = chan[m][n]
                                \/ m = p /\ chan'[m][n] = Append(chan[m][n], a)
      BY <1>4, HandlerDoes
    <2>2. Up(p)
      BY <1>4, HandlerDoes DEF Up
    <2> QED  BY <1>1, <2>1, <2>2, LastStep, NodesAre
  <1>5. ASSUME NEW p \in Peers, Exit(p) PROVE ExitLast'
    <2>1. /\ \A m, n \in Nodes : m # p /\ n # p => chan'[m][n] = chan[m][n]
          /\ \/ chan'[p][Server] = chan[p][Server]
             \/ chan'[p][Server] = Append(chan[p][Server], Bye)
      BY <1>5, ExitDoes
    <2>2. Up(p)
      BY <1>5 DEF Exit, Up
    <2> QED  BY <1>1, <2>1, <2>2, LastStep, MessageKinds, NodesAre
  <1>6. ASSUME NEW from, NEW to, Delivers(from, to) PROVE ExitLast'
    <2>1. \A m, n \in Nodes : chan'[m][n] = IF m = from /\ n = to THEN Tail(chan[m][n])
                                            ELSE chan[m][n]
      BY <1>6, DeliverDoes
    <2> QED  BY <1>1, <1>6, <2>1, LastStep, NodesAre DEF Delivers
  <1>7. ASSUME NEW p \in Peers, ServerRegister(p) PROVE ExitLast'
    <2>1. CASE p \in care
      <3>1. Delivers(p, Server)
        BY <1>7, <2>1, NodesAre DEF ServerRegister, Get, Delivers
      <3> QED  BY <1>6, <3>1
    <2>2. CASE p \notin care
      <3>1. /\ chan[p][Server] # <<>>
            /\ \A m, n \in Nodes : m # Server =>
                  chan'[m][n] = IF m = p /\ n = Server THEN Tail(chan[m][n]) ELSE chan[m][n]
        BY <1>7, <2>2, RegisterDoes
      <3>2. \A r \in Peers :
               \/ chan'[r][Server] = chan[r][Server]
               \/ chan[r][Server] # <<>> /\ chan'[r][Server] = Tail(chan[r][Server])
        BY <3>1, NodesAre
      <3> QED  BY <1>1, <3>2, LastStep
    <2> QED  BY <2>1, <2>2
  <1>8. ASSUME NEW p \in Peers, ServerData(p) \/ ServerExit(p) PROVE Delivers(p, Server)
    <2>1. CASE ServerData(p)
      BY <2>1, NodesAre DEF ServerData, Get, Delivers
    <2>2. CASE ServerExit(p)
      <3>1. chan[p][Server] # <<>> /\ chan' = Take(p, Server)
        BY <2>2, Zenon DEF ServerExit, Get
      <3> QED  BY <3>1, NodesAre DEF Delivers
    <2> QED  BY <1>8, <2>1, <2>2
  <1>9. ASSUME NEW p \in Peers, NEW from \in Nodes, PeerDeliver(p, from)
        PROVE  Delivers(from, p)
    BY <1>9, NodesAre DEF PeerDeliver, PeerReply, PeerSync, PeerExit, PeerData, Get, Delivers
  <1>10. CASE UNCHANGED vars
    BY <1>1, <1>10, LastStep DEF vars
  <1>11. CASE Next
    BY <1>2, <1>3, <1>4, <1>5, <1>6, <1>7, <1>8, <1>9, <1>11 DEF Next, ServerDeliver
  <1> QED  BY <1>10, <1>11

LEMMA LoadStep ==
    ASSUME TypeOK, Talk, Load, ExitLast, [Next]_vars
    PROVE  Load'
  <1>1. CASE Next
    <2>1. PICK p \in Peers :
              \/ LearnAddress(p) \/ Check(p) \/ Exit(p)
              \/ \E d \in Ids : Handler(p, d)
              \/ ServerDeliver(p)
              \/ \E from \in Nodes : PeerDeliver(p, from)
      BY <1>1 DEF Next
    <2>2. CASE LearnAddress(p)
      BY <2>2, LearnLoad
    <2>3. CASE Check(p)
      BY <2>3, CheckLoad
    <2>4. CASE Exit(p)
      BY <2>4, ExitLoad
    <2>5. CASE \E d \in Ids : Handler(p, d)
      BY <2>5, HandlerLoad
    <2>6. CASE ServerDeliver(p)
      BY <2>6, AgainLoad, RegisterLoad, ServerDataLoad, ServerExitLoad DEF ServerDeliver
    <2>7. CASE \E from \in Nodes : PeerDeliver(p, from)
      BY <2>7, PeerReplyLoad, PeerSyncLoad, PeerExitLoad, PeerDataLoad DEF PeerDeliver
    <2> QED  BY <2>1, <2>2, <2>3, <2>4, <2>5, <2>6, <2>7
  <1>2. CASE UNCHANGED vars
    <2>1. UNCHANGED <<rows, life, m_data, m_loadfinish, care, known, chan, m_register, addressed,
                     missed>>
      BY <1>2 DEF vars, auxVars
    <2>2. \A m, n \in Nodes : \A x : Way(m, n, x)' <=> Way(m, n, x)
      BY <2>1 DEF Way
    <2>3. \A d \in Ids : Pending(d)' <=> Pending(d)
      BY <2>1, <2>2, NodesAre DEF Pending
    <2>4. \A q \in Peers : Answered(q)' <=> Answered(q)
      BY <2>1, <2>2, NodesAre DEF Answered
    <2> QED  BY <2>1, <2>2, <2>3, <2>4, QuietLoad, NodesAre
  <1> QED  BY <1>1, <1>2

(* A peer the server could answer is not left waiting, and one whose first *)
(* load is finished has every row it cares for that nobody has changed,    *)
(* wherever the load was cut into chunks (nsp_server::handle of the        *)
(* registration and nsp_read, nsp_write::handle of the load), while other  *)
(* peers write, register and leave; a row with a change that change()'s    *)
(* send to a set kept from the server is left out.                         *)
THEOREM LoadsComplete == Spec => []LoadComplete
  <1>1. TypeOK /\ Talk /\ Load => LoadComplete
    <2> SUFFICES ASSUME TypeOK, Talk, Load PROVE LoadComplete
      OBVIOUS
    <2>1. ASSUME NEW p \in care \ Unaddressed, life[p] = "up",
                 \A from \in Nodes : chan[from][p] = <<>>
          PROVE  p \in m_register \cap m_loadfinish
      <3>1. p \in Peers /\ Up(p)
        BY <2>1 DEF TypeOK, Up
      <3>2. Answered(p) /\ Finishing(p)
        BY <2>1, <3>1 DEF Load, AllAnswered
      <3>3. \A x : ~Way(Server, p, x)
        BY <2>1, EmptyIn, NodesAre DEF Way
      <3> QED  BY <3>2, <3>3 DEF Answered, Finishing
    <2>2. ASSUME NEW p \in m_loadfinish, NEW d \in Ids, rows[d] = 1, Cares(p, Full(p), d),
                 ~Touched(d), d \notin missed
          PROVE  m_data[p][d] = 1
      <3>1. p \in Peers /\ Up(p) /\ Started(p) /\ Wants(p, d)
        <4>1. p \in Peers
          BY DEF TypeOK
        <4> QED  BY <2>2, <4>1, Tells DEF Load, Gone, Started
      <3>2. ASSUME NEW m \in Nodes, NEW n \in Nodes, NEW x, Way(m, n, x), Touches(x, d)
            PROVE  FALSE
        <4>1. PICK i \in DOMAIN chan[m][n] : chan[m][n][i] = x
          BY <3>2 DEF Way, In
        <4>2. x.t = "data" /\ (d \in x.dels \/ \E y \in x.rows : y[1] = d)
          BY <3>2 DEF Touches
        <4> QED  BY <2>2, <4>1, <4>2 DEF Touched
      <3>3. ~Pending(d)
        BY <2>2, <3>2, NodesAre DEF Pending
      <3>4. ~Coming(p, d)
        <4>1. 1 \in Nat
          OBVIOUS
        <4> QED  BY <3>1, <3>2, <4>1, NodesAre DEF Coming, Touches
      <3> QED  BY <2>2, <3>1, <3>3, <3>4 DEF Load, LoadedFresh
    <2> QED  BY <2>1, <2>2 DEF LoadComplete
  <1>2. Init => TypeOK /\ Talk /\ Load /\ ExitLast
    BY KnownInit, LoadInit
  <1>3. TypeOK /\ Talk /\ Load /\ ExitLast /\ [Next]_vars
        => TypeOK' /\ Talk' /\ Load' /\ ExitLast'
    BY KnownStep, LoadStep, ExitLastStep
  <1>4. Spec => [](TypeOK /\ Talk /\ Load /\ ExitLast)
    BY <1>2, <1>3, PTL DEF Spec
  <1> QED  BY <1>1, <1>4, PTL
-----------------------------------------------------------------------------
(* The changes of a row.  Whoever holds version x of a row, and has the    *)
(* messages s before it, will hold version v when they are delivered.      *)
Brings(x, d, v) ==
    \/ x.dels = {d} /\ x.rows = {} /\ v = 0
    \/ x.dels = {} /\ x.rows = {<<d, v>>} /\ v \in 1..MaxWrite + 1
LastOn(s, d, i) ==
    /\ i \in 1..Len(s) /\ Touches(s[i], d)
    /\ \A j \in 1..Len(s) : Touches(s[j], d) => j <= i
Ends(s, d, v, x) ==
    /\ \A i : LastOn(s, d, i) => Brings(s[i], d, v)
    /\ (\A i \in 1..Len(s) : ~Touches(s[i], d)) => x = v

LEMMA EndsTail ==
    ASSUME NEW s \in Seq(Messages), s # <<>>, NEW d, NEW v, NEW x, NEW y, Ends(s, d, v, x),
           Touches(Head(s), d) => \A u : Brings(Head(s), d, u) => y = u,
           ~Touches(Head(s), d) => y = x
    PROVE  Ends(Tail(s), d, v, y)
  <1>0. /\ Len(s) \in Nat /\ Len(s) >= 1 /\ s[1] = Head(s) /\ Len(Tail(s)) = Len(s) - 1
        /\ \A i \in 1..(Len(s) - 1) : Tail(s)[i] = s[i + 1] /\ i + 1 \in 1..Len(s)
        /\ \A j \in 1..Len(s) : j = 1 \/ j - 1 \in 1..(Len(s) - 1)
        /\ \A j \in 1..Len(s) : (j - 1) + 1 = j
    OBVIOUS
  <1>1. PICK h, t : h = Head(s) /\ t = Tail(s)
    OBVIOUS
  <1>2. /\ Len(s) \in Nat /\ Len(s) >= 1 /\ s[1] = h /\ Len(t) = Len(s) - 1
        /\ \A i \in 1..Len(t) : t[i] = s[i + 1] /\ i + 1 \in 1..Len(s)
        /\ \A j \in 1..Len(s) : j = 1 \/ (j - 1 \in 1..Len(t) /\ t[j - 1] = s[j])
    BY <1>0, <1>1
  <1>3. ASSUME NEW i, LastOn(t, d, i) PROVE Brings(t[i], d, v)
    <2>1. i \in 1..Len(t) /\ Touches(s[i + 1], d) /\ i + 1 \in 1..Len(s)
          /\ \A j \in 1..Len(t) : Touches(t[j], d) => j <= i
      BY <1>2, <1>3 DEF LastOn
    <2>2. ASSUME NEW j \in 1..Len(s), Touches(s[j], d) PROVE j <= i + 1
      <3>1. CASE j = 1
        BY <1>2, <2>1, <3>1
      <3>2. CASE j # 1
        <4>1. j - 1 \in 1..Len(t) /\ Touches(t[j - 1], d)
          BY <1>2, <2>2, <3>2
        <4>2. j - 1 <= i
          BY <2>1, <4>1
        <4> QED  BY <1>2, <2>1, <4>1, <4>2
      <3> QED  BY <3>1, <3>2
    <2>3. LastOn(s, d, i + 1)
      BY <2>1, <2>2 DEF LastOn
    <2> QED  BY <1>2, <2>1, <2>3 DEF Ends
  <1>4. ASSUME \A i \in 1..Len(t) : ~Touches(t[i], d) PROVE y = v
    <2>1. \A j \in 1..Len(s) : j # 1 => ~Touches(s[j], d)
      BY <1>2, <1>4
    <2>2. CASE Touches(h, d)
      <3>1. LastOn(s, d, 1)
        <4>1. 1 \in 1..Len(s) /\ \A j \in 1..Len(s) : j = 1 => j <= 1
          BY <1>2
        <4> QED  BY <1>2, <2>1, <2>2, <4>1 DEF LastOn
      <3>2. Brings(h, d, v)
        BY <1>2, <3>1 DEF Ends
      <3> QED  BY <1>1, <2>2, <3>2
    <2>3. CASE ~Touches(h, d)
      <3>1. \A j \in 1..Len(s) : ~Touches(s[j], d)
        BY <1>2, <2>1, <2>3
      <3> QED  BY <1>1, <2>3, <3>1 DEF Ends
    <2> QED  BY <2>2, <2>3
  <1>5. Ends(t, d, v, y)
    BY <1>3, <1>4 DEF Ends
  <1> QED  BY <1>1, <1>5

LEMMA EndsAppend ==
    ASSUME NEW s \in Seq(Messages), NEW a \in Messages, NEW d, NEW v, NEW x
    PROVE  /\ ~Touches(a, d) /\ Ends(s, d, v, x) => Ends(Append(s, a), d, v, x)
           /\ Touches(a, d) /\ Brings(a, d, v) => Ends(Append(s, a), d, v, x)
  <1>0. /\ Len(s) \in Nat /\ Len(Append(s, a)) = Len(s) + 1 /\ Append(s, a)[Len(s) + 1] = a
        /\ \A i \in 1..Len(s) : Append(s, a)[i] = s[i] /\ i \in 1..(Len(s) + 1)
        /\ \A i \in 1..(Len(s) + 1) : i \in 1..Len(s) \/ i = Len(s) + 1
        /\ Len(s) + 1 \in 1..(Len(s) + 1)
    OBVIOUS
  <1>1. PICK e : e = Append(s, a)
    OBVIOUS
  <1>2. /\ Len(s) \in Nat /\ Len(e) = Len(s) + 1 /\ e[Len(s) + 1] = a
        /\ \A i \in 1..Len(s) : e[i] = s[i] /\ i \in 1..Len(e)
        /\ \A i \in 1..Len(e) : i \in 1..Len(s) \/ i = Len(s) + 1
        /\ Len(s) + 1 \in 1..Len(e)
    BY <1>0, <1>1
  <1>3. ASSUME ~Touches(a, d), Ends(s, d, v, x) PROVE Ends(e, d, v, x)
    <2>1. ASSUME NEW i, LastOn(e, d, i) PROVE Brings(e[i], d, v)
      <3>1. i \in 1..Len(s) /\ e[i] = s[i]
        BY <1>2, <1>3, <2>1 DEF LastOn
      <3>2. LastOn(s, d, i)
        BY <1>2, <2>1, <3>1 DEF LastOn
      <3> QED  BY <1>3, <3>1, <3>2 DEF Ends
    <2>2. ASSUME \A i \in 1..Len(e) : ~Touches(e[i], d) PROVE x = v
      <3>1. \A i \in 1..Len(s) : ~Touches(s[i], d)
        BY <1>2, <2>2
      <3> QED  BY <1>3, <3>1 DEF Ends
    <2> QED  BY <2>1, <2>2 DEF Ends
  <1>4. ASSUME Touches(a, d), Brings(a, d, v) PROVE Ends(e, d, v, x)
    <2>1. ASSUME NEW i, LastOn(e, d, i) PROVE Brings(e[i], d, v)
      <3>1. i \in 1..Len(e) /\ Len(s) + 1 <= i
        BY <1>2, <1>4, <2>1 DEF LastOn
      <3>2. i = Len(s) + 1
        <4>1. i \in Int /\ i <= Len(s) + 1
          BY <1>2, <3>1
        <4> QED  BY <1>2, <3>1, <4>1
      <3> QED  BY <1>2, <1>4, <3>2
    <2>2. ~\A i \in 1..Len(e) : ~Touches(e[i], d)
      BY <1>2, <1>4
    <2> QED  BY <2>1, <2>2 DEF Ends
  <1> QED  BY <1>1, <1>3, <1>4

(* The last rows of a first load say so. *)
LastFin(s) ==
    \A i, j \in 1..Len(s) : s[i].t = "data" /\ s[j].t = "data" /\ s[i].fin => j <= i

LEMMA LastFinTail ==
    ASSUME NEW s \in Seq(Messages), s # <<>>, LastFin(s)
    PROVE  /\ LastFin(Tail(s))
           /\ Head(s).t = "data" /\ Head(s).fin =>
                 \A x : In(Tail(s), x) => x.t # "data"
  <1>0. /\ Len(s) \in Nat /\ s[1] = Head(s) /\ Len(Tail(s)) = Len(s) - 1
        /\ DOMAIN Tail(s) = 1..(Len(s) - 1) /\ 1 \in 1..Len(s)
        /\ \A i \in 1..(Len(s) - 1) : Tail(s)[i] = s[i + 1] /\ i + 1 \in 1..Len(s)
    OBVIOUS
  <1>1. PICK h, t : h = Head(s) /\ t = Tail(s)
    OBVIOUS
  <1>2. /\ Len(s) \in Nat /\ s[1] = h /\ Len(t) = Len(s) - 1 /\ DOMAIN t = 1..Len(t)
        /\ 1 \in 1..Len(s)
        /\ \A i \in 1..Len(t) : t[i] = s[i + 1] /\ i + 1 \in 1..Len(s)
    BY <1>0, <1>1
  <1>3. LastFin(t)
    <2> SUFFICES ASSUME NEW i \in 1..Len(t), NEW j \in 1..Len(t),
                        t[i].t = "data", t[j].t = "data", t[i].fin
                 PROVE  j <= i
      BY DEF LastFin
    <2>1. j + 1 <= i + 1
      BY <1>2 DEF LastFin
    <2> QED  BY <1>2, <2>1
  <1>4. ASSUME h.t = "data", h.fin, NEW x, In(t, x), x.t = "data" PROVE FALSE
    <2>1. PICK i \in 1..Len(t) : t[i] = x
      BY <1>2, <1>4 DEF In
    <2>2. i + 1 <= 1
      BY <1>2, <1>4, <2>1 DEF LastFin
    <2> QED  BY <1>2, <2>1, <2>2
  <1> QED  BY <1>1, <1>3, <1>4

LEMMA LastFinConcat ==
    ASSUME NEW s \in Seq(Messages), NEW u \in Seq(Messages),
           (\A x : In(s, x) => x.t # "data") \/ (\A x : In(u, x) => x.t # "data"),
           LastFin(s), LastFin(u)
    PROVE  LastFin(s \o u)
  <1>0. /\ Len(s) \in Nat /\ Len(u) \in Nat /\ Len(s \o u) = Len(s) + Len(u)
        /\ DOMAIN s = 1..Len(s) /\ DOMAIN u = 1..Len(u)
        /\ \A i \in 1..(Len(s) + Len(u)) : i <= Len(s) => i \in 1..Len(s) /\ (s \o u)[i] = s[i]
        /\ \A i \in 1..(Len(s) + Len(u)) : ~(i <= Len(s)) =>
              i - Len(s) \in 1..Len(u) /\ (s \o u)[i] = u[i - Len(s)]
    OBVIOUS
  <1>1. PICK e : e = s \o u
    OBVIOUS
  <1>2. /\ Len(s) \in Nat /\ Len(u) \in Nat /\ Len(e) = Len(s) + Len(u)
        /\ DOMAIN s = 1..Len(s) /\ DOMAIN u = 1..Len(u)
        /\ \A i \in 1..Len(e) : i <= Len(s) => i \in 1..Len(s) /\ e[i] = s[i]
        /\ \A i \in 1..Len(e) : ~(i <= Len(s)) =>
              i - Len(s) \in 1..Len(u) /\ e[i] = u[i - Len(s)]
    BY <1>0, <1>1
  <1>3. SUFFICES ASSUME NEW i \in 1..Len(e), NEW j \in 1..Len(e),
                        e[i].t = "data", e[j].t = "data", e[i].fin
                 PROVE  j <= i
    BY <1>1 DEF LastFin
  <1>4. CASE \A x : In(s, x) => x.t # "data"
    <2>1. ~(i <= Len(s)) /\ ~(j <= Len(s))
      BY <1>2, <1>3, <1>4 DEF In
    <2>2. j - Len(s) <= i - Len(s)
      BY <1>2, <1>3, <2>1 DEF LastFin
    <2> QED  BY <1>2, <2>2
  <1>5. CASE \A x : In(u, x) => x.t # "data"
    <2>1. i <= Len(s) /\ j <= Len(s)
      BY <1>2, <1>3, <1>5 DEF In
    <2> QED  BY <1>2, <1>3, <2>1 DEF LastFin
  <1> QED  BY <1>4, <1>5

LEMMA BringsOnly ==
    ASSUME NEW x \in Messages, x.t = "data", NEW d \in Ids, NEW v, Brings(x, d, v)
    PROVE  /\ v \in Nat /\ Touches(x, d)
           /\ \A e \in Ids : Touches(x, e) => e = d
           /\ \A u : Brings(x, d, u) => u = v
  <1>1. \A n \in 1..MaxWrite + 1 : n \in Nat
    BY NspAssumption
  <1>2. CASE x.dels = {d} /\ x.rows = {} /\ v = 0
    <2>1. \A u : Brings(x, d, u) => u = 0
      BY <1>2 DEF Brings
    <2> QED  BY <1>2, <2>1 DEF Touches
  <1>3. CASE x.dels = {} /\ x.rows = {<<d, v>>} /\ v \in 1..MaxWrite + 1
    <2>0. d \notin x.dels
      BY <1>3
    <2>1. ASSUME NEW u, Brings(x, d, u) PROVE u = v
      <3>1. x.rows = {<<d, u>>}
        BY <2>0, <2>1 DEF Brings
      <3>2. <<d, u>> \in {<<d, v>>}
        BY <1>3, <3>1
      <3> QED  BY <3>2
    <2>2. \A e, u : <<e, u>> \in x.rows => e = d
      BY <1>3
    <2>3. v \in Nat /\ <<d, v>> \in x.rows
      BY <1>1, <1>3
    <2> QED  BY <1>3, <2>1, <2>2, <2>3 DEF Touches
  <1> QED  BY <1>2, <1>3 DEF Brings

(* What whoever takes rows (nsp_server, nsp_read and nsp_write alike) has  *)
(* of a row then.                                                          *)
Taken(x, d, old) ==
    IF d \in x.dels THEN 0
    ELSE IF \E v \in 1..MaxWrite + 1 : <<d, v>> \in x.rows
         THEN CHOOSE v \in 1..MaxWrite + 1 : <<d, v>> \in x.rows
         ELSE old

LEMMA TakenIs ==
    ASSUME NEW x \in Messages, x.t = "data", NEW d \in Ids, NEW old
    PROVE  /\ ~Touches(x, d) => Taken(x, d, old) = old
           /\ \A v : Brings(x, d, v) => Taken(x, d, old) = v
  <1>1. \A n \in 1..MaxWrite + 1 : n \in Nat
    BY NspAssumption
  <1>2. ASSUME ~Touches(x, d) PROVE Taken(x, d, old) = old
    BY <1>1, <1>2 DEF Taken, Touches
  <1>3. ASSUME NEW v, Brings(x, d, v) PROVE Taken(x, d, old) = v
    <2>1. CASE x.dels = {d} /\ x.rows = {} /\ v = 0
      BY <2>1 DEF Taken
    <2>2. CASE x.dels = {} /\ x.rows = {<<d, v>>} /\ v \in 1..MaxWrite + 1
      <3>1. \A u \in 1..MaxWrite + 1 : <<d, u>> \in x.rows <=> u = v
        BY <2>2
      <3>2. (CHOOSE u \in 1..MaxWrite + 1 : <<d, u>> \in x.rows) = v
        BY <2>2, <3>1
      <3>3. \E u \in 1..MaxWrite + 1 : <<d, u>> \in x.rows
        BY <2>2, <3>1
      <3> QED  BY <2>2, <3>2, <3>3 DEF Taken
    <2> QED  BY <1>3, <2>1, <2>2 DEF Brings
  <1> QED  BY <1>2, <1>3

(* A handler's one message, and who gets it *)
LEMMA HandlerSends ==
    ASSUME TypeOK, NEW p \in Peers, NEW d \in Ids, Handler(p, d)
    PROVE  \E a \in Messages, v \in Nat :
              /\ a.t = "data" /\ ~a.first /\ Brings(a, d, v)
              /\ m_data' = [m_data EXCEPT ![p][d] = v]
              /\ \A m, n \in Nodes :
                    chan'[m][n] = IF m = p /\ n \in Audience(p, d) /\ Alive(n)
                                  THEN Append(chan[m][n], a) ELSE chan[m][n]
  <1>1. chan \in Chans /\ p \in Nodes /\ version \in 1..(MaxWrite + 1) /\ MaxWrite \in Nat
    BY TypeChans, NodesAre, NspAssumption DEF TypeOK
  <1>2. PICK erase \in BOOLEAN :
           /\ version <= MaxWrite
           /\ m_data' = [m_data EXCEPT ![p][d] = IF erase THEN 0 ELSE version + 1]
           /\ chan' = PutAll(chan, p, Audience(p, d),
                             <<IF erase THEN Data(FALSE, TRUE, {}, {d})
                               ELSE Data(FALSE, TRUE, {<<d, version + 1>>}, {})>>)
    BY DEF Handler, Audience
  <1>3. PICK v \in Nat : /\ v = IF erase THEN 0 ELSE version + 1
                         /\ ~erase => v \in 1..MaxWrite + 1
    BY <1>1, <1>2
  <1>4. PICK R \in SUBSET (Ids \X Nat) : R = IF erase THEN {} ELSE {<<d, v>>}
    <2>1. {<<d, v>>} \in SUBSET (Ids \X Nat) /\ {} \in SUBSET (Ids \X Nat)
      OBVIOUS
    <2> QED  BY <2>1
  <1>5. PICK D \in SUBSET Ids : D = IF erase THEN {d} ELSE {}
    OBVIOUS
  <1>6. PICK a \in Messages :
           /\ a = Data(FALSE, TRUE, R, D)
           /\ a.t = "data" /\ a.first = FALSE /\ a.rows = R /\ a.dels = D
    <2>1. FALSE \in BOOLEAN /\ TRUE \in BOOLEAN
      OBVIOUS
    <2>2. PICK f \in BOOLEAN, g \in BOOLEAN : f = FALSE /\ g = TRUE
      BY <2>1
    <2>3. PICK a : a = Data(f, g, R, D)
      OBVIOUS
    <2>4. a \in Messages /\ a.t = "data" /\ a.first = f /\ a.rows = R /\ a.dels = D
      BY <2>3, MessageKinds
    <2> QED  BY <2>2, <2>3, <2>4
  <1>7. chan' = PutAll(chan, p, Audience(p, d), <<a>>)
    <2>1. CASE erase
      BY <1>2, <1>4, <1>5, <1>6, <2>1
    <2>2. CASE ~erase
      BY <1>2, <1>3, <1>4, <1>5, <1>6, <2>2
    <2> QED  BY <2>1, <2>2
  <1>8. PICK S : S = Audience(p, d)
    OBVIOUS
  <1>9. \A m, n \in Nodes : chan'[m][n] = IF m = p /\ n \in S /\ Alive(n)
                                          THEN Append(chan[m][n], a) ELSE chan[m][n]
    <2>1. PICK e : e = chan'
      OBVIOUS
    <2>2. e = Put(chan, p, S, a)
      BY <1>7, <1>8, <2>1 DEF Put
    <2>3. Puts(chan, e, p, S, a)
      BY <1>1, <2>2, PutOneIn
    <2> QED  BY <2>1, <2>3 DEF Puts
  <1>10. Brings(a, d, v)
    <2>1. CASE erase
      BY <1>3, <1>4, <1>5, <1>6, <2>1 DEF Brings
    <2>2. CASE ~erase
      BY <1>3, <1>4, <1>5, <1>6, <2>2 DEF Brings
    <2> QED  BY <2>1, <2>2
  <1>11. m_data' = [m_data EXCEPT ![p][d] = v]
    BY <1>2, <1>3
  <1> QED  BY <1>6, <1>8, <1>9, <1>10, <1>11

(* What goes into the channels as a peer leaves *)
LEMMA ExitSends ==
    ASSUME TypeOK, NEW p \in Peers, Exit(p)
    PROVE  \A m, n \in Nodes : n # p =>
              \/ chan'[m][n] = chan[m][n]
              \/ \E a \in Messages :
                    /\ m = p /\ a.t # "data"
                    /\ \/ chan'[m][n] = Append(chan[m][n], a)
                       \/ \E b \in Messages :
                             /\ b.t # "data"
                             /\ chan'[m][n] = Append(Append(chan[m][n], a), b)
  <1> DEFINE heard == {q \in Peers : known[p][q] # "none"}
             announced == IF p \notin Writers THEN {}
                          ELSE {q \in heard : known[p][q] = "part" \/ q \in Writers}
  <1>1. chan \in Chans /\ p \in Nodes /\ Bye \in Messages /\ Sync(p, "part") \in Messages
        /\ Bye.t = "exit" /\ Sync(p, "part").t = "sync"
    BY TypeChans, NodesAre, MessageKinds DEF Scopes
  <1>2. PICK H : H = Reached(p, heard \cup {Server})
    OBVIOUS
  <1>3. PICK A : A = announced \cap Reached(p, announced \cup {Server})
    OBVIOUS
  <1>4. PICK a \in Messages, b \in Messages :
           a = Sync(p, "part") /\ b = Bye /\ a.t = "sync" /\ b.t = "exit"
    BY <1>1
  <1>5. PICK c1 : c1 = Put(chan, p, A, a)
    OBVIOUS
  <1>6. PICK c2 : c2 = Put(c1, p, H, b)
    OBVIOUS
  <1>7. Puts(chan, c1, p, A, a)
    BY <1>1, <1>5, PutOneIn
  <1>8. Puts(c1, c2, p, H, b)
    <2>1. c1 \in Chans
      BY <1>7 DEF Puts
    <2> QED  BY <1>1, <1>6, <2>1, PutOneIn
  <1>9. chan' = [m \in Nodes |-> [c2[m] EXCEPT ![p] = <<>>]]
    BY <1>2, <1>3, <1>4, <1>5, <1>6 DEF Exit, Sync, Bye, Put
  <1>10. \A m, n \in Nodes : n # p => chan'[m][n] = c2[m][n]
    BY <1>1, <1>8, <1>9 DEF Chans, Puts
  <1> HIDE DEF heard, announced
  <1> SUFFICES ASSUME NEW m \in Nodes, NEW n \in Nodes, n # p, chan'[m][n] # chan[m][n]
               PROVE  \E u \in Messages :
                         /\ m = p /\ u.t # "data"
                         /\ \/ chan'[m][n] = Append(chan[m][n], u)
                            \/ \E w \in Messages :
                                  /\ w.t # "data"
                                  /\ chan'[m][n] = Append(Append(chan[m][n], u), w)
    OBVIOUS
  <1>11. \/ c1[m][n] = chan[m][n]
         \/ m = p /\ c1[m][n] = Append(chan[m][n], a)
    BY <1>7 DEF Puts
  <1>12. \/ chan'[m][n] = c1[m][n]
         \/ m = p /\ chan'[m][n] = Append(c1[m][n], b)
    BY <1>8, <1>10 DEF Puts
  <1>13. a.t # "data" /\ b.t # "data"
    BY <1>4
  <1> QED  BY <1>11, <1>12, <1>13

LEMMA LastFinAppend ==
    ASSUME NEW s \in Seq(Messages), NEW a \in Messages, a.t # "data", LastFin(s)
    PROVE  LastFin(Append(s, a))
  <1>1. /\ Len(s) \in Nat /\ Len(Append(s, a)) = Len(s) + 1 /\ Append(s, a)[Len(s) + 1] = a
        /\ \A i \in 1..Len(s) : Append(s, a)[i] = s[i]
        /\ \A i \in 1..(Len(s) + 1) : i \in 1..Len(s) \/ i = Len(s) + 1
    OBVIOUS
  <1>2. PICK e : e = Append(s, a)
    OBVIOUS
  <1>3. SUFFICES ASSUME NEW i \in 1..Len(e), NEW j \in 1..Len(e),
                        e[i].t = "data", e[j].t = "data", e[i].fin
                 PROVE  j <= i
    BY <1>2 DEF LastFin
  <1>4. i \in 1..Len(s) /\ j \in 1..Len(s) /\ e[i] = s[i] /\ e[j] = s[j]
    BY <1>1, <1>2, <1>3
  <1> QED  BY <1>3, <1>4 DEF LastFin

LEMMA AnswerLastFin ==
    ASSUME rows \in [Ids -> Nat], care \subseteq Peers, NEW p \in Peers
    PROVE  LastFin(Answer(p))
  <1>1. PICK r \in Messages : r = Reply(care) /\ r.t = "reply"
    BY MessageKinds
  <1>2. PICK ds \in Seq(Ids) : ds = RowOrder(p)
    BY OrderLists
  <1>3. PICK c \in Seq(Messages) : c = Chunks(ds)
    BY ChunksOf
  <1>4. Answer(p) = <<r>> \o c
    BY <1>1, <1>2, <1>3 DEF Answer, Reply
  <1>5. PICK s \in Seq(Messages) :
           s = <<r>> /\ Len(s) = 1 /\ (\A x : In(s, x) => x.t # "data")
    <2>1. <<r>> \in Seq(Messages) /\ \A x : In(<<r>>, x) <=> x = r
      BY OneIn
    <2>2. \A x : In(<<r>>, x) => x.t # "data"
      BY <1>1, <2>1
    <2>3. Len(<<r>>) = 1
      OBVIOUS
    <2> QED  BY <2>1, <2>2, <2>3
  <1>6. LastFin(s)
    <2>1. \A i, j \in 1..Len(s) : j <= i
      BY <1>5
    <2> QED  BY <2>1 DEF LastFin
  <1>7. LastFin(c)
    <2> DEFINE m == esend_maxcount
               full == Len(ds) \div m
               Rows(k) == {<<ds[i], rows[ds[i]]>> :
                              i \in {j \in DOMAIN ds : (j - 1) \div m = k}}
    <2>1. m \in Nat \ {0} /\ Len(ds) \in Nat
      BY NspAssumption
    <2>2. PICK n \in Nat : n = full + 1
      <3>1. Len(ds) <= Len(ds)
        BY <2>1
      <3>2. full \in Nat
        BY <2>1, <3>1, Division
      <3> QED  BY <3>2
    <2>3. c = [k \in 1..n |-> Data(TRUE, k = n, Rows(k - 1), {})]
      BY <1>3, <2>2 DEF Chunks
    <2>4. DOMAIN c = 1..n /\ Len(c) = n
      <3>1. DOMAIN c = 1..n
        BY <2>3
      <3>2. DOMAIN c = 1..Len(c) /\ Len(c) \in Nat
        OBVIOUS
      <3> QED  BY <3>1, <3>2, <2>2
    <2>5. ASSUME NEW k \in 1..n, c[k].fin PROVE k = n
      <3>1. PICK R : R = Rows(k - 1)
        OBVIOUS
      <3>2. c[k] = Data(TRUE, k = n, R, {})
        BY <2>3, <3>1
      <3>3. PICK b : b = (k = n)
        OBVIOUS
      <3>4. c[k].fin = b
        BY <3>2, <3>3 DEF Data
      <3> QED  BY <2>5, <3>3, <3>4
    <2> QED  BY <2>2, <2>4, <2>5 DEF LastFin
  <1>8. LastFin(s \o c)
    BY <1>5, <1>6, <1>7, LastFinConcat
  <1> QED  BY <1>4, <1>5, <1>8

(* What the server sends for a registration, and after what *)
LEMMA RegisterSends ==
    ASSUME TypeOK, NEW p \in Peers, ServerRegister(p), p \notin care
    PROVE  /\ \/ chan'[Server][p] = chan[Server][p]
              \/ Alive(p) /\ chan'[Server][p] = chan[Server][p] \o Answer(p)
           /\ \A n \in Peers : n # p =>
                 \/ chan'[Server][n] = chan[Server][n]
                 \/ chan'[Server][n] = Append(chan[Server][n], Sync(p, Full(p)))
  <1>19. chan \in Chans /\ rows \in [Ids -> Nat] /\ care \subseteq Peers
    BY TypeChans DEF TypeOK
  <1>20. Sync(p, Full(p)) \in Messages
    BY MessageKinds, FullScope
  <1>1. /\ chan \in Chans /\ p \in Nodes /\ Sync(p, Full(p)) \in Messages /\ Server \in Nodes
        /\ rows \in [Ids -> Nat] /\ care \subseteq Peers /\ Server # p /\ Peers \subseteq Nodes
    BY <1>19, <1>20, NodesAre
  <1>2. chan[p][Server] # <<>>
    BY DEF ServerRegister, Get
  <1>3. PICK ms \in Seq(Messages) : ms = Answer(p)
    BY <1>1, AnswerHolds
  <1>4. PICK c0 : c0 = Take(p, Server)
    OBVIOUS
  <1>5. PICK A : A = {p} \cap addressed
    OBVIOUS
  <1>6. PICK B : B = addressed \cap Reached(Server, care)
    OBVIOUS
  <1>18. B \subseteq care
    BY <1>6, ReachedIs
  <1>7. PICK c1 : c1 = PutAll(c0, Server, A, ms)
    OBVIOUS
  <1>8. PICK a \in Messages : a = Sync(p, Full(p))
    BY <1>1
  <1>9. PICK e : e = chan' /\ e = Put(c1, Server, B, a)
    BY <1>8, <1>3, <1>4, <1>5, <1>6, <1>7 DEF ServerRegister, Sync, Put
  <1>10. /\ c0 \in Chans
         /\ \A m, n \in Nodes :
               c0[m][n] = IF m = p /\ n = Server THEN Tail(chan[m][n]) ELSE chan[m][n]
    BY <1>1, <1>2, <1>4, TakeIn
  <1>11. /\ c1 \in Chans
         /\ \A m, n \in Nodes :
               c1[m][n] = IF m = Server /\ n \in A /\ Alive(n) THEN c0[m][n] \o ms ELSE c0[m][n]
    BY <1>1, <1>7, <1>10, PutAllIn
  <1>12. Puts(c1, e, Server, B, a)
    BY <1>1, <1>9, <1>11, PutOneIn
  <1>13. \A n \in Nodes :
            chan'[Server][n] = IF n \in B /\ Alive(n) THEN Append(c1[Server][n], a)
                               ELSE c1[Server][n]
    BY <1>1, <1>9, <1>12 DEF Puts
  <1>14. \A n \in Nodes :
            c1[Server][n] = IF n \in A /\ Alive(n) THEN chan[Server][n] \o ms
                            ELSE chan[Server][n]
    BY <1>1, <1>10, <1>11
  <1>15. p \notin B /\ \A n \in Peers : n # p => n \notin A
    BY <1>5, <1>18
  <1>16. \/ chan'[Server][p] = chan[Server][p]
         \/ Alive(p) /\ chan'[Server][p] = chan[Server][p] \o Answer(p)
    BY <1>1, <1>3, <1>13, <1>14, <1>15
  <1>17. \A n \in Peers : n # p =>
            \/ chan'[Server][n] = chan[Server][n]
            \/ chan'[Server][n] = Append(chan[Server][n], Sync(p, Full(p)))
    BY <1>1, <1>8, <1>13, <1>14, <1>15
  <1> QED  BY <1>16, <1>17

-----------------------------------------------------------------------------
(* Where no two peers may write one row: its last change, and what is      *)
(* before it.                                                              *)

(* A peer is known with its whole scope, until it leaves. *)
Scoped == \A r, q \in Peers : Up(q) => known[r][q] \in {"none", Full(q)}
(* Rows of a peer are one change of a row that it may write. *)
Sole ==
    \A r \in Peers, n \in Nodes, x \in Messages : Way(r, n, x) /\ x.t = "data" =>
        n # r /\ \E d \in Ids, v \in Nat : MayWrite(r, d) /\ Brings(x, d, v)
(* A peer gets one first load, and knows when it has all of it. *)
LoadedOnce ==
    /\ \A q \in Peers : LastFin(chan[Server][q])
    /\ \A q \in m_loadfinish, x \in Messages : Way(Server, q, x) => x.t # "data"
(* A change is owed to loaded peers that keep the row. *)
Owners ==
    \A d \in Ids, q \in Peers : q \in promised[d] /\ Up(q) =>
        q \in m_loadfinish /\ Cares(q, Full(q), d)
(* Changes owed to the server are taken by it: their writer is registered  *)
(* until its last message. *)
Listens ==
    \A w \in Peers, d \in Ids : MayWrite(w, d) /\ Server \in promised[d] =>
        w \in care \/ (~Up(w) /\ chan[w][Server] = <<>>)
(* n has version v of the row, or will once the writer's messages are      *)
(* delivered.                                                              *)
Version(n, d) == IF n = Server THEN rows[d] ELSE m_data[n][d]
At(w, n, d, v) ==
    Alive(n) => IF n = w THEN Version(n, d) = v
                ELSE Ends(chan[w][n], d, v, Version(n, d))
Arrives ==
    \A d \in Ids : promised[d] # {} =>
        \E w \in Peers, v \in Nat : MayWrite(w, d) /\ \A n \in promised[d] : At(w, n, d, v)

Last == Scoped /\ Sole /\ LoadedOnce /\ Owners /\ Listens /\ Arrives

LEMMA ScopedStep ==
    ASSUME TypeOK, Talk, Scoped, [Next]_vars
    PROVE  Scoped'
  <1>1. ASSUME UNCHANGED <<life, known>> PROVE Scoped'
    BY <1>1 DEF Scoped, Up
  <1>2. ASSUME NEW p \in Peers, Exit(p) PROVE Scoped'
    <2>1. /\ \A r, q \in Peers : known'[r][q] = IF r = p THEN "none" ELSE known[r][q]
          /\ \A q \in Peers : Up(q)' => Up(q)
      BY <1>2 DEF Exit, TypeOK, Up
    <2> QED  BY <2>1 DEF Scoped
  <1>3. ASSUME NEW p \in Peers, NEW d \in Ids, Handler(p, d) PROVE UNCHANGED <<life, known>>
    BY <1>3, HandlerDoes
  <1>4. ASSUME NEW p \in Peers, PeerReply(p) PROVE Scoped'
    <2>1. PICK S : S = Head(chan[Server][p]).care
      OBVIOUS
    <2>2. /\ life' = life
          /\ \A r, q \in Peers : known'[r][q] = IF r = p /\ q \in S THEN Full(q)
                                                ELSE known[r][q]
      BY <1>4, <2>1 DEF PeerReply, TypeOK
    <2> QED  BY <2>2 DEF Scoped, Up
  <1>5. ASSUME NEW p \in Peers, NEW from \in Nodes, PeerSync(p, from) PROVE Scoped'
    <2>1. PICK h : h = Head(chan[from][p])
      OBVIOUS
    <2>2. /\ life' = life /\ h.t = "sync" /\ chan[from][p] # <<>>
          /\ known' = [known EXCEPT ![p][h.peer] = h.scope]
      BY <1>5, <2>1 DEF PeerSync, Get
    <2>3. Delivers(from, p)
      BY <1>5, <2>2, NodesAre DEF PeerSync, Delivers
    <2>4. h \in Messages /\ Way(from, p, h)
      BY <2>1, <2>3, DeliverDoes
    <2>5. Up(h.peer) => h.scope = Full(h.peer)
      <3>1. CASE from = Server
        BY <2>2, <2>4, <3>1, NodesAre DEF Talk, Announced
      <3>2. CASE from \in Peers
        BY <2>2, <2>4, <3>2, NodesAre DEF Talk, Farewells
      <3> QED  BY <3>1, <3>2 DEF Nodes
    <2>6. \A r, q \in Peers : known'[r][q] = IF r = p /\ q = h.peer THEN h.scope
                                             ELSE known[r][q]
      BY <2>2 DEF TypeOK
    <2> QED  BY <2>2, <2>5, <2>6 DEF Scoped, Up
  <1>6. ASSUME NEW p \in Peers, NEW from \in Nodes, PeerExit(p, from) PROVE Scoped'
    <2>1. /\ life' = life
          /\ \A r, q \in Peers : known'[r][q] = "none" \/ known'[r][q] = known[r][q]
      BY <1>6 DEF PeerExit, TypeOK
    <2> QED  BY <2>1 DEF Scoped, Up
  <1>7. ASSUME NEW p \in Peers,
               \/ LearnAddress(p) \/ Check(p)
               \/ ServerDeliver(p)
               \/ \E from \in Nodes : PeerData(p, from)
        PROVE  UNCHANGED <<life, known>>
    BY <1>7 DEF LearnAddress, Check, ServerDeliver, ServerRegister, ServerData, ServerExit,
                PeerData, peerVars
  <1>8. CASE UNCHANGED vars
    BY <1>1, <1>8 DEF vars
  <1>9. CASE Next
    BY <1>1, <1>2, <1>3, <1>4, <1>5, <1>6, <1>7, <1>9 DEF Next, PeerDeliver
  <1> QED  BY <1>8, <1>9

(* Every step but a handler's *)
NobodyChanges(d) == \A p \in Peers : ~Handler(p, d)

LEMMA NoNewRows ==
    ASSUME TypeOK, [Next]_vars, \A d \in Ids : NobodyChanges(d)
    PROVE  /\ \A r \in Peers, n \in Nodes, x \in Messages :
                 Way(r, n, x)' /\ x.t = "data" => Way(r, n, x)
           /\ promised' = promised
  <1> DEFINE Goal == /\ \A r \in Peers, n \in Nodes, x \in Messages :
                           Way(r, n, x)' /\ x.t = "data" => Way(r, n, x)
                     /\ promised' = promised
  <1>1. ASSUME UNCHANGED <<chan, promised>> PROVE Goal
    BY <1>1 DEF Way
  <1>2. ASSUME NEW from, NEW to, Delivers(from, to), UNCHANGED promised PROVE Goal
    BY <1>2, DeliverDoes, NodesAre
  <1>3. ASSUME NEW p \in Peers, Check(p) PROVE Goal
    <2>1. UNCHANGED promised
      BY <1>3 DEF Check, auxVars
    <2> QED  BY <1>3, <2>1, CheckDoes, NodesAre, MessageKinds
  <1>4. ASSUME NEW p \in Peers, Exit(p) PROVE Goal
    <2>1. UNCHANGED promised
      BY <1>4 DEF Exit, auxVars
    <2>2. Bye.t # "data" /\ Sync(p, "part").t # "data"
      BY MessageKinds DEF Scopes
    <2>3. \A m, n \in Nodes : \A x :
                 Way(m, n, x)' => Way(m, n, x) \/ x = Bye \/ x = Sync(p, "part")
      BY <1>4, ExitDoes
    <2> QED  BY <2>1, <2>2, <2>3, NodesAre
  <1>5. ASSUME NEW p \in Peers, ServerRegister(p) PROVE Goal
    <2>1. UNCHANGED promised
      BY <1>5 DEF ServerRegister, auxVars
    <2>2. CASE p \in care
      <3>1. Delivers(p, Server)
        BY <1>5, <2>2, NodesAre DEF ServerRegister, Get, Delivers
      <3> QED  BY <1>2, <2>1, <3>1
    <2>3. CASE p \notin care
      <3>1. \A m, n \in Nodes : \A x : Way(m, n, x)' => Way(m, n, x) \/ m = Server
        BY <1>5, <2>3, RegisterDoes
      <3> QED  BY <2>1, <3>1, NodesAre
    <2> QED  BY <2>2, <2>3
  <1>6. ASSUME NEW p \in Peers, ServerData(p) PROVE Goal
    <2>1. Delivers(p, Server) /\ UNCHANGED promised
      BY <1>6, NodesAre DEF ServerData, Get, Delivers, auxVars
    <2> QED  BY <1>2, <2>1
  <1>7. ASSUME NEW p \in Peers, ServerExit(p) PROVE Goal
    <2>1. Delivers(p, Server) /\ UNCHANGED promised
      BY <1>7, NodesAre DEF ServerExit, Get, Delivers, auxVars
    <2> QED  BY <1>2, <2>1
  <1>8. ASSUME NEW p \in Peers, NEW from \in Nodes, PeerDeliver(p, from) PROVE Goal
    <2>1. Delivers(from, p) /\ UNCHANGED promised
      BY <1>8, NodesAre
         DEF PeerDeliver, PeerReply, PeerSync, PeerExit, PeerData, Get, Delivers, auxVars
    <2> QED  BY <1>2, <2>1
  <1>9. ASSUME NEW p \in Peers, LearnAddress(p) PROVE Goal
    BY <1>1, <1>9 DEF LearnAddress, auxVars
  <1>10. CASE UNCHANGED vars
    BY <1>1, <1>10 DEF vars, auxVars
  <1>11. CASE Next
    <2> HIDE DEF Goal
    <2>1. Goal
      BY <1>3, <1>4, <1>5, <1>6, <1>7, <1>8, <1>9, <1>11 DEF Next, ServerDeliver, NobodyChanges
    <2> QED  BY <2>1 DEF Goal
  <1> QED  BY <1>10, <1>11

LEMMA SoleStep ==
    ASSUME TypeOK, Sole, [Next]_vars
    PROVE  Sole'
  <1>1. CASE \A d \in Ids : NobodyChanges(d)
    <2>1. \A r \in Peers, n \in Nodes, x \in Messages :
              Way(r, n, x)' /\ x.t = "data" => Way(r, n, x)
      BY <1>1, NoNewRows
    <2> QED  BY <2>1 DEF Sole
  <1>2. ASSUME NEW d \in Ids, NEW p \in Peers, Handler(p, d) PROVE Sole'
    <2>1. PICK a \in Messages, v \in Nat :
              /\ Brings(a, d, v)
              /\ \A m, n \in Nodes :
                    chan'[m][n] = IF m = p /\ n \in Audience(p, d) /\ Alive(n)
                                  THEN Append(chan[m][n], a) ELSE chan[m][n]
      BY <1>2, HandlerSends
    <2>2. MayWrite(p, d)
      BY <1>2 DEF Handler
    <2>3. p \notin Audience(p, d)
      BY AudienceIs
    <2>4. ASSUME NEW r \in Peers, NEW n \in Nodes, NEW x, Way(r, n, x)'
          PROVE  Way(r, n, x) \/ (r = p /\ n # r /\ x = a)
      <3>1. PICK s \in Seq(Messages) : s = chan[r][n]
        BY TypeChans, NodesAre DEF Chans
      <3>2. \A y : In(Append(s, a), y) => In(s, y) \/ y = a
        <4>1. <<a>> \in Seq(Messages) /\ \A y : In(<<a>>, y) <=> y = a
          BY OneIn
        <4>2. \A y : In(s \o <<a>>, y) <=> In(s, y) \/ In(<<a>>, y)
          BY <4>1, ConcatIn
        <4>3. Append(s, a) = s \o <<a>>
          OBVIOUS
        <4> QED  BY <4>1, <4>2, <4>3
      <3>3. chan'[r][n] = chan[r][n] \/ (r = p /\ n # p /\ chan'[r][n] = Append(s, a))
        BY <2>1, <2>3, <3>1, NodesAre
      <3> QED  BY <2>4, <3>1, <3>2, <3>3 DEF Way
    <2> QED  BY <2>1, <2>2, <2>4 DEF Sole
  <1> QED  BY <1>1, <1>2 DEF NobodyChanges

LEMMA OnceTail ==
    ASSUME TypeOK, Load, LoadedOnce, NEW from \in Nodes, NEW p \in Peers, Delivers(from, p),
           NEW h, h = Head(chan[from][p]),
           \/ m_loadfinish' = m_loadfinish
           \/ h.t = "data" /\ h.first /\ h.fin /\ m_loadfinish' = m_loadfinish \cup {p}
    PROVE  LoadedOnce'
  <1>1. /\ h \in Messages /\ Way(from, p, h)
        /\ \A m, n \in Nodes : \A x : Way(m, n, x)' => Way(m, n, x)
        /\ \A m, n \in Nodes : chan'[m][n] = IF m = from /\ n = p THEN Tail(chan[m][n])
                                             ELSE chan[m][n]
    BY DeliverDoes
  <1>2. PICK s \in Seq(Messages) : s = chan[Server][p]
    BY TypeChans, NodesAre DEF Chans
  <1>3. LastFin(s)
    BY <1>2 DEF LoadedOnce
  <1>4. ASSUME NEW q \in Peers PROVE LastFin(chan'[Server][q])
    <2>1. CASE from = Server /\ q = p
      <3>1. s # <<>>
        BY <1>2, <2>1 DEF Delivers
      <3>2. LastFin(Tail(s))
        BY <1>3, <3>1, LastFinTail
      <3> QED  BY <1>1, <1>2, <2>1, <3>2, NodesAre
    <2>2. CASE ~(from = Server /\ q = p)
      <3>1. chan'[Server][q] = chan[Server][q]
        BY <1>1, <2>2, NodesAre
      <3> QED  BY <3>1 DEF LoadedOnce
    <2> QED  BY <2>1, <2>2
  <1>5. ASSUME NEW q \in m_loadfinish', NEW x \in Messages, Way(Server, q, x)'
        PROVE  x.t # "data"
    <2>1. CASE q \in m_loadfinish
      <3>1. q \in Peers
        BY <2>1 DEF TypeOK
      <3>2. Way(Server, q, x)
        BY <1>1, <1>5, <3>1, NodesAre
      <3> QED  BY <2>1, <3>2 DEF LoadedOnce
    <2>2. CASE q \notin m_loadfinish
      <3>1. q = p /\ h.t = "data" /\ h.first /\ h.fin
        BY <1>5, <2>2
      <3>2. from = Server
        BY <1>1, <3>1 DEF Load, FromPeers, Nodes
      <3>3. s # <<>> /\ h = Head(s)
        BY <1>2, <3>2 DEF Delivers
      <3>4. \A y : In(Tail(s), y) => y.t # "data"
        BY <1>3, <3>1, <3>3, LastFinTail
      <3>5. chan'[Server][p] = Tail(s)
        BY <1>1, <1>2, <3>2, NodesAre
      <3> QED  BY <1>5, <3>1, <3>4, <3>5 DEF Way
    <2> QED  BY <2>1, <2>2
  <1> QED  BY <1>4, <1>5 DEF LoadedOnce

LEMMA LoadedOnceStep ==
    ASSUME TypeOK, Talk, Load, LoadedOnce, [Next]_vars
    PROVE  LoadedOnce'
  <1>1. ASSUME UNCHANGED m_loadfinish, \A q \in Peers : chan'[Server][q] = chan[Server][q]
        PROVE  LoadedOnce'
    <2>1. \A q \in m_loadfinish : q \in Peers
      BY DEF TypeOK
    <2> QED  BY <1>1, <2>1 DEF LoadedOnce, Way
  <1>2. ASSUME NEW p \in Peers, Delivers(p, Server), UNCHANGED m_loadfinish PROVE LoadedOnce'
    <2>1. \A q \in Peers : chan'[Server][q] = chan[Server][q]
      BY <1>2, DeliverDoes, NodesAre
    <2> QED  BY <1>1, <1>2, <2>1
  <1>3. ASSUME NEW p \in Peers, Check(p) PROVE LoadedOnce'
    <2>1. UNCHANGED m_loadfinish
      BY <1>3 DEF Check, peerVars
    <2>2. \A m, n \in Nodes : m # p => chan'[m][n] = chan[m][n]
      BY <1>3, CheckDoes
    <2> QED  BY <1>1, <2>1, <2>2, NodesAre
  <1>4. ASSUME NEW p \in Peers, NEW d \in Ids, Handler(p, d) PROVE LoadedOnce'
    <2>1. UNCHANGED m_loadfinish
      BY <1>4, HandlerDoes
    <2>2. \A m, n \in Nodes : m # p => chan'[m][n] = chan[m][n]
      BY <1>4, HandlerDoes
    <2> QED  BY <1>1, <2>1, <2>2, NodesAre
  <1>5. ASSUME NEW p \in Peers, Exit(p) PROVE LoadedOnce'
    <2>1. m_loadfinish' = m_loadfinish \ {p}
      BY <1>5 DEF Exit
    <2>2. /\ \A m \in Nodes : chan'[m][p] = <<>>
          /\ \A m, n \in Nodes : m # p /\ n # p => chan'[m][n] = chan[m][n]
      BY <1>5, ExitDoes
    <2>3. \A q \in Peers : q # p => chan'[Server][q] = chan[Server][q]
      BY <2>2, NodesAre
    <2>4. LastFin(<<>>)
      <3>1. \A i \in 1..Len(<<>>) : FALSE
        OBVIOUS
      <3> QED  BY <3>1 DEF LastFin
    <2>5. \A q \in Peers : LastFin(chan'[Server][q])
      BY <2>2, <2>3, <2>4, NodesAre DEF LoadedOnce
    <2>6. ASSUME NEW q \in m_loadfinish', NEW x \in Messages, Way(Server, q, x)'
          PROVE  x.t # "data"
      <3>1. q \in Peers /\ q # p /\ q \in m_loadfinish
        BY <2>1, <2>6 DEF TypeOK
      <3> QED  BY <2>3, <2>6, <3>1 DEF LoadedOnce, Way
    <2> QED  BY <2>5, <2>6 DEF LoadedOnce
  <1>6. ASSUME NEW p \in Peers, ServerRegister(p) PROVE LoadedOnce'
    <2>1. UNCHANGED <<m_loadfinish, life>>
      BY <1>6 DEF ServerRegister, peerVars
    <2>2. CASE p \in care
      <3>1. Delivers(p, Server)
        BY <1>6, <2>2, NodesAre DEF ServerRegister, Get, Delivers
      <3> QED  BY <1>2, <2>1, <3>1
    <2>3. CASE p \notin care
      <3>1. /\ \/ chan'[Server][p] = chan[Server][p]
               \/ Alive(p) /\ chan'[Server][p] = chan[Server][p] \o Answer(p)
            /\ \A n \in Peers : n # p =>
                  \/ chan'[Server][n] = chan[Server][n]
                  \/ chan'[Server][n] = Append(chan[Server][n], Sync(p, Full(p)))
        BY <1>6, <2>3, RegisterSends
      <3>2. PICK a \in Messages : a = Sync(p, Full(p)) /\ a.t = "sync"
        BY MessageKinds, FullScope
      <3>3. \A q \in Peers : chan[Server][q] \in Seq(Messages) /\ LastFin(chan[Server][q])
        BY TypeChans, NodesAre DEF LoadedOnce, Chans
      <3>4. ASSUME NEW q \in Peers, q # p
            PROVE  /\ LastFin(chan'[Server][q])
                   /\ \A x : Way(Server, q, x)' => Way(Server, q, x) \/ x.t # "data"
        <4>1. CASE chan'[Server][q] = chan[Server][q]
          BY <3>3, <4>1 DEF Way
        <4>2. CASE chan'[Server][q] = Append(chan[Server][q], a)
          <5>1. PICK s \in Seq(Messages) : s = chan[Server][q] /\ LastFin(s)
            BY <3>3
          <5>2. LastFin(Append(s, a))
            BY <3>2, <5>1, LastFinAppend
          <5>3. <<a>> \in Seq(Messages) /\ \A y : In(<<a>>, y) <=> y = a
            BY OneIn
          <5>4. \A y : In(s \o <<a>>, y) <=> In(s, y) \/ In(<<a>>, y)
            BY <5>3, ConcatIn
          <5>5. Append(s, a) = s \o <<a>>
            OBVIOUS
          <5> QED  BY <3>2, <4>2, <5>1, <5>2, <5>3, <5>4, <5>5 DEF Way
        <4> QED  BY <3>1, <3>2, <3>4, <4>1, <4>2
      <3>5. CASE chan'[Server][p] = chan[Server][p]
        <4>1. \A q \in Peers : /\ LastFin(chan'[Server][q])
                               /\ \A x : Way(Server, q, x)' => Way(Server, q, x) \/ x.t # "data"
          BY <3>3, <3>4, <3>5 DEF Way
        <4>2. \A q \in m_loadfinish : q \in Peers
          BY DEF TypeOK
        <4> QED  BY <2>1, <4>1, <4>2 DEF LoadedOnce
      <3>6. CASE Alive(p) /\ chan'[Server][p] = chan[Server][p] \o Answer(p)
        <4>1. Up(p) /\ ~Started(p)
          <5>1. Up(p)
            BY <3>6, NodesAre DEF Alive, Up
          <5> QED  BY <2>3, <5>1 DEF Load, StartedListed
        <4>2. PICK s \in Seq(Messages) : s = chan[Server][p] /\ LastFin(s)
          BY <3>3
        <4>3. \A x : In(s, x) => x \in Messages
          BY DEF In
        <4>4. \A x : In(s, x) => x.t # "data"
          BY <4>1, <4>2, <4>3 DEF Started, Way
        <4>5. PICK u \in Seq(Messages) : u = Answer(p) /\ LastFin(u)
          BY AnswerHolds, AnswerLastFin DEF TypeOK
        <4>6. LastFin(s \o u)
          BY <4>2, <4>4, <4>5, LastFinConcat
        <4>7. LastFin(chan'[Server][p])
          BY <3>6, <4>2, <4>5, <4>6
        <4>8. p \notin m_loadfinish
          BY <4>1 DEF Started
        <4>9. \A q \in m_loadfinish : q \in Peers /\ q # p
          BY <4>8 DEF TypeOK
        <4> QED  BY <2>1, <3>4, <4>7, <4>9 DEF LoadedOnce
      <3> QED  BY <3>1, <3>5, <3>6
    <2> QED  BY <2>2, <2>3
  <1>7. ASSUME NEW p \in Peers, ServerData(p) PROVE LoadedOnce'
    <2>1. Delivers(p, Server) /\ UNCHANGED m_loadfinish
      BY <1>7, NodesAre DEF ServerData, Get, Delivers, peerVars
    <2> QED  BY <1>2, <2>1
  <1>8. ASSUME NEW p \in Peers, ServerExit(p) PROVE LoadedOnce'
    <2>1. Delivers(p, Server) /\ UNCHANGED m_loadfinish
      BY <1>8, NodesAre DEF ServerExit, Get, Delivers, peerVars
    <2> QED  BY <1>2, <2>1
  <1>9. ASSUME NEW p \in Peers, NEW from \in Nodes, PeerDeliver(p, from) PROVE LoadedOnce'
    <2>1. PICK h : h = Head(chan[from][p])
      OBVIOUS
    <2>2. Delivers(from, p)
      BY <1>9, NodesAre
         DEF PeerDeliver, PeerReply, PeerSync, PeerExit, PeerData, Get, Delivers
    <2>3. \/ m_loadfinish' = m_loadfinish
          \/ h.t = "data" /\ h.first /\ h.fin /\ m_loadfinish' = m_loadfinish \cup {p}
      BY <1>9, <2>1 DEF PeerDeliver, PeerReply, PeerSync, PeerExit, PeerData, Get
    <2> QED  BY <2>1, <2>2, <2>3, OnceTail
  <1>10. ASSUME NEW p \in Peers, LearnAddress(p) PROVE LoadedOnce'
    BY <1>1, <1>10 DEF LearnAddress, peerVars
  <1>11. CASE UNCHANGED vars
    BY <1>1, <1>11 DEF vars
  <1>12. CASE Next
    BY <1>3, <1>4, <1>5, <1>6, <1>7, <1>8, <1>9, <1>10, <1>12 DEF Next, ServerDeliver
  <1> QED  BY <1>11, <1>12

LEMMA LivesOn ==
    ASSUME TypeOK, [Next]_vars
    PROVE  \A q \in Peers : /\ Up(q)' => Up(q)
                            /\ Up(q)' /\ q \in m_loadfinish => q \in m_loadfinish'
  <1> DEFINE Goal == \A q \in Peers : /\ Up(q)' => Up(q)
                                      /\ Up(q)' /\ q \in m_loadfinish => q \in m_loadfinish'
  <1>1. ASSUME life' = life, m_loadfinish \subseteq m_loadfinish' PROVE Goal
    BY <1>1 DEF Up
  <1>2. ASSUME NEW p \in Peers, Exit(p) PROVE Goal
    <2>1. /\ m_loadfinish' = m_loadfinish \ {p}
          /\ \A q \in Peers : life'[q] = IF q = p THEN "gone" ELSE life[q]
      BY <1>2 DEF Exit, TypeOK
    <2> QED  BY <2>1 DEF Up
  <1>3. ASSUME NEW p \in Peers, NEW d \in Ids, Handler(p, d) PROVE Goal
    BY <1>1, <1>3, HandlerDoes
  <1>4. ASSUME NEW p \in Peers, NEW from \in Nodes, PeerDeliver(p, from) PROVE Goal
    <2>1. life' = life /\ m_loadfinish \subseteq m_loadfinish'
      BY <1>4 DEF PeerDeliver, PeerReply, PeerSync, PeerExit, PeerData
    <2> QED  BY <1>1, <2>1
  <1>5. ASSUME NEW p \in Peers, LearnAddress(p) \/ Check(p) \/ ServerDeliver(p) PROVE Goal
    <2>1. life' = life /\ m_loadfinish' = m_loadfinish
      BY <1>5 DEF LearnAddress, Check, ServerDeliver, ServerRegister, ServerData, ServerExit,
                  peerVars
    <2> QED  BY <1>1, <2>1
  <1>6. CASE UNCHANGED vars
    BY <1>1, <1>6 DEF vars
  <1>7. CASE Next
    <2> HIDE DEF Goal
    <2>1. Goal
      BY <1>2, <1>3, <1>4, <1>5, <1>7 DEF Next
    <2> QED  BY <2>1 DEF Goal
  <1> QED  BY <1>6, <1>7

LEMMA OwnersStep ==
    ASSUME TypeOK, Owners, [Next]_vars
    PROVE  Owners'
  <1>1. SUFFICES ASSUME NEW d \in Ids, NEW q \in Peers, q \in promised'[d], Up(q)'
                 PROVE  q \in m_loadfinish' /\ Cares(q, Full(q), d)
    BY DEF Owners
  <1>2. Up(q) /\ (q \in m_loadfinish => q \in m_loadfinish')
    BY <1>1, LivesOn
  <1>3. CASE promised'[d] = promised[d]
    BY <1>1, <1>2, <1>3 DEF Owners
  <1>4. ASSUME NEW e \in Ids, NEW p \in Peers, Handler(p, e), promised'[d] # promised[d]
        PROVE  q \in m_loadfinish /\ Cares(q, Full(q), d)
    <2>1. promised' = [promised EXCEPT ![e] = Owes(p, e)]
      BY <1>4, HandlerDoes
    <2>2. d = e /\ q \in Owed(p, d)
      BY <1>1, <1>4, <2>1 DEF TypeOK, Owes
    <2> QED  BY <2>2, NodesAre DEF Owed
  <1>5. CASE \A e \in Ids : NobodyChanges(e)
    BY <1>3, <1>5, NoNewRows
  <1> QED  BY <1>2, <1>3, <1>4, <1>5 DEF NobodyChanges

LEMMA ListensStep ==
    ASSUME OneWriter, TypeOK, Talk, ExitLast, Listens, [Next]_vars
    PROVE  Listens'
  <1>1. ASSUME UNCHANGED promised, care \subseteq care',
               \A w \in Peers : Up(w)' => Up(w),
               \A w \in Peers : \/ Up(w)
                                \/ chan[w][Server] # <<>>
                                \/ chan'[w][Server] = chan[w][Server]
        PROVE  Listens'
    <2>1. ASSUME NEW w \in Peers, ~Up(w), chan[w][Server] = <<>>
          PROVE  ~Up(w)' /\ chan'[w][Server] = <<>>
      BY <1>1, <2>1
    <2> QED  BY <1>1, <2>1 DEF Listens
  <1>2. ASSUME NEW from \in Nodes, NEW to \in Nodes, Delivers(from, to),
               UNCHANGED <<promised, life>>, care \subseteq care'
        PROVE  Listens'
    <2>1. \A w \in Peers : chan[w][Server] # <<>> \/ chan'[w][Server] = chan[w][Server]
      BY <1>2, DeliverDoes, NodesAre DEF Delivers
    <2> QED  BY <1>1, <1>2, <2>1 DEF Up
  <1>3. ASSUME NEW p \in Peers, Check(p) PROVE Listens'
    <2>1. UNCHANGED <<promised, life, care>> /\ Up(p)
      BY <1>3 DEF Check, peerVars, auxVars, Up
    <2>2. \A m, n \in Nodes : m # p => chan'[m][n] = chan[m][n]
      BY <1>3, CheckDoes
    <2> QED  BY <1>1, <2>1, <2>2, NodesAre DEF Up
  <1>4. ASSUME NEW p \in Peers, Exit(p) PROVE Listens'
    <2>1. UNCHANGED <<promised, care>> /\ Up(p) /\ \A w \in Peers : Up(w)' => Up(w)
      BY <1>4 DEF Exit, auxVars, Up, TypeOK
    <2>2. \A m, n \in Nodes : m # p /\ n # p => chan'[m][n] = chan[m][n]
      BY <1>4, ExitDoes
    <2> QED  BY <1>1, <2>1, <2>2, NodesAre
  <1>5. ASSUME NEW p \in Peers, NEW e \in Ids, Handler(p, e) PROVE Listens'
    <2>1. /\ UNCHANGED <<care, life, m_register>> /\ Up(p)
          /\ promised' = [promised EXCEPT ![e] = Owes(p, e)]
      BY <1>5, HandlerDoes DEF Up
    <2>2. \A m, n \in Nodes : m # p => chan'[m][n] = chan[m][n]
      BY <1>5, HandlerDoes
    <2>3. SUFFICES ASSUME NEW w \in Peers, NEW d \in Ids, MayWrite(w, d),
                          Server \in promised'[d], w \notin care
                   PROVE  ~Up(w) /\ chan'[w][Server] = <<>>
      BY <2>1 DEF Listens, Up
    <2>4. CASE d = e
      <3>1. w = p
        BY <1>5, <2>3, <2>4 DEF OneWriter, Handler
      <3>2. Server \in Owed(p, d)
        BY <2>1, <2>3, <2>4 DEF TypeOK, Owes
      <3>3. Server \notin m_loadfinish
        BY NodesAre DEF TypeOK
      <3>4. p \in m_register
        BY <3>2, <3>3 DEF Owed
      <3>5. p \in care
        BY <2>1, <3>4 DEF Talk, AnsweredListed, Answered
      <3> QED  BY <2>3, <3>1, <3>5
    <2>5. CASE d # e
      <3>1. Server \in promised[d]
        BY <2>1, <2>3, <2>5 DEF TypeOK
      <3>2. ~Up(w) /\ chan[w][Server] = <<>>
        BY <2>3, <3>1 DEF Listens
      <3> QED  BY <2>1, <2>2, <3>2, NodesAre
    <2> QED  BY <2>4, <2>5
  <1>6. ASSUME NEW p \in Peers, ServerRegister(p) PROVE Listens'
    <2>1. UNCHANGED <<promised, life>> /\ care \subseteq care'
      BY <1>6 DEF ServerRegister, peerVars, auxVars
    <2>2. CASE p \in care
      <3>1. Delivers(p, Server)
        BY <1>6, <2>2, NodesAre DEF ServerRegister, Get, Delivers
      <3> QED  BY <1>2, <2>1, <3>1, NodesAre
    <2>3. CASE p \notin care
      <3>1. /\ chan[p][Server] # <<>>
            /\ \A m, n \in Nodes : m # Server =>
                  chan'[m][n] = IF m = p /\ n = Server THEN Tail(chan[m][n]) ELSE chan[m][n]
        BY <1>6, <2>3, RegisterDoes
      <3>2. \A w \in Peers : chan[w][Server] # <<>> \/ chan'[w][Server] = chan[w][Server]
        BY <3>1, NodesAre
      <3> QED  BY <1>1, <2>1, <3>2 DEF Up
    <2> QED  BY <2>2, <2>3
  <1>7. ASSUME NEW p \in Peers, ServerData(p) PROVE Listens'
    <2>1. Delivers(p, Server) /\ UNCHANGED <<promised, life, care>>
      BY <1>7, NodesAre DEF ServerData, Get, Delivers, peerVars, auxVars
    <2> QED  BY <1>2, <2>1, NodesAre
  <1>8. ASSUME NEW p \in Peers, ServerExit(p) PROVE Listens'
    <2>1. PICK s \in Seq(Messages) : s = chan[p][Server]
      BY TypeChans, NodesAre DEF Chans
    <2>2. /\ s # <<>> /\ Head(s).t = "exit" /\ care' = care \ {p}
          /\ UNCHANGED <<promised, life>> /\ Delivers(p, Server)
      BY <1>8, <2>1, NodesAre DEF ServerExit, Get, Delivers, peerVars, auxVars
    <2>3. Tail(s) = <<>>
      <3>1. Len(s) \in Nat /\ 1 \in 1..Len(s) /\ s[1] = Head(s)
        BY <2>2
      <3>2. Len(s) = 1
        BY <2>1, <2>2, <3>1 DEF ExitLast
      <3>3. Tail(s) \in Seq(Messages) /\ Len(Tail(s)) = 0
        BY <2>2, <3>2
      <3>4. \A t \in Seq(Messages) : Len(t) = 0 => t = <<>>
        OBVIOUS
      <3> QED  BY <3>3, <3>4
    <2>4. \A w \in Peers : chan'[w][Server] = IF w = p THEN <<>> ELSE chan[w][Server]
      <3>1. \A m, n \in Nodes : chan'[m][n] = IF m = p /\ n = Server THEN Tail(chan[m][n])
                                              ELSE chan[m][n]
        BY <2>2, DeliverDoes
      <3>2. Tail(chan[p][Server]) = <<>>
        BY <2>1, <2>3
      <3> QED  BY <3>1, <3>2, NodesAre
    <2>5. ~Up(p)
      <3>1. PICK h \in Messages : h = Head(s) /\ Way(p, Server, h)
        BY <2>1, <2>2, DeliverDoes
      <3> QED  BY <2>2, <3>1, NodesAre DEF Talk, Farewells
    <2> QED  BY <2>2, <2>4, <2>5 DEF Listens, Up
  <1>9. ASSUME NEW p \in Peers, NEW from \in Nodes, PeerDeliver(p, from) PROVE Listens'
    <2>1. Delivers(from, p) /\ UNCHANGED <<promised, life, care>>
      BY <1>9, NodesAre
         DEF PeerDeliver, PeerReply, PeerSync, PeerExit, PeerData, Get, Delivers, auxVars
    <2> QED  BY <1>2, <2>1, NodesAre
  <1>10. ASSUME NEW p \in Peers, LearnAddress(p) PROVE Listens'
    BY <1>1, <1>10 DEF LearnAddress, peerVars, auxVars, Up
  <1>11. CASE UNCHANGED vars
    BY <1>1, <1>11 DEF vars, auxVars, Up
  <1>12. CASE Next
    BY <1>3, <1>4, <1>5, <1>6, <1>7, <1>8, <1>9, <1>10, <1>12 DEF Next, ServerDeliver
  <1> QED  BY <1>11, <1>12

LEMMA AtKeeps ==
    ASSUME OneWriter, TypeOK, Talk, Load, Last, [Next]_vars,
           NEW d \in Ids, NobodyChanges(d), NEW w \in Peers, MayWrite(w, d), NEW v,
           NEW n \in promised[d], At(w, n, d, v)
    PROVE  At(w, n, d, v)'
  <1> USE NodesAre
  <1>1. n \in Nodes /\ w \in Nodes /\ w # Server
    BY DEF TypeOK
  <1>2. PICK s \in Seq(Messages) : s = chan[w][n]
    BY <1>1, TypeChans DEF Chans
  <1>3. PICK x : x = Version(n, d)
    OBVIOUS
  <1>4. Alive(n)' => Alive(n)
    <2>1. n \in Peers => Alive(n) = Up(n) /\ Alive(n)' = Up(n)'
      BY DEF Alive, Up
    <2>2. Alive(Server)
      BY DEF Alive
    <2> QED  BY <1>1, <2>1, <2>2, LivesOn DEF Nodes
  <1>5. ASSUME Version(n, d)' = x, n = w \/ chan'[w][n] = s PROVE At(w, n, d, v)'
    BY <1>2, <1>3, <1>4, <1>5 DEF At
  <1>6. ASSUME Version(n, d)' = x, NEW a \in Messages, ~Touches(a, d), chan'[w][n] = Append(s, a)
        PROVE  At(w, n, d, v)'
    <2>1. Ends(s, d, v, x) => Ends(Append(s, a), d, v, x)
      BY <1>6, EndsAppend
    <2> QED  BY <1>2, <1>3, <1>4, <1>6, <2>1 DEF At
  <1>7. ASSUME n # w, s # <<>>, chan'[w][n] = Tail(s),
               ~Touches(Head(s), d) => Version(n, d)' = x,
               Touches(Head(s), d) => \A u : Brings(Head(s), d, u) => Version(n, d)' = u
        PROVE  At(w, n, d, v)'
    <2>1. PICK y : y = Version(n, d)'
      OBVIOUS
    <2>2. Ends(s, d, v, x) => Ends(Tail(s), d, v, y)
      BY <1>7, <2>1, EndsTail
    <2> QED  BY <1>2, <1>3, <1>4, <1>7, <2>1, <2>2 DEF At
  <1>8. ASSUME NEW from \in Nodes, NEW to \in Nodes, Delivers(from, to),
               Head(chan[from][to]).t # "data", UNCHANGED <<rows, m_data>>
        PROVE  At(w, n, d, v)'
    <2>1. Version(n, d)' = x
      BY <1>3, <1>8 DEF Version
    <2>2. chan'[w][n] = IF w = from /\ n = to THEN Tail(s) ELSE s
      BY <1>1, <1>2, <1>8, DeliverDoes
    <2>3. CASE n # w /\ w = from /\ n = to
      <3>1. ~Touches(Head(s), d) /\ s # <<>>
        BY <1>2, <1>8, <2>3 DEF Touches, Delivers
      <3> QED  BY <1>7, <2>1, <2>2, <2>3, <3>1
    <2> QED  BY <1>5, <2>1, <2>2, <2>3
  <1>9. ASSUME NEW from \in Peers, Delivers(from, n),
               NEW h, h = Head(chan[from][n]), h.t = "data",
               Version(n, d)' = Taken(h, d, x)
        PROVE  At(w, n, d, v)'
    <2>1. h \in Messages /\ Way(from, n, h)
      BY <1>9, DeliverDoes
    <2>2. PICK e \in Ids, u \in Nat : n # from /\ MayWrite(from, e) /\ Brings(h, e, u)
      BY <1>1, <1>9, <2>1 DEF Last, Sole
    <2>3. /\ ~Touches(h, d) => Version(n, d)' = x
          /\ \A z : Brings(h, d, z) => Version(n, d)' = z
      BY <1>9, <2>1, TakenIs
    <2>4. \A m \in Nodes : chan'[m][n] = IF m = from THEN Tail(chan[m][n]) ELSE chan[m][n]
      BY <1>1, <1>9, DeliverDoes
    <2>5. CASE from = w
      <3>1. s # <<>> /\ h = Head(s) /\ chan'[w][n] = Tail(s)
        BY <1>1, <1>2, <1>9, <2>4, <2>5 DEF Delivers
      <3> QED  BY <1>7, <2>2, <2>3, <2>5, <3>1
    <2>6. CASE from # w
      <3>1. ~Touches(h, d)
        <4>1. Touches(h, d) => d = e
          BY <1>9, <2>1, <2>2, BringsOnly
        <4> QED  BY <2>2, <2>6, <4>1 DEF OneWriter
      <3>2. chan'[w][n] = s
        BY <1>1, <1>2, <2>4, <2>6
      <3> QED  BY <1>5, <2>3, <3>1, <3>2
    <2> QED  BY <2>5, <2>6
  <1>10. ASSUME NEW p \in Peers, LearnAddress(p) PROVE At(w, n, d, v)'
    <2>1. UNCHANGED <<rows, m_data, chan>>
      BY <1>10 DEF LearnAddress, peerVars
    <2> QED  BY <1>2, <1>3, <1>5, <2>1 DEF Version
  <1>11. ASSUME NEW p \in Peers, Check(p) PROVE At(w, n, d, v)'
    <2>1. Version(n, d)' = x
      BY <1>3, <1>11 DEF Check, peerVars, Version
    <2>2. PICK a \in Messages : a = Reg /\ ~Touches(a, d)
      BY MessageKinds DEF Touches
    <2>3. chan'[w][n] = s \/ chan'[w][n] = Append(s, a)
      BY <1>1, <1>2, <1>11, <2>2, CheckDoes
    <2> QED  BY <1>5, <1>6, <2>1, <2>2, <2>3
  <1>12. ASSUME NEW p \in Peers, Exit(p) PROVE At(w, n, d, v)'
    <2>1. /\ rows' = rows
          /\ \A q \in Peers : q # p => m_data'[q] = m_data[q]
          /\ life'[p] = "gone"
      BY <1>12 DEF Exit, TypeOK
    <2>2. CASE n = p
      <3>1. ~Alive(n)'
        BY <2>1, <2>2 DEF Alive
      <3> QED  BY <3>1 DEF At
    <2>3. CASE n # p
      <3>1. Version(n, d)' = x
        BY <1>1, <1>3, <2>1, <2>3 DEF Version, Nodes
      <3>2. CASE chan'[w][n] = s
        BY <1>5, <3>1, <3>2
      <3>3. CASE chan'[w][n] # s
        <4>1. PICK a \in Messages :
                 /\ a.t # "data"
                 /\ \/ chan'[w][n] = Append(s, a)
                    \/ \E b \in Messages :
                          b.t # "data" /\ chan'[w][n] = Append(Append(s, a), b)
          BY <1>1, <1>2, <1>12, <2>3, <3>3, ExitSends
        <4>2. CASE chan'[w][n] = Append(s, a)
          BY <1>6, <3>1, <4>1, <4>2 DEF Touches
        <4>3. ASSUME NEW b \in Messages, b.t # "data", chan'[w][n] = Append(Append(s, a), b)
              PROVE  At(w, n, d, v)'
          <5>1. ~Touches(a, d) /\ ~Touches(b, d)
            BY <4>1, <4>3 DEF Touches
          <5>0. Append(s, a) \in Seq(Messages)
            OBVIOUS
          <5>2. PICK t \in Seq(Messages) : t = Append(s, a)
            BY <5>0
          <5>3. Ends(s, d, v, x) => Ends(t, d, v, x)
            BY <5>1, <5>2, EndsAppend
          <5>4. Ends(t, d, v, x) => Ends(Append(t, b), d, v, x)
            BY <5>1, EndsAppend
          <5> QED  BY <1>2, <1>3, <1>4, <3>1, <4>3, <5>2, <5>3, <5>4 DEF At
        <4> QED  BY <4>1, <4>2, <4>3
      <3> QED  BY <3>2, <3>3
    <2> QED  BY <2>2, <2>3
  <1>13. ASSUME NEW p \in Peers, NEW e \in Ids, Handler(p, e) PROVE At(w, n, d, v)'
    <2>1. PICK a \in Messages, u \in Nat :
              /\ a.t = "data" /\ Brings(a, e, u)
              /\ m_data' = [m_data EXCEPT ![p][e] = u]
              /\ \A m, k \in Nodes :
                    chan'[m][k] = IF m = p /\ k \in Audience(p, e) /\ Alive(k)
                                  THEN Append(chan[m][k], a) ELSE chan[m][k]
      BY <1>13, HandlerSends
    <2>2. e # d
      BY <1>13 DEF NobodyChanges
    <2>3. ~Touches(a, d)
      BY <2>1, <2>2, BringsOnly
    <2>4. rows' = rows /\ \A q \in Peers : m_data'[q][d] = m_data[q][d]
      <3>1. rows' = rows
        BY <1>13, HandlerDoes
      <3>2. \A q \in Peers : m_data'[q][d] = m_data[q][d]
        BY <2>1, <2>2 DEF TypeOK
      <3> QED  BY <3>1, <3>2
    <2>5. Version(n, d)' = x
      BY <1>1, <1>3, <2>4 DEF Version, Nodes
    <2>6. chan'[w][n] = s \/ chan'[w][n] = Append(s, a)
      BY <1>1, <1>2, <2>1
    <2> QED  BY <1>5, <1>6, <2>3, <2>5, <2>6
  <1>14. ASSUME NEW p \in Peers, ServerRegister(p) PROVE At(w, n, d, v)'
    <2>1. UNCHANGED <<rows, m_data>>
      BY <1>14 DEF ServerRegister, peerVars
    <2>2. chan[p][Server] # <<>> /\ Head(chan[p][Server]).t = "register"
      BY <1>14 DEF ServerRegister, Get
    <2>3. CASE p \in care
      <3>1. Delivers(p, Server)
        BY <1>14, <2>2, <2>3 DEF ServerRegister, Delivers
      <3> QED  BY <1>8, <2>1, <2>2, <3>1
    <2>4. CASE p \notin care
      <3>1. chan'[w][n] = IF w = p /\ n = Server THEN Tail(s) ELSE s
        <4>1. \A m, k \in Nodes : m # Server =>
                  chan'[m][k] = IF m = p /\ k = Server THEN Tail(chan[m][k]) ELSE chan[m][k]
          BY <1>14, <2>4, RegisterDoes
        <4> QED  BY <1>1, <1>2, <4>1
      <3>2. Version(n, d)' = x
        BY <1>3, <2>1 DEF Version
      <3>3. CASE w = p /\ n = Server
        <4>1. s # <<>> /\ ~Touches(Head(s), d) /\ n # w
          BY <1>1, <1>2, <2>2, <3>3 DEF Touches
        <4> QED  BY <1>7, <3>1, <3>2, <3>3, <4>1
      <3> QED  BY <1>5, <3>1, <3>2, <3>3
    <2> QED  BY <2>3, <2>4
  <1>15. ASSUME NEW p \in Peers, ServerData(p) PROVE At(w, n, d, v)'
    <2>1. PICK h : h = Head(chan[p][Server])
      OBVIOUS
    <2>2. /\ m_data' = m_data /\ h.t = "data" /\ chan[p][Server] # <<>>
          /\ Delivers(p, Server)
      BY <1>15, <2>1 DEF ServerData, Get, Delivers, peerVars
    <2>3. chan'[w][n] = IF w = p /\ n = Server THEN Tail(s) ELSE s
      BY <1>1, <1>2, <2>2, DeliverDoes
    <2>4. CASE n # Server
      BY <1>3, <1>5, <2>2, <2>3, <2>4 DEF Version
    <2>5. CASE n = Server /\ p \in care
      <3>1. rows'[d] = Taken(h, d, rows[d])
        BY <1>15, <2>1, <2>5 DEF ServerData, Taken
      <3>2. Version(n, d)' = Taken(h, d, x)
        BY <1>3, <2>5, <3>1 DEF Version
      <3> QED  BY <1>9, <2>1, <2>2, <2>5, <3>2
    <2>6. CASE n = Server /\ p \notin care
      <3>1. rows' = rows
        BY <1>15, <2>6 DEF ServerData
      <3>2. w # p
        BY <2>2, <2>6 DEF Last, Listens
      <3> QED  BY <1>3, <1>5, <2>3, <2>6, <3>1, <3>2 DEF Version
    <2> QED  BY <2>4, <2>5, <2>6
  <1>16. ASSUME NEW p \in Peers, ServerExit(p) PROVE At(w, n, d, v)'
    <2>1. /\ UNCHANGED <<rows, m_data>>
          /\ chan[p][Server] # <<>> /\ Head(chan[p][Server]).t = "exit"
      BY <1>16 DEF ServerExit, Get, peerVars
    <2>2. Delivers(p, Server)
      BY <1>16, <2>1 DEF ServerExit, Delivers
    <2> QED  BY <1>8, <2>1, <2>2
  <1>17. ASSUME NEW p \in Peers, NEW from \in Nodes,
                (PeerReply(p) /\ from = Server) \/ PeerSync(p, from) \/ PeerExit(p, from)
         PROVE  At(w, n, d, v)'
    <2>1. /\ UNCHANGED <<rows, m_data>>
          /\ chan[from][p] # <<>> /\ Head(chan[from][p]).t # "data"
      BY <1>17 DEF PeerReply, PeerSync, PeerExit, Get
    <2>2. Delivers(from, p)
      BY <1>17, <2>1 DEF PeerReply, PeerSync, PeerExit, Delivers
    <2> QED  BY <1>8, <2>1, <2>2
  <1>18. ASSUME NEW p \in Peers, NEW from \in Nodes, PeerData(p, from) PROVE At(w, n, d, v)'
    <2>1. PICK h : h = Head(chan[from][p])
      OBVIOUS
    <2>2. /\ rows' = rows /\ h.t = "data" /\ chan[from][p] # <<>>
          /\ \A q \in Peers : q # p => m_data'[q] = m_data[q]
          /\ Delivers(from, p)
      BY <1>18, <2>1 DEF PeerData, Get, Delivers, TypeOK
    <2>3. h \in Messages /\ Way(from, p, h)
      BY <2>1, <2>2, DeliverDoes
    <2>4. CASE n # p
      <3>1. Version(n, d)' = x
        BY <1>1, <1>3, <2>2, <2>4 DEF Version, Nodes
      <3>2. chan'[w][n] = s
        BY <1>1, <1>2, <2>2, <2>4, DeliverDoes
      <3> QED  BY <1>5, <3>1, <3>2
    <2>5. CASE n = p
      <3>1. Up(p)
        BY <2>3 DEF Load, Gone
      <3>2. p \in m_loadfinish /\ Cares(p, Full(p), d)
        BY <2>5, <3>1 DEF Last, Owners
      <3>3. from \in Peers
        BY <2>2, <2>3, <3>2 DEF Last, LoadedOnce, Nodes
      <3>4. m_data'[p][d] = Taken(h, d, m_data[p][d])
        BY <1>18, <2>1, <3>2 DEF PeerData, Taken, TypeOK
      <3>5. Version(n, d)' = Taken(h, d, x)
        BY <1>3, <2>5, <3>4 DEF Version
      <3> QED  BY <1>9, <2>1, <2>2, <2>5, <3>3, <3>5
    <2> QED  BY <2>4, <2>5
  <1>19. CASE UNCHANGED vars
    <2>1. UNCHANGED <<rows, m_data, chan>>
      BY <1>19 DEF vars
    <2> QED  BY <1>2, <1>3, <1>5, <2>1 DEF Version
  <1>20. CASE Next
    BY <1>10, <1>11, <1>12, <1>13, <1>14, <1>15, <1>16, <1>17, <1>18, <1>20
       DEF Next, ServerDeliver, PeerDeliver
  <1> QED  BY <1>19, <1>20

LEMMA ArrivesStep ==
    ASSUME OneWriter, TypeOK, Talk, Load, Last, [Next]_vars
    PROVE  Arrives'
  <1>1. SUFFICES ASSUME NEW d \in Ids, promised'[d] # {}
                 PROVE  \E w \in Peers, v \in Nat :
                           MayWrite(w, d) /\ \A n \in promised'[d] : At(w, n, d, v)'
    BY DEF Arrives
  <1>2. CASE NobodyChanges(d)
    <2>1. promised'[d] = promised[d]
      <3>1. CASE \A e \in Ids : NobodyChanges(e)
        BY <3>1, NoNewRows
      <3>2. ASSUME NEW e \in Ids, NEW p \in Peers, Handler(p, e) PROVE promised'[d] = promised[d]
        <4>1. promised' = [promised EXCEPT ![e] = Owes(p, e)]
          BY <3>2, HandlerDoes
        <4> QED  BY <1>2, <3>2, <4>1 DEF NobodyChanges, TypeOK
      <3> QED  BY <3>1, <3>2 DEF NobodyChanges
    <2>2. PICK w \in Peers, v \in Nat :
              MayWrite(w, d) /\ \A n \in promised[d] : At(w, n, d, v)
      BY <1>1, <2>1 DEF Last, Arrives
    <2>3. \A n \in promised[d] : At(w, n, d, v)'
      BY <1>2, <2>2, AtKeeps
    <2> QED  BY <2>1, <2>2, <2>3
  <1>3. ASSUME NEW p \in Peers, Handler(p, d)
        PROVE  \E w \in Peers, v \in Nat :
                  MayWrite(w, d) /\ \A n \in promised'[d] : At(w, n, d, v)'
    <2>1. PICK a \in Messages, v \in Nat :
              /\ a.t = "data" /\ Brings(a, d, v)
              /\ m_data' = [m_data EXCEPT ![p][d] = v]
              /\ \A m, n \in Nodes :
                    chan'[m][n] = IF m = p /\ n \in Audience(p, d) /\ Alive(n)
                                  THEN Append(chan[m][n], a) ELSE chan[m][n]
      BY <1>3, HandlerSends
    <2>2. MayWrite(p, d)
      BY <1>3 DEF Handler
    <2>3. promised'[d] = Owes(p, d) /\ life' = life
      <3>1. promised' = [promised EXCEPT ![d] = Owes(p, d)] /\ life' = life
        BY <1>3, HandlerDoes
      <3> QED  BY <3>1 DEF TypeOK
    <2>4. ASSUME NEW n \in Owes(p, d), Alive(n)', n # p
          PROVE  Ends(chan'[p][n], d, v, Version(n, d)')
      <3>0. n \in Owed(p, d) /\ n \notin Skipped(p, Wide(p)) /\ n \notin Skipped(p, Narrow(p, d))
        BY <2>4 DEF Owes
      <3>1. n \in Nodes /\ Alive(n)
        BY <2>3, <2>4, <3>0, NodesAre DEF Owed, TypeOK, Alive
      <3>2. n \in Audience(p, d)
        <4>0. n \in Wide(p) \/ n \in Narrow(p, d) => n \in Audience(p, d)
          BY <3>0, ReachedIs DEF Audience
        <4>1. CASE n = Server
          BY <4>0, <4>1 DEF Wide
        <4>2. CASE n # Server
          <5>1. n \in m_loadfinish /\ Cares(n, Full(n), d) /\ known[p][n] # "none"
            BY <2>4, <3>0, <4>2 DEF Owed
          <5>2. n \in Peers /\ Up(n)
            BY <3>1, <4>2 DEF Nodes, Alive, Up
          <5>3. known[p][n] = Full(n)
            BY <5>1, <5>2 DEF Last, Scoped
          <5>4. n \in Wide(p) \/ n \in Narrow(p, d)
            BY <5>1, <5>2, <5>3 DEF Full, Wide, Narrow
          <5> QED  BY <4>0, <5>4
        <4> QED  BY <4>1, <4>2
      <3>3. PICK s \in Seq(Messages) : s = chan[p][n]
        BY <3>1, TypeChans, NodesAre DEF Chans
      <3>4. chan'[p][n] = Append(s, a)
        BY <2>1, <3>1, <3>2, <3>3, NodesAre
      <3>5. Touches(a, d)
        BY <2>1, BringsOnly
      <3>6. PICK x : x = Version(n, d)'
        OBVIOUS
      <3>7. Ends(Append(s, a), d, v, x)
        BY <2>1, <3>5, EndsAppend
      <3> QED  BY <3>4, <3>6, <3>7
    <2>5. Version(p, d)' = v
      BY <2>1, NodesAre DEF Version, TypeOK
    <2>6. \A n \in Owes(p, d) : At(p, n, d, v)'
      BY <2>4, <2>5 DEF At
    <2> QED  BY <2>2, <2>3, <2>6
  <1> QED  BY <1>2, <1>3 DEF NobodyChanges

LEMMA LastInit == Init => Last
  <1> SUFFICES ASSUME Init PROVE Last
    OBVIOUS
  <1>1. \A m, n \in Nodes : \A x : ~Way(m, n, x)
    BY EmptyIn DEF Init, Way
  <1>2. LastFin(<<>>)
    <2>1. \A i \in 1..Len(<<>>) : FALSE
      OBVIOUS
    <2> QED  BY <2>1 DEF LastFin
  <1>3. LoadedOnce
    <2>1. \A q \in Peers : chan[Server][q] = <<>>
      BY NodesAre DEF Init
    <2> QED  BY <1>2, <2>1 DEF Init, LoadedOnce
  <1>4. Scoped /\ Owners /\ Listens /\ Arrives
    BY DEF Init, Scoped, Owners, Listens, Arrives
  <1>5. Sole
    BY <1>1, NodesAre DEF Sole
  <1> QED  BY <1>3, <1>4, <1>5 DEF Last

LEMMA LastKeeps ==
    ASSUME OneWriter, TypeOK, Talk, Load, ExitLast, Last, [Next]_vars
    PROVE  Last'
  <1>1. Scoped' /\ Sole'
    BY ScopedStep, SoleStep DEF Last
  <1>2. LoadedOnce' /\ Owners'
    BY LoadedOnceStep, OwnersStep DEF Last
  <1>3. Listens'
    BY ListensStep DEF Last
  <1>4. Arrives'
    BY ArrivesStep
  <1> QED  BY <1>1, <1>2, <1>3, <1>4 DEF Last

(* Where no two peers may write one row, its last change reaches the       *)
(* server and every loaded peer that the writer knew of and that keeps the *)
(* row (change() and what nsp_server, nsp_read and nsp_write do with what  *)
(* it sends), save whom change()'s sends to sets of actors skipped, and    *)
(* nothing older overtakes it: not the first load, which comes over        *)
(* another connection, nor what is left of a writer that leaves.           *)
THEOREM ChangesArrive ==
    ASSUME OneWriter
    PROVE  Spec => []ChangeArrives
  <1> DEFINE IInv == TypeOK /\ Talk /\ Load /\ ExitLast /\ Last
  <1>1. Init => IInv
    BY KnownInit, LoadInit, LastInit
  <1>2. IInv /\ [Next]_vars => IInv'
    BY OneWriter, KnownStep, LoadStep, ExitLastStep, LastKeeps
  <1>3. IInv => ChangeArrives
    <2> SUFFICES ASSUME TypeOK, Last, NEW d \in Ids, ~Touched(d),
                        NEW p \in promised[d] \cap {n \in Peers : life[n] = "up"},
                        NEW q \in promised[d] \cap {n \in Peers : life[n] = "up"}
                 PROVE  /\ m_data[p][d] = m_data[q][d]
                        /\ Server \in promised[d] => rows[d] = m_data[p][d]
      BY DEF ChangeArrives
    <2>1. PICK w \in Peers, v \in Nat : \A n \in promised[d] : At(w, n, d, v)
      BY DEF Last, Arrives
    <2>2. ASSUME NEW n \in promised[d], Alive(n) PROVE Version(n, d) = v
      <3>1. n \in Nodes /\ w \in Nodes
        BY NodesAre DEF TypeOK
      <3>2. PICK s \in Seq(Messages) : s = chan[w][n]
        BY <3>1, TypeChans DEF Chans
      <3>3. ASSUME NEW i \in 1..Len(s) PROVE ~Touches(s[i], d)
        <4>1. i \in DOMAIN chan[w][n]
          BY <3>2
        <4>2. ~(s[i].t = "data" /\ (d \in s[i].dels \/ \E y \in s[i].rows : y[1] = d))
          BY <3>1, <3>2, <4>1 DEF Touched
        <4> QED  BY <4>2 DEF Touches
      <3>4. Ends(s, d, v, Version(n, d)) => Version(n, d) = v
        BY <3>3 DEF Ends
      <3> QED  BY <2>1, <2>2, <3>2, <3>4 DEF At
    <2>3. m_data[p][d] = v /\ m_data[q][d] = v
      BY <2>2, NodesAre DEF Version, Alive
    <2>4. Server \in promised[d] => rows[d] = v
      BY <2>2 DEF Version, Alive
    <2> QED  BY <2>3, <2>4
  <1> HIDE DEF IInv
  <1> QED  BY <1>1, <1>2, <1>3, PTL DEF Spec
=============================================================================
