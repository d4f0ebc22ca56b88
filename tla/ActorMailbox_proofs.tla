------------------------- MODULE ActorMailbox_proofs -------------------------
(***************************************************************************)
(* Proofs about the mailbox of one actor, for every set of levels and of   *)
(* readiness keys, every weight and any number of messages; the last part  *)
(* is about an actor that is still starting.                               *)
(***************************************************************************)
EXTENDS ActorStartup, FiniteSetTheorems, SequenceTheorems, TLAPS

LEMMA TypeStep == TypeOK /\ [Next]_vars => TypeOK'
<1> SUFFICES ASSUME TypeOK, [Next]_vars PROVE TypeOK'
  OBVIOUS
<1> USE MailboxAssumption DEF MailboxAssumption, TypeOK, Pc, locals
<1>1. ASSUME NEW p \in Prio, Post(p) PROVE TypeOK'
  <2>1. sent[p] + 1 \in Nat /\ sent' \in [Prio -> Nat]
    BY <1>1 DEF Post
  <2>2. m_list' \in Seq(Nat)
    <3>1. Append(m_list, sent[p] + 1) \in Seq(Nat)
      BY <2>1
    <3> QED
      BY <1>1, <3>1 DEF Post
  <2>3. m_hightlist' \in [High -> Seq(Nat)]
    <3>1. CASE p = Normal
      BY <1>1, <3>1 DEF Post
    <3>2. CASE p # Normal
      <4>1. p \in High
        BY <3>2 DEF Prio
      <4>2. Append(m_hightlist[p], sent[p] + 1) \in Seq(Nat)
        BY <2>1, <4>1
      <4> QED
        BY <1>1, <3>2, <4>1, <4>2 DEF Post
    <3> QED
      BY <3>1, <3>2
  <2> QED
    BY <1>1, <2>1, <2>2, <2>3 DEF Post
<1>2. ASSUME Dispatch PROVE TypeOK'
  BY <1>2 DEF Dispatch
<1>3. ASSUME Check PROVE TypeOK'
  BY <1>3 DEF Check
<1>4. ASSUME SwapHigh PROVE TypeOK'
  <2>1. NoHigh \in [High -> Seq(Nat)]
    BY DEF NoHigh
  <2>2. hightlevel_ready \subseteq ReadyKeys
    BY DEF hightlevel_ready
  <2> QED
    BY <1>4, <2>1, <2>2 DEF SwapHigh
<1>5. ASSUME NEW l \in High, HandleHigh(l) PROVE TypeOK'
  <2>1. Head(localhightlist[l]) \in Nat /\ Tail(localhightlist[l]) \in Seq(Nat)
    BY <1>5 DEF HandleHigh, FirstBucket
  <2>2. localhightlist' \in [High -> Seq(Nat)] /\ last' \in [Prio -> Nat]
    BY <1>5, <2>1 DEF HandleHigh, Prio
  <2> QED
    BY <1>5, <2>2 DEF HandleHigh
<1>6. ASSUME EndHigh PROVE TypeOK'
  BY <1>6 DEF EndHigh
<1>7. ASSUME RestoreHigh PROVE TypeOK'
  BY <1>7 DEF RestoreHigh, NoHigh
<1>8. ASSUME SwapNormal PROVE TypeOK'
  BY <1>8 DEF SwapNormal
<1>9. ASSUME HandleNormal PROVE TypeOK'
  <2>1. Head(locallist) \in Nat /\ Tail(locallist) \in Seq(Nat)
    BY <1>9 DEF HandleNormal
  <2>2. last' \in [Prio -> Nat]
    BY <1>9, <2>1 DEF HandleNormal, Prio
  <2> QED
    BY <1>9, <2>1, <2>2, SMTT(30) DEF HandleNormal
<1>10. ASSUME EndNormal PROVE TypeOK'
  BY <1>10 DEF EndNormal
<1>11. ASSUME Return PROVE TypeOK'
  BY <1>11 DEF Return
<1>12. ASSUME UNCHANGED vars PROVE TypeOK'
  BY <1>12 DEF vars
<1> QED
  BY <1>1, <1>2, <1>3, <1>4, <1>5, <1>6, <1>7, <1>8, <1>9, <1>10, <1>11, <1>12
     DEF Next, Worker

(* Every variable keeps the shape the code gives it. *)
THEOREM TypeInvariant == Spec => []TypeOK
<1>1. Init => TypeOK
  <2> SUFFICES ASSUME Init PROVE TypeOK
    OBVIOUS
  <2>1. NoHigh \in [High -> Seq(Nat)] /\ [p \in Prio |-> 0] \in [Prio -> Nat]
    BY DEF NoHigh
  <2>2. 0 \in 0..Weight /\ "idle" \in Pc
    BY MailboxAssumption DEF MailboxAssumption, Pc
  <2>3. <<>> \in Seq(Nat)
    OBVIOUS
  <2> QED
    BY <2>1, <2>2, <2>3, Zenon DEF Init, TypeOK
<1> QED
  BY <1>1, TypeStep, PTL DEF Spec
-----------------------------------------------------------------------------
(* NoStrandedWork is not inductive.  It also takes: a worker is at it      *)
(* exactly while the state is run; an actor that is queued or about to be  *)
(* run, and ready, does have work, so that Check never turns a ready actor *)
(* away; and a worker that returns a ready actor says so in lready, which  *)
(* is all that schedule_layer::push has to judge normal messages by.       *)
RunIffBusy == stat = "run" <=> pc # "idle"
QueuedHasWork == (stat = "list" \/ pc = "check") /\ is_ready => ~list_empty
ReadySaysSo == pc = "return" /\ is_ready => lready

Inv ==
    /\ TypeOK
    /\ RunIffBusy
    /\ QueuedHasWork
    /\ ReadySaysSo
    /\ NoStrandedWork

(* What a message adds never takes work away. *)
LEMMA PostKeepsWork ==
  ASSUME TypeOK, NEW p \in Prio, Post(p), ~list_empty
  PROVE  ~list_empty'
<1> USE MailboxAssumption DEF MailboxAssumption, TypeOK
<1>1. unsat' = unsat
  BY DEF Post
<1>2. m_list # <<>> => m_list' # <<>>
  BY DEF Post, Normal, Prio
<1>3. ASSUME NEW l \in High, m_hightlist[l] # <<>> PROVE m_hightlist'[l] # <<>>
  BY <1>3, SMTT(30) DEF Post, Prio, Normal
<1> QED
  BY <1>1, <1>2, <1>3 DEF list_empty, is_ready, high_empty, hightlevel_ready, Below

(* A message that does not wake an idle actor is none it could run now. *)
LEMMA PostUnwoken ==
  ASSUME TypeOK, NEW p \in Prio, Post(p), list_empty, ~Wakes(p)
  PROVE  list_empty'
<1> USE MailboxAssumption DEF MailboxAssumption, TypeOK
<1>1. unsat' = unsat
  BY DEF Post
<1>2. CASE p = Normal
  BY <1>1, <1>2 DEF Post, Wakes, list_empty, is_ready, high_empty, hightlevel_ready, Below
<1>3. CASE p # Normal
  <2>1. p \in High
    BY <1>3 DEF Prio
  <2>2. PICK j \in High : m_hightlist[j] # <<>> /\ ~(p < j)
    BY <1>3 DEF Wakes
  <2>3. ~is_ready /\ ~Below(j, hightlevel_ready)
    BY <2>2 DEF list_empty, high_empty
  <2>4. PICK k \in hightlevel_ready : ~(j < k)
    BY <2>3 DEF Below
  <2>5. k \in Nat /\ ~(p < k)
    BY <2>1, <2>2, <2>4 DEF hightlevel_ready
  <2>6. \A l \in High \ {p} : m_hightlist'[l] = m_hightlist[l]
    BY <1>3, <2>1 DEF Post
  <2>7. ASSUME NEW l \in High, m_hightlist'[l] # <<>>
        PROVE  ~Below(l, hightlevel_ready)
    BY <2>3, <2>4, <2>5, <2>6, <2>7 DEF list_empty, Below
  <2> QED
    BY <1>1, <2>3, <2>7 DEF list_empty, is_ready, hightlevel_ready, Below
<1> QED
  BY <1>2, <1>3

(* A message that wakes a ready actor is work for it. *)
LEMMA PostReady ==
  ASSUME TypeOK, NEW p \in Prio, Post(p), is_ready
  PROVE  ~list_empty'
<1> USE MailboxAssumption DEF MailboxAssumption, TypeOK
<1>1. is_ready'
  BY DEF Post, is_ready
<1>2. p = Normal => m_list' # <<>>
  BY DEF Post, Normal, Prio
<1>3. p # Normal => m_hightlist'[p] # <<>> /\ p \in High
  BY DEF Post, Prio, Normal
<1> QED
  BY <1>1, <1>2, <1>3 DEF list_empty, high_empty

(* Steps that leave the queues and the conditions alone. *)
LEMMA SameWork ==
  ASSUME UNCHANGED <<m_list, m_hightlist, unsat>>
  PROVE  list_empty' = list_empty /\ is_ready' = is_ready /\ high_empty' = high_empty
BY DEF list_empty, is_ready, high_empty, hightlevel_ready, Below

LEMMA InvStep == TypeOK' /\ Inv /\ [Next]_vars => Inv'
<1> SUFFICES ASSUME TypeOK', Inv, [Next]_vars PROVE Inv'
  OBVIOUS
<1> USE DEF RunIffBusy, QueuedHasWork, ReadySaysSo, NoStrandedWork
<1>0. TypeOK /\ pc \in Pc
  BY DEF Inv, TypeOK
<1>1. ASSUME NEW p \in Prio, Post(p) PROVE Inv'
  <2>1. is_ready' = is_ready /\ pc' = pc /\ lready' = lready
    BY <1>1 DEF Post, is_ready, locals
  <2>2. stat' = IF Wakes(p) /\ stat = "free" THEN "list" ELSE stat
    BY <1>1 DEF Post
  <2>3. RunIffBusy' /\ ReadySaysSo'
    BY <2>1, <2>2 DEF Inv
  <2>4. QueuedHasWork'
    BY <1>0, <1>1, <2>1, PostReady
  <2>5. NoStrandedWork'
    BY <1>0, <1>1, <2>2, PostUnwoken DEF Inv
  <2> QED
    BY <2>3, <2>4, <2>5 DEF Inv
<1>2. ASSUME Dispatch PROVE Inv'
  BY <1>2, SameWork DEF Dispatch, Inv
<1>3. ASSUME Check PROVE Inv'
  BY <1>0, <1>3, SameWork DEF Check, Inv, Pc
<1>4. ASSUME SwapHigh \/ SwapNormal PROVE Inv'
  BY <1>0, <1>4 DEF SwapHigh, SwapNormal, Inv, Pc
<1>5. ASSUME NEW l \in High, HandleHigh(l) PROVE Inv'
  BY <1>0, <1>5 DEF HandleHigh, Inv, Pc
<1>6. ASSUME EndHigh \/ HandleNormal PROVE Inv'
  BY <1>0, <1>6 DEF EndHigh, HandleNormal, Inv, Pc
<1>7. ASSUME RestoreHigh PROVE Inv'
  BY <1>0, <1>7 DEF RestoreHigh, Inv, Pc, is_ready
<1>8. ASSUME EndNormal PROVE Inv'
  BY <1>0, <1>8 DEF EndNormal, Inv, Pc
<1>9. ASSUME Return PROVE Inv'
  <2>1. ~list_empty /\ ~(lready \/ ~high_empty) => FALSE
    BY <1>9 DEF Return, Inv, list_empty, high_empty
  <2> QED
    BY <1>0, <1>9, <2>1, SameWork DEF Return, Inv, Pc
<1>10. ASSUME UNCHANGED vars PROVE Inv'
  BY <1>10, SameWork DEF vars, Inv, locals
<1> QED
  BY <1>1, <1>2, <1>3, <1>4, <1>5, <1>6, <1>7, <1>8, <1>9, <1>10 DEF Next, Worker

LEMMA InvInductive == Spec => []Inv
<1>1. TypeOK /\ Init => Inv
  <2> SUFFICES ASSUME TypeOK, Init PROVE Inv
    OBVIOUS
  <2>1. list_empty
    BY DEF Init, NoHigh, list_empty, high_empty
  <2> QED
    BY <2>1 DEF Init, Inv, RunIffBusy, QueuedHasWork, ReadySaysSo, NoStrandedWork
<1> QED
  BY <1>1, InvStep, TypeInvariant, PTL DEF Spec

(* Whatever the interleaving of posts with a slice, an idle actor holds    *)
(* nothing it could run: the wakeup decisions of actor::push and           *)
(* schedule_layer::push lose no message.                                   *)
THEOREM NothingStranded == Spec => []NoStrandedWork
<1>1. Inv => NoStrandedWork
  BY DEF Inv
<1> QED
  BY <1>1, InvInductive, PTL
-----------------------------------------------------------------------------
(* The refinement.  What the worker holds is in front of the queue it was  *)
(* taken from; outside the phase that took it, it holds nothing.  The gate *)
(* is read once per slice, and stays at or below the true one because      *)
(* conditions are only ever satisfied: a stale gate holds back, it never   *)
(* lets through.                                                           *)
HoldsHighInPhase == pc \notin {"high", "restore"} => localhightlist = NoHigh
HoldsListInPhase == pc # "normal" => locallist = <<>>
GateIsSafe == pc = "high" => \A l \in High : Below(l, lvalue) => Below(l, unsat)
NormalWhenReady == pc \in {"swapnormal", "normal"} => is_ready

SimInv == HoldsHighInPhase /\ HoldsListInPhase /\ GateIsSafe /\ NormalWhenReady

(* Every set of keys that is not empty has a lowest one. *)
LEMMA LowestKey ==
  ASSUME NEW U \in SUBSET Nat, U # {}
  PROVE  \E n \in U : \A k \in U : n <= k
<1> DEFINE V(n) == {k \in U : k < n}
           T == {V(n) : n \in U}
<1>1. ASSUME NEW n \in U PROVE V(n) \in FiniteSubsetsOf(Nat)
  <2>1. \A k \in V(n) : k <= n
    OBVIOUS
  <2>2. V(n) \in SUBSET Nat /\ n \in Nat
    OBVIOUS
  <2>3. IsFiniteSet(V(n))
    BY <2>1, <2>2, FS_BoundedSetOfNaturals
  <2> QED
    BY <2>2, <2>3 DEF FiniteSubsetsOf
<1>2. T \subseteq FiniteSubsetsOf(Nat) /\ T # {}
  BY <1>1
<1>3. PICK W \in T : \A X \in T : ~(<<X, W>> \in StrictSubsetOrdering(Nat))
  <2> HIDE DEF T
  <2> QED
    BY <1>2, FS_StrictSubsetOrderingWellFounded, WFMin
<1>4. PICK n \in U : W = V(n)
  OBVIOUS
<1>5. ASSUME NEW k \in U, k < n PROVE FALSE
  <2>1. k \in Nat /\ n \in Nat
    OBVIOUS
  <2>2. V(k) \subseteq V(n)
    <3> SUFFICES ASSUME NEW j \in U, j < k PROVE j < n
      OBVIOUS
    <3>1. j \in Nat
      OBVIOUS
    <3> QED
      BY <1>5, <2>1, <3>1
  <2>3. k \in V(n) /\ k \notin V(k)
    BY <1>5, <2>1
  <2>4. <<V(k), V(n)>> \in StrictSubsetOrdering(Nat)
    BY <2>2, <2>3 DEF StrictSubsetOrdering
  <2> QED
    BY <2>4, <1>3, <1>4
<1> QED
  BY <1>5

(* Below the lowest unsatisfied key is below all of them. *)
LEMMA BelowLowest ==
  ASSUME unsat \subseteq Nat, NEW l \in Nat, Below(l, hightlevel_ready)
  PROVE  Below(l, unsat)
<1>1. CASE unsat = {}
  BY <1>1 DEF Below
<1>2. CASE unsat # {}
  <2>1. PICK n \in unsat : \A k \in unsat : n <= k
    BY <1>2, LowestKey
  <2>2. l < n
    BY <2>1 DEF Below, hightlevel_ready
  <2> QED
    BY <2>1, <2>2 DEF Below
<1> QED
  BY <1>1, <1>2

LEMMA SimInvInductive == Spec => []SimInv
<1> USE DEF SimInv, HoldsHighInPhase, HoldsListInPhase, GateIsSafe, NormalWhenReady
<1>1. Init => SimInv
  BY DEF Init
<1>2. TypeOK /\ SimInv /\ [Next]_vars => SimInv'
  <2> SUFFICES ASSUME TypeOK, SimInv, [Next]_vars PROVE SimInv'
    OBVIOUS
  <2>1. ASSUME NEW p \in Prio, Post(p) PROVE SimInv'
    BY <2>1 DEF Post, locals, is_ready, Below
  <2>2. ASSUME Dispatch \/ Check \/ EndHigh PROVE SimInv'
    BY <2>2 DEF Dispatch, Check, EndHigh, locals
  <2>3. ASSUME SwapHigh PROVE SimInv'
    <3>1. unsat \subseteq Nat /\ High \subseteq Nat
      BY MailboxAssumption DEF MailboxAssumption, TypeOK
    <3>2. \A l \in High : Below(l, hightlevel_ready) => Below(l, unsat)
      BY <3>1, BelowLowest
    <3>3. GateIsSafe'
      BY <2>3, <3>2 DEF SwapHigh, Below
    <3> QED
      BY <2>3, <3>3 DEF SwapHigh
  <2>4. ASSUME NEW l \in High, HandleHigh(l) PROVE SimInv'
    BY <2>4 DEF HandleHigh, Below
  <2>5. ASSUME RestoreHigh PROVE SimInv'
    BY <2>5 DEF RestoreHigh, is_ready
  <2>6. ASSUME SwapNormal \/ HandleNormal \/ EndNormal PROVE SimInv'
    BY <2>6 DEF SwapNormal, HandleNormal, EndNormal, is_ready
  <2>7. ASSUME Return PROVE SimInv'
    BY <2>7 DEF Return, locals
  <2>8. ASSUME UNCHANGED vars PROVE SimInv'
    BY <2>8 DEF vars, locals, is_ready, Below
  <2> QED
    BY <2>1, <2>2, <2>3, <2>4, <2>5, <2>6, <2>7, <2>8 DEF Next, Worker
<1> QED
  BY <1>1, <1>2, TypeInvariant, PTL DEF Spec

(* A step that moves messages between the queue and the worker's hands     *)
(* leaves the inbox as it is.                                              *)
LEMMA InboxUnchanged ==
  ASSUME \A l \in High : localhightlist'[l] \o m_hightlist'[l]
                           = localhightlist[l] \o m_hightlist[l],
         locallist' \o m_list' = locallist \o m_list
  PROVE  inbox' = inbox
BY DEF inbox, Prio

(* The inbox after one class p of it became s. *)
LEMMA InboxAt ==
  ASSUME NEW p \in Prio, NEW s,
         p = Normal => /\ locallist' \o m_list' = s
                       /\ UNCHANGED <<localhightlist, m_hightlist>>,
         p # Normal => /\ localhightlist'[p] \o m_hightlist'[p] = s
                       /\ \A l \in High \ {p} : localhightlist'[l] \o m_hightlist'[l]
                                                  = localhightlist[l] \o m_hightlist[l]
                       /\ UNCHANGED <<locallist, m_list>>
  PROVE  inbox' = [inbox EXCEPT ![p] = s]
<1>1. ASSUME NEW q \in Prio PROVE inbox'[q] = IF q = p THEN s ELSE inbox[q]
  <2>1. CASE q = Normal
    BY <2>1 DEF inbox
  <2>2. CASE q # Normal
    <3>1. q \in High
      BY <2>2 DEF Prio
    <3> QED
      BY <2>2, <3>1 DEF inbox
  <2> QED
    BY <2>1, <2>2
<1> QED
  BY <1>1 DEF inbox

(* A message posted behind the queue is posted behind the inbox. *)
LEMMA ConcatAppend ==
  ASSUME NEW S, NEW s \in Seq(S), NEW t \in Seq(S), NEW e \in S
  PROVE  s \o Append(t, e) = Append(s \o t, e)
<1>1. <<e>> \in Seq(S) /\ s \o t \in Seq(S)
  BY ConcatProperties
<1>2. Append(t, e) = t \o <<e>> /\ Append(s \o t, e) = (s \o t) \o <<e>>
  BY <1>1, AppendIsConcat
<1>3. (s \o t) \o <<e>> = s \o (t \o <<e>>)
  BY <1>1, ConcatAssociative
<1> QED
  BY <1>2, <1>3

LEMMA InboxAppend ==
  \A s, t \in Seq(Nat), e \in Nat : s \o Append(t, e) = Append(s \o t, e)
  BY ConcatAppend

(* The first message in the worker's hands is the first of the inbox. *)
LEMMA ConcatHeadTail ==
  ASSUME NEW S, NEW s \in Seq(S), NEW t \in Seq(S), s # <<>>
  PROVE  /\ s \o t # <<>>
         /\ Head(s \o t) = Head(s)
         /\ Tail(s \o t) = Tail(s) \o t
<1>1. /\ s \o t \in Seq(S)
      /\ Len(s \o t) = Len(s) + Len(t)
      /\ \A i \in 1 .. Len(s) + Len(t) :
             (s \o t)[i] = IF i <= Len(s) THEN s[i] ELSE t[i - Len(s)]
  BY ConcatProperties
<1>2. Len(s) \in Nat /\ Len(t) \in Nat /\ Len(s) > 0
  OBVIOUS
<1>3. s \o t # <<>>
  BY <1>1, <1>2
<1>4. Head(s \o t) = Head(s)
  BY <1>1, <1>2, <1>3
<1>5. /\ Tail(s) \in Seq(S) /\ Len(Tail(s)) = Len(s) - 1
      /\ \A i \in 1 .. Len(Tail(s)) : Tail(s)[i] = s[i + 1]
  BY HeadTailProperties
<1>6. /\ Tail(s \o t) \in Seq(S) /\ Len(Tail(s \o t)) = Len(s \o t) - 1
      /\ \A i \in 1 .. Len(Tail(s \o t)) : Tail(s \o t)[i] = (s \o t)[i + 1]
  BY <1>1, <1>3, HeadTailProperties
<1>7. /\ Tail(s) \o t \in Seq(S)
      /\ Len(Tail(s) \o t) = Len(Tail(s)) + Len(t)
      /\ \A i \in 1 .. Len(Tail(s)) + Len(t) :
             (Tail(s) \o t)[i] = IF i <= Len(Tail(s)) THEN Tail(s)[i]
                                 ELSE t[i - Len(Tail(s))]
  BY <1>5, ConcatProperties
<1>8. Tail(s \o t) = Tail(s) \o t
  <2>1. Len(Tail(s \o t)) = Len(Tail(s) \o t)
    BY <1>1, <1>2, <1>5, <1>6, <1>7
  <2>2. ASSUME NEW i \in 1 .. Len(Tail(s \o t))
        PROVE  Tail(s \o t)[i] = (Tail(s) \o t)[i]
    <3>1. i \in 1 .. Len(s) + Len(t) - 1 /\ i + 1 \in 1 .. Len(s) + Len(t)
      BY <1>1, <1>2, <1>6
    <3>2. Tail(s \o t)[i] = (s \o t)[i + 1]
      BY <1>6
    <3>3. CASE i <= Len(s) - 1
      BY <1>1, <1>2, <1>5, <1>7, <3>1, <3>2, <3>3
    <3>4. CASE i > Len(s) - 1
      <4>1. (i + 1) - Len(s) = i - (Len(s) - 1)
        BY <1>2, <3>1
      <4> QED
        BY <1>1, <1>2, <1>5, <1>7, <3>1, <3>2, <3>4, <4>1
    <3> QED
      BY <1>2, <3>1, <3>3, <3>4
  <2> QED
    BY <1>6, <1>7, <2>1, <2>2, SeqEqual
<1> QED
  BY <1>3, <1>4, <1>8

LEMMA InboxHeadTail ==
  \A s, t \in Seq(Nat) : s # <<>> =>
      s \o t # <<>> /\ Head(s \o t) = Head(s) /\ Tail(s \o t) = Tail(s) \o t
BY ConcatHeadTail
-----------------------------------------------------------------------------
(* Each step of the worker, seen through the inbox. *)

LEMMA PostIsSerialPost ==
  ASSUME TypeOK, NEW p \in Prio, Post(p)
  PROVE  Serial!SerialPost(p)
<1> USE MailboxAssumption DEF MailboxAssumption, TypeOK
<1>1. sent[p] + 1 \in Nat
  OBVIOUS
<1>2. inbox' = [inbox EXCEPT ![p] = Append(inbox[p], sent[p] + 1)]
  <2>1. CASE p = Normal
    <3>1. m_list' = Append(m_list, sent[p] + 1)
      BY <2>1 DEF Post
    <3>2. locallist \o Append(m_list, sent[p] + 1)
            = Append(locallist \o m_list, sent[p] + 1)
      <4>1. locallist \in Seq(Nat) /\ m_list \in Seq(Nat)
        OBVIOUS
      <4> HIDE <1>1, MailboxAssumption DEF TypeOK, MailboxAssumption
      <4>2. PICK a, b \in Seq(Nat), e \in Nat :
                a = locallist /\ b = m_list /\ e = sent[p] + 1
        BY <1>1, <4>1
      <4>3. a \o Append(b, e) = Append(a \o b, e)
        BY InboxAppend
      <4> QED
        BY <4>2, <4>3
    <3>3. inbox[p] = locallist \o m_list
      BY <2>1 DEF inbox
    <3>4. UNCHANGED <<locallist, localhightlist, m_hightlist>>
      BY <2>1 DEF Post, locals
    <3> QED
      BY <2>1, <3>1, <3>2, <3>3, <3>4, InboxAt
  <2>2. CASE p # Normal
    <3>1. p \in High
      BY <2>2 DEF Prio
    <3>2. m_hightlist' = [m_hightlist EXCEPT ![p] = Append(@, sent[p] + 1)]
      BY <2>2 DEF Post
    <3>3. localhightlist[p] \o Append(m_hightlist[p], sent[p] + 1)
            = Append(localhightlist[p] \o m_hightlist[p], sent[p] + 1)
      <4>1. localhightlist[p] \in Seq(Nat) /\ m_hightlist[p] \in Seq(Nat)
        BY <3>1
      <4> HIDE <1>1, MailboxAssumption DEF TypeOK, MailboxAssumption
      <4>2. PICK a, b \in Seq(Nat), e \in Nat :
                a = localhightlist[p] /\ b = m_hightlist[p] /\ e = sent[p] + 1
        BY <1>1, <4>1
      <4>3. a \o Append(b, e) = Append(a \o b, e)
        BY InboxAppend
      <4> QED
        BY <4>2, <4>3
    <3>4. inbox[p] = localhightlist[p] \o m_hightlist[p]
      BY <2>2 DEF inbox
    <3>5. UNCHANGED <<locallist, localhightlist, m_list>>
      BY <2>2 DEF Post, locals
    <3>6. m_hightlist'[p] = Append(m_hightlist[p], sent[p] + 1)
      BY <3>1, <3>2
    <3>7. \A l \in High \ {p} : m_hightlist'[l] = m_hightlist[l]
      BY <3>2
    <3> QED
      BY <2>2, <3>3, <3>4, <3>5, <3>6, <3>7, InboxAt
  <2> QED
    BY <2>1, <2>2
<1> QED
  BY <1>2 DEF Post, Serial!SerialPost, locals

LEMMA HandleHighIsSerialHandle ==
  ASSUME TypeOK, SimInv, NEW l \in High, HandleHigh(l)
  PROVE  Serial!SerialHandle(l)
<1> USE MailboxAssumption DEF MailboxAssumption, TypeOK
<1>1. /\ l # Normal /\ l \in Prio
      /\ localhightlist[l] # <<>> /\ pc = "high"
      /\ Below(l, lvalue)
  BY DEF HandleHigh, FirstBucket, Normal, Prio
<1>2. \A k \in unsat : l < k
  BY <1>1 DEF SimInv, GateIsSafe, Below
<1>3. inbox[l] = localhightlist[l] \o m_hightlist[l]
  BY <1>1 DEF inbox
<1>4. /\ inbox[l] # <<>>
      /\ Head(inbox[l]) = Head(localhightlist[l])
      /\ Tail(inbox[l]) = Tail(localhightlist[l]) \o m_hightlist[l]
  <2>1. localhightlist[l] \in Seq(Nat) /\ m_hightlist[l] \in Seq(Nat)
    BY <1>1
  <2>2. localhightlist[l] # <<>>
    BY <1>1
  <2> HIDE <1>1, MailboxAssumption DEF TypeOK, MailboxAssumption
  <2>3. PICK s, t \in Seq(Nat) : s = localhightlist[l] /\ t = m_hightlist[l]
    BY <2>1
  <2>4. s \o t # <<>> /\ Head(s \o t) = Head(s) /\ Tail(s \o t) = Tail(s) \o t
    BY <2>2, <2>3, InboxHeadTail
  <2> QED
    BY <1>3, <2>3, <2>4
<1>5. inbox' = [inbox EXCEPT ![l] = Tail(inbox[l])]
  <2>1. localhightlist' = [localhightlist EXCEPT ![l] = Tail(@)]
    BY DEF HandleHigh
  <2>2. UNCHANGED <<m_hightlist, locallist, m_list>>
    BY DEF HandleHigh
  <2>3. localhightlist'[l] \o m_hightlist'[l] = Tail(inbox[l])
    BY <1>4, <2>1, <2>2
  <2>4. \A j \in High \ {l} : localhightlist'[j] \o m_hightlist'[j]
                                = localhightlist[j] \o m_hightlist[j]
    BY <2>1, <2>2
  <2> QED
    BY <1>1, <2>2, <2>3, <2>4, InboxAt
<1>6. last' = [last EXCEPT ![l] = Head(inbox[l])]
  BY <1>4 DEF HandleHigh
<1>7. unsat' = unsat \/ unsat' = unsat \ {l + 1}
  BY DEF HandleHigh
<1> QED
  BY <1>1, <1>2, <1>4, <1>5, <1>6, <1>7 DEF HandleHigh, Serial!SerialHandle, Serial!Normal, Normal

LEMMA HandleNormalIsSerialHandle ==
  ASSUME TypeOK, SimInv, HandleNormal
  PROVE  Serial!SerialHandle(Normal)
<1> USE DEF TypeOK
<1>1. locallist # <<>> /\ unsat = {} /\ Normal \in Prio
  BY DEF HandleNormal, SimInv, NormalWhenReady, is_ready, Prio
<1>2. inbox[Normal] = locallist \o m_list
  BY <1>1 DEF inbox
<1>3. /\ inbox[Normal] # <<>>
      /\ Head(inbox[Normal]) = Head(locallist)
      /\ Tail(inbox[Normal]) = Tail(locallist) \o m_list
  <2>1. locallist \in Seq(Nat) /\ m_list \in Seq(Nat)
    BY <1>1
  <2>2. locallist # <<>>
    BY <1>1
  <2> HIDE <1>1 DEF TypeOK
  <2>3. PICK s, t \in Seq(Nat) : s = locallist /\ t = m_list
    BY <2>1
  <2>4. s \o t # <<>> /\ Head(s \o t) = Head(s) /\ Tail(s \o t) = Tail(s) \o t
    BY <2>2, <2>3, InboxHeadTail
  <2> QED
    BY <1>2, <2>3, <2>4
<1>4. inbox' = [inbox EXCEPT ![Normal] = Tail(inbox[Normal])]
  BY <1>1, <1>3, InboxAt DEF HandleNormal
<1> QED
  BY <1>1, <1>3, <1>4 DEF HandleNormal, Serial!SerialHandle, Serial!Normal, Normal

(* Swapping a queue out, holding buckets back and splicing the rest in     *)
(* front again move messages inside the inbox without a trace.             *)
LEMMA SilentSteps ==
  ASSUME TypeOK, SimInv,
         \/ Dispatch \/ Check \/ EndHigh \/ Return
         \/ SwapHigh \/ RestoreHigh \/ SwapNormal \/ EndNormal \/ UNCHANGED vars
  PROVE  UNCHANGED <<inbox, sent, last, unsat>>
<1> USE MailboxAssumption DEF MailboxAssumption, TypeOK, SimInv
<1>1. CASE Dispatch \/ Check \/ EndHigh \/ Return \/ UNCHANGED vars
  BY <1>1 DEF Dispatch, Check, EndHigh, Return, vars, locals, inbox
<1>2. CASE SwapHigh
  <2>1. ASSUME NEW l \in High
        PROVE  localhightlist'[l] \o m_hightlist'[l] = localhightlist[l] \o m_hightlist[l]
    <3>1. localhightlist[l] = <<>>
      BY <1>2 DEF SwapHigh, HoldsHighInPhase, NoHigh
    <3>2. localhightlist'[l] = m_hightlist[l] /\ m_hightlist'[l] = <<>>
      BY <1>2 DEF SwapHigh, NoHigh
    <3> QED
      BY <3>1, <3>2, ConcatEmptySeq
  <2> QED
    BY <1>2, <2>1, InboxUnchanged DEF SwapHigh
<1>3. CASE RestoreHigh
  <2>1. ASSUME NEW l \in High
        PROVE  localhightlist'[l] \o m_hightlist'[l] = localhightlist[l] \o m_hightlist[l]
    <3>1. localhightlist[l] \o m_hightlist[l] \in Seq(Nat)
      BY ConcatProperties
    <3>2. localhightlist'[l] = <<>>
          /\ m_hightlist'[l] = localhightlist[l] \o m_hightlist[l]
      BY <1>3 DEF RestoreHigh, NoHigh
    <3> QED
      BY <3>1, <3>2, ConcatEmptySeq
  <2> QED
    BY <1>3, <2>1, InboxUnchanged DEF RestoreHigh
<1>4. CASE SwapNormal
  <2>1. locallist = <<>>
    BY <1>4 DEF SwapNormal, HoldsListInPhase
  <2>2. locallist' \o m_list' = locallist \o m_list
    BY <1>4, <2>1, ConcatEmptySeq DEF SwapNormal
  <2> QED
    BY <1>4, <2>2, InboxUnchanged DEF SwapNormal
<1>5. CASE EndNormal
  <2>1. locallist \o m_list \in Seq(Nat)
    BY ConcatProperties
  <2>2. locallist' \o m_list' = locallist \o m_list
    BY <1>5, <2>1, ConcatEmptySeq DEF EndNormal
  <2> QED
    BY <1>5, <2>2, InboxUnchanged DEF EndNormal
<1> QED
  BY <1>1, <1>2, <1>3, <1>4, <1>5

(* The mailbox implements the serial inbox: each class in posting order,   *)
(* nothing lost, nothing twice, nothing past an unsatisfied condition.     *)
THEOREM MailboxImplementsSerial == Spec => ImplementsSerialMailbox
<1>1. Init => Serial!SerialInit
  <2> SUFFICES ASSUME Init PROVE Serial!SerialInit
    OBVIOUS
  <2>1. <<>> \o <<>> = <<>>
    BY ConcatEmptySeq
  <2>2. inbox = [p \in Prio |-> <<>>]
    BY <2>1 DEF Init, inbox, NoHigh, Prio
  <2> QED
    BY <2>2 DEF Init, Serial!SerialInit, Serial!Prio, Serial!Normal, Prio, Normal
<1>2. TypeOK /\ SimInv /\ [Next]_vars => [Serial!SerialNext]_(Serial!serialVars)
  <2> SUFFICES ASSUME TypeOK, SimInv, [Next]_vars
               PROVE  Serial!SerialNext \/ UNCHANGED <<inbox, sent, last, unsat>>
    BY DEF Serial!serialVars
  <2>1. Serial!Prio = Prio
    BY DEF Serial!Prio, Serial!Normal, Prio, Normal
  <2>2. ASSUME NEW p \in Prio, Post(p) PROVE Serial!SerialNext
    BY <2>1, <2>2, PostIsSerialPost DEF Serial!SerialNext
  <2>3. ASSUME NEW l \in High, HandleHigh(l) PROVE Serial!SerialNext
    <3>1. l \in Prio
      BY DEF Prio
    <3> QED
      BY <2>1, <2>3, <3>1, HandleHighIsSerialHandle DEF Serial!SerialNext
  <2>4. ASSUME HandleNormal PROVE Serial!SerialNext
    <3>1. Normal \in Prio
      BY DEF Prio
    <3> QED
      BY <2>1, <2>4, <3>1, HandleNormalIsSerialHandle DEF Serial!SerialNext
  <2>5. ASSUME \/ Dispatch \/ Check \/ EndHigh \/ Return
               \/ SwapHigh \/ RestoreHigh \/ SwapNormal \/ EndNormal \/ UNCHANGED vars
        PROVE  UNCHANGED <<inbox, sent, last, unsat>>
    BY <2>5, SilentSteps
  <2> QED
    BY <2>2, <2>3, <2>4, <2>5 DEF Next, Worker
<1> QED
  BY <1>1, <1>2, TypeInvariant, SimInvInductive, PTL
     DEF Spec, ImplementsSerialMailbox, Serial!SerialSpec
-----------------------------------------------------------------------------
(* The actor that starts.  While the layer holds it in state init nobody   *)
(* posts to it or runs it; from then on it is an actor as above, whose     *)
(* conditions may still grow: that makes less runnable, never more.        *)
StartInv ==
    /\ StartTypeOK
    /\ stat = "init" => pc = "idle" /\ m_list = <<>> /\ m_hightlist = NoHigh
    /\ stat # "init" => Inv

(* More conditions lower the gate. *)
LEMMA GrowingGate ==
  ASSUME TypeOK, TypeOK', unsat \subseteq unsat', UNCHANGED <<m_list, m_hightlist>>
  PROVE  /\ list_empty => list_empty'
         /\ is_ready' => is_ready /\ list_empty' = list_empty
<1> USE MailboxAssumption DEF MailboxAssumption, TypeOK
<1>1. is_ready' => unsat' = unsat
  BY DEF is_ready
<1>2. ASSUME is_ready' PROVE is_ready /\ list_empty' = list_empty
  BY <1>1, <1>2 DEF is_ready, list_empty, high_empty, hightlevel_ready, Below
<1>3. ASSUME list_empty, ~is_ready' PROVE list_empty'
  <2>1. high_empty' = high_empty
    BY DEF high_empty
  <2>2. CASE is_ready
    BY <1>3, <2>1, <2>2 DEF list_empty, high_empty
  <2>3. CASE ~is_ready
    <3>1. ASSUME NEW l \in High, m_hightlist[l] # <<>>
          PROVE  ~Below(l, hightlevel_ready')
      <4>1. ~Below(l, hightlevel_ready)
        BY <1>3, <2>3, <3>1 DEF list_empty
      <4>2. PICK k \in hightlevel_ready : ~(l < k)
        BY <4>1 DEF Below
      <4>3. k \in unsat' /\ k \in Nat /\ l \in Nat
        BY <4>2 DEF hightlevel_ready
      <4>4. PICK j \in unsat' : \A i \in unsat' : j <= i
        BY <4>3, LowestKey
      <4>5. j \in hightlevel_ready' /\ j \in Nat /\ j <= k
        BY <4>3, <4>4 DEF hightlevel_ready
      <4> QED
        BY <4>2, <4>3, <4>5 DEF Below
    <3> QED
      BY <1>3, <3>1 DEF list_empty
  <2> QED
    BY <2>2, <2>3
<1> QED
  BY <1>2, <1>3

LEMMA StartInit_Inv == StartInit => StartInv
<1> SUFFICES ASSUME StartInit PROVE StartInv
  OBVIOUS
<1>1. NoHigh \in [High -> Seq(Nat)] /\ [p \in Prio |-> 0] \in [Prio -> Nat]
  BY DEF NoHigh
<1>2. 0 \in 0..Weight /\ "idle" \in Pc /\ <<>> \in Seq(Nat)
  BY MailboxAssumption DEF MailboxAssumption, Pc
<1>3. StartTypeOK
  BY <1>1, <1>2, Zenon DEF StartInit, StartTypeOK
<1> QED
  BY <1>3 DEF StartInv, StartInit

(* While the actor is past state init, its types are the mailbox's. *)
LEMMA StartTypes ==
  ASSUME StartTypeOK
  PROVE  /\ stat # "init" => TypeOK
         /\ afun \in {"setfree", "init", "initdb", "done"}
         /\ stat = "init" <=> afun = "setfree"
BY DEF StartTypeOK, TypeOK

LEMMA TypesStart ==
  ASSUME TypeOK', afun' \in {"init", "initdb", "done"}
  PROVE  StartTypeOK'
BY DEF StartTypeOK, TypeOK

LEMMA StartStep == StartInv /\ [StartNext]_startVars => StartInv'
<1> SUFFICES ASSUME StartInv, [StartNext]_startVars PROVE StartInv'
  OBVIOUS
<1>0. StartTypeOK /\ afun \in {"setfree", "init", "initdb", "done"}
      /\ (stat = "init" <=> afun = "setfree")
  BY StartTypes DEF StartInv
<1>1. CASE UNCHANGED startVars
  <2>1. UNCHANGED vars /\ UNCHANGED afun
    BY <1>1 DEF startVars
  <2>2. StartTypeOK'
    BY <1>0, <2>1 DEF StartTypeOK, vars, locals
  <2>3. stat # "init" => Inv'
    BY <2>1, InvStep, TypeStep DEF StartInv, Inv
  <2> QED
    BY <2>1, <2>2, <2>3 DEF StartInv, vars
<1>2. ASSUME stat # "init", [Next]_vars, UNCHANGED afun PROVE StartInv'
  <2>1. Inv /\ TypeOK /\ afun \in {"init", "initdb", "done"}
    BY <1>0, <1>2 DEF StartInv, Inv
  <2>2. TypeOK' /\ Inv'
    BY <1>2, <2>1, TypeStep, InvStep
  <2>3. afun' \in {"init", "initdb", "done"}
    BY <1>2, <2>1
  <2>4. StartTypeOK'
    BY <2>2, <2>3, TypesStart
  <2>5. stat' # "init"
    BY <2>2 DEF TypeOK
  <2> QED
    BY <2>2, <2>4, <2>5 DEF StartInv
<1>3. ASSUME NEW p \in Prio, StartPost(p) PROVE StartInv'
  BY <1>2, <1>3 DEF StartPost, Next
<1>4. ASSUME Dispatch, UNCHANGED afun PROVE StartInv'
  BY <1>2, <1>4 DEF Dispatch, Next
<1>5. ASSUME Worker, UNCHANGED afun PROVE StartInv'
  <2>1. pc # "idle"
    BY <1>5 DEF Worker, Check, SwapHigh, EndHigh, RestoreHigh, SwapNormal,
                HandleNormal, EndNormal, Return, HandleHigh
  <2>2. stat # "init"
    BY <2>1 DEF StartInv
  <2> QED
    BY <1>2, <1>5, <2>2 DEF Next
<1>6. ASSUME SetFree PROVE StartInv'
  <2>1. stat = "init" /\ pc = "idle" /\ m_list = <<>> /\ m_hightlist = NoHigh
    BY <1>0, <1>6 DEF SetFree, StartInv
  <2>2. stat' = "free" /\ afun' = "init" /\ UNCHANGED <<m_list, m_hightlist, unsat, pc, locals, sent, last>>
    BY <1>6 DEF SetFree
  <2>3. TypeOK'
    BY <1>0, <2>2 DEF StartTypeOK, TypeOK, locals
  <2>4. list_empty'
    BY <2>1, <2>2 DEF NoHigh, list_empty, high_empty
  <2>5. Inv'
    BY <2>1, <2>2, <2>3, <2>4
       DEF Inv, RunIffBusy, QueuedHasWork, ReadySaysSo, NoStrandedWork
  <2>6. StartTypeOK'
    BY <2>2, <2>3, TypesStart
  <2> QED
    BY <2>2, <2>5, <2>6 DEF StartInv
<1>7. ASSUME CallInit \/ CallInitDb PROVE StartInv'
  <2>1. stat # "init" /\ Inv /\ TypeOK
    BY <1>0, <1>7 DEF CallInit, CallInitDb, StartInv, Inv
  <2>2. /\ afun' \in {"initdb", "done"} /\ unsat \subseteq unsat' /\ unsat' \subseteq ReadyKeys
        /\ UNCHANGED <<stat, m_list, m_hightlist, pc, locals, sent, last>>
    BY <1>7, <2>1 DEF CallInit, CallInitDb, TypeOK
  <2>3. TypeOK'
    BY <2>1, <2>2 DEF TypeOK, locals
  <2>4. /\ list_empty => list_empty'
        /\ is_ready' => is_ready /\ list_empty' = list_empty
    BY <2>1, <2>2, <2>3, GrowingGate
  <2>5. Inv'
    BY <2>1, <2>2, <2>3, <2>4
       DEF Inv, RunIffBusy, QueuedHasWork, ReadySaysSo, NoStrandedWork, locals
  <2>6. StartTypeOK'
    BY <2>2, <2>3, TypesStart
  <2> QED
    BY <2>1, <2>2, <2>5, <2>6 DEF StartInv
<1> QED
  BY <1>1, <1>3, <1>4, <1>5, <1>6, <1>7 DEF StartNext, Callback

LEMMA StartInvariant == StartSpec => []StartInv
<1> QED
  BY StartInit_Inv, StartStep, PTL DEF StartSpec

(* Every variable keeps the shape the code gives it while the actor starts *)
(* and after; it is in state init exactly until the callback makes it free. *)
THEOREM StartTypeInvariant == StartSpec => []StartTypeOK
<1>1. StartInv => StartTypeOK
  BY DEF StartInv
<1> QED
  BY <1>1, StartInvariant, PTL

(* Conditions that init() and init_db_component register while messages    *)
(* are already being handled lose no wakeup either.                        *)
THEOREM NothingStrandedAtStart == StartSpec => []NoStrandedWork
<1>1. StartInv => NoStrandedWork
  BY DEF StartInv, Inv, NoStrandedWork
<1> QED
  BY <1>1, StartInvariant, PTL
=============================================================================
