----------------------------- MODULE TimeWheel -----------------------------
(***************************************************************************)
(* The hierarchical timer wheel (tools_time_wheel.cpp).  A round has        *)
(* SlotCount slots, each as long as the whole round below it.  Slots are   *)
(* chosen by the absolute time a timer is due, counted from the start of   *)
(* the wheel; when a round wraps, the next bucket of the round above is    *)
(* spread over the rounds below.  The wheel thread turns the hands, maybe  *)
(* late; addtimer and removetimer come from any thread under the mutex,    *)
(* but addtimer reads the clock before it locks; callbacks run on a thread *)
(* of their own.                                                           *)
(***************************************************************************)
EXTENDS Integers, Sequences, FiniteSets

CONSTANTS
    Timers,
    Delays,        \* what addtimer may be given
    Interval,      \* timer -> interval, 0 for a timer that fires once
    Count,         \* timer -> how often it fires
    Precision,     \* m_time_wheel_precision
    SlotCount,     \* 2 to the power of m_time_wheel_bit
    Rounds,        \* m_time_wheel_count
    MaxNow,        \* bound: the clock
    MaxLate        \* bound: how far the wheel thread may fall behind it

ASSUME WheelAssumption ==
    /\ Delays \subseteq Nat
    /\ Interval \in [Timers -> {0} \cup {i \in Nat : i >= Precision}]
    /\ Count \in [Timers -> Nat \ {0}]
    /\ \A t \in Timers : Interval[t] = 0 => Count[t] = 1
    /\ {Precision, SlotCount, Rounds} \subseteq Nat \ {0}
    /\ MaxNow \in Nat /\ MaxLate \in Nat /\ MaxLate >= Precision

VARIABLES
    now,            \* the steady clock
    ticks,          \* m_sched_current_ms, in ticks since the start
    m_current_pos,  \* round -> its hand
    m_slots,        \* the timers in the wheel: <<round, slot, timer>>
    m_ms,           \* timer -> when it is due
    m_count,        \* timer -> firings left
    m_timer,        \* the timers removetimer can find
    removed,        \* timers whose flag is set
    adding,         \* timers between the two halves of addtimer
    queue,          \* timer -> due times of its callbacks that have not run
    fired           \* timer -> callbacks run

wheelVars == <<ticks, m_current_pos, m_slots>>
nodeVars == <<m_ms, m_count, m_timer>>
vars == <<now, wheelVars, nodeVars, removed, adding, queue, fired>>

Round == 1..Rounds
Slot == 0..SlotCount - 1
(* The constructor: a slot is as long as the round below. *)
m_slot_ms[r \in Round] == IF r = 1 THEN Precision ELSE m_slot_ms[r - 1] * SlotCount
SlotSum(r) == m_slot_ms[r] * SlotCount
Span == SlotSum(Rounds)
elapsed == ticks * Precision
NewTimer(t) == t \notin adding /\ m_ms[t] = -1

(* Mutant: the slot is not masked. *)
IndexUnmasked(r, ms) == ms \div m_slot_ms[r]
Index(r, ms) == (ms \div m_slot_ms[r]) % SlotCount
-----------------------------------------------------------------------------
(* A tick turns round r when the round below wraps.  T is the set of the   *)
(* rounds that have turned already: none, for addtimer.                    *)
Wraps(r) == (m_current_pos[r] + 1) % SlotCount = 0 /\ m_current_pos[r] # -1
(* Mutant: a round that wraps does not turn the next one. *)
TurningOne == {1}
Turning == {r \in Round : \A q \in 1..r - 1 : Wraps(q)}
Pos(T, r) == m_current_pos[r] + IF r \in T THEN 1 ELSE 0
Hand(T, r) == Pos(T, r) % SlotCount

(* push_slots of round r: a slot at or behind the hand passes the timer on *)
(* to the round below; round 1 keeps one that is at its hand, and drops    *)
(* one that is behind.                                                     *)
(* Mutant: the slot at the hand counts as ahead. *)
BehindStrictly(T, r, ms) == Pos(T, r) # -1 /\ Index(r, ms) < Hand(T, r)
Behind(T, r, ms) == Pos(T, r) # -1 /\ Index(r, ms) <= Hand(T, r)
PushSlots(T, r, t, ms) ==
    LET ahead == {q \in 1..r : ~Behind(T, q, ms)}
        q == IF ahead = {} THEN 1 ELSE CHOOSE q \in ahead : \A p \in ahead : p <= q
    IN  IF ahead = {} /\ Index(1, ms) # Hand(T, 1) THEN {}
        ELSE {<<q, Index(q, ms), t>>}

(* wheel::push of the rounds in turn: the first whose reach is enough *)
Push(T, t, ms) ==
    LET reach == {r \in Round : ms < SlotSum(r)}
    IN  PushSlots(T, CHOOSE r \in reach : \A q \in reach : r <= q, t, ms)

(* The bucket at the new hand of each turning round goes down, unless the  *)
(* highest round has wrapped.                                              *)
(* Mutant: the bucket is spread and not cleared. *)
CascadedKept(T) ==
    m_slots \cup UNION {PushSlots(T, p[1] - 1, p[3], m_ms[p[3]]) :
                        p \in {x \in m_slots : x[1] \in T \ {1} /\ x[2] = Hand(T, x[1])}}
Cascaded(T) ==
    LET falling == {p \in m_slots : /\ p[1] \in T \ {1} /\ p[2] = Hand(T, p[1])
                                    /\ ~(p[1] = Rounds /\ Wraps(Rounds))}
    IN  (m_slots \ falling)
        \cup UNION {PushSlots(T, p[1] - 1, p[3], m_ms[p[3]]) : p \in falling}
-----------------------------------------------------------------------------
Init ==
    /\ now = 0 /\ ticks = 0
    /\ m_current_pos = [r \in Round |-> IF r = 1 THEN -1 ELSE 0]
    /\ m_slots = {}
    /\ m_ms = [t \in Timers |-> -1] /\ m_count = Count
    /\ m_timer = {} /\ removed = {} /\ adding = {}
    /\ queue = [t \in Timers |-> <<>>] /\ fired = [t \in Timers |-> 0]

Clock ==
    /\ now < MaxNow /\ now - elapsed < MaxLate /\ now' = now + 1
    /\ UNCHANGED <<wheelVars, nodeVars, removed, adding, queue, fired>>

(* addtimer reads the clock ... *)
AddRead(t, delay) ==
    /\ NewTimer(t)
    /\ m_ms' = [m_ms EXCEPT ![t] = delay + now]
    /\ adding' = adding \cup {t}
    /\ UNCHANGED <<now, wheelVars, m_count, m_timer, removed, queue, fired>>

(* ... and schedule_locked places the timer.  Firings that are due already *)
(* are delivered at once; a timer past the span is refused.                *)
AddLocked(t) ==
    LET late(n) == m_ms[t] + n * Interval[t] < elapsed
        missed == IF Interval[t] = 0 THEN IF late(0) THEN 1 ELSE 0
                  ELSE CHOOSE n \in 0..Count[t] : /\ \A i \in 0..n - 1 : late(i)
                                                  /\ n = Count[t] \/ ~late(n)
        ms == m_ms[t] + missed * Interval[t]
    IN  /\ t \in adding
        /\ adding' = adding \ {t}
        /\ queue' = [queue EXCEPT ![t] =
                        [i \in 1..missed |-> m_ms[t] + (i - 1) * Interval[t]]]
        /\ m_count' = [m_count EXCEPT ![t] = @ - missed]
        /\ m_ms' = [m_ms EXCEPT ![t] = ms]
        /\ IF missed < Count[t] /\ ms < Span
           THEN /\ m_slots' = m_slots \cup Push({}, t, ms)
                /\ m_timer' = m_timer \cup {t}
           ELSE UNCHANGED <<m_slots, m_timer>>
        /\ UNCHANGED <<now, ticks, m_current_pos, removed, fired>>

removetimer(t) ==
    /\ t \in m_timer \ removed
    /\ removed' = removed \cup {t}
    /\ UNCHANGED <<now, wheelVars, nodeVars, adding, queue, fired>>

(* One slot of run(): the hands turn, buckets fall, and what the hand of   *)
(* round 0 meets is queued; a timer that repeats is placed again.          *)
Tick ==
    LET T == Turning
        fallen == Cascaded(T)
        met == {p \in fallen : p[1] = 1 /\ p[2] = Hand(T, 1) /\ ~(Rounds = 1 /\ Wraps(1))}
        due == {p[3] : p \in met}
        firing == due \ removed
        again == {t \in firing : Interval[t] > 0 /\ m_count[t] > 1}
        stay == {t \in again : m_ms[t] + Interval[t] < Span}
    IN  /\ elapsed + Precision <= now
        /\ ticks' = ticks + 1
        /\ m_current_pos' = [r \in Round |-> Pos(T, r)]
        /\ m_slots' = (fallen \ met)
                      \cup UNION {Push(T, t, m_ms[t] + Interval[t]) : t \in stay}
        /\ m_ms' = [t \in Timers |-> m_ms[t] + IF t \in again THEN Interval[t] ELSE 0]
        /\ m_count' = [t \in Timers |-> m_count[t] - IF t \in firing THEN 1 ELSE 0]
        /\ m_timer' = m_timer \ (due \ stay)
        /\ queue' = [t \in Timers |-> IF t \in firing THEN Append(queue[t], m_ms[t])
                                      ELSE queue[t]]
        /\ UNCHANGED <<now, removed, adding, fired>>

(* runcallback: the flag is looked at once more. *)
Callback(t) ==
    /\ queue[t] # <<>>
    /\ queue' = [queue EXCEPT ![t] = Tail(@)]
    /\ fired' = [fired EXCEPT ![t] = @ + IF t \in removed THEN 0 ELSE 1]
    /\ UNCHANGED <<now, wheelVars, nodeVars, removed, adding>>

Next ==
    \/ Clock \/ Tick
    \/ \E t \in Timers :
        \/ \E delay \in Delays : AddRead(t, delay)
        \/ AddLocked(t) \/ removetimer(t) \/ Callback(t)

Spec == Init /\ [][Next]_vars

(* Time passes and the two threads run. *)
FairSpec ==
    /\ Spec /\ WF_vars(Clock) /\ WF_vars(Tick)
    /\ \A t \in Timers : WF_vars(Callback(t))
-----------------------------------------------------------------------------
(* Every variable has the shape the code gives it. *)
TypeOK ==
    /\ now \in 0..MaxNow /\ ticks \in 0..MaxNow
    /\ m_current_pos \in [Round -> -1..MaxNow]
    /\ m_slots \subseteq Round \X Slot \X Timers
    /\ m_ms \in [Timers -> Int] /\ m_count \in [Timers -> Nat]
    /\ {m_timer, removed, adding} \subseteq SUBSET Timers
    /\ queue \in [Timers -> Seq(Int)] /\ fired \in [Timers -> Nat]

(* A timer is never delivered before it is due, and never missed by the    *)
(* hand: what is still in the wheel is due in a slot that is yet to come,  *)
(* whether it was placed by addtimer, an interval or a cascade, on time or *)
(* while the wheel thread was late.                                        *)
OnTime == \A t \in Timers :
    /\ t \in m_timer => m_ms[t] >= elapsed
    /\ \A i \in DOMAIN queue[t] : queue[t][i] < elapsed

(* push_slots, shift_current_pos: however timers cascade, none is dropped   *)
(* between two rounds, kept twice or left behind in a slot; and a timer    *)
(* fires as often as it was asked to: firings that were caught up count,   *)
(* and none is delivered twice.                                            *)
CountExact ==
    /\ \A t \in Timers :
        Cardinality({p \in m_slots : p[3] = t}) = IF t \in m_timer THEN 1 ELSE 0
    /\ \A t \in Timers \ (removed \cup adding) :
        /\ fired[t] + Len(queue[t]) + m_count[t] = Count[t]
        /\ t \notin m_timer /\ m_count[t] > 0 => NewTimer(t) \/ m_ms[t] >= Span

(* Every firing that falls before the end of the modelled time comes.      *)
Fires == \A t \in Timers : \A n \in 0..Count[t] - 1 :
    (t \in m_timer /\ m_ms[t] + Precision < MaxNow /\ fired[t] + Len(queue[t]) = n)
        ~> (fired[t] > n \/ t \in removed)
=============================================================================
