---------------------------- MODULE ActorMailbox ----------------------------
(***************************************************************************)
(* One actor: its two pending queues, the readiness gate in front of them, *)
(* the scheduler-visible state that decides who runs it, any number of     *)
(* posting threads and the worker that runs a slice of it.                 *)
(*                                                                         *)
(* Posting holds the layer's mutex and, inside it, the actor's mutex, so a *)
(* post is one step.  A slice is not: the worker swaps a queue out under   *)
(* the actor's mutex, runs handlers with no lock held, and puts the rest   *)
(* back later; posts land between any two of those steps.                  *)
(*                                                                         *)
(*   stat            actor::m_stat, as far as a registered actor goes      *)
(*   m_list          normal FIFO; m_hightlist: a bucket per level          *)
(*   unsat           keys of nready predicates that are still false        *)
(*   pc              where the worker is (nthread::run, actor_handle)      *)
(*   localhightlist, locallist, lvalue, lweight, lready                    *)
(*                   the locals of actor_handle and nthread::run           *)
(*   sent, last      message names: the k-th message of a class is k;      *)
(*                   last is the name handled last                         *)
(***************************************************************************)
EXTENDS Naturals, Sequences

CONSTANTS High,       \* levels with a positive highvalue (db 1, nsp 2, custom 10)
          ReadyKeys,  \* keys registered with set_ready: level + 1
          Weight,     \* m_weight
          MaxPost     \* bound: messages posted to one class

ASSUME MailboxAssumption ==
    /\ High \subseteq Nat \ {0}
    /\ ReadyKeys \subseteq Nat
    /\ Weight \in Nat \ {0}
    /\ MaxPost \in Nat

VARIABLES stat, m_list, m_hightlist, unsat,
          pc, localhightlist, locallist, lvalue, lweight, lready,
          sent, last

locals == <<localhightlist, locallist, lvalue, lweight, lready>>
vars == <<stat, m_list, m_hightlist, unsat, pc, locals, sent, last>>

Normal == 0
Prio == High \cup {Normal}
NoHigh == [l \in High |-> <<>>]

Pc == {"idle", "check", "swaphigh", "high", "restore", "swapnormal",
       "normal", "return"}
-----------------------------------------------------------------------------
(* nready: the map of predicates is walked in key order. *)
is_ready == unsat = {}

(* The optional result: empty when ready, else the lowest unsatisfied key. *)
hightlevel_ready == {k \in unsat : \A j \in unsat : k <= j}

Below(l, gate) == \A k \in gate : l < k

high_empty == \A l \in High : m_hightlist[l] = <<>>

(* True when nothing that may run now is queued. *)
list_empty ==
    IF is_ready THEN m_list = <<>> /\ high_empty
    ELSE \A l \in High : m_hightlist[l] # <<>> => ~Below(l, hightlevel_ready)

(* Mutant: a privileged message wakes the actor only once it is ready. *)
WakesWhenReady(p) == is_ready

(* The return value of actor::push: does the new message change what may run? *)
Wakes(p) ==
    IF p = Normal THEN is_ready
    ELSE \A j \in High : m_hightlist[j] # <<>> => p < j
-----------------------------------------------------------------------------
Init ==
    /\ stat = "free"
    /\ m_list = <<>> /\ m_hightlist = NoHigh
    /\ unsat = ReadyKeys
    /\ pc = "idle"
    /\ localhightlist = NoHigh /\ locallist = <<>>
    /\ lvalue = {} /\ lweight = 0 /\ lready = FALSE
    /\ sent = [p \in Prio |-> 0] /\ last = [p \in Prio |-> 0]

(* nosafe_push_task_id with actor::push: any thread, the actor's own handler included. *)
Post(p) ==
    /\ sent[p] < MaxPost
    /\ sent' = [sent EXCEPT ![p] = @ + 1]
    /\ IF p = Normal
       THEN m_list' = Append(m_list, sent[p] + 1) /\ UNCHANGED m_hightlist
       ELSE /\ m_hightlist' = [m_hightlist EXCEPT ![p] = Append(@, sent[p] + 1)]
            /\ UNCHANGED m_list
    /\ stat' = IF Wakes(p) /\ stat = "free" THEN "list" ELSE stat
    /\ UNCHANGED <<unsat, pc, locals, last>>

(* The dispatcher takes the actor off the ready queue and hands it to a worker. *)
Dispatch ==
    /\ stat = "list" /\ pc = "idle"
    /\ stat' = "run" /\ pc' = "check"
    /\ UNCHANGED <<m_list, m_hightlist, unsat, locals, sent, last>>

(* nthread::run asks before it calls actor_handle. *)
Check ==
    /\ pc = "check"
    /\ pc' = IF list_empty THEN "return" ELSE "swaphigh"
    /\ lready' = FALSE
    /\ UNCHANGED <<stat, m_list, m_hightlist, unsat, localhightlist, locallist,
                   lvalue, lweight, sent, last>>

(* Phase 1 takes every bucket, then reads the gate once for the whole phase. *)
SwapHigh ==
    /\ pc = "swaphigh" /\ pc' = "high"
    /\ localhightlist' = m_hightlist /\ m_hightlist' = NoHigh
    /\ lvalue' = hightlevel_ready
    /\ UNCHANGED <<stat, m_list, unsat, locallist, lweight, lready, sent, last>>

(* The bucket of the lowest level that is left. *)
FirstBucket(l) ==
    /\ localhightlist[l] # <<>>
    /\ \A j \in High : localhightlist[j] # <<>> => l <= j

(* A privileged handler may satisfy the condition one above its level. *)
HandleHigh(l) ==
    /\ pc = "high" /\ FirstBucket(l) /\ Below(l, lvalue)
    /\ last' = [last EXCEPT ![l] = Head(localhightlist[l])]
    /\ localhightlist' = [localhightlist EXCEPT ![l] = Tail(@)]
    /\ unsat' \in {unsat, unsat \ {l + 1}}
    /\ UNCHANGED <<stat, m_list, m_hightlist, pc, locallist, lvalue, lweight,
                   lready, sent>>

(* The first bucket is held back, or none is left. *)
EndHigh ==
    /\ pc = "high" /\ pc' = "restore"
    /\ ~\E l \in High : FirstBucket(l) /\ Below(l, lvalue)
    /\ UNCHANGED <<stat, m_list, m_hightlist, unsat, locals, sent, last>>

(* Mutant: buckets held back go behind what arrived meanwhile. *)
RestoreHighBehind ==
    /\ pc = "restore"
    /\ m_hightlist' = [l \in High |-> m_hightlist[l] \o localhightlist[l]]
    /\ localhightlist' = NoHigh
    /\ pc' = IF is_ready THEN "swapnormal" ELSE "return"
    /\ UNCHANGED <<stat, m_list, unsat, locallist, lvalue, lweight, lready, sent, last>>

(* Buckets held back go in front of what arrived meanwhile; then the exit if not ready. *)
RestoreHigh ==
    /\ pc = "restore"
    /\ m_hightlist' = [l \in High |-> localhightlist[l] \o m_hightlist[l]]
    /\ localhightlist' = NoHigh
    /\ pc' = IF is_ready THEN "swapnormal" ELSE "return"
    /\ UNCHANGED <<stat, m_list, unsat, locallist, lvalue, lweight, lready, sent, last>>

SwapNormal ==
    /\ pc = "swapnormal" /\ pc' = "normal"
    /\ locallist' = m_list /\ m_list' = <<>>
    /\ lweight' = Weight
    /\ UNCHANGED <<stat, m_hightlist, unsat, localhightlist, lvalue, lready, sent, last>>

(* Mutant: the weight is not looked at. *)
HandleNormalUnweighted ==
    /\ pc = "normal" /\ locallist # <<>>
    /\ lweight' = lweight - 1
    /\ last' = [last EXCEPT ![Normal] = Head(locallist)]
    /\ locallist' = Tail(locallist)
    /\ UNCHANGED <<stat, m_list, m_hightlist, unsat, pc, localhightlist, lvalue,
                   lready, sent>>

HandleNormal ==
    /\ pc = "normal" /\ lweight > 0 /\ locallist # <<>>
    /\ lweight' = lweight - 1
    /\ last' = [last EXCEPT ![Normal] = Head(locallist)]
    /\ locallist' = Tail(locallist)
    /\ UNCHANGED <<stat, m_list, m_hightlist, unsat, pc, localhightlist, lvalue,
                   lready, sent>>

(* Mutant: actor_handle returns false although the actor is ready. *)
EndNormalFalse ==
    /\ pc = "normal" /\ pc' = "return"
    /\ lweight = 0 \/ locallist = <<>> \/ lweight < Weight
    /\ m_list' = locallist \o m_list
    /\ locallist' = <<>>
    /\ UNCHANGED <<stat, m_hightlist, unsat, localhightlist, lvalue, lweight,
                   lready, sent, last>>

(* Weight spent, list done, or the time budget gone; the budget is at least *)
(* a millisecond from the start of the loop, so it never ends an idle loop. *)
EndNormal ==
    /\ pc = "normal" /\ pc' = "return"
    /\ lweight = 0 \/ locallist = <<>> \/ lweight < Weight
    /\ m_list' = locallist \o m_list
    /\ locallist' = <<>>
    /\ lready' = TRUE
    /\ UNCHANGED <<stat, m_hightlist, unsat, localhightlist, lvalue, lweight, sent, last>>

(* Mutant: what arrived before the actor became ready is not looked at. *)
ReturnWhenReady ==
    /\ pc = "return" /\ pc' = "idle"
    /\ stat' = IF ~list_empty /\ lready THEN "list" ELSE "free"
    /\ UNCHANGED <<m_list, m_hightlist, unsat, locals, sent, last>>

(* schedule_layer::push of a registered actor. *)
Return ==
    /\ pc = "return" /\ pc' = "idle"
    /\ stat' = IF ~list_empty /\ (lready \/ ~high_empty) THEN "list" ELSE "free"
    /\ UNCHANGED <<m_list, m_hightlist, unsat, locals, sent, last>>

Worker ==
    \/ Check \/ SwapHigh \/ EndHigh \/ RestoreHigh
    \/ SwapNormal \/ HandleNormal \/ EndNormal \/ Return
    \/ \E l \in High : HandleHigh(l)

Next == (\E p \in Prio : Post(p)) \/ Dispatch \/ Worker

Spec == Init /\ [][Next]_vars

(* The dispatcher and the worker are threads that never stop; a waiting    *)
(* dispatcher holds a semaphore token (module Scheduler), a handler ends.  *)
FairSpec == Spec /\ WF_vars(Dispatch) /\ WF_vars(Worker)
-----------------------------------------------------------------------------
(* Every variable has the shape the code gives it. *)
TypeOK ==
    /\ stat \in {"free", "list", "run"}
    /\ m_list \in Seq(Nat)
    /\ m_hightlist \in [High -> Seq(Nat)]
    /\ unsat \subseteq ReadyKeys
    /\ pc \in Pc
    /\ localhightlist \in [High -> Seq(Nat)]
    /\ locallist \in Seq(Nat)
    /\ lvalue \subseteq ReadyKeys
    /\ lweight \in 0..Weight
    /\ lready \in BOOLEAN
    /\ sent \in [Prio -> Nat]
    /\ last \in [Prio -> Nat]

(* No lost wakeup: an idle actor holds nothing that may run now.  push()   *)
(* wakes the actor only for some messages, and the returning worker decides *)
(* from lready, computed before other threads posted; neither may leave    *)
(* runnable work behind in an actor no dispatcher will look at.            *)
NoStrandedWork == stat = "free" => list_empty

(* What is still to be handled: the part the worker took, then the queue. *)
inbox == [p \in Prio |-> IF p = Normal THEN locallist \o m_list
                         ELSE localhightlist[p] \o m_hightlist[p]]

Serial == INSTANCE SerialMailbox

(* Swapping queues out, breaking off a slice and splicing the rest back is *)
(* invisible: each class is handled in posting order, exactly once, and    *)
(* only what the readiness conditions let through at that moment.          *)
ImplementsSerialMailbox == Serial!SerialSpec

(* Once the actor is ready every posted message is handled, however small  *)
(* the weight that cuts a slice short.                                     *)
ReadyDelivers ==
    \A p \in Prio, n \in 1..MaxPost :
        (is_ready /\ sent[p] >= n) ~> (last[p] >= n)

(* Readiness cannot lock itself out: a privileged message the gate lets    *)
(* through is handled although the actor is not ready.                     *)
PrivilegedProgress ==
    \A p \in High, n \in 1..MaxPost :
        (Below(p, unsat) /\ sent[p] >= n) ~> (last[p] >= n)
=============================================================================
