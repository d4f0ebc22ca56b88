----------------------------- MODULE WorkerPool -----------------------------
(***************************************************************************)
(* The pool of worker threads that the dispatchers of actor_manage share:  *)
(* an array used as a stack, a counting semaphore and a suspend flag.      *)
(* The slots below m_workthreadpos are lent out, the others available.     *)
(*                                                                         *)
(* The operators below are the critical sections; modules that use the     *)
(* pool say who runs them and when.  m_mutex guards the array, the         *)
(* position and the flag; the semaphore is signalled after it is released, *)
(* by a thread whose next step touches none of the three, so the critical  *)
(* section and the signal are one step here.                               *)
(***************************************************************************)
EXTENDS Integers, FiniteSets

CONSTANT m_threadcount

ASSUME ThreadAssumption == m_threadcount \in Nat \ {0}

Workers == 0 .. m_threadcount - 1      \* nthread ids, and the slots of the array
NoThread == m_threadcount              \* nullptr

VARIABLES m_workthreads, m_workthreadpos, pool_sem, m_suspend

poolVars == <<m_workthreads, m_workthreadpos, pool_sem, m_suspend>>

(* actor_manage::init: worker i in slot i, one token each. *)
PoolInit ==
    /\ m_workthreads = [i \in Workers |-> i]
    /\ m_workthreadpos = 0
    /\ pool_sem = m_threadcount
    /\ m_suspend = FALSE

CanLend == ~m_suspend /\ m_workthreadpos # m_threadcount

(* The locked part of pop_workthreads: no token is taken when it succeeds. *)
Lend(w) ==
    /\ CanLend
    /\ w = m_workthreads[m_workthreadpos]
    /\ m_workthreadpos' = m_workthreadpos + 1
    /\ UNCHANGED <<m_workthreads, pool_sem, m_suspend>>

(* pop_workthreads found nothing to lend and waits for a token. *)
PoolSemWait ==
    /\ pool_sem > 0
    /\ pool_sem' = pool_sem - 1
    /\ UNCHANGED <<m_workthreads, m_workthreadpos, m_suspend>>

(* Mutant: no token for the worker given back. *)
push_unsignalled(w) ==
    /\ m_workthreadpos' = m_workthreadpos - 1
    /\ m_workthreads' = [m_workthreads EXCEPT ![m_workthreadpos - 1] = w]
    /\ UNCHANGED <<pool_sem, m_suspend>>

push_workthreads(w) ==
    /\ m_workthreadpos' = m_workthreadpos - 1
    /\ m_workthreads' = [m_workthreads EXCEPT ![m_workthreadpos - 1] = w]
    /\ pool_sem' = pool_sem + 1
    /\ UNCHANGED m_suspend

(* One turn of the loop of statrt_suspend_thread; it returns when all are  *)
(* back.  (finish_suspend_thread is never reached, see SuspenderWaits in   *)
(* module Scheduler.)                                                      *)
AskSuspend ==
    /\ m_suspend' = TRUE
    /\ UNCHANGED <<m_workthreads, m_workthreadpos, pool_sem>>

(* Mutant: one worker is overlooked. *)
AllButOneReturned == m_workthreadpos <= 1

AllReturned == m_workthreadpos = 0
-----------------------------------------------------------------------------
Available == {m_workthreads[i] : i \in m_workthreadpos .. m_threadcount - 1}

PoolTypeOK ==
    /\ m_workthreads \in [Workers -> Workers]
    /\ m_workthreadpos \in 0 .. m_threadcount
    /\ pool_sem \in Nat
    /\ m_suspend \in BOOLEAN
=============================================================================
