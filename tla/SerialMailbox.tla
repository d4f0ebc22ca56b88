--------------------------- MODULE SerialMailbox ---------------------------
(***************************************************************************)
(* What one actor promises to the code that posts to it, with no mention   *)
(* of threads, locks or the ready queue: one inbox per priority class,     *)
(* messages of a class handled one at a time in the order they were        *)
(* posted, none lost, none twice, and nothing handled that the readiness   *)
(* conditions still hold back.                                             *)
(*                                                                         *)
(*   inbox   posted and not yet handled, per priority class                *)
(*   sent    number of messages posted so far, per class (their names)     *)
(*   last    name of the message of the class handled last                 *)
(*   unsat   keys of the readiness conditions not satisfied yet            *)
(***************************************************************************)
EXTENDS Naturals, Sequences

CONSTANTS High,       \* privileged levels; a smaller level is more urgent
          ReadyKeys   \* keys of the conditions the actor registered

VARIABLES inbox, sent, last, unsat

serialVars == <<inbox, sent, last, unsat>>

Normal == 0
Prio == High \cup {Normal}

SerialInit ==
    /\ inbox = [p \in Prio |-> <<>>]
    /\ sent = [p \in Prio |-> 0]
    /\ last = [p \in Prio |-> 0]
    /\ unsat = ReadyKeys

SerialPost(p) ==
    /\ sent' = [sent EXCEPT ![p] = @ + 1]
    /\ inbox' = [inbox EXCEPT ![p] = Append(@, sent[p] + 1)]
    /\ UNCHANGED <<last, unsat>>

(* A condition, once satisfied, stays satisfied; only the level just below *)
(* its key advances it.                                                    *)
SerialHandle(p) ==
    /\ inbox[p] # <<>>
    /\ IF p = Normal THEN unsat = {} ELSE \A k \in unsat : p < k
    /\ last' = [last EXCEPT ![p] = Head(inbox[p])]
    /\ inbox' = [inbox EXCEPT ![p] = Tail(@)]
    /\ unsat' = unsat \/ (p # Normal /\ unsat' = unsat \ {p + 1})
    /\ UNCHANGED sent

SerialNext == \E p \in Prio : SerialPost(p) \/ SerialHandle(p)

SerialSpec == SerialInit /\ [][SerialNext]_serialVars
=============================================================================
