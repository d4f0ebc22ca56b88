------------------------------ MODULE RowStore ------------------------------
(***************************************************************************)
(* What the database promises the owner of a table's rows: every row has   *)
(* one history (version 0, 1, 2, ... and at last Gone); what is durable    *)
(* follows what the owner sees, never turns back and never runs ahead; and *)
(* only a crash makes the owner see less, never less than what is durable. *)
(***************************************************************************)
EXTENDS Naturals

CONSTANTS Keys, MaxVersion

VARIABLES
    value,    \* what the owner sees, or would see if it loaded now
    durable   \* what a crash of everything leaves

Gone == MaxVersion + 1
States == [Keys -> 0..Gone]

(* a is a state the row had on its way to b *)
UpTo(f, g) == \A k \in Keys : f[k] <= g[k]

RowInit == value \in States /\ durable = value

Change(k) ==
    /\ value[k] < MaxVersion
    /\ value' = [value EXCEPT ![k] = @ + 1]
    /\ UNCHANGED durable

Delete(k) ==
    /\ value[k] \in 1..MaxVersion
    /\ value' = [value EXCEPT ![k] = Gone]
    /\ UNCHANGED durable

Persist ==
    /\ durable' \in States /\ UpTo(durable, durable') /\ UpTo(durable', value)
    /\ UNCHANGED value

Crash ==
    /\ value' \in States /\ UpTo(durable, value') /\ UpTo(value', value)
    /\ UNCHANGED durable

RowNext == (\E k \in Keys : Change(k) \/ Delete(k)) \/ Persist \/ Crash

RowSpec == RowInit /\ [][RowNext]_<<value, durable>>
=============================================================================
