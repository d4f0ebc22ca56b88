-------------------------------- MODULE MCNsp --------------------------------
(* Instances of Nsp for TLC. *)
EXTENDS Nsp, TLC

CONSTANTS writer, other, reader

TwoRows == {1, 2}
Three == {writer, other, reader}
TwoWriters == {writer, other}
JustReader == {reader}
JustOther == {other}
(* writer writes row 1, which other reads; other writes row 2; reader reads all. *)
Reads == [p \in Peers |-> IF p = other THEN {1} ELSE {}]
Writes == [p \in Peers |-> IF p = writer THEN {1} ELSE IF p = other THEN {2} ELSE {}]

(* Two nodes.  In one order a change of `writer` skips the server, in the  *)
(* other a change of `other` skips the reader; announcements skip `writer` *)
(* in both.                                                                *)
TwoNodes == {"near", "far"}
Home == [n \in Peers \cup {Server} |-> IF n \in {Server, writer} THEN "near" ELSE "far"]
Turn(order) == [n \in Peers \cup {Server} |-> CHOOSE i \in 1..4 : order[i] = n]
TwoLayouts == {[home |-> Home, turn |-> Turn(order)] :
                   order \in {<<reader, other, Server, writer>>,
                              <<Server, reader, other, writer>>}}

(* The instance is one the theorem on ChangeArrives is about. *)
ASSUME EachRowOneWriter == OneWriter
=============================================================================
