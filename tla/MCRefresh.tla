----------------------------- MODULE MCRefresh ------------------------------
(* Instances of Refresh for TLC.                                           *)
EXTENDS Refresh

CONSTANTS c1, c2

(* One thread calls Start, another one Stop.                               *)
TwoControllers == {c1, c2}
StartAndStop == [c \in TwoControllers |-> IF c = c1 THEN {"Start"} ELSE {"Stop"}]

(* Start is called, Stop never is.                                         *)
StartOnly == [c \in TwoControllers |-> IF c = c1 THEN {"Start"} ELSE {}]
=============================================================================
