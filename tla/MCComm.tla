------------------------------- MODULE MCComm -------------------------------
EXTENDS CommProperties, TLC

CONSTANTS a, b, a1, a2, b1
SharedAndOwn == (a1 :> a) @@ (a2 :> a) @@ (b1 :> b)
Shared == (a1 :> a) @@ (a2 :> a)
OneEach == [c \in Commands |-> 1]
TwoOne == [c \in Commands |-> IF c = a THEN 2 ELSE 1]
NoneEach == [c \in Commands |-> 0]
OneNone == [c \in Commands |-> IF c = a THEN 1 ELSE 0]
=============================================================================
