------------------------------ MODULE MCFlash ------------------------------
EXTENDS FlashProperties

Request(k, a, d) == [kind |-> k, addr |-> a, len |-> Len(d), data |-> IF k = "write" THEN d ELSE <<>>]
All(n) == [i \in 1 .. n |-> TRUE]
FewRequests ==
  {Request("setup", 0, <<>>)}
  \cup {Request("write", a, d) : a \in {0, 1, 3}, d \in {<<TRUE>>, <<TRUE, TRUE, FALSE>>}}
  \cup {Request("read", a, All(n)) : a \in {0, 1}, n \in {0, 3, 4}}
  \cup {Request("erase", a, All(n)) : a \in {0, 1, 2}, n \in {2, 4}}
=============================================================================
