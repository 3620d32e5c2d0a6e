----------------------------- MODULE DoIpRouting -----------------------------
(***************************************************************************)
(* What the DoIP entity promises the testers that share it: a tester       *)
(* address is held by at most one socket, a socket holds at most one       *)
(* address until it is released, never more than Capacity sockets hold     *)
(* one, and only a tester address the entity accepts is ever held.         *)
(***************************************************************************)
EXTENDS Naturals, FiniteSets

CONSTANTS Socket, AcceptableAddress, NoAddress, Capacity

VARIABLE holds    \* the address whose routing each socket holds

Held == {s \in Socket : holds[s] # NoAddress}

Init == holds = [s \in Socket |-> NoAddress]

(* Routing is granted to a socket that holds nothing, for an address nobody
   holds, while the entity has a socket left.                              *)
Grant(s, a) ==
    /\ holds[s] = NoAddress
    /\ \A t \in Socket : holds[t] # a
    /\ Cardinality(Held) < Capacity
    /\ holds' = [holds EXCEPT ![s] = a]

(* Any number of sockets lose their routing at once.                       *)
Release(S) ==
    holds' = [s \in Socket |-> IF s \in S THEN NoAddress ELSE holds[s]]

Next ==
    \/ \E s \in Socket, a \in AcceptableAddress : Grant(s, a)
    \/ \E S \in SUBSET Socket : Release(S)

Spec == Init /\ [][Next]_holds
=============================================================================
