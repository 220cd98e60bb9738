------------------------------ MODULE MCBroker ------------------------------
(* Constants of Broker for TLC.                                            *)
EXTENDS Broker, TLC

CONSTANTS c1, c2, c3, a, b, t1, t2

(* Two processes are started with the ID a, one with b.                    *)
NameAAB == (c1 :> a) @@ (c2 :> a) @@ (c3 :> b)
NameAB  == (c1 :> a) @@ (c3 :> b)
NameAA  == (c1 :> a) @@ (c2 :> a)
NameA   == (c1 :> a)

(* Bounds: requests, datagrams and lines for the server together.  The     *)
(* line counts twice, and a third request leaves room for nothing else.    *)
Inputs == requests + Len(pub) + (IF console = "quiet" THEN 0 ELSE 2)
FewInputs == Inputs <= 4 /\ (requests = 3 => Inputs = 3)

(* The two processes with the ID a may be exchanged.                       *)
Twins == Permutations({c1, c2})
TwinsAndTopics == Twins \cup Permutations({t1, t2})
=============================================================================
