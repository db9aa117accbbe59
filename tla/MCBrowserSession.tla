-------------------------- MODULE MCBrowserSession --------------------------
(* Configurations for BrowserSession. *)
EXTENDS BrowserSession

Uni(k, l) == [n |-> k, local |-> l, bi |-> FALSE]
Bi(k, l)  == [n |-> k, local |-> l, bi |-> TRUE]
Setup(i, c, u, m) == [ids |-> i, calls |-> c, units |-> u, maxOpen |-> m]

(* Two streams of this end, the second of them half opened when the queue   *)
(* takes its OPEN and not the credit behind it.                             *)
HalfOpen == {Setup({Uni(0, TRUE), Bi(0, TRUE)}, {}, 0, 2)}

(* Two streams of this end: the finish of one finds the OPENs of both queued. *)
Finishing == {Setup({Uni(0, TRUE), Uni(1, TRUE)}, {"direct"}, 0, 2)}

(* A stream of each kind, with the calls of its handles; two streams of two *)
(* ends; three streams of the peer that nobody accepts; and two of this end. *)
Kinds ==
    {Setup({Uni(0, TRUE)}, {"direct", "polled", "reset", "shutdown"}, 3, 1),
     Setup({Uni(0, FALSE)}, {"accept", "stop", "shutdown"}, 2, 1),
     Setup({Bi(0, TRUE)}, {"direct"}, 1, 1),
     Setup({Bi(0, FALSE)}, {"accept", "polled"}, 1, 1),
     Setup({Uni(0, TRUE), Uni(0, FALSE)}, {"accept"}, 1, 1),
     Setup({Bi(k, FALSE) : k \in 0..2}, {"shutdown"}, 0, 3)} \cup HalfOpen

=============================================================================
