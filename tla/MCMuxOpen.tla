----------------------------- MODULE MCMuxOpen -----------------------------
(* Configurations for MuxOpen.                                              *)
EXTENDS MuxOpen, TLC

Task(e, d, i) == [at |-> e, dir |-> d, k |-> i]

(* A bidirectional stream of the client against a unidirectional one of the *)
(* server with room for one; three generations of unidirectional streams    *)
(* through two table entries.                                               *)
Separate ==
    {[ids |-> (Task("client", "bi", 1) :> 1) @@ (Task("server", "uni", 1) :> 1),
      limit |-> 1],
     [ids |-> Task("client", "uni", 1) :> 3, limit |-> 2]}

(* Two tasks open through clones of one Session. *)
Shared ==
    {[ids |-> [k \in {Task("client", "uni", i) : i \in 1..2} |-> 2], limit |-> 2]}

=============================================================================
