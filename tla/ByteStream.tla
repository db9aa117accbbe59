----------------------------- MODULE ByteStream -----------------------------
(***************************************************************************)
(* What one direction of a mux stream promises its two applications, with  *)
(* sessions, queues, windows, chunks and tasks left out: a pipe.  The      *)
(* reader is handed the writer's bytes in order, without gap or repetition *)
(* (at, the position of the next byte for the reader, moves with got, the  *)
(* number of bytes it has had).  It may find the pipe cut at any moment,   *)
(* but it is told that the stream is complete only when the writer has     *)
(* finished it and every byte has been read.                               *)
(***************************************************************************)
EXTENDS Naturals

VARIABLES
    put,      \* bytes the writer has handed in
    closed,   \* the writer has finished or reset the stream
    got,      \* bytes the reader has been handed
    at,       \* position of the byte it is handed next
    end       \* what the reader was told: open, complete or cut

vars == <<put, closed, got, at, end>>

Init == put = 0 /\ closed = FALSE /\ got = 0 /\ at = 0 /\ end = "open"

Put ==
    /\ ~closed
    /\ put' > put
    /\ UNCHANGED <<closed, got, at, end>>

Close ==
    /\ closed' = TRUE
    /\ UNCHANGED <<put, got, at, end>>

Get ==
    /\ end = "open"
    /\ got' \in got + 1..put /\ at' = got'
    /\ UNCHANGED <<put, closed, end>>

Complete ==
    /\ end = "open" /\ closed /\ got = put
    /\ end' = "complete"
    /\ UNCHANGED <<put, closed, got, at>>

Cut ==
    /\ end = "open"
    /\ end' = "cut"
    /\ UNCHANGED <<put, closed, got, at>>

Next == Put \/ Close \/ Get \/ Complete \/ Cut

Spec == Init /\ [][Next]_vars

=============================================================================
