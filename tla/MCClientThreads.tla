-------------------------- MODULE MCClientThreads --------------------------
(* One client with its receiver and its retriever, without and with the     *)
(* timers.  Two groups let a client wait, work and wait again; one is enough *)
(* for what a failure does to a group.                                       *)
EXTENDS ClientThreads

CONSTANTS g1, g2

Groups1 == {g1}
Groups2 == {g1, g2}
NoTimers == {}
AllTimers == {"PG", "CK"}
CheckerOnly == {"CK"}
=============================================================================
