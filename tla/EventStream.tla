---------------------------- MODULE EventStream ----------------------------
(***************************************************************************)
(* What a monitor of the capture client promises of the events its kernel  *)
(* driver records: it examines them in the order in which they took place, *)
(* each at most once, and none that did not take place.  It does not       *)
(* promise to examine them all: the drivers drop events when nobody asks   *)
(* for them.                                                               *)
(***************************************************************************)
EXTENDS Integers, Sequences

VARIABLES
    occurred,   \* events that took place, numbered from 1
    delivered   \* the numbers of those that were examined, in that order

streamVars == <<occurred, delivered>>

Latest == IF delivered = <<>> THEN 0 ELSE delivered[Len(delivered)]

Init == occurred = 0 /\ delivered = <<>>

Occur == occurred' = occurred + 1 /\ UNCHANGED delivered

(* Whatever lies between the last event and this one is lost for good.     *)
Deliver ==
    /\ \E n \in (Latest + 1)..occurred : delivered' = Append(delivered, n)
    /\ UNCHANGED occurred

Next == Occur \/ Deliver

Spec == Init /\ [][Next]_streamVars
=============================================================================
