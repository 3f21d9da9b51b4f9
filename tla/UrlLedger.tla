------------------------------ MODULE UrlLedger ------------------------------
(* What the server promises about each URL it accepts, without groups,       *)
(* queues or reports: a URL waits, is out with exactly one client, comes     *)
(* back or is settled, and what is settled stays settled.  The URLs that a   *)
(* client gets together come back or are settled together.                   *)
CONSTANTS Url, Client, NoClient

VARIABLES
    status,  \* where each URL is
    holder   \* the client a URL is out with

vars == <<status, holder>>

Status == {"absent", "waiting", "out", "settled", "disowned"}

Init ==
    /\ status = [u \in Url |-> "absent"]
    /\ holder = [u \in Url |-> NoClient]

Move(S, to, client) ==
    /\ status' = [u \in Url |-> IF u \in S THEN to ELSE status[u]]
    /\ holder' = [u \in Url |-> IF u \in S THEN client ELSE holder[u]]

\* The URLs that are out with c: all of them or none come back.
HeldBy(c) == {u \in Url : holder[u] = c}

Accept(u) == status[u] = "absent" /\ Move({u}, "waiting", NoClient)

HandOut(c) ==
    /\ HeldBy(c) = {}
    /\ \E S \in SUBSET {u \in Url : status[u] = "waiting"} : S # {} /\ Move(S, "out", c)

PutBack(c) == HeldBy(c) # {} /\ Move(HeldBy(c), "waiting", NoClient)

Settle(c) == HeldBy(c) # {} /\ Move(HeldBy(c), "settled", NoClient)

\* Of what is disowned nothing is promised any more.
Disown(c) == HeldBy(c) # {} /\ Move(HeldBy(c), "disowned", NoClient)

\* The client was lost while the URLs were being sent, for the last time.
GiveUp == \E S \in SUBSET {u \in Url : status[u] = "waiting"} : S # {} /\ Move(S, "settled", NoClient)

Next ==
    \/ \E u \in Url : Accept(u)
    \/ \E c \in Client : HandOut(c) \/ PutBack(c) \/ Settle(c) \/ Disown(c)
    \/ GiveUp

Spec == Init /\ [][Next]_vars
=============================================================================
