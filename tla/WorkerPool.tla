----------------------------- MODULE WorkerPool -----------------------------
(***************************************************************************)
(* visitGroup() of the Internet Explorer plugins (Application_             *)
(* InternetExplorer and Application_InternetExplorerBulk): the Visitor's   *)
(* thread hands the URLs of a group to worker threads and waits for them.  *)
(*                                                                         *)
(* A worker and visitGroup() share a flag, a pointer and two auto-reset    *)
(* events.  The worker clears the flag and then sets worker_finished;      *)
(* visitGroup() reads the flag in its assignment loop, waits for an event, *)
(* and reads the flag again.  Every one of these accesses is a step, but   *)
(* for the assignment, whose three writes no worker reads before the last. *)
(*                                                                         *)
(* The same workers serve one group after the other.                       *)
(***************************************************************************)
EXTENDS Integers, FiniteSets

CONSTANTS
    Workers,      \* MAX_WORKER_THREADS
    MaxUrls       \* bound on the number of URLs of a group

ASSUME WorkersAssumption == Workers \in Nat \ {0}
ASSUME MaxUrlsAssumption == MaxUrls \in Nat \ {0}

Worker == 1..Workers

(* The major error codes visitUrl() leaves in a URL: nothing set when the   *)
(* browser offers no connection point, what the browser's events said,     *)
(* a time-out, a browser that could not be created or attached to (the     *)
(* latter in the bulk plugin only), and a window that could not be closed, *)
(* which overwrites the others.                                            *)
Outcome == {"OK", "NETWORK_ERROR", "TIMEOUT_ERROR", "PROCESS_ERROR",
            "ATTACH_PROCESS_ERROR", "WARNING"}

NotVisited == "not visited"

VARIABLES
    pc,         \* where visitGroup() is
    loop_i,       \* i of the loops over workers and URLs
    n_urls, n_visiting, n_visited_urls,
    index,      \* the worker whose event ended the wait
    url,        \* the major error code of each URL of the group
    errorCode,  \* of the VisitEvent
    worker,     \* where each worker is
    busy,       \* the workers whose worker_thread_busy is true
    data,       \* worker_thread_data, as the index of the URL
    has_data,   \* the workers whose worker_has_data is set
    finished    \* the workers whose worker_finished is set

poolVars == <<pc, loop_i, n_urls, n_visiting, n_visited_urls, index, url, errorCode,
          worker, busy, data, has_data, finished>>
group == <<n_urls, url, errorCode>>
workers == <<worker, busy, data, has_data, finished>>

PoolTypeOK ==
    /\ pc \in {"idle", "loop", "assign", "wait", "count", "codes"}
    /\ loop_i \in 1..(Workers + MaxUrls)
    /\ n_urls \in 0..MaxUrls /\ n_visiting \in 0..MaxUrls /\ n_visited_urls \in 0..MaxUrls
    /\ index \in Worker
    /\ url \in [1..MaxUrls -> Outcome \cup {NotVisited}]
    /\ errorCode \in Outcome \cup {"MULTIPLE_ERRORS"}
    /\ worker \in [Worker -> {"wait", "visit", "signal"}]
    /\ data \in [Worker -> 0..MaxUrls]
    /\ busy \subseteq Worker /\ has_data \subseteq Worker /\ finished \subseteq Worker

(* The constructor of the plugin, and no group yet.                         *)
PoolInit ==
    /\ pc = "idle" /\ loop_i = 1
    /\ n_urls = 0 /\ n_visiting = 0 /\ n_visited_urls = 0
    /\ index = 1
    /\ url = [u \in 1..MaxUrls |-> NotVisited]
    /\ errorCode = "OK"
    /\ worker = [w \in Worker |-> "wait"]
    /\ busy = {}
    /\ data = [w \in Worker |-> 0]
    /\ has_data = {} /\ finished = {}

-----------------------------------------------------------------------------
(* The Visitor's thread.                                                     *)

(* Visitor::run() calls visitGroup() with a new VisitEvent.                  *)
BeginGroup(n) ==
    /\ pc = "idle"
    /\ pc' = "loop"
    /\ n_urls' = n /\ n_visiting' = 0 /\ n_visited_urls' = 0
    /\ url' = [u \in 1..MaxUrls |-> NotVisited]
    /\ errorCode' = "OK"
    /\ UNCHANGED <<loop_i, index, workers>>

(* while(n_visited_urls < n_urls)                                            *)
Loop ==
    /\ pc = "loop"
    /\ pc' = IF n_visited_urls < n_urls THEN "assign" ELSE "codes"
    /\ loop_i' = 1
    /\ UNCHANGED <<n_visiting, n_visited_urls, index, group, workers>>

(* Mutants of Assign: the flag is not read; one URL too many.                *)
AssignIgnoresBusy ==
    /\ pc = "assign" /\ loop_i \in Worker
    /\ loop_i' = loop_i + 1
    /\ IF n_visiting < n_urls
       THEN /\ data' = [data EXCEPT ![loop_i] = n_visiting + 1]
            /\ busy' = busy \cup {loop_i}
            /\ n_visiting' = n_visiting + 1
            /\ has_data' = has_data \cup {loop_i}
       ELSE UNCHANGED <<data, busy, n_visiting, has_data>>
    /\ UNCHANGED <<pc, n_visited_urls, index, group, worker, finished>>

AssignOneMore ==
    /\ pc = "assign" /\ loop_i \in Worker
    /\ loop_i' = loop_i + 1
    /\ IF loop_i \notin busy /\ n_visiting <= n_urls
       THEN /\ data' = [data EXCEPT ![loop_i] = n_visiting + 1]
            /\ busy' = busy \cup {loop_i}
            /\ n_visiting' = n_visiting + 1
            /\ has_data' = has_data \cup {loop_i}
       ELSE UNCHANGED <<data, busy, n_visiting, has_data>>
    /\ UNCHANGED <<pc, n_visited_urls, index, group, worker, finished>>

(* One pass of the assignment loop.  to_visit always equals n_visiting.      *)
Assign ==
    /\ pc = "assign" /\ loop_i \in Worker
    /\ loop_i' = loop_i + 1
    /\ IF loop_i \notin busy /\ n_visiting < n_urls
       THEN /\ data' = [data EXCEPT ![loop_i] = n_visiting + 1]
            /\ busy' = busy \cup {loop_i}
            /\ n_visiting' = n_visiting + 1
            /\ has_data' = has_data \cup {loop_i}
       ELSE UNCHANGED <<data, busy, n_visiting, has_data>>
    /\ UNCHANGED <<pc, n_visited_urls, index, group, worker, finished>>

Assigned ==
    /\ pc = "assign" /\ loop_i > Workers
    /\ pc' = "wait"
    /\ UNCHANGED <<loop_i, n_visiting, n_visited_urls, index, group, workers>>

(* Mutant of WaitFinished: manual-reset events that nobody resets.           *)
WaitKeepsEvent(w) ==
    /\ pc = "wait" /\ w \in finished /\ \A v \in finished : w <= v
    /\ index' = w
    /\ pc' = "count"
    /\ UNCHANGED <<loop_i, n_visiting, n_visited_urls, group, workers>>

(* WaitForMultipleObjects() takes the first event that is set ...            *)
WaitFinished(w) ==
    /\ pc = "wait" /\ w \in finished /\ \A v \in finished : w <= v
    /\ index' = w
    /\ finished' = finished \ {w}
    /\ pc' = "count"
    /\ UNCHANGED <<loop_i, n_visiting, n_visited_urls, group, worker, busy, data, has_data>>

(* ... or gives up after a minute, and the loop goes round.                  *)
WaitTimeout ==
    /\ pc = "wait" /\ finished = {}
    /\ pc' = "loop"
    /\ UNCHANGED <<loop_i, n_visiting, n_visited_urls, index, group, workers>>

(* The flag of the worker that signalled is read again.                      *)
Count ==
    /\ pc = "count"
    /\ n_visited_urls' = IF index \in busy THEN n_visited_urls ELSE n_visited_urls + 1
    /\ pc' = "loop"
    /\ UNCHANGED <<loop_i, n_visiting, index, group, workers>>

(* Mutant of SetErrorCode: the last code wins.                               *)
SetErrorCodeLast(code, error) == error

(* VisitEvent::setErrorCode().                                               *)
SetErrorCode(code, error) == IF code # "OK" THEN "MULTIPLE_ERRORS" ELSE error

(* The code of one URL after the other ...                                   *)
UrlCode ==
    /\ pc = "codes" /\ loop_i <= n_urls
    /\ errorCode' = SetErrorCode(errorCode, url[loop_i])
    /\ loop_i' = loop_i + 1
    /\ UNCHANGED <<pc, n_visiting, n_visited_urls, index, n_urls, url, workers>>

(* ... then WARNING when a left-over browser cannot be terminated            *)
(* (closeAllInternetExplorers()); what the workers used is freed.            *)
Return(closed) ==
    /\ pc = "codes" /\ loop_i > n_urls
    /\ errorCode' = IF closed THEN errorCode ELSE SetErrorCode(errorCode, "WARNING")
    /\ pc' = "idle"
    /\ UNCHANGED <<loop_i, n_visiting, n_visited_urls, index, n_urls, url, workers>>

-----------------------------------------------------------------------------
(* The worker threads.                                                       *)

TakeData(w) ==
    /\ worker[w] = "wait" /\ w \in has_data
    /\ has_data' = has_data \ {w}
    /\ worker' = [worker EXCEPT ![w] = "visit"]
    /\ UNCHANGED <<pc, loop_i, n_visiting, n_visited_urls, index, group, busy, data, finished>>

(* Mutant of VisitUrl: the flag is not cleared.                              *)
VisitUrlKeepsBusy(w, code) ==
    /\ worker[w] = "visit"
    /\ url' = [url EXCEPT ![data[w]] = code]
    /\ worker' = [worker EXCEPT ![w] = "signal"]
    /\ UNCHANGED <<pc, loop_i, n_urls, n_visiting, n_visited_urls, index, errorCode, busy, data,
                   has_data, finished>>

(* visitUrl() ends and the worker clears its flag.                           *)
VisitUrl(w, code) ==
    /\ worker[w] = "visit"
    /\ url' = [url EXCEPT ![data[w]] = code]
    /\ busy' = busy \ {w}
    /\ worker' = [worker EXCEPT ![w] = "signal"]
    /\ UNCHANGED <<pc, loop_i, n_urls, n_visiting, n_visited_urls, index, errorCode, data,
                   has_data, finished>>

SetFinished(w) ==
    /\ worker[w] = "signal"
    /\ finished' = finished \cup {w}
    /\ worker' = [worker EXCEPT ![w] = "wait"]
    /\ UNCHANGED <<pc, loop_i, n_visiting, n_visited_urls, index, group, busy, data, has_data>>

-----------------------------------------------------------------------------
Visitor ==
    \/ Loop \/ Assign \/ Assigned \/ WaitTimeout \/ Count \/ UrlCode
    \/ \E w \in Worker : WaitFinished(w)
    \/ \E closed \in BOOLEAN : Return(closed)

WorkerStep(w) == TakeData(w) \/ SetFinished(w) \/ \E code \in Outcome : VisitUrl(w, code)

PoolNext ==
    \/ \E n \in 1..MaxUrls : BeginGroup(n)
    \/ Visitor
    \/ \E w \in Worker : WorkerStep(w)

PoolSpec == PoolInit /\ [][PoolNext]_poolVars

(* Threads run, every wait of visitUrl() has a time-out, and the wait for   *)
(* the workers returns.  Nothing says that a further group arrives.         *)
PoolFairSpec == PoolSpec /\ WF_poolVars(Visitor) /\ \A w \in Worker : WF_poolVars(WorkerStep(w))

-----------------------------------------------------------------------------
(* When visitGroup() has left its loop it frees what the workers point to:  *)
(* every worker has then finished, none is about to start or to signal, and *)
(* no event is left over that the next group would take for its own.        *)
FreedIsUnused ==
    pc \in {"codes", "idle"} =>
        /\ \A w \in Worker : worker[w] = "wait"
        /\ busy = {} /\ has_data = {} /\ finished = {}

(* No URL is given to two workers or visited again, and the codes of the    *)
(* VisitEvent are read when every URL has been visited.                     *)
VisitedOnce ==
    /\ \A w \in Worker : worker[w] = "visit" \/ w \in has_data =>
           /\ data[w] \in 1..n_visiting /\ url[data[w]] = NotVisited
           /\ \A v \in Worker \ {w} : worker[v] = "visit" \/ v \in has_data => data[v] # data[w]
    /\ pc = "codes" => \A u \in 1..n_urls : url[u] # NotVisited

(* A group is reported without error (Visitor::run() then sends finish and  *)
(* not error) only when each of its URLs was; and an error code other than  *)
(* MULTIPLE_ERRORS is the only one of the group.                            *)
CodeIsSound ==
    LET failing == {u \in 1..n_urls : url[u] # "OK"}
    IN  pc = "idle" =>
            /\ errorCode = "OK" => failing = {}
            /\ errorCode # "MULTIPLE_ERRORS" => \A u, v \in failing : u = v

(* visitGroup() of a group is sound: each URL is visited by one worker, the  *)
(* group's code speaks for all of them, and what the workers use is freed   *)
(* only after the last of them is done.                                     *)
GroupIsSound == FreedIsUnused /\ VisitedOnce /\ CodeIsSound

(* A group of no more URLs than there are workers is visited to its end.    *)
SmallGroupEnds == (pc # "idle" /\ n_urls <= Workers) ~> pc = "idle"

=============================================================================
