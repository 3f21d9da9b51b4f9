----------------------------- MODULE Exclusions -----------------------------
(***************************************************************************)
(* The exclusion lists of a monitor (Monitor and Permission): which events *)
(* of the system are expected, and so not reported.                        *)
(*                                                                         *)
(* A list is the set of its permissions over all actions: neither their    *)
(* order nor a repetition makes a difference.  A regular expression is the *)
(* set of the names it matches, {} for one that matches nothing and        *)
(* Invalid for one that boost refuses.                                     *)
(***************************************************************************)
EXTENDS Sequences

Invalid == {"invalid expression"}

(* An exclusion as it is written in a file or sent by the server.  The     *)
(* attribute `excluded` is "yes", "+", "no", "-" or something else.        *)
Exclusion(excluded, action, subject, object) ==
    [excluded |-> excluded, action |-> action, subject |-> subject, object |-> object]

Permission(x, allow, permanent) ==
    [action |-> x.action, subject |-> x.subject, object |-> x.object,
     allow |-> allow, permanent |-> permanent]

(* addExclusion leaves `allow` as the allocator found it when the attribute *)
(* says nothing it knows.                                                   *)
Allow(excluded) ==
    CASE excluded \in {"yes", "+"} -> {TRUE}
      [] excluded \in {"no", "-"} -> {FALSE}
      [] OTHER -> BOOLEAN

Throws(x) == Invalid \in {x.subject, x.object}

(* The lists addExclusion may leave.                                       *)
addExclusion(list, x, permanent) ==
    {list \cup {Permission(x, allow, permanent)} : allow \in Allow(x.excluded)}

Check(p, subject, object) ==
    IF subject \notin p.subject \/ object \notin p.object THEN "NO_MATCH"
    ELSE IF p.allow THEN "ALLOWED" ELSE "DISALLOWED"

(* One that disallows beats all that allow.                                *)
isEventAllowed(list, action, subject, object) ==
    LET verdicts == {Check(p, subject, object) : p \in {q \in list : q.action = action}}
    IN  "ALLOWED" \in verdicts /\ "DISALLOWED" \notin verdicts

(* A line of an exclusion file is kept if it has a sign and four fields,   *)
(* names an action and compiles; the rest of the file is read on.          *)
Loads(line) ==
    /\ line.excluded \in {"+", "-"} /\ line.fields = 4
    /\ line.action \notin {".*", ".+"}
    /\ ~Throws(line)

loadExclusionList(lines) ==
    {Permission(line, line.excluded = "+", FALSE) : line \in {l \in lines : Loads(l)}}

\* Mutants of clearExclusionList.
MutClearExclusionList(list) == {}

(* What is left when the loop gets to its end: it goes on with an iterator *)
(* to the node it has just freed, which still has its old contents unless  *)
(* somebody has taken the memory.                                          *)
clearExclusionList(list) == {p \in list : p.permanent}
IteratesFreed(list) == \E p \in list : ~p.permanent
=============================================================================
