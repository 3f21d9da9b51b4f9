-------------------------- MODULE UrlGroups_proofs --------------------------
(***************************************************************************)
(* Proofs about UrlGroups, for every set of URLs, priorities, plugins and  *)
(* connections and every size of a group.                                  *)
(*                                                                         *)
(* A handler that gives a group up applies several methods to the pool.    *)
(* Rated, Failed, Done and Halved say what such a composition comes to; in *)
(* every case the group ends (Ends): a set of groups that hold its URLs,   *)
(* or no group at all, takes its place at the front of the queue.          *)
(* The invariant says what ties the pool (Ordered) to the hands of the     *)
(* clients (Hands), to the queue of URLs (Places) and to what the clients  *)
(* have noticed (Seen), on which the verdict of a last report rests        *)
(* (Judging).                                                              *)
(*                                                                         *)
(* X stands for the URLs in unsplit.  The URLs of a group are all in X or  *)
(* none of them is, so that what is wanted of the others can be told apart *)
(* from what a group that was left whole does (Strewn): every error mark   *)
(* splits it again.  A report that leaves a group whole is taken for two   *)
(* steps: the group's URLs enter X, and then the pool changes.             *)
(***************************************************************************)
EXTENDS UrlGroups, SequenceTheorems, FiniteSetTheorems, TLAPS

Id == Nat \ {0}
UrlRecord == [state : OutcomeState, malicious : {"null", "yes", "no"}, error : Code, started : BOOLEAN]
Group == [urls : Seq(Url), state : OutcomeState, errorCount : 0..ErrorBound, retryCount : Nat,
          malicious : BOOLEAN, error : Code, algorithm : Algorithm \cup {"none"}]

Outcome == {"VISITED", "ERROR"}

-----------------------------------------------------------------------------
(* The inductive invariant.                                                 *)

Shape(p) ==
    /\ p = [url |-> p.url, group |-> p.group, queue |-> p.queue, visitingList |-> p.visitingList]
    /\ p.url \in [Url -> UrlRecord]
    /\ p.group = [g \in DOMAIN p.group |-> p.group[g]]
    /\ \A g \in DOMAIN p.group : p.group[g] \in Group
    /\ p.queue \in Seq(Id) /\ p.visitingList \in Seq(Id)
    /\ DOMAIN p.group \subseteq Id

(* A group whose program has the plugin a[u] for its first URL u.           *)
Sound(a, x) ==
    /\ x.urls # <<>> /\ IsInjective(x.urls)
    /\ x.algorithm \in {"none", a[x.urls[1]]}
    /\ x.state = "VISITING" => x.algorithm # "none"
    /\ x.errorCount = 0 => x.retryCount = 0
    /\ x.retryCount <= 1

(* A group that is queued or in a client's hands is malicious only with a   *)
(* reason.  Unless it was left whole, it is not one that divide and conquer *)
(* would take apart whichever report comes next.                            *)
Calm(a, X, x) ==
    /\ Sound(a, x)
    /\ x.malicious => ToSet(x.urls) \cap Malicious # {}
    /\ \/ ToSet(x.urls) \subseteq X
       \/ /\ ToSet(x.urls) \cap X = {}
          /\ x.malicious => Len(x.urls) = 1 \/ a[x.urls[1]] # "dac"

Ordered(a, X, p) ==
    /\ Shape(p)
    /\ IsFiniteSet(DOMAIN p.group)
    /\ \A g \in DOMAIN p.group : Calm(a, X, p.group[g])
    /\ IsInjective(p.queue) /\ IsInjective(p.visitingList)
    /\ ToSet(p.queue) \cup ToSet(p.visitingList) \subseteq DOMAIN p.group
    /\ ToSet(p.queue) \cap ToSet(p.visitingList) = {}
    /\ \A g \in DOMAIN p.group : p.group[g].state = "VISITING" <=> g \in ToSet(p.visitingList)
    /\ \A g \in DOMAIN p.group :
          p.group[g].algorithm # "none" => \A u \in UrlsOf(p, g) : p.url[u].started
    /\ \A g, h \in DOMAIN p.group : g # h => UrlsOf(p, g) \cap UrlsOf(p, h) \subseteq X

(* A group is queued or in the hands g[c] of one client c, and listed as    *)
(* visited from the report of its start on.                                 *)
Hands(p, g, state) ==
    /\ g \in [Client -> {0} \cup DOMAIN p.group]
    /\ state \in [Client -> {"WAITING", "AWAITING_VISITING", "VISITING", "DISCONNECTED"}]
    /\ \A c \in Client : g[c] # 0 <=> state[c] \in {"AWAITING_VISITING", "VISITING"}
    /\ \A c, d \in Client : g[c] # 0 /\ g[c] = g[d] => c = d
    /\ \A c \in Client : g[c] \notin ToSet(p.queue)
    /\ \A h \in DOMAIN p.group : h \in ToSet(p.queue) \/ \E c \in Client : g[c] = h
    /\ \A c \in Client : g[c] \in ToSet(p.visitingList) <=> state[c] = "VISITING"

(* A URL taken in is queued, in a group, or has an outcome.                 *)
Places(p, queued, taken) ==
    /\ IsFiniteSet(queued) /\ queued \subseteq taken
    /\ \A g \in DOMAIN p.group : UrlsOf(p, g) \subseteq taken \ queued
    /\ \A u \in taken \ queued :
          (\E g \in DOMAIN p.group : u \in UrlsOf(p, g)) \/ p.url[u].state \in Outcome

(* What the Analyzer noticed is about the group in hand.                    *)
Seen(p, g, events) ==
    \A c \in Client :
        /\ events[c].kept \subseteq Malicious
        /\ g[c] # 0 => events[c].noticed \subseteq UrlsOf(p, g[c]) \cap Malicious

(* A report that is due is about a group in hand, and a start about one     *)
(* whose visit is awaited.                                                  *)
Awaits(state, d) ==
    /\ d \in [Client -> {"none", "start", "end"}]
    /\ \A c \in Client : /\ d[c] # "none" => state[c] \in {"AWAITING_VISITING", "VISITING"}
                         /\ d[c] = "start" => state[c] = "AWAITING_VISITING"

Rest ==
    /\ algorithmOf \in {s.plugins : s \in Setups}
    /\ accepted \subseteq offered /\ offered \subseteq Url
    /\ cEvents \in [Client -> [noticed : SUBSET Url, kept : SUBSET Url]]
    /\ Awaits(cState, due)
    /\ listening \subseteq Client /\ parked \subseteq Client
    /\ monitor \in 0..Exited \cup {Off}
    /\ missed \subseteq accepted

(* From its second look on, QueueMonitor has missed what is in the hands of *)
(* the clients, from the next read on also what is in the queue of groups,  *)
(* and from the last one on what is in the queue of URLs.                   *)
Watched ==
    /\ monitor \in 4..7 => \A c \in Client : cGroup[c] # 0 => UrlsOf(pool, cGroup[c]) \subseteq missed
    /\ monitor \in 5..7 => \A g \in ToSet(pool.queue) : UrlsOf(pool, g) \subseteq missed
    /\ monitor \in 6..7 => urlQueue \subseteq missed

(* The invariant for a set X of URLs whose groups were left whole.          *)
InvFor(X) ==
    /\ X \subseteq accepted \ urlQueue
    /\ Ordered(algorithmOf, X, pool)
    /\ Hands(pool, cGroup, cState)
    /\ Places(pool, urlQueue, accepted)
    /\ Seen(pool, cGroup, cEvents)
    /\ Rest

IInv == InvFor(unsplit) /\ Watched

-----------------------------------------------------------------------------
(* Sequences as the pool uses them.                                         *)

LEMMA Members ==
    ASSUME NEW S, NEW s \in Seq(S)
    PROVE  /\ Len(s) \in Nat /\ DOMAIN s = 1..Len(s)
           /\ ToSet(s) \subseteq S
           /\ ToSet(s) = {s[i] : i \in 1..Len(s)}
           /\ s # <<>> => 1 \in DOMAIN s /\ Head(s) = s[1] /\ s[1] \in ToSet(s)
<1>1. Len(s) \in Nat /\ DOMAIN s = 1..Len(s) /\ s \in [1..Len(s) -> S]
  BY LenProperties
<1>2. s # <<>> => Len(s) # 0
  BY EmptySeq, SMT
<1> QED BY <1>1, <1>2 DEF ToSet

LEMMA Consed ==
    ASSUME NEW S, NEW s \in Seq(S), NEW e \in S
    PROVE  /\ Cons(e, s) \in Seq(S)
           /\ ToSet(Cons(e, s)) = {e} \cup ToSet(s)
           /\ IsInjective(s) /\ e \notin ToSet(s) => IsInjective(Cons(e, s))
<1> DEFINE t == <<e>> \o s
<1>1. t \in Seq(S) /\ Len(t) = Len(s) + 1 /\ Len(s) \in Nat
  BY ConcatProperties, LenProperties
<1>2. t[1] = e /\ \A i \in 1..Len(s) : t[i + 1] = s[i]
  BY ConcatProperties, LenProperties
<1>3. Cons(e, s) = t
  BY DEF Cons
<1> HIDE DEF t
<1>4. DOMAIN t = 1..(Len(s) + 1) /\ DOMAIN s = 1..Len(s)
  BY <1>1, LenProperties
<1>5. \A i \in DOMAIN t : i = 1 \/ (i - 1 \in DOMAIN s /\ t[i] = s[i - 1])
  BY <1>1, <1>2, <1>4
<1>6. ToSet(t) = {e} \cup ToSet(s)
  <2>1. \A x \in ToSet(t) : x \in {e} \cup ToSet(s)
    BY <1>2, <1>5 DEF ToSet
  <2>2. e \in ToSet(t)
    BY <1>1, <1>2, <1>4 DEF ToSet
  <2>3. \A i \in DOMAIN s : i + 1 \in DOMAIN t /\ t[i + 1] = s[i]
    BY <1>1, <1>2, <1>4
  <2>4. \A x \in ToSet(s) : x \in ToSet(t)
    BY <2>3 DEF ToSet
  <2> QED BY <2>1, <2>2, <2>4
<1>7. IsInjective(s) /\ e \notin ToSet(s) => IsInjective(t)
  <2> SUFFICES ASSUME IsInjective(s), e \notin ToSet(s), NEW i \in DOMAIN t, NEW j \in DOMAIN t, t[i] = t[j]
               PROVE  i = j
    BY DEF IsInjective
  <2>1. \A k \in DOMAIN s : s[k] # e
    BY DEF ToSet
  <2>2. CASE i = 1 \/ j = 1
    BY <1>2, <1>5, <2>1, <2>2
  <2>3. CASE i # 1 /\ j # 1
    <3>1. i - 1 \in DOMAIN s /\ j - 1 \in DOMAIN s /\ s[i - 1] = s[j - 1]
      BY <1>5, <2>3
    <3>2. i - 1 = j - 1
      BY <3>1 DEF IsInjective
    <3> QED BY <1>1, <1>4, <3>2
  <2> QED BY <2>2, <2>3
<1> QED BY <1>1, <1>3, <1>6, <1>7

LEMMA Tailed ==
    ASSUME NEW S, NEW s \in Seq(S), s # <<>>
    PROVE  /\ Tail(s) \in Seq(S) /\ Head(s) \in S
           /\ ToSet(s) = {Head(s)} \cup ToSet(Tail(s))
           /\ IsInjective(s) => IsInjective(Tail(s)) /\ Head(s) \notin ToSet(Tail(s))
<1> DEFINE t == Tail(s)
           e == Head(s)
<1>1. t \in Seq(S) /\ e \in S /\ Len(t) = Len(s) - 1 /\ Len(s) \in Nat /\ Len(s) > 0 /\ e = s[1]
  BY HeadTailProperties, LenProperties, EmptySeq
<1>2. \A i \in 1..Len(t) : t[i] = s[i + 1]
  BY HeadTailProperties
<1> HIDE DEF t, e
<1>3. DOMAIN t = 1..(Len(s) - 1) /\ DOMAIN s = 1..Len(s)
  BY <1>1, LenProperties
<1>4. \A i \in DOMAIN s : i = 1 \/ (i - 1 \in DOMAIN t /\ t[i - 1] = s[i])
  BY <1>1, <1>2, <1>3
<1>5. \A i \in DOMAIN t : i + 1 \in DOMAIN s /\ t[i] = s[i + 1]
  BY <1>1, <1>2, <1>3
<1>6. ToSet(s) = {e} \cup ToSet(t)
  <2>1. \A x \in ToSet(s) : x \in {e} \cup ToSet(t)
    BY <1>1, <1>4 DEF ToSet
  <2>2. e \in ToSet(s)
    BY <1>1, <1>3 DEF ToSet
  <2>3. \A x \in ToSet(t) : x \in ToSet(s)
    BY <1>5 DEF ToSet
  <2> QED BY <2>1, <2>2, <2>3
<1>7. ASSUME IsInjective(s) PROVE IsInjective(t) /\ e \notin ToSet(t)
  <2>1. \A i, j \in DOMAIN t : t[i] = t[j] => i + 1 = j + 1
    BY <1>5, <1>7 DEF IsInjective
  <2>2. IsInjective(t)
    BY <1>1, <1>3, <2>1 DEF IsInjective
  <2>3. \A i \in DOMAIN t : t[i] = e => i + 1 = 1
    BY <1>1, <1>3, <1>5, <1>7 DEF IsInjective
  <2>4. e \notin ToSet(t)
    BY <1>1, <1>3, <2>3 DEF ToSet
  <2> QED BY <2>2, <2>4
<1> QED BY <1>1, <1>6, <1>7 DEF t, e

LEMMA Appended ==
    ASSUME NEW S, NEW s \in Seq(S), NEW e \in S
    PROVE  /\ Append(s, e) \in Seq(S)
           /\ ToSet(Append(s, e)) = {e} \cup ToSet(s)
           /\ IsInjective(s) /\ e \notin ToSet(s) => IsInjective(Append(s, e))
<1> DEFINE t == Append(s, e)
<1>1. t \in Seq(S) /\ Len(t) = Len(s) + 1 /\ Len(s) \in Nat /\ t[Len(s) + 1] = e
  BY AppendProperties, LenProperties
<1>2. \A i \in 1..Len(s) : t[i] = s[i]
  BY AppendProperties
<1> HIDE DEF t
<1>3. DOMAIN t = 1..(Len(s) + 1) /\ DOMAIN s = 1..Len(s)
  BY <1>1, LenProperties
<1>4. \A i \in DOMAIN t : i = Len(s) + 1 \/ (i \in DOMAIN s /\ t[i] = s[i])
  BY <1>1, <1>2, <1>3
<1>5. Len(s) + 1 \in DOMAIN t /\ \A i \in DOMAIN s : i \in DOMAIN t /\ t[i] = s[i]
  BY <1>1, <1>2, <1>3
<1>6. ToSet(t) = {e} \cup ToSet(s)
  <2>1. \A x \in ToSet(t) : x \in {e} \cup ToSet(s)
    BY <1>1, <1>4 DEF ToSet
  <2>2. e \in ToSet(t)
    BY <1>1, <1>5 DEF ToSet
  <2>3. \A x \in ToSet(s) : x \in ToSet(t)
    BY <1>5 DEF ToSet
  <2> QED BY <2>1, <2>2, <2>3
<1>7. IsInjective(s) /\ e \notin ToSet(s) => IsInjective(t)
  <2> SUFFICES ASSUME IsInjective(s), e \notin ToSet(s), NEW i \in DOMAIN t, NEW j \in DOMAIN t, t[i] = t[j]
               PROVE  i = j
    BY DEF IsInjective
  <2>1. \A k \in DOMAIN s : s[k] # e
    BY DEF ToSet
  <2> QED BY <1>1, <1>4, <2>1 DEF IsInjective
<1> QED BY <1>1, <1>6, <1>7 DEF t

LEMMA Part ==
    ASSUME NEW S, NEW s \in Seq(S), NEW m \in Nat \ {0}, NEW n \in 0..Len(s), m <= n + 1
    PROVE  /\ SubSeq(s, m, n) \in Seq(S)
           /\ Len(SubSeq(s, m, n)) = n - m + 1
           /\ \A i \in 1..(n - m + 1) : SubSeq(s, m, n)[i] = s[m + i - 1]
<1>1. Len(s) \in Nat /\ m \in Int /\ n \in Int
  BY LenProperties
<1>2. \A i \in m..n : i \in 1..Len(s)
  BY <1>1
<1>3. \A i \in m..n : s[i] \in S
  BY <1>2, ElementOfSeq
<1>4. Len(SubSeq(s, m, n)) = IF m <= n THEN n - m + 1 ELSE 0
  BY <1>1, <1>3, SubSeqProperties
<1>5. Len(SubSeq(s, m, n)) = n - m + 1
  BY <1>1, <1>4
<1> QED BY <1>1, <1>3, <1>5, SubSeqProperties

(* An element occurs once: what is left of s without it.                    *)
LEMMA Removed ==
    ASSUME NEW S, NEW s \in Seq(S), IsInjective(s), NEW e
    PROVE  /\ RemoveFirst(s, e) \in Seq(S)
           /\ ToSet(RemoveFirst(s, e)) = ToSet(s) \ {e}
           /\ IsInjective(RemoveFirst(s, e))
           /\ e \notin ToSet(s) => RemoveFirst(s, e) = s
<1>1. Len(s) \in Nat /\ DOMAIN s = 1..Len(s) /\ ToSet(s) = {s[i] : i \in 1..Len(s)}
  BY Members
<1>2. CASE e \notin ToSet(s)
  <2>1. RemoveFirst(s, e) = s
    BY <1>1, <1>2 DEF RemoveFirst
  <2> QED BY <1>2, <2>1
<1>3. CASE e \in ToSet(s)
  <2>1. PICK k \in 1..Len(s) : s[k] = e
    BY <1>1, <1>3
  <2>2. {i \in 1..Len(s) : s[i] = e} = {k}
    BY <1>1, <2>1 DEF IsInjective
  <2>3. Min({k}) = k
    BY <2>1 DEF Min
  <2>4. SelectInSeq(s, LAMBDA v : v = e) = k
    BY <2>2, <2>3 DEF SelectInSeq
  <2> DEFINE a == SubSeq(s, 1, k - 1)
             b == SubSeq(s, k + 1, Len(s))
             t == a \o b
  <2>5. RemoveFirst(s, e) = t
    BY <2>1, <2>4 DEF RemoveFirst, RemoveAt
  <2>6. a \in Seq(S) /\ Len(a) = k - 1 /\ \A i \in 1..(k - 1) : a[i] = s[i]
    <3>1. PICK m \in Nat : m = 1
      BY <1>1, <2>1
    <3>2. PICK n \in Nat : n = k - 1
      BY <1>1, <2>1
    <3>3. m \in Nat \ {0} /\ n \in 0..Len(s) /\ m <= n + 1
      BY <1>1, <2>1, <3>1, <3>2
    <3>4. /\ SubSeq(s, m, n) \in Seq(S)
          /\ Len(SubSeq(s, m, n)) = n - m + 1
          /\ \A i \in 1..(n - m + 1) : SubSeq(s, m, n)[i] = s[m + i - 1]
      BY <1>1, <3>3, Part
    <3>5. a = SubSeq(s, m, n)
      BY <3>1, <3>2
    <3> HIDE DEF a
    <3>6. \A i \in 1..(k - 1) : i \in 1..(n - m + 1) /\ m + i - 1 = i
      BY <1>1, <2>1, <3>1, <3>2
    <3>7. n - m + 1 = k - 1
      BY <1>1, <2>1, <3>1, <3>2
    <3> QED BY <3>4, <3>5, <3>6, <3>7
  <2>7. b \in Seq(S) /\ Len(b) = Len(s) - k /\ \A i \in 1..(Len(s) - k) : b[i] = s[k + i]
    <3>1. PICK m \in Nat : m = k + 1
      BY <1>1, <2>1
    <3>2. PICK n \in Nat : n = Len(s)
      BY <1>1, <2>1
    <3>3. m \in Nat \ {0} /\ n \in 0..Len(s) /\ m <= n + 1
      BY <1>1, <2>1, <3>1, <3>2
    <3>4. /\ SubSeq(s, m, n) \in Seq(S)
          /\ Len(SubSeq(s, m, n)) = n - m + 1
          /\ \A i \in 1..(n - m + 1) : SubSeq(s, m, n)[i] = s[m + i - 1]
      BY <1>1, <3>3, Part
    <3>5. b = SubSeq(s, m, n)
      BY <3>1, <3>2
    <3> HIDE DEF b
    <3>6. \A i \in 1..(Len(s) - k) : i \in 1..(n - m + 1) /\ m + i - 1 = k + i
      BY <1>1, <2>1, <3>1, <3>2
    <3>7. n - m + 1 = Len(s) - k
      BY <1>1, <2>1, <3>1, <3>2
    <3> QED BY <3>4, <3>5, <3>6, <3>7
  <2> HIDE DEF a, b
  <2>8. t \in Seq(S) /\ Len(t) = Len(s) - 1
    <3>1. t \in Seq(S) /\ Len(t) = Len(a) + Len(b)
      BY <2>6, <2>7, ConcatProperties
    <3> HIDE DEF t
    <3> QED BY <1>1, <2>1, <2>6, <2>7, <3>1
  <2>9. \A i \in 1..(Len(s) - 1) : t[i] = IF i < k THEN s[i] ELSE s[i + 1]
    <3>1. /\ \A i \in 1..Len(a) : t[i] = a[i]
          /\ \A i \in 1..Len(b) : t[Len(a) + i] = b[i]
      BY <2>6, <2>7, ConcatProperties, SMTT(60)
    <3> HIDE DEF t
    <3> TAKE i \in 1..(Len(s) - 1)
    <3>2. CASE i < k
      <4>1. i \in 1..(k - 1)
        BY <1>1, <2>1, <3>2
      <4> QED BY <2>6, <3>1, <3>2, <4>1
    <3>3. CASE ~(i < k)
      <4>1. PICK j \in 1..(Len(s) - k) : i = (k - 1) + j /\ k + j = i + 1
        <5>1. i - k + 1 \in 1..(Len(s) - k) /\ i = (k - 1) + (i - k + 1) /\ k + (i - k + 1) = i + 1
          BY <1>1, <2>1, <3>3
        <5> QED BY <5>1
      <4>2. t[(k - 1) + j] = b[j] /\ b[j] = s[k + j]
        BY <2>6, <2>7, <3>1
      <4> QED BY <3>3, <4>1, <4>2
    <3> QED BY <3>2, <3>3
  <2> HIDE DEF t
  <2>10. DOMAIN t = 1..(Len(s) - 1)
    BY <2>8, LenProperties
  <2>11. \A i \in 1..(Len(s) - 1) : \E j \in 1..Len(s) \ {k} : t[i] = s[j]
    <3> TAKE i \in 1..(Len(s) - 1)
    <3>1. CASE i < k
      BY <1>1, <2>1, <2>9, <3>1
    <3>2. CASE ~(i < k)
      <4>1. i + 1 \in 1..Len(s) \ {k} /\ t[i] = s[i + 1]
        BY <1>1, <2>1, <2>9, <3>2
      <4> QED BY <4>1
    <3> QED BY <3>1, <3>2
  <2>12. \A j \in 1..Len(s) \ {k} : \E i \in 1..(Len(s) - 1) : t[i] = s[j]
    <3> TAKE j \in 1..Len(s) \ {k}
    <3>1. CASE j < k
      BY <1>1, <2>1, <2>9, <3>1
    <3>2. CASE ~(j < k)
      <4>1. j - 1 \in 1..(Len(s) - 1) /\ t[j - 1] = s[j]
        BY <1>1, <2>1, <2>9, <3>2
      <4> QED BY <4>1
    <3> QED BY <3>1, <3>2
  <2>13. \A j \in 1..Len(s) : s[j] = e <=> j = k
    BY <1>1, <2>1 DEF IsInjective
  <2>14. ToSet(t) = ToSet(s) \ {e}
    <3>1. \A x \in ToSet(t) : x \in ToSet(s) \ {e}
      BY <1>1, <2>10, <2>11, <2>13 DEF ToSet
    <3>2. \A x \in ToSet(s) \ {e} : x \in ToSet(t)
      <4> TAKE x \in ToSet(s) \ {e}
      <4>1. PICK j \in 1..Len(s) : x = s[j]
        BY <1>1
      <4>2. j \in 1..Len(s) \ {k}
        BY <2>1, <4>1
      <4>3. PICK i \in 1..(Len(s) - 1) : t[i] = s[j]
        BY <2>12, <4>2
      <4> QED BY <2>10, <4>1, <4>3 DEF ToSet
    <3> QED BY <3>1, <3>2
  <2>15. IsInjective(t)
    <3> SUFFICES ASSUME NEW i \in 1..(Len(s) - 1), NEW j \in 1..(Len(s) - 1), t[i] = t[j]
                 PROVE  i = j
      BY <2>10 DEF IsInjective
    <3> DEFINE f(n) == IF n < k THEN n ELSE n + 1
    <3>1. s[f(i)] = s[f(j)] /\ f(i) \in DOMAIN s /\ f(j) \in DOMAIN s
      BY <1>1, <2>1, <2>9
    <3>2. f(i) = f(j)
      BY <3>1 DEF IsInjective
    <3> QED BY <1>1, <2>1, <3>2
  <2> QED BY <1>3, <2>5, <2>8, <2>14, <2>15
<1> QED BY <1>2, <1>3

LEMMA RemovedTwice ==
    ASSUME NEW S, NEW s \in Seq(S), IsInjective(s), NEW e
    PROVE  RemoveFirst(RemoveFirst(s, e), e) = RemoveFirst(s, e)
<1> DEFINE t == RemoveFirst(s, e)
<1>1. t \in Seq(S) /\ IsInjective(t) /\ e \notin ToSet(t)
  BY Removed
<1> HIDE DEF t
<1>2. RemoveFirst(t, e) = t
  BY <1>1, Removed
<1> QED BY <1>2 DEF t

-----------------------------------------------------------------------------
(* New groups.                                                              *)

LEMMA Fresh ==
    ASSUME NEW p, IsFiniteSet(DOMAIN p.group)
    PROVE  FreeId(p) \in Id /\ FreeId(p) \notin DOMAIN p.group
<1> DEFINE D == DOMAIN p.group
<1>1. Cardinality(D) \in Nat
  BY FS_CardinalityType
<1>2. PICK k \in Nat : k = Cardinality(D) + 1
  BY <1>1
<1> HIDE DEF D
<1>3. \E n \in 1..k : n \notin D
  <2> SUFFICES ASSUME 1..k \subseteq D PROVE FALSE
    OBVIOUS
  <2>1. IsFiniteSet(D)
    BY DEF D
  <2>2. Cardinality(1..k) <= Cardinality(D)
    BY <2>1, FS_Subset
  <2>3. PICK one \in Int : one = 1
    OBVIOUS
  <2>4. Cardinality(one..k) = IF one <= k THEN k - one + 1 ELSE 0
    BY FS_Interval
  <2> QED BY <1>1, <1>2, <2>2, <2>3, <2>4
<1>4. FreeId(p) \in 1..k /\ FreeId(p) \notin D
  BY <1>2, <1>3 DEF FreeId, D
<1> QED BY <1>2, <1>4 DEF Id, D

(* Both halves have URLs, and a URL is in one of them.                      *)
LEMMA Halving ==
    ASSUME NEW S, NEW urls \in Seq(S), IsInjective(urls), Len(urls) > 1
    PROVE  \E s, t \in Seq(S) :
              /\ Halves(urls) = <<s, t>>
              /\ s # <<>> /\ t # <<>> /\ IsInjective(s) /\ IsInjective(t)
              /\ ToSet(s) \cap ToSet(t) = {} /\ ToSet(s) \cup ToSet(t) = ToSet(urls)
<1>1. Len(urls) \in Nat /\ DOMAIN urls = 1..Len(urls)
  BY LenProperties
<1>2. PICK b \in Nat : b = Len(urls) \div 2
  BY <1>1
<1>3. PICK n \in Nat : n = Len(urls)
  BY <1>1
<1>4. 1 <= b /\ b < n
  BY <1>1, <1>2, <1>3
<1>5. PICK one \in Nat : one = 1
  OBVIOUS
<1>6. PICK k \in Nat : k = b + 1
  OBVIOUS
<1> DEFINE s == SubSeq(urls, one, b)
           t == SubSeq(urls, k, n)
<1>7. Halves(urls) = <<s, t>>
  BY <1>2, <1>3, <1>5, <1>6 DEF Halves
<1>8. s \in Seq(S) /\ Len(s) = b /\ \A i \in 1..b : s[i] = urls[i]
  <2>1. one \in Nat \ {0} /\ b \in 0..Len(urls) /\ one <= b + 1 /\ b - one + 1 = b
    BY <1>3, <1>4, <1>5
  <2>2. s \in Seq(S) /\ Len(s) = b - one + 1 /\ \A i \in 1..(b - one + 1) : s[i] = urls[one + i - 1]
    BY <2>1, Part
  <2> HIDE DEF s
  <2>3. \A i \in 1..b : one + i - 1 = i
    BY <1>5
  <2> QED BY <2>1, <2>2, <2>3
<1>9. t \in Seq(S) /\ Len(t) = n - b /\ \A i \in 1..(n - b) : t[i] = urls[b + i]
  <2>1. k \in Nat \ {0} /\ n \in 0..Len(urls) /\ k <= n + 1 /\ n - k + 1 = n - b
    BY <1>3, <1>4, <1>6
  <2>2. t \in Seq(S) /\ Len(t) = n - k + 1 /\ \A i \in 1..(n - k + 1) : t[i] = urls[k + i - 1]
    BY <2>1, Part
  <2> HIDE DEF t
  <2>3. \A i \in 1..(n - b) : k + i - 1 = b + i
    BY <1>6
  <2> QED BY <2>1, <2>2, <2>3
<1> HIDE DEF s, t
<1>10. DOMAIN s = 1..b /\ DOMAIN t = 1..(n - b) /\ s # <<>> /\ t # <<>>
  BY <1>4, <1>8, <1>9, LenProperties, EmptySeq
<1>11. \A i, j \in 1..n : urls[i] = urls[j] => i = j
  BY <1>1, <1>3 DEF IsInjective
<1>12. IsInjective(s)
  BY <1>4, <1>8, <1>10, <1>11 DEF IsInjective
<1>13. IsInjective(t)
  <2> SUFFICES ASSUME NEW i \in 1..(n - b), NEW j \in 1..(n - b), t[i] = t[j]
               PROVE  i = j
    BY <1>10 DEF IsInjective
  <2>1. b + i \in 1..n /\ b + j \in 1..n /\ urls[b + i] = urls[b + j]
    BY <1>4, <1>9
  <2>2. b + i = b + j
    BY <1>11, <2>1
  <2> QED BY <2>2
<1>14. ToSet(s) \cap ToSet(t) = {}
  <2> SUFFICES ASSUME NEW i \in 1..b, NEW j \in 1..(n - b), s[i] = t[j]
               PROVE  FALSE
    BY <1>10 DEF ToSet
  <2>1. i \in 1..n /\ b + j \in 1..n /\ urls[i] = urls[b + j]
    BY <1>4, <1>8, <1>9
  <2>2. i = b + j
    BY <1>11, <2>1
  <2> QED BY <2>2
<1>15. ToSet(s) \cup ToSet(t) = ToSet(urls)
  <2>1. \A i \in 1..b : i \in DOMAIN urls /\ s[i] = urls[i]
    BY <1>1, <1>3, <1>4, <1>8
  <2>2. \A i \in 1..(n - b) : b + i \in DOMAIN urls /\ t[i] = urls[b + i]
    BY <1>1, <1>3, <1>4, <1>9
  <2>3. \A i \in DOMAIN urls : i \in 1..b \/ (i - b \in 1..(n - b) /\ b + (i - b) = i)
    BY <1>1, <1>3, <1>4
  <2>4. \A x \in ToSet(s) \cup ToSet(t) : x \in ToSet(urls)
    BY <1>10, <2>1, <2>2 DEF ToSet
  <2>5. \A i \in DOMAIN urls : urls[i] \in ToSet(s) \cup ToSet(t)
    <3> TAKE i \in DOMAIN urls
    <3>1. CASE i \in 1..b
      BY <1>8, <1>10, <3>1 DEF ToSet
    <3>2. CASE i - b \in 1..(n - b) /\ b + (i - b) = i
      <4>1. t[i - b] = urls[i]
        BY <1>9, <3>2
      <4> QED BY <1>10, <3>2, <4>1 DEF ToSet
    <3> QED BY <2>3, <3>1, <3>2
  <2>6. \A x \in ToSet(urls) : x \in ToSet(s) \cup ToSet(t)
    BY <2>5 DEF ToSet
  <2> QED BY <2>4, <2>6
<1> QED BY <1>7, <1>8, <1>9, <1>10, <1>12, <1>13, <1>14, <1>15

LEMMA NewGroups ==
    ASSUME NEW a, NEW urls \in Seq(Url), urls # <<>>, IsInjective(urls)
    PROVE  /\ NewGroup(urls) \in Group /\ Sound(a, NewGroup(urls))
           /\ NewGroup(urls).urls = urls /\ NewGroup(urls).state = "NONE"
           /\ NewGroup(urls).errorCount = 0 /\ ~NewGroup(urls).malicious
           /\ NewGroup(urls).algorithm = "none"
<1>1. NewGroup(urls) \in Group
  BY DEF NewGroup, Group, OutcomeState, Code, ErrorBound
<1> QED BY <1>1 DEF NewGroup, Calm, Sound

LEMMA AddGroupAdds ==
    ASSUME NEW p, Shape(p), IsFiniteSet(DOMAIN p.group),
           NEW urls \in Seq(Url), urls # <<>>, IsInjective(urls)
    PROVE  LET n == FreeId(p)
               q == AddGroup(p, urls)
           IN  /\ Shape(q) /\ IsFiniteSet(DOMAIN q.group)
               /\ n \in Id /\ n \notin DOMAIN p.group /\ DOMAIN q.group = DOMAIN p.group \cup {n}
               /\ \A h \in DOMAIN p.group : q.group[h] = p.group[h]
               /\ q.group[n] = NewGroup(urls)
               /\ q.url = p.url /\ q.queue = p.queue /\ q.visitingList = p.visitingList
<1>1. PICK n \in Id : n = FreeId(p) /\ n \notin DOMAIN p.group
  BY Fresh
<1> DEFINE q == AddGroup(p, urls)
           f == [g \in DOMAIN p.group \cup {n} |-> IF g = n THEN NewGroup(urls) ELSE p.group[g]]
<1>2. q = [url |-> p.url, group |-> f, queue |-> p.queue, visitingList |-> p.visitingList]
  <2>1. q = [p EXCEPT !.group = f]
    BY <1>1 DEF AddGroup
  <2>2. p = [url |-> p.url, group |-> p.group, queue |-> p.queue, visitingList |-> p.visitingList]
    BY DEF Shape
  <2> HIDE DEF q, f
  <2> QED BY <2>1, <2>2
<1>3. NewGroup(urls) \in Group
  BY NewGroups
<1>4. Shape(q)
  BY <1>1, <1>2, <1>3 DEF Shape
<1>5. IsFiniteSet(DOMAIN p.group \cup {n})
  BY FS_AddElement
<1>6. DOMAIN q.group = DOMAIN p.group \cup {n} /\ q.group[n] = NewGroup(urls)
  BY <1>2
<1> QED BY <1>1, <1>2, <1>4, <1>5, <1>6

LEMMA PushPushes ==
    ASSUME NEW p, Shape(p), IsFiniteSet(DOMAIN p.group),
           NEW urls \in Seq(Url), urls # <<>>, IsInjective(urls)
    PROVE  \E n \in Id :
           LET q == Push(p, urls)
           IN  /\ Shape(q) /\ IsFiniteSet(DOMAIN q.group)
               /\ n \notin DOMAIN p.group /\ DOMAIN q.group = DOMAIN p.group \cup {n}
               /\ \A h \in DOMAIN p.group : q.group[h] = p.group[h]
               /\ q.group[n] = NewGroup(urls)
               /\ q.url = p.url /\ q.queue = Cons(n, p.queue) /\ q.visitingList = p.visitingList
<1> DEFINE n == FreeId(p)
           r == AddGroup(p, urls)
           q == Push(p, urls)
<1>1. /\ Shape(r) /\ IsFiniteSet(DOMAIN r.group)
      /\ n \in Id /\ n \notin DOMAIN p.group /\ DOMAIN r.group = DOMAIN p.group \cup {n}
      /\ \A h \in DOMAIN p.group : r.group[h] = p.group[h]
      /\ r.group[n] = NewGroup(urls)
      /\ r.url = p.url /\ r.queue = p.queue /\ r.visitingList = p.visitingList
  BY AddGroupAdds
<1>2. q = [r EXCEPT !.queue = Cons(n, r.queue)]
  BY DEF Push
<1> HIDE DEF n, r, q
<1>3. q = [url |-> r.url, group |-> r.group, queue |-> Cons(n, r.queue), visitingList |-> r.visitingList]
  <2>1. r = [url |-> r.url, group |-> r.group, queue |-> r.queue, visitingList |-> r.visitingList]
    BY <1>1 DEF Shape
  <2> QED BY <1>2, <2>1
<1>4. Cons(n, r.queue) \in Seq(Id)
  BY <1>1, Consed DEF Shape
<1>5. Shape(q)
  BY <1>1, <1>3, <1>4 DEF Shape
<1>6. IsFiniteSet(DOMAIN q.group)
  BY <1>1, <1>3
<1>7. \A h \in DOMAIN p.group : q.group[h] = p.group[h]
  BY <1>1, <1>3
<1> QED BY <1>1, <1>3, <1>5, <1>6, <1>7 DEF q

-----------------------------------------------------------------------------
(* What the methods do to a pool.                                           *)

(* Of the groups only g is changed and of the URLs only those of g; g keeps *)
(* its URLs and its algorithm.                                              *)
Same(p, g, r) ==
    /\ Shape(r) /\ DOMAIN r.group = DOMAIN p.group
    /\ \A h \in DOMAIN p.group \ {g} : r.group[h] = p.group[h]
    /\ r.group[g].urls = p.group[g].urls /\ r.group[g].algorithm = p.group[g].algorithm
    /\ \A u \in Url \ UrlsOf(p, g) : r.url[u] = p.url[u]
    /\ \A u \in Url : p.url[u].started => r.url[u].started

(* Verdicts and error codes, which the places of a group do not depend on.  *)
Rated(p, g, r) ==
    /\ Same(p, g, r)
    /\ r.queue = p.queue /\ r.visitingList = p.visitingList
    /\ r.group[g].state = p.group[g].state
    /\ r.group[g].errorCount = p.group[g].errorCount /\ r.group[g].retryCount = p.group[g].retryCount
    /\ \A u \in Url : r.url[u].state = p.url[u].state

(* The same, or the states in which a report leaves a group that it cannot  *)
(* make VISITED.                                                            *)
Marked(p, g, r) ==
    /\ Same(p, g, r)
    /\ r.queue = p.queue /\ r.visitingList = p.visitingList
    /\ r.group[g].state = "VISITING" <=> p.group[g].state = "VISITING"

(* g is in error, and queued again if that is the first time.               *)
Failed(a, X, p, g, r) ==
    /\ Same(p, g, r)
    /\ Calm(a, X, r.group[g]) /\ ~Splits(r.group[g])
    /\ r.group[g].state = "ERROR" /\ r.group[g].errorCount # 0
    /\ r.queue = IF p.group[g].errorCount = 0 THEN Cons(g, p.queue) ELSE p.queue
    /\ r.visitingList = RemoveFirst(p.visitingList, g)
    /\ \A u \in UrlsOf(p, g) : r.url[u].state = "ERROR"

(* g is done with.                                                          *)
Done(p, g, r) ==
    /\ Same(p, g, r)
    /\ r.queue = p.queue
    /\ r.visitingList = RemoveFirst(p.visitingList, g)
    /\ \A u \in UrlsOf(p, g) : r.url[u].state \in Outcome

(* The URLs of g that had no error code end VISITED, all keep their verdict. *)
Shown(p, g, r) ==
    \A u \in UrlsOf(p, g) : /\ r.url[u].malicious = p.url[u].malicious
                            /\ r.url[u].state = "VISITED" => p.url[u].error = "OK"

(* g is replaced by two groups m and n.                                     *)
HalvedTo(p, g, r, m, n) ==
    /\ Shape(r) /\ IsFiniteSet(DOMAIN r.group)
    /\ {m, n} \subseteq Id /\ m # n /\ {m, n} \cap DOMAIN p.group = {}
    /\ DOMAIN r.group = DOMAIN p.group \cup {m, n}
    /\ \A h \in DOMAIN p.group \ {g} : r.group[h] = p.group[h]
    /\ \E s, t \in Seq(Url) :
          /\ s # <<>> /\ t # <<>> /\ IsInjective(s) /\ IsInjective(t)
          /\ ToSet(s) \cap ToSet(t) = {} /\ ToSet(s) \cup ToSet(t) = UrlsOf(p, g)
          /\ r.group[m] = NewGroup(s) /\ r.group[n] = NewGroup(t)
    /\ r.queue = Cons(n, Cons(m, p.queue))
    /\ r.visitingList = RemoveFirst(p.visitingList, g)
    /\ \A u \in Url \ UrlsOf(p, g) : r.url[u] = p.url[u]
    /\ \A u \in Url : p.url[u].started => r.url[u].started
    /\ \A u \in UrlsOf(p, g) : r.url[u].state \in Outcome

Halved(p, g, r) == \E m, n \in Id : HalvedTo(p, g, r, m, n)

(* g is in error and replaced, but as it is it would be split again.        *)
Split(a, p, g, r) ==
    /\ Halved(p, g, r)
    /\ Sound(a, r.group[g]) /\ Splits(r.group[g]) /\ r.group[g].urls = p.group[g].urls
    /\ \A u \in UrlsOf(p, g) : r.url[u].state = "ERROR"

(* A pool with another g, other URLs of g and other lists.                  *)
LEMMA Updated ==
    ASSUME NEW p, Shape(p), NEW g \in DOMAIN p.group, NEW x \in Group,
           x.urls = p.group[g].urls, x.algorithm = p.group[g].algorithm,
           NEW f \in [Url -> UrlRecord], \A u \in Url \ UrlsOf(p, g) : f[u] = p.url[u],
           \A u \in Url : p.url[u].started => f[u].started,
           NEW q \in Seq(Id), NEW l \in Seq(Id), NEW r,
           r = [url |-> f, group |-> [p.group EXCEPT ![g] = x], queue |-> q, visitingList |-> l]
    PROVE  Same(p, g, r) /\ r.group[g] = x /\ r.url = f /\ r.queue = q /\ r.visitingList = l
<1>1. Shape(r)
  BY DEF Shape
<1> QED BY <1>1 DEF Same, Shape

LEMMA OnUrlsOnly ==
    ASSUME NEW p, NEW g, NEW f, f = [u \in Url |-> IF u \in UrlsOf(p, g) THEN f[u] ELSE p.url[u]],
           p.url \in [Url -> UrlRecord], \A u \in UrlsOf(p, g) : u \in Url => f[u] \in UrlRecord
    PROVE  f \in [Url -> UrlRecord] /\ \A u \in Url \ UrlsOf(p, g) : f[u] = p.url[u]
OBVIOUS

LEMMA SetMajorErrorCodeRates ==
    ASSUME NEW p, Shape(p), NEW g \in DOMAIN p.group, NEW code \in Code
    PROVE  /\ Rated(p, g, SetMajorErrorCode(p, g, code))
           /\ SetMajorErrorCode(p, g, code).group[g].malicious = p.group[g].malicious
<1> DEFINE x == [p.group[g] EXCEPT !.error = code]
           r == SetMajorErrorCode(p, g, code)
<1>1. p.group[g] \in Group
  BY DEF Shape
<1>2. /\ x \in Group /\ x.urls = p.group[g].urls /\ x.algorithm = p.group[g].algorithm
      /\ x.state = p.group[g].state /\ x.malicious = p.group[g].malicious
      /\ x.errorCount = p.group[g].errorCount /\ x.retryCount = p.group[g].retryCount
  BY <1>1 DEF Group
<1>3. p = [url |-> p.url, group |-> p.group, queue |-> p.queue, visitingList |-> p.visitingList]
  BY DEF Shape
<1>4. r = [url |-> p.url, group |-> [p.group EXCEPT ![g] = x], queue |-> p.queue,
           visitingList |-> p.visitingList]
  <2>1. r = [p EXCEPT !.group = [p.group EXCEPT ![g] = x]]
    BY DEF SetMajorErrorCode
  <2> HIDE DEF r, x
  <2> QED BY <1>3, <2>1
<1> HIDE DEF x, r
<1>5. p.url \in [Url -> UrlRecord] /\ p.queue \in Seq(Id) /\ p.visitingList \in Seq(Id)
  BY DEF Shape
<1>6. Same(p, g, r) /\ r.group[g] = x /\ r.url = p.url /\ r.queue = p.queue /\ r.visitingList = p.visitingList
  <2>1. /\ x \in Group /\ x.urls = p.group[g].urls /\ x.algorithm = p.group[g].algorithm
        /\ p.url \in [Url -> UrlRecord] /\ \A u \in Url \ UrlsOf(p, g) : p.url[u] = p.url[u]
        /\ \A u \in Url : p.url[u].started => p.url[u].started
        /\ p.queue \in Seq(Id) /\ p.visitingList \in Seq(Id)
    BY <1>2, <1>5
  <2> QED BY <1>4, <2>1, Updated, SMTT(20)
<1> QED BY <1>2, <1>6 DEF Rated, r

LEMMA SetMaliciousRates ==
    ASSUME NEW p, Shape(p), NEW g \in DOMAIN p.group, NEW alg, NEW mal \in BOOLEAN, NEW blamed
    PROVE  /\ Rated(p, g, SetMalicious(p, g, alg, mal, blamed))
           /\ SetMalicious(p, g, alg, mal, blamed).group[g].malicious = mal
<1> DEFINE guilty(u) == IF alg = "bulk" THEN u \in blamed ELSE mal
           told == alg = "bulk" \/ ~mal \/ Len(p.group[g].urls) = 1
           f1 == [u \in Url |-> IF u \in UrlsOf(p, g)
                                THEN [p.url[u] EXCEPT !.malicious = IF guilty(u) THEN "yes" ELSE "no"]
                                ELSE p.url[u]]
           f == IF told THEN f1 ELSE p.url
           x == [p.group[g] EXCEPT !.malicious = mal]
           r == SetMalicious(p, g, alg, mal, blamed)
<1>1. p.group[g] \in Group
  BY DEF Shape
<1>2. /\ x \in Group /\ x.urls = p.group[g].urls /\ x.algorithm = p.group[g].algorithm
      /\ x.state = p.group[g].state /\ x.malicious = mal
      /\ x.errorCount = p.group[g].errorCount /\ x.retryCount = p.group[g].retryCount
  BY <1>1 DEF Group
<1>3. p = [url |-> p.url, group |-> p.group, queue |-> p.queue, visitingList |-> p.visitingList]
  BY DEF Shape
<1>4. r = [url |-> f, group |-> [p.group EXCEPT ![g] = x], queue |-> p.queue,
           visitingList |-> p.visitingList]
  <2>1. r = [p EXCEPT !.group = [p.group EXCEPT ![g] = x], !.url = f]
    BY <1>3 DEF SetMalicious, OnUrls
  <2> HIDE DEF r, x, f
  <2> QED BY <1>3, <2>1
<1>5. p.url \in [Url -> UrlRecord] /\ p.queue \in Seq(Id) /\ p.visitingList \in Seq(Id)
  BY DEF Shape
<1>6. \A u \in Url : f1[u] \in UrlRecord /\ f1[u].state = p.url[u].state /\ f1[u].started = p.url[u].started
  BY <1>5 DEF UrlRecord
<1>7. /\ f \in [Url -> UrlRecord]
      /\ \A u \in Url \ UrlsOf(p, g) : f[u] = p.url[u]
      /\ \A u \in Url : f[u].state = p.url[u].state /\ f[u].started = p.url[u].started
  <2>1. CASE told
    <3>1. f = f1
      BY <2>1
    <3>2. f1 \in [Url -> UrlRecord]
      BY <1>6
    <3>3. \A u \in Url \ UrlsOf(p, g) : f1[u] = p.url[u]
      OBVIOUS
    <3> HIDE DEF f, f1
    <3> QED BY <1>6, <3>1, <3>2, <3>3
  <2>2. CASE ~told
    BY <1>5, <2>2
  <2> QED BY <2>1, <2>2
<1> HIDE DEF x, r, f, f1
<1>8. Same(p, g, r) /\ r.group[g] = x /\ r.url = f /\ r.queue = p.queue /\ r.visitingList = p.visitingList
  <2>1. /\ x \in Group /\ x.urls = p.group[g].urls /\ x.algorithm = p.group[g].algorithm
        /\ f \in [Url -> UrlRecord] /\ \A u \in Url \ UrlsOf(p, g) : f[u] = p.url[u]
        /\ \A u \in Url : p.url[u].started => f[u].started
        /\ p.queue \in Seq(Id) /\ p.visitingList \in Seq(Id)
    BY <1>2, <1>5, <1>7
  <2> QED BY <1>4, <2>1, Updated, SMTT(20)
<1> QED BY <1>2, <1>7, <1>8 DEF Rated, r

LEMMA CopyErrorsRates ==
    ASSUME NEW p, Shape(p), NEW g \in DOMAIN p.group, NEW failed, NEW kind
    PROVE  /\ Rated(p, g, CopyErrors(p, g, failed, kind))
           /\ CopyErrors(p, g, failed, kind).group[g].malicious = p.group[g].malicious
<1> DEFINE f == [u \in Url |-> IF u \in UrlsOf(p, g)
                               THEN [p.url[u] EXCEPT !.error = IF u \in failed THEN "OTHER"
                                                               ELSE IF kind = "error" THEN "OK" ELSE @]
                               ELSE p.url[u]]
           x == p.group[g]
           r == CopyErrors(p, g, failed, kind)
<1>1. x \in Group /\ x.urls = p.group[g].urls /\ x.algorithm = p.group[g].algorithm
  BY DEF Shape
<1>2. p = [url |-> p.url, group |-> p.group, queue |-> p.queue, visitingList |-> p.visitingList]
  BY DEF Shape
<1>3. p.group = [p.group EXCEPT ![g] = x]
  <2>1. p.group = [h \in DOMAIN p.group |-> p.group[h]]
    BY DEF Shape
  <2> QED BY <2>1
<1>4. r = [url |-> f, group |-> [p.group EXCEPT ![g] = x], queue |-> p.queue,
           visitingList |-> p.visitingList]
  <2>1. r = [p EXCEPT !.url = f]
    BY <1>2 DEF CopyErrors, OnUrls
  <2> HIDE DEF r, x, f
  <2> QED BY <1>2, <1>3, <2>1
<1>5. p.url \in [Url -> UrlRecord] /\ p.queue \in Seq(Id) /\ p.visitingList \in Seq(Id)
  BY DEF Shape
<1>6. \A u \in Url : f[u] \in UrlRecord /\ f[u].state = p.url[u].state /\ f[u].started = p.url[u].started
  BY <1>5 DEF UrlRecord, Code
<1>7. f \in [Url -> UrlRecord] /\ \A u \in Url \ UrlsOf(p, g) : f[u] = p.url[u]
  BY <1>6
<1> HIDE DEF r, f, x
<1>8. Same(p, g, r) /\ r.group[g] = x /\ r.url = f /\ r.queue = p.queue /\ r.visitingList = p.visitingList
  <2>1. /\ x \in Group /\ x.urls = p.group[g].urls /\ x.algorithm = p.group[g].algorithm
        /\ f \in [Url -> UrlRecord] /\ \A u \in Url \ UrlsOf(p, g) : f[u] = p.url[u]
        /\ \A u \in Url : p.url[u].started => f[u].started
        /\ p.queue \in Seq(Id) /\ p.visitingList \in Seq(Id)
    BY <1>1, <1>5, <1>6, <1>7
  <2> QED BY <1>4, <2>1, Updated, SMTT(20)
<1> QED BY <1>6, <1>8 DEF Rated, r, x

LEMMA SameSame ==
    ASSUME NEW p, NEW g \in DOMAIN p.group, NEW q, Same(p, g, q), NEW r, Same(q, g, r)
    PROVE  Same(p, g, r) /\ UrlsOf(q, g) = UrlsOf(p, g)
BY DEF Same, UrlsOf

LEMMA RatedRated ==
    ASSUME NEW p, NEW g \in DOMAIN p.group, NEW q, Rated(p, g, q), NEW r, Rated(q, g, r)
    PROVE  Rated(p, g, r)
<1>1. Same(p, g, r)
  BY SameSame DEF Rated
<1> QED BY <1>1 DEF Rated

LEMMA RatedSound ==
    ASSUME NEW a, NEW X, NEW p, NEW g \in DOMAIN p.group, NEW q, Rated(p, g, q), Calm(a, X, p.group[g])
    PROVE  /\ Sound(a, q.group[g])
           /\ ~q.group[g].malicious => Calm(a, X, q.group[g]) /\ ~Splits(q.group[g])
           /\ q.group[g].malicious = p.group[g].malicious =>
                 Calm(a, X, q.group[g]) /\ (Splits(q.group[g]) <=> Splits(p.group[g]))
BY DEF Rated, Same, Sound, Calm, Splits

LEMMA RatedMarked ==
    ASSUME NEW p, NEW g, NEW q, Rated(p, g, q)
    PROVE  Marked(p, g, q)
BY DEF Rated, Marked

LEMMA RatedFailed ==
    ASSUME NEW a, NEW X, NEW p, NEW g \in DOMAIN p.group, NEW q, Rated(p, g, q), NEW r, Failed(a, X, q, g, r)
    PROVE  Failed(a, X, p, g, r)
<1>1. Same(p, g, r) /\ UrlsOf(q, g) = UrlsOf(p, g)
  BY SameSame DEF Rated, Failed
<1> QED BY <1>1 DEF Rated, Failed

LEMMA FailedRated ==
    ASSUME NEW a, NEW X, NEW p, NEW g \in DOMAIN p.group, NEW q, Failed(a, X, p, g, q), NEW r, Rated(q, g, r),
           Calm(a, X, r.group[g]), ~Splits(r.group[g]), UrlsOf(p, g) \subseteq Url
    PROVE  Failed(a, X, p, g, r)
<1>1. Same(p, g, r)
  BY SameSame DEF Rated, Failed
<1> QED BY <1>1 DEF Rated, Failed

LEMMA FailedFailed ==
    ASSUME NEW a, NEW X, NEW p, Shape(p), IsInjective(p.visitingList), NEW g \in DOMAIN p.group,
           NEW q, Failed(a, X, p, g, q), NEW r, Failed(a, X, q, g, r)
    PROVE  Failed(a, X, p, g, r)
<1>1. Same(p, g, r) /\ UrlsOf(q, g) = UrlsOf(p, g)
  BY SameSame DEF Failed
<1>2. r.visitingList = RemoveFirst(p.visitingList, g)
  <2>1. p.visitingList \in Seq(Id)
    BY DEF Shape
  <2>2. RemoveFirst(RemoveFirst(p.visitingList, g), g) = RemoveFirst(p.visitingList, g)
    BY <2>1, RemovedTwice
  <2> QED BY <2>2 DEF Failed
<1> QED BY <1>1, <1>2 DEF Failed

LEMMA RatedDone ==
    ASSUME NEW p, NEW g \in DOMAIN p.group, NEW q, Rated(p, g, q), NEW r
    PROVE  /\ Done(q, g, r) => Done(p, g, r)
           /\ Halved(q, g, r) => Halved(p, g, r)
<1>1. ASSUME Done(q, g, r) PROVE Done(p, g, r)
  <2>1. Same(p, g, r) /\ UrlsOf(q, g) = UrlsOf(p, g)
    BY <1>1, SameSame DEF Rated, Done
  <2> QED BY <1>1, <2>1 DEF Rated, Done
<1>2. ASSUME Halved(q, g, r) PROVE Halved(p, g, r)
  <2>1. UrlsOf(q, g) = UrlsOf(p, g) /\ DOMAIN q.group = DOMAIN p.group
    BY DEF Rated, Same, UrlsOf
  <2>2. PICK m \in Id, n \in Id : HalvedTo(q, g, r, m, n)
    BY <1>2 DEF Halved
  <2>3. \A h \in DOMAIN p.group \ {g} : q.group[h] = p.group[h]
    BY DEF Rated, Same
  <2>4. \A h \in DOMAIN p.group \ {g} : r.group[h] = p.group[h]
    BY <2>1, <2>2, <2>3 DEF HalvedTo
  <2>5. \A u \in Url \ UrlsOf(p, g) : r.url[u] = p.url[u]
    BY <2>1, <2>2 DEF HalvedTo, Rated, Same
  <2>6. q.queue = p.queue /\ q.visitingList = p.visitingList
    BY DEF Rated
  <2>7. \A u \in Url : p.url[u].started => r.url[u].started
    BY <2>2 DEF HalvedTo, Rated, Same
  <2>8. HalvedTo(p, g, r, m, n)
    BY <2>1, <2>2, <2>4, <2>5, <2>6, <2>7 DEF HalvedTo
  <2> QED BY <2>8 DEF Halved
<1> QED BY <1>1, <1>2

(* setUrlGroupState before divide and conquer or a retry.                   *)
LEMMA PushHalvesSplits ==
    ASSUME NEW a, NEW X, NEW p, Shape(p), IsFiniteSet(DOMAIN p.group), NEW g \in DOMAIN p.group,
           Sound(a, p.group[g]), NEW q, Same(p, g, q), Splits(q.group[g]), q.queue = p.queue,
           q.visitingList = RemoveFirst(p.visitingList, g),
           \A u \in UrlsOf(p, g) : q.url[u].state \in Outcome
    PROVE  /\ Halved(p, g, PushHalves(q, g))
           /\ PushHalves(q, g).group[g] = q.group[g] /\ PushHalves(q, g).url = q.url
<1> DEFINE urls == q.group[g].urls
<1>1. urls \in Seq(Url) /\ IsInjective(urls) /\ Len(urls) > 1 /\ ToSet(urls) = UrlsOf(p, g)
  BY DEF Same, Shape, Group, Sound, Splits, UrlsOf
<1> HIDE DEF urls
<1>2. PICK s \in Seq(Url), t \in Seq(Url) :
         /\ Halves(urls) = <<s, t>>
         /\ s # <<>> /\ t # <<>> /\ IsInjective(s) /\ IsInjective(t)
         /\ ToSet(s) \cap ToSet(t) = {} /\ ToSet(s) \cup ToSet(t) = ToSet(urls)
  BY <1>1, Halving
<1> DEFINE r1 == Push(q, s)
           r2 == Push(r1, t)
<1>3. PushHalves(q, g) = r2
  BY <1>2 DEF PushHalves, urls
<1>4. Shape(q) /\ DOMAIN q.group = DOMAIN p.group /\ IsFiniteSet(DOMAIN q.group)
  BY DEF Same
<1>5. PICK m \in Id :
         /\ Shape(r1) /\ IsFiniteSet(DOMAIN r1.group)
         /\ m \notin DOMAIN q.group /\ DOMAIN r1.group = DOMAIN q.group \cup {m}
         /\ \A h \in DOMAIN q.group : r1.group[h] = q.group[h]
         /\ r1.group[m] = NewGroup(s)
         /\ r1.url = q.url /\ r1.queue = Cons(m, q.queue) /\ r1.visitingList = q.visitingList
  BY <1>2, <1>4, PushPushes
<1> HIDE DEF r1
<1>6. PICK n \in Id :
         /\ Shape(r2) /\ IsFiniteSet(DOMAIN r2.group)
         /\ n \notin DOMAIN r1.group /\ DOMAIN r2.group = DOMAIN r1.group \cup {n}
         /\ \A h \in DOMAIN r1.group : r2.group[h] = r1.group[h]
         /\ r2.group[n] = NewGroup(t)
         /\ r2.url = r1.url /\ r2.queue = Cons(n, r1.queue) /\ r2.visitingList = r1.visitingList
  BY <1>2, <1>5, PushPushes
<1> HIDE DEF r2
<1>7. \A h \in DOMAIN p.group \ {g} : r2.group[h] = p.group[h]
  BY <1>4, <1>5, <1>6 DEF Same
<1>8. r2.group[m] = NewGroup(s) /\ r2.group[n] = NewGroup(t) /\ m # n
  BY <1>5, <1>6
<1>9. r2.queue = Cons(n, Cons(m, p.queue)) /\ r2.visitingList = RemoveFirst(p.visitingList, g)
  BY <1>5, <1>6
<1>10. /\ \A u \in Url \ UrlsOf(p, g) : r2.url[u] = p.url[u]
       /\ \A u \in UrlsOf(p, g) : r2.url[u].state \in Outcome
       /\ \A u \in Url : p.url[u].started => r2.url[u].started
  BY <1>5, <1>6 DEF Same
<1>11. HalvedTo(p, g, r2, m, n)
  <2>1. /\ {m, n} \subseteq Id /\ {m, n} \cap DOMAIN p.group = {}
        /\ DOMAIN r2.group = DOMAIN p.group \cup {m, n}
    BY <1>4, <1>5, <1>6
  <2>2. ToSet(s) \cup ToSet(t) = UrlsOf(p, g)
    BY <1>1, <1>2
  <2> QED BY <1>2, <1>6, <1>7, <1>8, <1>9, <1>10, <2>1, <2>2 DEF HalvedTo
<1>12. r2.group[g] = q.group[g] /\ r2.url = q.url
  BY <1>4, <1>5, <1>6
<1> QED BY <1>3, <1>11, <1>12 DEF Halved

(* Divide and conquer takes no calm group apart, but one that was left whole. *)
LEMMA CalmStays ==
    ASSUME NEW a, NEW X, NEW p, NEW g, Calm(a, X, p.group[g]), ~(UrlsOf(p, g) \subseteq X)
    PROVE  ~Splits(p.group[g])
<1> DEFINE x == p.group[g]
<1> SUFFICES ASSUME Splits(x) PROVE FALSE
  OBVIOUS
<1>1. x.algorithm = "dac" /\ x.malicious /\ Len(x.urls) > 1
  BY DEF Splits
<1>2. a[x.urls[1]] = "dac"
  BY <1>1 DEF Calm, Sound
<1>3. Len(x.urls) = 1
  BY <1>1, <1>2 DEF Calm, UrlsOf
<1> QED BY <1>1, <1>3

LEMMA SetVisitedEnds ==
    ASSUME NEW a, NEW X, NEW p, Shape(p), IsFiniteSet(DOMAIN p.group), IsInjective(p.visitingList),
           NEW g \in DOMAIN p.group, Sound(a, p.group[g])
    PROVE  LET r == SetVisited(p, g)
           IN  IF Splits(p.group[g]) THEN Halved(p, g, r) ELSE Done(p, g, r) /\ Shown(p, g, r)
<1> DEFINE f == [u \in Url |-> IF u \in UrlsOf(p, g)
                               THEN [p.url[u] EXCEPT !.state = IF p.url[u].error = "OK" THEN "VISITED" ELSE "ERROR"]
                               ELSE p.url[u]]
           x == [p.group[g] EXCEPT !.state = "VISITED"]
           l == RemoveFirst(p.visitingList, g)
           q == [p EXCEPT !.group = [p.group EXCEPT ![g] = x], !.url = f, !.visitingList = l]
           r == SetVisited(p, g)
<1>1. p.group[g] \in Group /\ UrlsOf(p, g) \subseteq Url
  <2>1. p.group[g] \in Group
    BY DEF Shape
  <2>2. p.group[g].urls \in Seq(Url)
    BY <2>1 DEF Group
  <2> QED BY <2>1, <2>2, Members DEF UrlsOf
<1>2. /\ x \in Group /\ x.urls = p.group[g].urls /\ x.algorithm = p.group[g].algorithm
      /\ x.malicious = p.group[g].malicious
  BY <1>1 DEF Group, OutcomeState
<1>3. p = [url |-> p.url, group |-> p.group, queue |-> p.queue, visitingList |-> p.visitingList]
  BY DEF Shape
<1>4. r = PushHalvesIfSplit(q, g)
  BY <1>3 DEF SetVisited, OnUrls
<1>5. p.url \in [Url -> UrlRecord] /\ p.queue \in Seq(Id) /\ l \in Seq(Id)
  BY Removed DEF Shape
<1>6. \A u \in Url : f[u] \in UrlRecord /\ f[u].started = p.url[u].started
  BY <1>5 DEF UrlRecord, OutcomeState
<1>7. /\ f \in [Url -> UrlRecord] /\ \A u \in Url \ UrlsOf(p, g) : f[u] = p.url[u]
      /\ \A u \in UrlsOf(p, g) : f[u].state \in Outcome
  <2>1. f \in [Url -> UrlRecord] /\ \A u \in Url \ UrlsOf(p, g) : f[u] = p.url[u]
    BY <1>6
  <2>2. \A u \in UrlsOf(p, g) : f[u].state \in Outcome
    BY <1>1, <1>5 DEF Outcome, UrlRecord
  <2> QED BY <2>1, <2>2
<1>8. \A u \in UrlsOf(p, g) : /\ f[u].malicious = p.url[u].malicious
                              /\ f[u].state = "VISITED" => p.url[u].error = "OK"
  BY <1>1, <1>5 DEF UrlRecord
<1> HIDE DEF x, f, l
<1>9. q = [url |-> f, group |-> [p.group EXCEPT ![g] = x], queue |-> p.queue, visitingList |-> l]
  <2>1. q = [p EXCEPT !.group = [p.group EXCEPT ![g] = x], !.url = f, !.visitingList = l]
    OBVIOUS
  <2> HIDE DEF q
  <2> QED BY <1>3, <2>1
<1> HIDE DEF q
<1>10. Same(p, g, q) /\ q.group[g] = x /\ q.url = f /\ q.queue = p.queue /\ q.visitingList = l
  <2>1. /\ x \in Group /\ x.urls = p.group[g].urls /\ x.algorithm = p.group[g].algorithm
        /\ f \in [Url -> UrlRecord] /\ \A u \in Url \ UrlsOf(p, g) : f[u] = p.url[u]
        /\ \A u \in Url : p.url[u].started => f[u].started
        /\ p.queue \in Seq(Id) /\ l \in Seq(Id)
    BY <1>2, <1>5, <1>6, <1>7
  <2> QED BY <1>9, <2>1, Updated
<1>11. q.visitingList = RemoveFirst(p.visitingList, g)
  BY <1>10 DEF l
<1>12. Splits(q.group[g]) <=> Splits(p.group[g])
  BY <1>2, <1>10 DEF Splits
<1>13. \A u \in UrlsOf(p, g) : q.url[u].state \in Outcome
  BY <1>7, <1>10
<1>14. CASE Splits(p.group[g])
  <2>1. r = PushHalves(q, g)
    BY <1>4, <1>12, <1>14 DEF PushHalvesIfSplit
  <2> HIDE DEF r
  <2>2. Halved(p, g, PushHalves(q, g))
    BY <1>10, <1>11, <1>12, <1>13, <1>14, PushHalvesSplits
  <2> QED BY <1>14, <2>1, <2>2 DEF r
<1>15. CASE ~Splits(p.group[g])
  <2>1. r = q
    BY <1>4, <1>12, <1>15 DEF PushHalvesIfSplit
  <2> HIDE DEF r
  <2>2. Done(p, g, q) /\ Shown(p, g, q)
    BY <1>10, <1>11, <1>13, <1>8 DEF Done, Shown
  <2> QED BY <1>15, <2>1, <2>2 DEF r
<1> QED BY <1>14, <1>15

LEMMA SetErrorEnds ==
    ASSUME NEW a, NEW X, NEW p, Shape(p), IsFiniteSet(DOMAIN p.group), IsInjective(p.visitingList),
           NEW g \in DOMAIN p.group, Sound(a, p.group[g])
    PROVE  /\ Splits(p.group[g]) => Split(a, p, g, SetError(p, g))
           /\ Calm(a, X, p.group[g]) /\ ~Splits(p.group[g]) => Failed(a, X, p, g, SetError(p, g))
<1> DEFINE f == [u \in Url |-> IF u \in UrlsOf(p, g)
                               THEN [p.url[u] EXCEPT !.state = "ERROR", !.error = p.group[g].error]
                               ELSE p.url[u]]
           e == IF p.group[g].errorCount < ErrorBound THEN p.group[g].errorCount + 1
                ELSE p.group[g].errorCount
           x == [p.group[g] EXCEPT !.state = "ERROR", !.errorCount = e]
           l == RemoveFirst(p.visitingList, g)
           q == [p EXCEPT !.group = [p.group EXCEPT ![g] = x], !.url = f, !.visitingList = l]
           r == SetError(p, g)
<1>1. p.group[g] \in Group /\ UrlsOf(p, g) \subseteq Url
  <2>1. p.group[g] \in Group
    BY DEF Shape
  <2>2. p.group[g].urls \in Seq(Url)
    BY <2>1 DEF Group
  <2> QED BY <2>1, <2>2, Members DEF UrlsOf
<1>2. e \in 0..ErrorBound /\ e # 0 /\ (e > 1 <=> p.group[g].errorCount # 0)
  <2>1. p.group[g].errorCount \in 0..ErrorBound
    BY <1>1 DEF Group
  <2> QED BY <2>1 DEF ErrorBound
<1> HIDE DEF e
<1>3. /\ x \in Group /\ x.urls = p.group[g].urls /\ x.algorithm = p.group[g].algorithm
      /\ x.malicious = p.group[g].malicious /\ x.state = "ERROR" /\ x.errorCount = e
      /\ x.retryCount = p.group[g].retryCount
  BY <1>1, <1>2 DEF Group, OutcomeState
<1>4. p = [url |-> p.url, group |-> p.group, queue |-> p.queue, visitingList |-> p.visitingList]
  BY DEF Shape
<1>5. r = RetryGroup(PushHalvesIfSplit(q, g), g)
  BY <1>4 DEF SetError, OnUrls, e
<1>6. p.url \in [Url -> UrlRecord] /\ p.queue \in Seq(Id) /\ l \in Seq(Id)
  BY Removed DEF Shape
<1>7. \A u \in Url : f[u] \in UrlRecord /\ f[u].started = p.url[u].started
  BY <1>1, <1>6 DEF UrlRecord, OutcomeState, Group
<1>8. /\ f \in [Url -> UrlRecord] /\ \A u \in Url \ UrlsOf(p, g) : f[u] = p.url[u]
      /\ \A u \in UrlsOf(p, g) : f[u].state = "ERROR"
  <2>1. f \in [Url -> UrlRecord] /\ \A u \in Url \ UrlsOf(p, g) : f[u] = p.url[u]
    BY <1>7
  <2>2. \A u \in UrlsOf(p, g) : f[u].state = "ERROR"
    BY <1>1, <1>6 DEF UrlRecord
  <2> QED BY <2>1, <2>2
<1> HIDE DEF x, f, l
<1>9. q = [url |-> f, group |-> [p.group EXCEPT ![g] = x], queue |-> p.queue, visitingList |-> l]
  <2>1. q = [p EXCEPT !.group = [p.group EXCEPT ![g] = x], !.url = f, !.visitingList = l]
    OBVIOUS
  <2> HIDE DEF q
  <2> QED BY <1>4, <2>1
<1> HIDE DEF q
<1>10. Same(p, g, q) /\ q.group[g] = x /\ q.url = f /\ q.queue = p.queue /\ q.visitingList = l
  <2>1. /\ x \in Group /\ x.urls = p.group[g].urls /\ x.algorithm = p.group[g].algorithm
        /\ f \in [Url -> UrlRecord] /\ \A u \in Url \ UrlsOf(p, g) : f[u] = p.url[u]
        /\ \A u \in Url : p.url[u].started => f[u].started
        /\ p.queue \in Seq(Id) /\ l \in Seq(Id)
    BY <1>3, <1>6, <1>7, <1>8
  <2> QED BY <1>9, <2>1, Updated
<1>11. q.visitingList = RemoveFirst(p.visitingList, g)
  BY <1>10 DEF l
<1>12. Splits(q.group[g]) <=> Splits(p.group[g])
  BY <1>3, <1>10 DEF Splits
<1>13. \A u \in UrlsOf(p, g) : q.url[u].state = "ERROR"
  BY <1>8, <1>10
<1>14. ASSUME Splits(p.group[g]) PROVE Split(a, p, g, r)
  <2>1. \A u \in UrlsOf(p, g) : q.url[u].state \in Outcome
    BY <1>13 DEF Outcome
  <2> DEFINE s == PushHalves(q, g)
  <2>2. Halved(p, g, s) /\ s.group[g] = q.group[g] /\ s.url = q.url
    BY <1>10, <1>11, <1>12, <1>14, <2>1, PushHalvesSplits
  <2>3. PushHalvesIfSplit(q, g) = s
    BY <1>12, <1>14 DEF PushHalvesIfSplit
  <2>4. r = s
    BY <1>5, <1>12, <1>14, <2>2, <2>3 DEF RetryGroup
  <2> HIDE DEF s, r
  <2>5. Sound(a, x)
    BY <1>2, <1>3 DEF Sound
  <2> QED BY <1>3, <1>10, <1>12, <1>13, <1>14, <2>2, <2>4, <2>5 DEF Split
<1>15. ASSUME Calm(a, X, p.group[g]), ~Splits(p.group[g]) PROVE Failed(a, X, p, g, r)
  <2>1. ~Splits(p.group[g])
    BY <1>15
  <2>2. PushHalvesIfSplit(q, g) = q
    BY <1>12, <2>1 DEF PushHalvesIfSplit
  <2>3. CASE p.group[g].errorCount # 0
    <3>1. r = q
      BY <1>2, <1>3, <1>5, <1>10, <1>12, <2>1, <2>2, <2>3 DEF RetryGroup
    <3> HIDE DEF r
    <3>2. Calm(a, X, x)
      BY <1>2, <1>3, <1>15, <2>3 DEF Calm, Sound
    <3> QED BY <1>2, <1>3, <1>10, <1>11, <1>12, <1>13, <2>1, <2>3, <3>1, <3>2 DEF Failed
  <2>4. CASE p.group[g].errorCount = 0
    <3> DEFINE y == [x EXCEPT !.retryCount = @ + 1]
               k == Cons(g, p.queue)
    <3>1. x.retryCount = 0
      BY <1>3, <1>15, <2>4 DEF Calm, Sound
    <3>2. /\ y \in Group /\ y.urls = p.group[g].urls /\ y.algorithm = p.group[g].algorithm
          /\ y.malicious = p.group[g].malicious /\ y.state = "ERROR" /\ y.errorCount = e
          /\ y.retryCount = 1
      BY <1>3, <3>1 DEF Group
    <3>3. ~(q.group[g].errorCount > 1)
      BY <1>2, <1>3, <1>10, <2>4
    <3>4. r = [q EXCEPT !.group = [q.group EXCEPT ![g] = y], !.queue = k]
      BY <1>5, <1>9, <1>10, <1>12, <2>1, <2>2, <3>3 DEF RetryGroup
    <3> HIDE DEF r, y
    <3>5. r = [url |-> f, group |-> [p.group EXCEPT ![g] = y], queue |-> k, visitingList |-> l]
      BY <1>9, <3>4
    <3>6. k \in Seq(Id)
      BY <1>6, Consed DEF Shape
    <3> HIDE DEF k
    <3>7. Same(p, g, r) /\ r.group[g] = y /\ r.url = f /\ r.queue = k /\ r.visitingList = l
      <4>1. /\ y \in Group /\ y.urls = p.group[g].urls /\ y.algorithm = p.group[g].algorithm
            /\ f \in [Url -> UrlRecord] /\ \A u \in Url \ UrlsOf(p, g) : f[u] = p.url[u]
            /\ \A u \in Url : p.url[u].started => f[u].started
            /\ k \in Seq(Id) /\ l \in Seq(Id)
        BY <1>6, <1>7, <1>8, <3>2, <3>6
      <4> QED BY <3>5, <4>1, Updated
    <3>8. Calm(a, X, y)
      BY <1>2, <1>15, <3>2 DEF Calm, Sound
    <3>9. r.visitingList = RemoveFirst(p.visitingList, g)
      BY <3>7 DEF l
    <3>10. ~Splits(y)
      BY <2>1, <3>2 DEF Splits
    <3> QED BY <1>2, <1>8, <2>4, <3>2, <3>7, <3>8, <3>9, <3>10 DEF Failed, k
  <2> QED BY <2>3, <2>4
<1> QED BY <1>14, <1>15

(* The pool and a group that a handler may mark.                            *)
Ready(a, X, p, g) ==
    /\ Shape(p) /\ IsFiniteSet(DOMAIN p.group) /\ IsInjective(p.visitingList)
    /\ g \in DOMAIN p.group /\ Calm(a, X, p.group[g])

LEMMA ReadyRated ==
    ASSUME NEW a, NEW X, NEW p, NEW g, Ready(a, X, p, g), NEW q, Rated(p, g, q), Calm(a, X, q.group[g])
    PROVE  Ready(a, X, q, g)
BY DEF Ready, Rated, Same

(* What verdicts and codes leave of it.                                     *)
LEMMA RatedLeaves ==
    ASSUME NEW a, NEW X, NEW p, NEW g, Ready(a, X, p, g), NEW q, Rated(p, g, q)
    PROVE  /\ Sound(a, q.group[g]) /\ g \in DOMAIN q.group /\ Shape(q)
           /\ IsFiniteSet(DOMAIN q.group) /\ IsInjective(q.visitingList)
           /\ q.group[g].urls = p.group[g].urls /\ q.group[g].algorithm = p.group[g].algorithm
           /\ UrlsOf(q, g) = UrlsOf(p, g)
<1>1. g \in DOMAIN p.group /\ Calm(a, X, p.group[g])
  BY DEF Ready
<1>2. Sound(a, q.group[g])
  BY <1>1, RatedSound
<1>3. /\ Shape(q) /\ DOMAIN q.group = DOMAIN p.group /\ q.visitingList = p.visitingList
      /\ q.group[g].urls = p.group[g].urls /\ q.group[g].algorithm = p.group[g].algorithm
  BY DEF Rated, Same
<1> QED BY <1>1, <1>2, <1>3 DEF Ready, UrlsOf

LEMMA ReadyFailed ==
    ASSUME NEW a, NEW X, NEW p, NEW g, Ready(a, X, p, g), NEW q, Failed(a, X, p, g, q)
    PROVE  Ready(a, X, q, g) /\ ~Splits(q.group[g])
<1>1. p.visitingList \in Seq(Id)
  BY DEF Ready, Shape
<1>2. IsInjective(q.visitingList)
  BY <1>1, Removed DEF Ready, Failed
<1> QED BY <1>2 DEF Ready, Failed, Same

LEMMA UrlsAreUrls ==
    ASSUME NEW p, Shape(p), NEW g \in DOMAIN p.group
    PROVE  UrlsOf(p, g) \subseteq Url /\ p.group[g].urls \in Seq(Url)
<1>1. p.group[g].urls \in Seq(Url)
  BY DEF Shape, Group
<1> QED BY <1>1, Members DEF UrlsOf

LEMMA FailOnce ==
    ASSUME NEW a, NEW X, NEW p, NEW g, Ready(a, X, p, g), ~Splits(p.group[g]), NEW code \in Code
    PROVE  Failed(a, X, p, g, SetError(SetMajorErrorCode(p, g, code), g))
<1> DEFINE q == SetMajorErrorCode(p, g, code)
           r == SetError(q, g)
<1>1. Rated(p, g, q) /\ q.group[g].malicious = p.group[g].malicious
  BY SetMajorErrorCodeRates DEF Ready
<1> HIDE DEF q
<1>2. Calm(a, X, q.group[g]) /\ ~Splits(q.group[g])
  BY <1>1, RatedSound DEF Ready
<1>3. Ready(a, X, q, g)
  BY <1>1, <1>2, ReadyRated
<1>4. Failed(a, X, q, g, r)
  BY <1>2, <1>3, SetErrorEnds DEF Ready, Calm
<1> HIDE DEF r
<1> QED BY <1>1, <1>4, RatedFailed DEF Ready, q, r

(* After a failure every further one only repeats it.                       *)
LEMMA FailAgain ==
    ASSUME NEW a, NEW X, NEW p, NEW g, Ready(a, X, p, g), NEW q, Failed(a, X, p, g, q), NEW code \in Code
    PROVE  Failed(a, X, p, g, SetError(SetMajorErrorCode(q, g, code), g))
<1> DEFINE r == SetError(SetMajorErrorCode(q, g, code), g)
<1>1. Ready(a, X, q, g) /\ ~Splits(q.group[g])
  BY ReadyFailed
<1>2. Failed(a, X, q, g, r)
  BY <1>1, FailOnce
<1> HIDE DEF r
<1>3. Failed(a, X, p, g, r)
  BY <1>2, FailedFailed DEF Ready
<1> QED BY <1>3 DEF r

LEMMA AbandonFails ==
    ASSUME NEW a, NEW X, NEW p, NEW g, Ready(a, X, p, g), ~Splits(p.group[g])
    PROVE  Failed(a, X, p, g, Abandon(p, g))
<1> DEFINE first == SetError(p, g)
           second == IF first.group[g].malicious THEN first
                     ELSE SetMalicious(first, g, "dac", FALSE, {})
<1>1. g # 0
  BY DEF Ready, Shape, Id
<1>2. Failed(a, X, p, g, first)
  BY SetErrorEnds DEF Ready, Calm
<1>3. Abandon(p, g) = SetError(SetMajorErrorCode(second, g, "LISTED"), g)
  BY <1>1 DEF Abandon
<1> HIDE DEF first
<1>4. Ready(a, X, first, g)
  BY <1>2, ReadyFailed
<1>5. Failed(a, X, p, g, second)
  <2>1. CASE first.group[g].malicious
    BY <1>2, <2>1
  <2>2. CASE ~first.group[g].malicious
    <3> DEFINE s == SetMalicious(first, g, "dac", FALSE, {})
    <3>1. PICK mal \in BOOLEAN : mal = FALSE
      OBVIOUS
    <3>2. PICK alg \in Algorithm : alg = "dac"
      BY DEF Algorithm
    <3>3. PICK blamed \in SUBSET Url : blamed = {}
      OBVIOUS
    <3>4. s = SetMalicious(first, g, alg, mal, blamed)
      BY <3>1, <3>2, <3>3
    <3>5. /\ Rated(first, g, SetMalicious(first, g, alg, mal, blamed))
          /\ SetMalicious(first, g, alg, mal, blamed).group[g].malicious = mal
      BY <1>4, SetMaliciousRates DEF Ready
    <3>6. Rated(first, g, s) /\ s.group[g].malicious = mal
      BY <3>4, <3>5
    <3> HIDE DEF s
    <3>7. Calm(a, X, s.group[g]) /\ ~Splits(s.group[g])
      BY <1>4, <3>1, <3>6, RatedSound DEF Ready
    <3>8. UrlsOf(p, g) \subseteq Url
      BY UrlsAreUrls DEF Ready
    <3>9. Failed(a, X, p, g, s)
      BY <1>2, <3>6, <3>7, <3>8, FailedRated DEF Ready
    <3>10. second = s
      BY <2>2 DEF s
    <3> QED BY <3>9, <3>10
  <2> QED BY <2>1, <2>2
<1> HIDE DEF second
<1>6. PICK code \in Code : code = "LISTED"
  BY DEF Code
<1>7. Failed(a, X, p, g, SetError(SetMajorErrorCode(second, g, code), g))
  BY <1>5, FailAgain
<1> QED BY <1>3, <1>6, <1>7

-----------------------------------------------------------------------------
(* A group that was left whole: every error mark splits it.                 *)

(* The queue holds groups that exist, each once.                            *)
Lined(p) == IsInjective(p.queue) /\ ToSet(p.queue) \subseteq DOMAIN p.group

(* The new groups N hold the URLs of g.                                     *)
Strewn(X, p, g, r, N) ==
    /\ Shape(r) /\ IsFiniteSet(DOMAIN r.group)
    /\ N # {} /\ N \subseteq Id /\ IsFiniteSet(N) /\ N \cap DOMAIN p.group = {}
    /\ DOMAIN r.group = DOMAIN p.group \cup N
    /\ \A h \in DOMAIN p.group \ {g} : r.group[h] = p.group[h]
    /\ \A h \in N : \E s \in Seq(Url) :
          s # <<>> /\ IsInjective(s) /\ ToSet(s) \subseteq UrlsOf(p, g) /\ r.group[h] = NewGroup(s)
    /\ \A u \in UrlsOf(p, g) : \E h \in N : u \in UrlsOf(r, h)
    /\ UrlsOf(p, g) \subseteq X \/ \A h, i \in N : h # i => UrlsOf(r, h) \cap UrlsOf(r, i) = {}
    /\ IsInjective(r.queue) /\ ToSet(r.queue) = ToSet(p.queue) \cup N
    /\ r.visitingList = RemoveFirst(p.visitingList, g)
    /\ \A u \in Url \ UrlsOf(p, g) : r.url[u] = p.url[u]
    /\ \A u \in Url : p.url[u].started => r.url[u].started
    /\ \A u \in UrlsOf(p, g) : r.url[u].state \in Outcome

LEMMA HalvedStrews ==
    ASSUME NEW X, NEW p, Shape(p), Lined(p), NEW g \in DOMAIN p.group, NEW r, Halved(p, g, r)
    PROVE  \E N \in SUBSET Id : Strewn(X, p, g, r, N)
<1>1. PICK m \in Id, n \in Id : HalvedTo(p, g, r, m, n)
  BY DEF Halved
<1>2. PICK s \in Seq(Url), t \in Seq(Url) :
         /\ s # <<>> /\ t # <<>> /\ IsInjective(s) /\ IsInjective(t)
         /\ ToSet(s) \cap ToSet(t) = {} /\ ToSet(s) \cup ToSet(t) = UrlsOf(p, g)
         /\ r.group[m] = NewGroup(s) /\ r.group[n] = NewGroup(t)
  BY <1>1 DEF HalvedTo
<1>3. m # n /\ m \notin DOMAIN p.group /\ n \notin DOMAIN p.group
  BY <1>1 DEF HalvedTo
<1>4. ToSet(r.queue) = ToSet(p.queue) \cup {m, n} /\ IsInjective(r.queue)
  <2>1. p.queue \in Seq(Id) /\ IsInjective(p.queue) /\ m \notin ToSet(p.queue) /\ n \notin ToSet(p.queue)
    BY <1>3 DEF Lined, Shape
  <2> DEFINE k == Cons(m, p.queue)
  <2>2. k \in Seq(Id) /\ ToSet(k) = {m} \cup ToSet(p.queue) /\ IsInjective(k)
    BY <2>1, Consed
  <2> HIDE DEF k
  <2>3. ToSet(Cons(n, k)) = {n} \cup ToSet(k) /\ IsInjective(Cons(n, k))
    BY <1>3, <2>1, <2>2, Consed
  <2>4. r.queue = Cons(n, k)
    BY <1>1 DEF HalvedTo, k
  <2> QED BY <2>2, <2>3, <2>4
<1>5. PICK N \in SUBSET Id : N = {m, n}
  OBVIOUS
<1>6. IsFiniteSet(N)
  <2>1. IsFiniteSet({m}) /\ IsFiniteSet({m} \cup {n})
    BY FS_Singleton, FS_AddElement
  <2>2. {m} \cup {n} = N
    BY <1>5
  <2> QED BY <2>1, <2>2
<1>7. NewGroup(s).urls = s /\ NewGroup(t).urls = t
  BY DEF NewGroup
<1>8. UrlsOf(r, m) = ToSet(s) /\ UrlsOf(r, n) = ToSet(t)
  BY <1>2, <1>7 DEF UrlsOf
<1>9. \A h \in N : \E v \in Seq(Url) :
         v # <<>> /\ IsInjective(v) /\ ToSet(v) \subseteq UrlsOf(p, g) /\ r.group[h] = NewGroup(v)
  BY <1>2, <1>5
<1>10. \A u \in UrlsOf(p, g) : \E h \in N : u \in UrlsOf(r, h)
  BY <1>2, <1>5, <1>8
<1>11. \A h, i \in N : h # i => UrlsOf(r, h) \cap UrlsOf(r, i) = {}
  BY <1>2, <1>5, <1>8
<1>12. Strewn(X, p, g, r, N)
  BY <1>1, <1>3, <1>4, <1>5, <1>6, <1>9, <1>10, <1>11 DEF HalvedTo, Strewn
<1> QED BY <1>12

LEMMA StrewnStrewn ==
    ASSUME NEW X, NEW p, Shape(p), IsInjective(p.visitingList), NEW g \in DOMAIN p.group,
           UrlsOf(p, g) \subseteq X, NEW q, NEW N, Strewn(X, p, g, q, N), UrlsOf(q, g) = UrlsOf(p, g),
           NEW r, NEW K, Strewn(X, q, g, r, K)
    PROVE  Strewn(X, p, g, r, N \cup K)
<1> DEFINE M == N \cup K
<1>1. M # {} /\ M \subseteq Id /\ M \cap DOMAIN p.group = {} /\ DOMAIN r.group = DOMAIN p.group \cup M
  BY DEF Strewn
<1>2. IsFiniteSet(M)
  BY FS_Union DEF Strewn
<1>3. \A h \in N : h \in DOMAIN q.group \ {g} /\ r.group[h] = q.group[h] /\ UrlsOf(r, h) = UrlsOf(q, h)
  BY DEF Strewn, UrlsOf
<1>4. \A h \in DOMAIN p.group \ {g} : r.group[h] = p.group[h]
  BY DEF Strewn
<1>5. \A h \in M : \E s \in Seq(Url) :
         s # <<>> /\ IsInjective(s) /\ ToSet(s) \subseteq UrlsOf(p, g) /\ r.group[h] = NewGroup(s)
  <2>1. ASSUME NEW h \in N
        PROVE  \E s \in Seq(Url) :
                 s # <<>> /\ IsInjective(s) /\ ToSet(s) \subseteq UrlsOf(p, g) /\ r.group[h] = NewGroup(s)
    BY <1>3 DEF Strewn
  <2>2. ASSUME NEW h \in K
        PROVE  \E s \in Seq(Url) :
                 s # <<>> /\ IsInjective(s) /\ ToSet(s) \subseteq UrlsOf(p, g) /\ r.group[h] = NewGroup(s)
    BY DEF Strewn
  <2> QED BY <2>1, <2>2
<1>6. \A u \in UrlsOf(p, g) : \E h \in M : u \in UrlsOf(r, h)
  <2>1. \A u \in UrlsOf(p, g) : \E h \in N : u \in UrlsOf(q, h)
    BY DEF Strewn
  <2> QED BY <1>3, <2>1
<1>7. IsInjective(r.queue) /\ ToSet(r.queue) = ToSet(p.queue) \cup M
  BY DEF Strewn
<1>8. r.visitingList = RemoveFirst(p.visitingList, g)
  <2>1. p.visitingList \in Seq(Id)
    BY DEF Shape
  <2>2. RemoveFirst(RemoveFirst(p.visitingList, g), g) = RemoveFirst(p.visitingList, g)
    BY <2>1, RemovedTwice
  <2>3. r.visitingList = RemoveFirst(q.visitingList, g) /\ q.visitingList = RemoveFirst(p.visitingList, g)
    BY DEF Strewn
  <2> QED BY <2>2, <2>3
<1>9. /\ \A u \in Url \ UrlsOf(p, g) : r.url[u] = p.url[u]
      /\ \A u \in Url : p.url[u].started => r.url[u].started
      /\ \A u \in UrlsOf(p, g) : r.url[u].state \in Outcome
  BY DEF Strewn
<1>10. Shape(r) /\ IsFiniteSet(DOMAIN r.group)
  BY DEF Strewn
<1> HIDE DEF M
<1>11. Strewn(X, p, g, r, M)
  BY <1>1, <1>2, <1>4, <1>5, <1>6, <1>7, <1>8, <1>9, <1>10 DEF Strewn
<1> QED BY <1>11 DEF M

(* The groups are strewn, and as it is g would be split again.              *)
Scattered(a, X, p, g, r) ==
    /\ UrlsOf(p, g) \subseteq X
    /\ \E N \in SUBSET Id : Strewn(X, p, g, r, N)
    /\ Sound(a, r.group[g]) /\ Splits(r.group[g]) /\ r.group[g].urls = p.group[g].urls
    /\ \A u \in UrlsOf(p, g) : r.url[u].state = "ERROR"

LEMMA SplitByError ==
    ASSUME NEW a, NEW p, Shape(p), IsFiniteSet(DOMAIN p.group), IsInjective(p.visitingList),
           NEW g \in DOMAIN p.group, Sound(a, p.group[g]), Splits(p.group[g]), NEW code \in Code
    PROVE  /\ Split(a, p, g, SetError(p, g))
           /\ Split(a, p, g, SetError(SetMajorErrorCode(p, g, code), g))
<1> DEFINE q == SetMajorErrorCode(p, g, code)
           r == SetError(q, g)
<1>1. Split(a, p, g, SetError(p, g))
  BY SetErrorEnds
<1>2. Rated(p, g, q) /\ q.group[g].malicious = p.group[g].malicious
  BY SetMajorErrorCodeRates
<1> HIDE DEF q
<1>3. /\ Shape(q) /\ IsFiniteSet(DOMAIN q.group) /\ IsInjective(q.visitingList) /\ g \in DOMAIN q.group
      /\ Sound(a, q.group[g]) /\ Splits(q.group[g])
      /\ UrlsOf(q, g) = UrlsOf(p, g) /\ q.group[g].urls = p.group[g].urls
  BY <1>2 DEF Rated, Same, Sound, Splits, UrlsOf
<1>4. Split(a, q, g, r)
  BY <1>3, SetErrorEnds
<1> HIDE DEF r
<1>5. Halved(p, g, r)
  BY <1>2, <1>4, RatedDone DEF Split
<1>6. Split(a, p, g, r)
  BY <1>3, <1>4, <1>5 DEF Split
<1> QED BY <1>1, <1>6 DEF q, r

LEMMA SplitScatters ==
    ASSUME NEW a, NEW X, NEW p, Shape(p), Lined(p), NEW g \in DOMAIN p.group, UrlsOf(p, g) \subseteq X,
           NEW r, Split(a, p, g, r)
    PROVE  Scattered(a, X, p, g, r)
<1>1. \E N \in SUBSET Id : Strewn(X, p, g, r, N)
  BY HalvedStrews DEF Split
<1> QED BY <1>1 DEF Split, Scattered

LEMMA ScatteredAgain ==
    ASSUME NEW a, NEW X, NEW p, Shape(p), Lined(p), IsInjective(p.visitingList), NEW g \in DOMAIN p.group,
           NEW q, Scattered(a, X, p, g, q), NEW code \in Code
    PROVE  /\ Scattered(a, X, p, g, SetError(q, g))
           /\ Scattered(a, X, p, g, SetError(SetMajorErrorCode(q, g, code), g))
<1>1. PICK N \in SUBSET Id : Strewn(X, p, g, q, N)
  BY DEF Scattered
<1>2. /\ Shape(q) /\ IsFiniteSet(DOMAIN q.group) /\ g \in DOMAIN q.group
      /\ Sound(a, q.group[g]) /\ Splits(q.group[g]) /\ UrlsOf(q, g) = UrlsOf(p, g)
      /\ q.group[g].urls = p.group[g].urls
  BY <1>1 DEF Strewn, Scattered, UrlsOf
<1>3. IsInjective(q.visitingList)
  <2>1. p.visitingList \in Seq(Id) /\ q.visitingList = RemoveFirst(p.visitingList, g)
    BY <1>1 DEF Shape, Strewn
  <2> QED BY <2>1, Removed
<1>4. Lined(q) /\ UrlsOf(p, g) \subseteq X
  BY <1>1 DEF Strewn, Lined, Scattered
<1>5. ASSUME NEW r, Split(a, q, g, r) PROVE Scattered(a, X, p, g, r)
  <2>1. Scattered(a, X, q, g, r)
    BY <1>2, <1>4, <1>5, SplitScatters
  <2>2. PICK K \in SUBSET Id : Strewn(X, q, g, r, K)
    BY <2>1 DEF Scattered
  <2>3. Strewn(X, p, g, r, N \cup K)
    BY <1>1, <1>2, <1>4, <2>2, StrewnStrewn
  <2>4. N \cup K \in SUBSET Id
    OBVIOUS
  <2>5. \E M \in SUBSET Id : Strewn(X, p, g, r, M)
    BY <2>3, <2>4
  <2> QED BY <1>2, <1>4, <2>1, <2>5 DEF Scattered
<1>6. Split(a, q, g, SetError(q, g)) /\ Split(a, q, g, SetError(SetMajorErrorCode(q, g, code), g))
  BY <1>2, <1>3, SplitByError
<1> QED BY <1>5, <1>6

(* The two ways in which a client's group is given up.                      *)
GivenUp(a, X, p, g, r) == Failed(a, X, p, g, r) \/ Scattered(a, X, p, g, r)

LEMMA GiveUpOnce ==
    ASSUME NEW a, NEW X, NEW p, NEW g, Ready(a, X, p, g), Lined(p), NEW code \in Code
    PROVE  GivenUp(a, X, p, g, SetError(SetMajorErrorCode(p, g, code), g))
<1>1. CASE Splits(p.group[g])
  <2>1. Split(a, p, g, SetError(SetMajorErrorCode(p, g, code), g))
    BY <1>1, SplitByError DEF Ready, Calm
  <2>2. UrlsOf(p, g) \subseteq X
    BY <1>1, CalmStays DEF Ready
  <2> QED BY <2>1, <2>2, SplitScatters DEF Ready, GivenUp
<1>2. CASE ~Splits(p.group[g])
  BY <1>2, FailOnce DEF GivenUp
<1> QED BY <1>1, <1>2

LEMMA GiveUpAgain ==
    ASSUME NEW a, NEW X, NEW p, NEW g, Ready(a, X, p, g), Lined(p), NEW q, GivenUp(a, X, p, g, q),
           NEW code \in Code
    PROVE  GivenUp(a, X, p, g, SetError(SetMajorErrorCode(q, g, code), g))
<1>1. CASE Failed(a, X, p, g, q)
  BY <1>1, FailAgain DEF GivenUp
<1>2. CASE Scattered(a, X, p, g, q)
  BY <1>2, ScatteredAgain DEF Ready, GivenUp
<1> QED BY <1>1, <1>2 DEF GivenUp

LEMMA AbandonOnce ==
    ASSUME NEW a, NEW X, NEW p, NEW g, Ready(a, X, p, g), Lined(p)
    PROVE  GivenUp(a, X, p, g, Abandon(p, g))
<1>1. CASE ~Splits(p.group[g])
  BY <1>1, AbandonFails DEF GivenUp
<1>2. CASE Splits(p.group[g])
  <2> DEFINE first == SetError(p, g)
  <2>1. UrlsOf(p, g) \subseteq X
    BY <1>2, CalmStays DEF Ready
  <2>2. PICK code \in Code : code = "LISTED"
    BY DEF Code
  <2>3. Split(a, p, g, first)
    BY <1>2, <2>2, SplitByError DEF Ready, Calm
  <2>4. g # 0 /\ first.group[g].malicious
    BY <2>3 DEF Split, Splits, Ready, Shape, Id
  <2>5. Abandon(p, g) = SetError(SetMajorErrorCode(first, g, code), g)
    BY <2>2, <2>4 DEF Abandon
  <2> HIDE DEF first
  <2>6. Scattered(a, X, p, g, first)
    BY <2>1, <2>3, SplitScatters DEF Ready
  <2>7. Scattered(a, X, p, g, SetError(SetMajorErrorCode(first, g, code), g))
    BY <2>1, <2>6, ScatteredAgain DEF Ready
  <2> QED BY <2>5, <2>7 DEF GivenUp
<1> QED BY <1>1, <1>2

LEMMA AbandonAgain ==
    ASSUME NEW a, NEW X, NEW p, NEW g, Ready(a, X, p, g), Lined(p), NEW q, GivenUp(a, X, p, g, q)
    PROVE  GivenUp(a, X, p, g, Abandon(q, g))
<1>1. CASE Failed(a, X, p, g, q)
  <2>1. Ready(a, X, q, g) /\ ~Splits(q.group[g])
    BY <1>1, ReadyFailed
  <2>2. Failed(a, X, q, g, Abandon(q, g))
    BY <2>1, AbandonFails
  <2>3. Failed(a, X, p, g, Abandon(q, g))
    BY <1>1, <2>2, FailedFailed DEF Ready
  <2> QED BY <2>3 DEF GivenUp
<1>2. CASE Scattered(a, X, p, g, q)
  <2> DEFINE first == SetError(q, g)
  <2>1. PICK code \in Code : code = "LISTED"
    BY DEF Code
  <2>2. Scattered(a, X, p, g, first)
    BY <1>2, <2>1, ScatteredAgain DEF Ready
  <2>3. g # 0 /\ first.group[g].malicious
    BY <2>2 DEF Scattered, Splits, Ready, Shape, Id
  <2>4. Abandon(q, g) = SetError(SetMajorErrorCode(first, g, code), g)
    BY <2>1, <2>3 DEF Abandon
  <2> HIDE DEF first
  <2>5. Scattered(a, X, p, g, SetError(SetMajorErrorCode(first, g, code), g))
    BY <2>1, <2>2, ScatteredAgain DEF Ready
  <2> QED BY <2>4, <2>5 DEF GivenUp
<1> QED BY <1>1, <1>2 DEF GivenUp

(* A report that ends on a URL whose start was lost leaves the group where  *)
(* it is.                                                                   *)
LEMMA ThrowMarks ==
    ASSUME NEW a, NEW X, NEW p, NEW g, Ready(a, X, p, g), p.group[g].state # "VISITING", NEW code \in Code
    PROVE  LET r == SetMajorErrorCode(SetVisitedThrows(p, g), g, code)
           IN  Marked(p, g, r) /\ Calm(a, X, r.group[g])
<1> DEFINE n == CHOOSE i \in Startless(p, g) : \A j \in Startless(p, g) : i <= j
           V == {p.group[g].urls[i] : i \in 1..n}
           f == [u \in Url |-> IF u \in UrlsOf(p, g)
                               THEN IF u \in V
                                    THEN [p.url[u] EXCEPT !.state = IF p.url[u].error = "OK" THEN "VISITED"
                                                                    ELSE "ERROR"]
                                    ELSE p.url[u]
                               ELSE p.url[u]]
           x == [p.group[g] EXCEPT !.state = "VISITED"]
           q == SetVisitedThrows(p, g)
           r == SetMajorErrorCode(q, g, code)
<1>1. p.group[g] \in Group /\ Shape(p) /\ g \in DOMAIN p.group
  BY DEF Ready, Shape
<1>2. /\ x \in Group /\ x.urls = p.group[g].urls /\ x.algorithm = p.group[g].algorithm
      /\ x.malicious = p.group[g].malicious /\ x.state = "VISITED"
      /\ x.errorCount = p.group[g].errorCount /\ x.retryCount = p.group[g].retryCount
  BY <1>1 DEF Group, OutcomeState
<1>3. p = [url |-> p.url, group |-> p.group, queue |-> p.queue, visitingList |-> p.visitingList]
  BY <1>1 DEF Shape
<1> HIDE DEF n, V
<1>4. q = [p EXCEPT !.group = [p.group EXCEPT ![g] = x], !.url = f]
  BY <1>3 DEF SetVisitedThrows, OnUrls, n, V
<1>5. p.url \in [Url -> UrlRecord] /\ p.queue \in Seq(Id) /\ p.visitingList \in Seq(Id)
  BY <1>1 DEF Shape
<1>6. \A u \in Url : f[u] \in UrlRecord /\ f[u].started = p.url[u].started
  BY <1>5 DEF UrlRecord, OutcomeState
<1>7. /\ f \in [Url -> UrlRecord] /\ \A u \in Url \ UrlsOf(p, g) : f[u] = p.url[u]
      /\ \A u \in Url : p.url[u].started => f[u].started
  BY <1>6
<1> HIDE DEF q, x, f
<1>8. q = [url |-> f, group |-> [p.group EXCEPT ![g] = x], queue |-> p.queue,
           visitingList |-> p.visitingList]
  BY <1>3, <1>4
<1>9. Same(p, g, q) /\ q.group[g] = x /\ q.url = f /\ q.queue = p.queue /\ q.visitingList = p.visitingList
  BY <1>1, <1>2, <1>5, <1>7, <1>8, Updated, SMTT(30)
<1>10. Calm(a, X, x)
  BY <1>2 DEF Ready, Calm, Sound
<1>11. Rated(q, g, r) /\ r.group[g].malicious = q.group[g].malicious
  BY <1>1, <1>9, SetMajorErrorCodeRates DEF Same
<1> HIDE DEF r
<1>12. Same(p, g, r)
  BY <1>1, <1>9, <1>11, SameSame DEF Rated
<1>13. r.queue = p.queue /\ r.visitingList = p.visitingList /\ r.group[g].state = "VISITED"
  BY <1>2, <1>9, <1>11 DEF Rated
<1>14. Calm(a, X, r.group[g])
  BY <1>1, <1>9, <1>10, <1>11, RatedSound DEF Same
<1> QED BY <1>12, <1>13, <1>14 DEF Marked, r, q

-----------------------------------------------------------------------------
(* A group ends: the groups N take its place.                               *)

Ends(a, X, p, g, q, N) ==
    /\ Shape(q)
    /\ N \subseteq Id /\ IsFiniteSet(N) /\ N \cap (DOMAIN p.group \ {g}) = {}
    /\ DOMAIN q.group = (DOMAIN p.group \ {g}) \cup N
    /\ \A h \in DOMAIN p.group \ {g} : q.group[h] = p.group[h]
    /\ \A h \in N : /\ Calm(a, X, q.group[h]) /\ q.group[h].state # "VISITING"
                    /\ UrlsOf(q, h) \subseteq UrlsOf(p, g)
                    /\ q.group[h].algorithm # "none" => p.group[g].algorithm # "none"
    /\ \A h, i \in N : h # i => UrlsOf(q, h) \cap UrlsOf(q, i) \subseteq X
    /\ N # {} => \A u \in UrlsOf(p, g) : \E h \in N : u \in UrlsOf(q, h)
    /\ IsInjective(q.queue) /\ ToSet(q.queue) = ToSet(p.queue) \cup N
    /\ IsInjective(q.visitingList) /\ ToSet(q.visitingList) = ToSet(p.visitingList) \ {g}
    /\ \A u \in Url \ UrlsOf(p, g) : q.url[u] = p.url[u]
    /\ \A u \in Url : p.url[u].started => q.url[u].started
    /\ \A u \in UrlsOf(p, g) : q.url[u].state \in Outcome

(* Every other group is queued or held, and none of these is swept away.    *)
Spread(p, g, held) ==
    /\ g \in DOMAIN p.group /\ g \notin ToSet(p.queue) /\ g \notin held
    /\ DOMAIN p.group \ {g} \subseteq ToSet(p.queue) \cup held
    /\ held \subseteq {0} \cup DOMAIN p.group

LEMMA Swept ==
    ASSUME NEW r, Shape(r), NEW held
    PROVE  LET q == Sweep(r, held)
           IN  /\ Shape(q)
               /\ q.url = r.url /\ q.queue = r.queue /\ q.visitingList = r.visitingList
               /\ DOMAIN q.group = DOMAIN r.group \cap (ToSet(r.queue) \cup ToSet(r.visitingList) \cup held)
               /\ \A h \in DOMAIN q.group : q.group[h] = r.group[h]
<1> DEFINE D == DOMAIN r.group \cap (ToSet(r.queue) \cup ToSet(r.visitingList) \cup held)
           q == Sweep(r, held)
           f == [x \in D |-> r.group[x]]
<1>1. q = [r EXCEPT !.group = f]
  BY DEF Sweep, Restrict
<1>2. r = [url |-> r.url, group |-> r.group, queue |-> r.queue, visitingList |-> r.visitingList]
  BY DEF Shape
<1>3. D \subseteq DOMAIN r.group /\ f = [x \in D |-> f[x]] /\ DOMAIN f = D /\ \A h \in D : f[h] = r.group[h]
  OBVIOUS
<1> HIDE DEF q, f, D
<1>4. q = [url |-> r.url, group |-> f, queue |-> r.queue, visitingList |-> r.visitingList]
  BY <1>1, <1>2
<1>5. Shape(q)
  BY <1>3, <1>4 DEF Shape
<1>6. DOMAIN q.group = D /\ \A h \in DOMAIN q.group : q.group[h] = r.group[h]
  BY <1>3, <1>4
<1> QED BY <1>4, <1>5, <1>6 DEF q, D

(* The handler leaves g where it is and queues the groups N.                *)
Queued(p, g, r, N) ==
    /\ Shape(r)
    /\ N \cap (DOMAIN p.group \ {g}) = {}
    /\ DOMAIN r.group = DOMAIN p.group \cup N
    /\ \A h \in DOMAIN p.group \ {g} : r.group[h] = p.group[h]
    /\ ToSet(r.queue) = ToSet(p.queue) \cup N
    /\ r.visitingList = RemoveFirst(p.visitingList, g)

(* What is left after the sweep, in terms of the pool before the handler.   *)
LEMMA SweptRest ==
    ASSUME NEW a, NEW X, NEW p, Ordered(a, X, p), NEW g, NEW held, Spread(p, g, held),
           NEW r, NEW N, Queued(p, g, r, N), NEW q, q = Sweep(r, held)
    PROVE  /\ Shape(q)
           /\ q.url = r.url /\ q.queue = r.queue
           /\ DOMAIN q.group = (DOMAIN p.group \ {g}) \cup N
           /\ \A h \in DOMAIN p.group \ {g} : q.group[h] = p.group[h]
           /\ \A h \in N : q.group[h] = r.group[h]
           /\ IsInjective(q.visitingList)
           /\ ToSet(q.visitingList) = ToSet(p.visitingList) \ {g}
<1>1. /\ Shape(q)
      /\ q.url = r.url /\ q.queue = r.queue /\ q.visitingList = r.visitingList
      /\ DOMAIN q.group = DOMAIN r.group \cap (ToSet(r.queue) \cup ToSet(r.visitingList) \cup held)
      /\ \A h \in DOMAIN q.group : q.group[h] = r.group[h]
  BY Swept DEF Queued
<1>2. IsInjective(q.visitingList) /\ ToSet(q.visitingList) = ToSet(p.visitingList) \ {g}
  <2>1. p.visitingList \in Seq(Id) /\ IsInjective(p.visitingList)
    BY DEF Ordered, Shape
  <2> QED BY <1>1, <2>1, Removed DEF Queued
<1>3. DOMAIN q.group = (DOMAIN p.group \ {g}) \cup N
  <2>1. ToSet(r.visitingList) = ToSet(p.visitingList) \ {g}
    BY <1>1, <1>2
  <2>2. \A h \in DOMAIN p.group \ {g} : h \in DOMAIN q.group
    BY <1>1 DEF Spread, Queued
  <2>3. \A h \in N : h \in DOMAIN q.group
    BY <1>1 DEF Queued
  <2>4. \A h \in DOMAIN q.group : h \in (DOMAIN p.group \ {g}) \cup N
    BY <1>1, <2>1 DEF Spread, Queued
  <2> QED BY <2>2, <2>3, <2>4
<1>4. \A h \in DOMAIN p.group \ {g} : q.group[h] = p.group[h]
  BY <1>1, <1>3 DEF Queued
<1>5. \A h \in N : q.group[h] = r.group[h]
  BY <1>1, <1>3
<1> QED BY <1>1, <1>2, <1>3, <1>4, <1>5

LEMMA FailedEnds ==
    ASSUME NEW a, NEW X, NEW p, Ordered(a, X, p), NEW g, NEW held, Spread(p, g, held),
           NEW r, Failed(a, X, p, g, r)
    PROVE  \E N \in SUBSET {g} : Ends(a, X, p, g, Sweep(r, held), N)
<1> DEFINE N == IF p.group[g].errorCount = 0 THEN {g} ELSE {}
           q == Sweep(r, held)
<1>1. q = Sweep(r, held)
  OBVIOUS
<1> HIDE DEF q
<1>2. g \in DOMAIN p.group /\ g \notin ToSet(p.queue) /\ g \in Id
  BY DEF Spread, Ordered, Shape
<1>3. p.queue \in Seq(Id) /\ IsInjective(p.queue)
  BY DEF Ordered, Shape
<1>4. ToSet(r.queue) = ToSet(p.queue) \cup N /\ IsInjective(r.queue)
  BY <1>2, <1>3, Consed DEF Failed
<1>5. N \subseteq {g} /\ IsFiniteSet(N)
  BY FS_EmptySet, FS_Singleton
<1>6. Queued(p, g, r, N)
  BY <1>2, <1>4, <1>5 DEF Failed, Same, Queued
<1> HIDE DEF N
<1>7. /\ Shape(q)
      /\ q.url = r.url /\ q.queue = r.queue
      /\ DOMAIN q.group = (DOMAIN p.group \ {g}) \cup N
      /\ \A h \in DOMAIN p.group \ {g} : q.group[h] = p.group[h]
      /\ \A h \in N : q.group[h] = r.group[h]
      /\ IsInjective(q.visitingList)
      /\ ToSet(q.visitingList) = ToSet(p.visitingList) \ {g}
  BY <1>1, <1>6, SweptRest
<1>8. \A h \in N : /\ UrlsOf(q, h) = UrlsOf(p, g) /\ Calm(a, X, q.group[h])
                   /\ q.group[h].state = "ERROR" /\ q.group[h].algorithm = p.group[g].algorithm
  BY <1>5, <1>7 DEF Failed, Same, UrlsOf
<1>9. N # {} => \A u \in UrlsOf(p, g) : \E h \in N : u \in UrlsOf(q, h)
  BY <1>8
<1>10. /\ \A u \in Url \ UrlsOf(p, g) : q.url[u] = p.url[u]
       /\ \A u \in Url : p.url[u].started => q.url[u].started
       /\ \A u \in UrlsOf(p, g) : q.url[u].state \in Outcome
  BY <1>7 DEF Failed, Same, Outcome
<1>11. N \subseteq Id /\ \A h, i \in N : h = i
  BY <1>2, <1>5
<1>12. Ends(a, X, p, g, q, N)
  BY <1>4, <1>5, <1>6, <1>7, <1>8, <1>9, <1>10, <1>11 DEF Ends, Queued
<1> QED BY <1>5, <1>12 DEF q

LEMMA DoneEnds ==
    ASSUME NEW a, NEW X, NEW p, Ordered(a, X, p), NEW g, NEW held, Spread(p, g, held),
           NEW r, Done(p, g, r)
    PROVE  \E N \in SUBSET {g} : Ends(a, X, p, g, Sweep(r, held), N)
<1> DEFINE q == Sweep(r, held)
<1>1. q = Sweep(r, held)
  OBVIOUS
<1> HIDE DEF q
<1>2. PICK N \in SUBSET {g} : N = {}
  OBVIOUS
<1>3. ToSet(r.queue) = ToSet(p.queue) \cup N /\ IsInjective(r.queue)
  BY <1>2 DEF Done, Ordered
<1>4. IsFiniteSet(N)
  BY <1>2, FS_EmptySet
<1>5. Queued(p, g, r, N)
  BY <1>2, <1>3 DEF Done, Same, Queued
<1>6. /\ Shape(q)
      /\ q.url = r.url /\ q.queue = r.queue
      /\ DOMAIN q.group = (DOMAIN p.group \ {g}) \cup N
      /\ \A h \in DOMAIN p.group \ {g} : q.group[h] = p.group[h]
      /\ IsInjective(q.visitingList)
      /\ ToSet(q.visitingList) = ToSet(p.visitingList) \ {g}
  BY <1>1, <1>5, SweptRest
<1>7. /\ \A u \in Url \ UrlsOf(p, g) : q.url[u] = p.url[u]
      /\ \A u \in Url : p.url[u].started => q.url[u].started
      /\ \A u \in UrlsOf(p, g) : q.url[u].state \in Outcome
  BY <1>6 DEF Done, Same
<1>8. Ends(a, X, p, g, q, N)
  BY <1>2, <1>3, <1>4, <1>5, <1>6, <1>7 DEF Ends, Queued
<1> QED BY <1>8 DEF q

LEMMA StrewnEnds ==
    ASSUME NEW a, NEW X, NEW p, Ordered(a, X, p), NEW g, NEW held, Spread(p, g, held),
           NEW r, NEW N, Strewn(X, p, g, r, N)
    PROVE  Ends(a, X, p, g, Sweep(r, held), N)
<1> DEFINE q == Sweep(r, held)
<1>1. q = Sweep(r, held)
  OBVIOUS
<1> HIDE DEF q
<1>2. Queued(p, g, r, N)
  BY DEF Strewn, Queued
<1>3. /\ Shape(q)
      /\ q.url = r.url /\ q.queue = r.queue
      /\ DOMAIN q.group = (DOMAIN p.group \ {g}) \cup N
      /\ \A h \in DOMAIN p.group \ {g} : q.group[h] = p.group[h]
      /\ \A h \in N : q.group[h] = r.group[h]
      /\ IsInjective(q.visitingList)
      /\ ToSet(q.visitingList) = ToSet(p.visitingList) \ {g}
  BY <1>1, <1>2, SweptRest
<1>4. g \in DOMAIN p.group /\ Calm(a, X, p.group[g])
  BY DEF Spread, Ordered
<1>5. UrlsOf(p, g) \subseteq X \/ UrlsOf(p, g) \cap X = {}
  BY <1>4 DEF Calm, UrlsOf
<1>6. ASSUME NEW h \in N
      PROVE  /\ Calm(a, X, q.group[h]) /\ q.group[h].state # "VISITING" /\ q.group[h].algorithm = "none"
             /\ UrlsOf(q, h) \subseteq UrlsOf(p, g)
  <2>1. PICK s \in Seq(Url) :
           s # <<>> /\ IsInjective(s) /\ ToSet(s) \subseteq UrlsOf(p, g) /\ r.group[h] = NewGroup(s)
    BY DEF Strewn
  <2>2. q.group[h] = NewGroup(s)
    BY <1>3, <2>1
  <2>3. /\ Sound(a, NewGroup(s)) /\ NewGroup(s).urls = s /\ NewGroup(s).state = "NONE"
        /\ ~NewGroup(s).malicious /\ NewGroup(s).algorithm = "none"
    BY <2>1, NewGroups
  <2>4. UrlsOf(q, h) = ToSet(s)
    BY <2>2, <2>3 DEF UrlsOf
  <2>5. ToSet(s) \subseteq X \/ ToSet(s) \cap X = {}
    BY <1>5, <2>1
  <2>6. Calm(a, X, NewGroup(s))
    BY <2>3, <2>5 DEF Calm
  <2> QED BY <2>1, <2>2, <2>3, <2>4, <2>6
<1>7. \A h \in N : UrlsOf(q, h) = UrlsOf(r, h)
  BY <1>3 DEF UrlsOf
<1>8. \A h, i \in N : h # i => UrlsOf(q, h) \cap UrlsOf(q, i) \subseteq X
  <2>1. CASE UrlsOf(p, g) \subseteq X
    BY <1>6, <2>1
  <2>2. CASE \A h, i \in N : h # i => UrlsOf(r, h) \cap UrlsOf(r, i) = {}
    BY <1>7, <2>2
  <2> QED BY <2>1, <2>2 DEF Strewn
<1>9. \A u \in UrlsOf(p, g) : \E h \in N : u \in UrlsOf(q, h)
  BY <1>7 DEF Strewn
<1>10. /\ \A u \in Url \ UrlsOf(p, g) : q.url[u] = p.url[u]
       /\ \A u \in Url : p.url[u].started => q.url[u].started
       /\ \A u \in UrlsOf(p, g) : q.url[u].state \in Outcome
  BY <1>3 DEF Strewn
<1>11. /\ N \subseteq Id /\ IsFiniteSet(N) /\ N \cap (DOMAIN p.group \ {g}) = {}
       /\ IsInjective(q.queue) /\ ToSet(q.queue) = ToSet(p.queue) \cup N
  BY <1>3 DEF Strewn
<1>12. Ends(a, X, p, g, q, N)
  BY <1>3, <1>6, <1>8, <1>9, <1>10, <1>11 DEF Ends
<1> QED BY <1>12 DEF q

-----------------------------------------------------------------------------
(* A client's group ends: the pool, the hands and the places.               *)

\* What the others have in hand.
Others(g, c) == {g[d] : d \in Client \ {c}}

LEMMA GivingSpreads ==
    ASSUME NEW a, NEW X, NEW p, Ordered(a, X, p), NEW g, NEW state, Hands(p, g, state),
           NEW c \in Client, g[c] # 0
    PROVE  Spread(p, g[c], Others(g, c))
<1> DEFINE held == Others(g, c)
<1>1. g[c] \in DOMAIN p.group /\ g[c] \notin ToSet(p.queue)
  BY DEF Hands
<1>2. g[c] \notin held
  BY DEF Hands, Others
<1>3. held \subseteq {0} \cup DOMAIN p.group
  BY DEF Hands, Others
<1>4. \A h \in DOMAIN p.group \ {g[c]} : h \in ToSet(p.queue) \cup held
  BY DEF Hands, Others
<1> HIDE DEF held
<1>5. Spread(p, g[c], held)
  BY <1>1, <1>2, <1>3, <1>4 DEF Spread
<1> QED BY <1>5 DEF held

LEMMA GivingKeepsOrder ==
    ASSUME NEW a, NEW X, NEW p, Ordered(a, X, p), NEW g \in DOMAIN p.group, NEW q, NEW N, Ends(a, X, p, g, q, N),
           g \notin ToSet(p.queue)
    PROVE  Ordered(a, X, q)
<1>1. IsFiniteSet(DOMAIN q.group)
  <2>1. IsFiniteSet(DOMAIN p.group \ {g})
    BY FS_RemoveElement DEF Ordered
  <2>2. IsFiniteSet((DOMAIN p.group \ {g}) \cup N)
    BY <2>1, FS_Union DEF Ends
  <2> QED BY <2>2 DEF Ends
<1>2. \A h \in DOMAIN q.group : Calm(a, X, q.group[h])
  BY DEF Ends, Ordered
<1>3. /\ ToSet(q.queue) \cup ToSet(q.visitingList) \subseteq DOMAIN q.group
      /\ ToSet(q.queue) \cap ToSet(q.visitingList) = {}
  BY DEF Ends, Ordered
<1>4. \A h \in DOMAIN q.group : q.group[h].state = "VISITING" <=> h \in ToSet(q.visitingList)
  <2>1. \A h \in N : h \notin ToSet(q.visitingList)
    BY DEF Ends, Ordered
  <2> QED BY <2>1 DEF Ends, Ordered
<1>5. \A h, i \in DOMAIN q.group : h # i => UrlsOf(q, h) \cap UrlsOf(q, i) \subseteq X
  <2>1. /\ \A h \in DOMAIN p.group \ {g} : UrlsOf(q, h) = UrlsOf(p, h)
        /\ \A h \in DOMAIN p.group \ {g} : UrlsOf(p, h) \cap UrlsOf(p, g) \subseteq X
    BY DEF Ends, Ordered, UrlsOf
  <2>2. \A h \in N : UrlsOf(q, h) \subseteq UrlsOf(p, g)
    BY DEF Ends
  <2>3. DOMAIN q.group = (DOMAIN p.group \ {g}) \cup N
    BY DEF Ends
  <2>4. \A h, i \in N : h # i => UrlsOf(q, h) \cap UrlsOf(q, i) \subseteq X
    BY DEF Ends
  <2>5. \A h, i \in DOMAIN p.group \ {g} : h # i => UrlsOf(q, h) \cap UrlsOf(q, i) \subseteq X
    BY <2>1 DEF Ordered
  <2>6. \A h \in DOMAIN p.group \ {g}, i \in N : UrlsOf(q, h) \cap UrlsOf(q, i) \subseteq X
    BY <2>1, <2>2
  <2> QED BY <2>3, <2>4, <2>5, <2>6
<1>6. Shape(q) /\ IsInjective(q.queue) /\ IsInjective(q.visitingList)
  BY DEF Ends
<1>7. ASSUME NEW h \in DOMAIN q.group, q.group[h].algorithm # "none", NEW u \in UrlsOf(q, h)
      PROVE  q.url[u].started
  <2>1. CASE h \in N
    <3>1. p.group[g].algorithm # "none" /\ u \in UrlsOf(p, g)
      BY <1>7, <2>1 DEF Ends
    <3>2. u \in Url
      BY <3>1, UrlsAreUrls DEF Ordered
    <3> QED BY <3>1, <3>2 DEF Ends, Ordered
  <2>2. CASE h \in DOMAIN p.group \ {g}
    <3>1. q.group[h] = p.group[h]
      BY <2>2 DEF Ends
    <3>2. u \in UrlsOf(p, h) /\ u \in Url
      BY <1>7, <2>2, <3>1, UrlsAreUrls DEF Ordered, UrlsOf
    <3> QED BY <1>7, <2>2, <3>1, <3>2 DEF Ends, Ordered
  <2> QED BY <2>1, <2>2 DEF Ends
<1> QED BY <1>1, <1>2, <1>3, <1>4, <1>5, <1>6, <1>7 DEF Ordered

LEMMA GivingKeepsHands ==
    ASSUME NEW a, NEW X, NEW p, Ordered(a, X, p), NEW g, NEW state, Hands(p, g, state),
           NEW c \in Client, g[c] # 0, NEW q, NEW N, Ends(a, X, p, g[c], q, N),
           NEW s \in {"WAITING", "DISCONNECTED"}
    PROVE  Hands(q, [g EXCEPT ![c] = 0], [state EXCEPT ![c] = s])
<1> DEFINE g2 == [g EXCEPT ![c] = 0]
           s2 == [state EXCEPT ![c] = s]
<1>1. g \in [Client -> {0} \cup DOMAIN p.group]
      /\ state \in [Client -> {"WAITING", "AWAITING_VISITING", "VISITING", "DISCONNECTED"}]
  BY DEF Hands
<1>2. g2[c] = 0 /\ s2[c] = s /\ \A d \in Client \ {c} : g2[d] = g[d] /\ s2[d] = state[d]
  BY <1>1
<1>3. s2 \in [Client -> {"WAITING", "AWAITING_VISITING", "VISITING", "DISCONNECTED"}]
  BY <1>1
<1>4. DOMAIN g2 = Client /\ g2 = [d \in Client |-> g2[d]]
  BY <1>1
<1> HIDE DEF g2, s2
<1>5. \A d \in Client \ {c} : g[d] = 0 \/ g[d] \in DOMAIN p.group \ {g[c]}
  BY <1>1 DEF Hands
<1>6. /\ DOMAIN q.group = (DOMAIN p.group \ {g[c]}) \cup N
      /\ ToSet(q.queue) = ToSet(p.queue) \cup N
      /\ ToSet(q.visitingList) = ToSet(p.visitingList) \ {g[c]}
      /\ N \cap (DOMAIN p.group \ {g[c]}) = {} /\ 0 \notin N
  BY DEF Ends, Id
<1>7. g2 \in [Client -> {0} \cup DOMAIN q.group]
  BY <1>2, <1>4, <1>5, <1>6
<1>8. \A d \in Client : g2[d] # 0 <=> s2[d] \in {"AWAITING_VISITING", "VISITING"}
  BY <1>2 DEF Hands
<1>9. \A d, e \in Client : g2[d] # 0 /\ g2[d] = g2[e] => d = e
  BY <1>2 DEF Hands
<1>10. 0 \notin ToSet(p.queue) /\ 0 \notin ToSet(p.visitingList)
  BY DEF Ordered, Shape, Id
<1>11. \A d \in Client : g2[d] \notin ToSet(q.queue)
  BY <1>2, <1>5, <1>6, <1>10 DEF Hands
<1>12. \A h \in DOMAIN q.group : h \in ToSet(q.queue) \/ \E d \in Client : g2[d] = h
  <2> SUFFICES ASSUME NEW h \in DOMAIN p.group \ {g[c]}, h \notin ToSet(p.queue)
               PROVE  \E d \in Client : g2[d] = h
    BY <1>6
  <2>1. PICK d \in Client : g[d] = h
    BY DEF Hands
  <2> QED BY <1>2, <2>1
<1>13. \A d \in Client : g2[d] \in ToSet(q.visitingList) <=> s2[d] = "VISITING"
  BY <1>2, <1>5, <1>6, <1>10 DEF Hands
<1>14. Hands(q, g2, s2)
  BY <1>3, <1>7, <1>8, <1>9, <1>11, <1>12, <1>13 DEF Hands
<1> QED BY <1>14 DEF g2, s2

LEMMA GivingKeepsPlaces ==
    ASSUME NEW a, NEW X, NEW p, Ordered(a, X, p), NEW g \in DOMAIN p.group, NEW q, NEW N, Ends(a, X, p, g, q, N),
           NEW queued, NEW taken, taken \subseteq Url, Places(p, queued, taken)
    PROVE  Places(q, queued, taken)
<1>1. DOMAIN q.group = (DOMAIN p.group \ {g}) \cup N
  BY DEF Ends
<1>2. \A h \in DOMAIN p.group \ {g} : UrlsOf(q, h) = UrlsOf(p, h)
  BY DEF Ends, UrlsOf
<1>3. \A h \in N : UrlsOf(q, h) \subseteq UrlsOf(p, g)
  BY DEF Ends
<1>4. \A h \in DOMAIN q.group : UrlsOf(q, h) \subseteq taken \ queued
  BY <1>1, <1>2, <1>3 DEF Places
<1>5. ASSUME NEW u \in taken \ queued
      PROVE  (\E h \in DOMAIN q.group : u \in UrlsOf(q, h)) \/ q.url[u].state \in Outcome
  <2>1. CASE u \in UrlsOf(p, g)
    BY <2>1 DEF Ends
  <2>2. CASE u \notin UrlsOf(p, g)
    <3>1. q.url[u] = p.url[u]
      BY <2>2 DEF Ends
    <3>2. CASE \E h \in DOMAIN p.group : u \in UrlsOf(p, h)
      <4>1. PICK h \in DOMAIN p.group : u \in UrlsOf(p, h)
        BY <3>2
      <4>2. h \in DOMAIN p.group \ {g}
        BY <2>2, <4>1
      <4>3. h \in DOMAIN q.group /\ UrlsOf(q, h) = UrlsOf(p, h)
        BY <1>1, <1>2, <4>2
      <4> QED BY <4>1, <4>3
    <3>3. CASE p.url[u].state \in Outcome
      BY <3>1, <3>3
    <3> QED BY <3>2, <3>3 DEF Places
  <2> QED BY <2>1, <2>2
<1> QED BY <1>4, <1>5 DEF Places

-----------------------------------------------------------------------------
(* takeUrlGroup: g is the head of the queue or a new group of queued URLs.  *)

Taken(a, X, p, queued, q, g, left) ==
    /\ Ordered(a, X, q)
    /\ g \in Id /\ DOMAIN q.group = DOMAIN p.group \cup {g}
    /\ \A h \in DOMAIN p.group : q.group[h] = p.group[h]
    /\ g \notin ToSet(q.queue) /\ ToSet(q.queue) = ToSet(p.queue) \ {g}
    /\ g \in ToSet(p.queue) \/ g \notin DOMAIN p.group
    /\ q.visitingList = p.visitingList /\ q.url = p.url
    /\ left = queued \ UrlsOf(q, g)
    /\ g \in DOMAIN p.group \/ UrlsOf(q, g) \subseteq queued

LEMMA TakesHead ==
    ASSUME NEW a, NEW X, NEW p, Ordered(a, X, p), p.queue # <<>>, NEW queued,
           \A g \in DOMAIN p.group : UrlsOf(p, g) \cap queued = {},
           NEW q, q = [p EXCEPT !.queue = Tail(@)]
    PROVE  Taken(a, X, p, queued, q, Head(p.queue), queued)
<1> DEFINE g == Head(p.queue)
           k == Tail(p.queue)
<1>1. p.queue \in Seq(Id) /\ IsInjective(p.queue)
  BY DEF Ordered, Shape
<1>2. /\ k \in Seq(Id) /\ g \in Id /\ ToSet(p.queue) = {g} \cup ToSet(k)
      /\ IsInjective(k) /\ g \notin ToSet(k)
  BY <1>1, Tailed
<1>3. q = [p EXCEPT !.queue = k]
  OBVIOUS
<1> HIDE DEF g, k
<1>4. p = [url |-> p.url, group |-> p.group, queue |-> p.queue, visitingList |-> p.visitingList]
  BY DEF Ordered, Shape
<1>5. q = [url |-> p.url, group |-> p.group, queue |-> k, visitingList |-> p.visitingList]
  BY <1>3, <1>4
<1>6. q.url = p.url /\ q.group = p.group /\ q.visitingList = p.visitingList /\ q.queue = k
  BY <1>5
<1>7. Shape(q)
  BY <1>2, <1>5, <1>6 DEF Ordered, Shape
<1>8. g \in DOMAIN p.group
  BY <1>2 DEF Ordered
<1>9. \A h \in DOMAIN p.group : UrlsOf(q, h) = UrlsOf(p, h)
  BY <1>6 DEF UrlsOf
<1>10. ToSet(q.queue) \subseteq ToSet(p.queue)
  BY <1>2, <1>6
<1>11. Ordered(a, X, q)
  <2>1. /\ IsFiniteSet(DOMAIN q.group) /\ \A h \in DOMAIN q.group : Calm(a, X, q.group[h])
        /\ IsInjective(q.queue) /\ IsInjective(q.visitingList)
    BY <1>1, <1>2, <1>6 DEF Ordered
  <2>2. /\ ToSet(q.queue) \cup ToSet(q.visitingList) \subseteq DOMAIN q.group
        /\ ToSet(q.queue) \cap ToSet(q.visitingList) = {}
    BY <1>6, <1>10 DEF Ordered
  <2>3. \A h \in DOMAIN q.group : q.group[h].state = "VISITING" <=> h \in ToSet(q.visitingList)
    BY <1>6 DEF Ordered
  <2>4. \A h, i \in DOMAIN q.group : h # i => UrlsOf(q, h) \cap UrlsOf(q, i) \subseteq X
    BY <1>6, <1>9 DEF Ordered
  <2>5. \A h \in DOMAIN q.group : q.group[h].algorithm # "none" => \A u \in UrlsOf(q, h) : q.url[u].started
    BY <1>6, <1>9 DEF Ordered
  <2> QED BY <1>7, <2>1, <2>2, <2>3, <2>4, <2>5 DEF Ordered
<1>12. queued = queued \ UrlsOf(q, g)
  BY <1>8, <1>9
<1> QED BY <1>2, <1>6, <1>8, <1>11, <1>12 DEF Taken, g

LEMMA TakesNew ==
    ASSUME NEW a, NEW X, NEW p, Ordered(a, X, p), p.queue = <<>>, NEW queued,
           \A g \in DOMAIN p.group : UrlsOf(p, g) \cap queued = {},
           NEW s \in Seq(Url), s # <<>>, IsInjective(s), ToSet(s) \subseteq queued, queued \cap X = {}
    PROVE  Taken(a, X, p, queued, AddGroup(p, s), FreeId(p), queued \ ToSet(s))
<1> DEFINE g == FreeId(p)
           q == AddGroup(p, s)
<1>1. /\ Shape(q) /\ IsFiniteSet(DOMAIN q.group)
      /\ g \in Id /\ g \notin DOMAIN p.group /\ DOMAIN q.group = DOMAIN p.group \cup {g}
      /\ \A h \in DOMAIN p.group : q.group[h] = p.group[h]
      /\ q.group[g] = NewGroup(s)
      /\ q.url = p.url /\ q.queue = p.queue /\ q.visitingList = p.visitingList
  BY AddGroupAdds DEF Ordered
<1> HIDE DEF g, q
<1>2. /\ Calm(a, X, q.group[g]) /\ q.group[g].urls = s /\ q.group[g].state = "NONE"
      /\ q.group[g].algorithm = "none"
  <2>1. /\ Sound(a, q.group[g]) /\ q.group[g].urls = s /\ q.group[g].state = "NONE"
        /\ ~q.group[g].malicious /\ q.group[g].algorithm = "none"
    BY <1>1, NewGroups
  <2> QED BY <2>1 DEF Calm
<1>3. UrlsOf(q, g) = ToSet(s) /\ \A h \in DOMAIN p.group : UrlsOf(q, h) = UrlsOf(p, h)
  BY <1>1, <1>2 DEF UrlsOf
<1>4. ToSet(q.queue) \cup ToSet(q.visitingList) \subseteq DOMAIN p.group
  BY <1>1 DEF Ordered
<1>5. \A h \in DOMAIN q.group : q.group[h].state = "VISITING" <=> h \in ToSet(q.visitingList)
  BY <1>1, <1>2, <1>4 DEF Ordered
<1>6. \A h, i \in DOMAIN q.group : h # i => UrlsOf(q, h) \cap UrlsOf(q, i) \subseteq X
  <2>1. \A h, i \in DOMAIN p.group : h # i => UrlsOf(q, h) \cap UrlsOf(q, i) \subseteq X
    BY <1>3 DEF Ordered
  <2>2. \A h \in DOMAIN p.group : UrlsOf(q, h) \cap UrlsOf(q, g) = {}
    BY <1>3
  <2> QED BY <1>1, <2>1, <2>2
<1>7. \A h \in DOMAIN q.group : Calm(a, X, q.group[h])
  BY <1>1, <1>2 DEF Ordered
<1>8. Ordered(a, X, q)
  <2>1. \A h \in DOMAIN q.group : q.group[h].algorithm # "none" => \A u \in UrlsOf(q, h) : q.url[u].started
    BY <1>1, <1>2, <1>3 DEF Ordered
  <2> QED BY <1>1, <1>4, <1>5, <1>6, <1>7, <2>1 DEF Ordered
<1>9. ToSet(q.queue) = ToSet(p.queue) \ {g} /\ g \notin ToSet(q.queue)
  BY <1>1, <1>4
<1> QED BY <1>1, <1>3, <1>8, <1>9 DEF Taken, g, q

LEMMA TakeUrlGroupTakes ==
    ASSUME NEW X, Ordered(algorithmOf, X, pool), Places(pool, urlQueue, accepted), accepted \subseteq Url,
           urlQueue \cap X = {},
           NEW t \in TakeUrlGroup
    PROVE  Taken(algorithmOf, X, pool, urlQueue, t.pool, t.group, t.urls)
<1>1. \A g \in DOMAIN pool.group : UrlsOf(pool, g) \cap urlQueue = {}
  BY DEF Places
<1>2. CASE pool.queue # <<>>
  <2>1. /\ t.group = Head(pool.queue) /\ t.urls = urlQueue
        /\ t.pool = [pool EXCEPT !.queue = Tail(@)]
    BY <1>2 DEF TakeUrlGroup
  <2>2. PICK q : q = [pool EXCEPT !.queue = Tail(@)]
    OBVIOUS
  <2>3. Taken(algorithmOf, X, pool, urlQueue, q, Head(pool.queue), urlQueue)
    BY <1>1, <1>2, <2>2, TakesHead
  <2> QED BY <2>1, <2>2, <2>3
<1>3. CASE pool.queue = <<>>
  <2> DEFINE n == IF Cardinality(urlQueue) < GroupSize THEN Cardinality(urlQueue) ELSE GroupSize
  <2>1. n \in Nat
    BY FS_CardinalityType, UrlGroupsAssumption DEF Places
  <2>2. /\ n # 0
        /\ \E s \in TakeUrls(n) : t = [group |-> FreeId(pool), pool |-> AddGroup(pool, s),
                                      urls |-> urlQueue \ ToSet(s)]
    BY <1>3 DEF TakeUrlGroup
  <2> HIDE DEF n
  <2>3. PICK s \in TakeUrls(n) : t = [group |-> FreeId(pool), pool |-> AddGroup(pool, s),
                                     urls |-> urlQueue \ ToSet(s)]
    BY <2>2
  <2>4. s \in [1..n -> urlQueue] /\ IsInjective(s)
    BY <2>3 DEF TakeUrls
  <2>5. urlQueue \subseteq Url
    BY DEF Places
  <2>6. s \in Seq(Url) /\ s # <<>>
    <3>1. s \in [1..n -> Url]
      BY <2>4, <2>5
    <3>2. s \in Seq(Url)
      BY <2>1, <3>1, SeqDef
    <3>3. 1 \in DOMAIN s
      BY <2>1, <2>2, <2>4
    <3>4. s # <<>>
      BY <3>3
    <3> QED BY <3>2, <3>4
  <2>7. ToSet(s) \subseteq urlQueue
    BY <2>4 DEF ToSet
  <2>8. Taken(algorithmOf, X, pool, urlQueue, AddGroup(pool, s), FreeId(pool), urlQueue \ ToSet(s))
    BY <1>1, <1>3, <2>4, <2>6, <2>7, TakesNew
  <2> QED BY <2>3, <2>8
<1> QED BY <1>2, <1>3

LEMMA TakingKeepsHands ==
    ASSUME NEW a, NEW X, NEW p, Ordered(a, X, p), NEW g, NEW state, Hands(p, g, state),
           NEW c \in Client, g[c] = 0, NEW queued, NEW q, NEW k, NEW left,
           Taken(a, X, p, queued, q, k, left)
    PROVE  Hands(q, [g EXCEPT ![c] = k], [state EXCEPT ![c] = "AWAITING_VISITING"])
<1> DEFINE g2 == [g EXCEPT ![c] = k]
           s2 == [state EXCEPT ![c] = "AWAITING_VISITING"]
<1>1. g \in [Client -> {0} \cup DOMAIN p.group]
      /\ state \in [Client -> {"WAITING", "AWAITING_VISITING", "VISITING", "DISCONNECTED"}]
  BY DEF Hands
<1>2. /\ g2[c] = k /\ s2[c] = "AWAITING_VISITING"
      /\ \A d \in Client \ {c} : g2[d] = g[d] /\ s2[d] = state[d]
  BY <1>1
<1>3. s2 \in [Client -> {"WAITING", "AWAITING_VISITING", "VISITING", "DISCONNECTED"}]
  BY <1>1
<1>4. DOMAIN g2 = Client /\ g2 = [d \in Client |-> g2[d]]
  BY <1>1
<1> HIDE DEF g2, s2
<1>5. \A d \in Client : g[d] # k
  BY <1>1 DEF Taken, Hands, Id
<1>6. /\ DOMAIN q.group = DOMAIN p.group \cup {k} /\ k # 0
      /\ ToSet(q.queue) = ToSet(p.queue) \ {k} /\ q.visitingList = p.visitingList
  BY DEF Taken, Id
<1>7. k \notin ToSet(p.visitingList)
  BY DEF Taken, Ordered
<1>8. g2 \in [Client -> {0} \cup DOMAIN q.group]
  BY <1>1, <1>2, <1>4, <1>6
<1>9. \A d \in Client : g2[d] # 0 <=> s2[d] \in {"AWAITING_VISITING", "VISITING"}
  BY <1>2, <1>6 DEF Hands
<1>10. \A d, e \in Client : g2[d] # 0 /\ g2[d] = g2[e] => d = e
  BY <1>2, <1>5 DEF Hands
<1>11. \A d \in Client : g2[d] \notin ToSet(q.queue)
  BY <1>2, <1>6 DEF Hands
<1>12. \A h \in DOMAIN q.group : h \in ToSet(q.queue) \/ \E d \in Client : g2[d] = h
  <2> TAKE h \in DOMAIN q.group
  <2>1. CASE h = k
    BY <1>2, <2>1
  <2>2. CASE h # k
    <3>1. h \in ToSet(p.queue) \/ \E d \in Client : g[d] = h
      BY <1>6, <2>2 DEF Hands
    <3>2. CASE h \in ToSet(p.queue)
      BY <1>6, <2>2, <3>2
    <3>3. ASSUME NEW d \in Client, g[d] = h PROVE \E e \in Client : g2[e] = h
      <4>1. h # 0
        BY <1>6, <2>2 DEF Ordered, Shape, Id
      <4> QED BY <1>2, <3>3, <4>1
    <3> QED BY <3>1, <3>2, <3>3
  <2> QED BY <2>1, <2>2
<1>13. \A d \in Client : g2[d] \in ToSet(q.visitingList) <=> s2[d] = "VISITING"
  BY <1>2, <1>6, <1>7 DEF Hands
<1>14. Hands(q, g2, s2)
  BY <1>3, <1>8, <1>9, <1>10, <1>11, <1>12, <1>13 DEF Hands
<1> QED BY <1>14 DEF g2, s2

LEMMA TakingKeepsPlaces ==
    ASSUME NEW a, NEW X, NEW p, NEW queued, NEW taken, Places(p, queued, taken),
           NEW q, NEW k, NEW left, Taken(a, X, p, queued, q, k, left)
    PROVE  Places(q, left, taken)
<1>1. left \subseteq queued /\ left = queued \ UrlsOf(q, k) /\ DOMAIN q.group = DOMAIN p.group \cup {k}
  BY DEF Taken
<1>2. IsFiniteSet(left)
  BY <1>1, FS_Subset DEF Places
<1>3. \A h \in DOMAIN p.group : UrlsOf(q, h) = UrlsOf(p, h)
  BY DEF Taken, UrlsOf
<1>4. UrlsOf(q, k) \subseteq taken \ left
  <2>1. CASE k \in DOMAIN p.group
    BY <1>1, <1>3, <2>1 DEF Places
  <2>2. CASE k \notin DOMAIN p.group
    BY <1>1, <2>2 DEF Places, Taken
  <2> QED BY <2>1, <2>2
<1>5. \A h \in DOMAIN q.group : UrlsOf(q, h) \subseteq taken \ left
  BY <1>1, <1>3, <1>4 DEF Places
<1>6. ASSUME NEW u \in taken \ left
      PROVE  (\E h \in DOMAIN q.group : u \in UrlsOf(q, h)) \/ q.url[u].state \in Outcome
  <2>1. CASE u \in queued
    BY <1>1, <2>1
  <2>2. CASE u \notin queued
    <3>1. (\E h \in DOMAIN p.group : u \in UrlsOf(p, h)) \/ p.url[u].state \in Outcome
      BY <2>2 DEF Places
    <3>2. q.url = p.url
      BY DEF Taken
    <3> QED BY <1>1, <1>3, <3>1, <3>2
  <2> QED BY <2>1, <2>2
<1>7. left \subseteq taken
  BY <1>1 DEF Places
<1> QED BY <1>2, <1>5, <1>6, <1>7 DEF Places

-----------------------------------------------------------------------------
(* What the steps of a client come to.                                      *)

RightIn(p, u) == p.url[u].malicious = IF u \in Malicious THEN "yes" ELSE "no"

\* The cases in which a report may leave a wrong verdict.
Excused(u) == ChangeNotKept(u) \/ AmongOthers(u)

\* What q says of the URLs that c has in hand.
Judged(c, q) == \A u \in UrlsOf(pool, cGroup[c]) :
    q.url[u].state = "VISITED" => RightIn(q, u) \/ Excused(u)

(* The group in hand ends, and if nothing takes its place its URLs have     *)
(* their verdicts.                                                          *)
GroupEnds(X, c) ==
    /\ cGroup[c] # 0
    /\ \E N \in SUBSET Id : /\ Ends(algorithmOf, X, pool, cGroup[c], pool', N)
                            /\ N = {} => Judged(c, pool')
    /\ cGroup' = [cGroup EXCEPT ![c] = 0]
    /\ \E s \in {"WAITING", "DISCONNECTED"} : cState' = [cState EXCEPT ![c] = s]
    /\ UNCHANGED <<urlVars, monitor>>

\* A group is taken and ends at once.
GroupFails(X, c) ==
    /\ cState[c] = "WAITING"
    /\ \E t \in TakeUrlGroup :
          /\ \E N \in SUBSET Id : Ends(algorithmOf, X, t.pool, t.group, pool', N)
          /\ \A u \in UrlsOf(t.pool, t.group) : pool'.url[u].state = "ERROR"
          /\ urlQueue' = t.urls
    /\ cGroup' = [cGroup EXCEPT ![c] = 0]
    /\ cState' = [cState EXCEPT ![c] = "DISCONNECTED"]
    /\ UNCHANGED <<algorithmOf, offered, accepted, monitor>>

\* The group in hand stays there with another verdict, error code or state.
GroupMarked(X, c) ==
    /\ cGroup[c] # 0
    /\ Marked(pool, cGroup[c], pool') /\ Calm(algorithmOf, X, pool'.group[cGroup[c]])
    /\ UNCHANGED <<urlVars, cState, cGroup, monitor>>

\* No group is concerned.
Idle(c) ==
    /\ \/ cState' = cState
       \/ /\ cGroup[c] = 0
          /\ \E s \in {"WAITING", "DISCONNECTED"} : cState' = [cState EXCEPT ![c] = s]
    /\ UNCHANGED <<urlVars, pool, cGroup, monitor>>

LEMMA InHand ==
    ASSUME NEW X, InvFor(X), NEW c \in Client, cGroup[c] # 0
    PROVE  LET g == cGroup[c]
           IN  /\ Ready(algorithmOf, X, pool, g) /\ Lined(pool) /\ g \notin ToSet(pool.queue)
               /\ cState[c] = "VISITING" => pool.group[g].algorithm # "none"
               /\ cState[c] = "AWAITING_VISITING" => pool.group[g].state # "VISITING"
<1> DEFINE g == cGroup[c]
<1>1. Ordered(algorithmOf, X, pool) /\ Hands(pool, cGroup, cState)
  BY DEF InvFor
<1>2. g \in DOMAIN pool.group /\ g \notin ToSet(pool.queue)
  BY <1>1 DEF Hands
<1>3. Ready(algorithmOf, X, pool, g) /\ Lined(pool)
  BY <1>1, <1>2 DEF Ordered, Ready, Lined
<1>4. ASSUME cState[c] = "VISITING" PROVE pool.group[g].algorithm # "none"
  <2>1. g \in ToSet(pool.visitingList)
    BY <1>1, <1>4 DEF Hands
  <2>2. pool.group[g].state = "VISITING"
    BY <1>1, <1>2, <2>1 DEF Ordered
  <2> QED BY <1>3, <2>2 DEF Ready, Calm, Sound
<1>5. ASSUME cState[c] = "AWAITING_VISITING" PROVE pool.group[g].state # "VISITING"
  <2>1. g \notin ToSet(pool.visitingList)
    BY <1>1, <1>5 DEF Hands
  <2> QED BY <1>1, <1>2, <2>1 DEF Ordered
<1> QED BY <1>2, <1>3, <1>4, <1>5

LEMMA HandSpreads ==
    ASSUME NEW X, Ordered(algorithmOf, X, pool), Hands(pool, cGroup, cState), NEW c \in Client, cGroup[c] # 0
    PROVE  Spread(pool, cGroup[c], HeldByOthers(c))
<1>1. Spread(pool, cGroup[c], Others(cGroup, c))
  BY GivingSpreads
<1>2. Others(cGroup, c) = HeldByOthers(c)
  BY DEF Others, HeldByOthers
<1> QED BY <1>1, <1>2

LEMMA HandEnds ==
    ASSUME NEW X, InvFor(X), NEW c \in Client, cGroup[c] # 0, NEW r,
           \/ GivenUp(algorithmOf, X, pool, cGroup[c], r)
           \/ Done(pool, cGroup[c], r) /\ Judged(c, r)
           \/ Halved(pool, cGroup[c], r)
    PROVE  \E N \in SUBSET Id : /\ Ends(algorithmOf, X, pool, cGroup[c], Sweep(r, HeldByOthers(c)), N)
                                /\ N = {} => Judged(c, Sweep(r, HeldByOthers(c)))
<1> DEFINE g == cGroup[c]
           held == {cGroup[d] : d \in Client \ {c}}
           q == Sweep(r, held)
<1>1. HeldByOthers(c) = held
  BY DEF HeldByOthers
<1>2. Ordered(algorithmOf, X, pool) /\ Hands(pool, cGroup, cState)
  BY DEF InvFor
<1>3. Spread(pool, g, held)
  BY <1>1, <1>2, HandSpreads
<1>4. \A N \in SUBSET {g} : N \in SUBSET Id
  BY <1>2, <1>3 DEF Spread, Ordered, Shape
<1> HIDE DEF held
<1>5. Shape(r) => q.url = r.url
  <2> SUFFICES ASSUME Shape(r) PROVE q.url = r.url
    OBVIOUS
  <2> QED BY Swept
<1>6. q = Sweep(r, HeldByOthers(c))
  BY <1>1
<1>7. q = Sweep(r, held)
  OBVIOUS
<1> HIDE DEF q, g
<1>8. CASE Failed(algorithmOf, X, pool, g, r)
  <2>1. PICK N \in SUBSET {g} : Ends(algorithmOf, X, pool, g, Sweep(r, held), N)
    BY <1>2, <1>3, <1>8, FailedEnds
  <2>2. Shape(r) /\ \A u \in UrlsOf(pool, g) : r.url[u].state = "ERROR"
    BY <1>8 DEF Failed, Same
  <2>3. \A u \in UrlsOf(pool, g) : q.url[u].state = "ERROR"
    BY <1>5, <2>2
  <2>4. Judged(c, q)
    BY <2>3 DEF Judged, g
  <2> QED BY <1>4, <1>6, <1>7, <2>1, <2>4 DEF g
<1>9. ASSUME NEW N \in SUBSET Id, Strewn(X, pool, g, r, N)
      PROVE  \E M \in SUBSET Id : M # {} /\ Ends(algorithmOf, X, pool, g, Sweep(r, held), M)
  <2>1. Ends(algorithmOf, X, pool, g, Sweep(r, held), N)
    BY <1>2, <1>3, <1>9, StrewnEnds
  <2> QED BY <1>9, <2>1 DEF Strewn
<1>10. CASE Done(pool, g, r) /\ Judged(c, r)
  <2>1. PICK N \in SUBSET {g} : Ends(algorithmOf, X, pool, g, Sweep(r, held), N)
    BY <1>2, <1>3, <1>10, DoneEnds
  <2>2. q.url = r.url
    BY <1>5, <1>10 DEF Done, Same
  <2>3. Judged(c, q)
    BY <1>10, <2>2 DEF Judged, RightIn
  <2> QED BY <1>4, <1>6, <1>7, <2>1, <2>3 DEF g
<1>11. CASE Halved(pool, g, r)
  <2>1. Shape(pool) /\ Lined(pool) /\ g \in DOMAIN pool.group
    BY <1>2, <1>3 DEF Ordered, Lined, Spread
  <2>2. PICK N \in SUBSET Id : Strewn(X, pool, g, r, N)
    BY <1>11, <2>1, HalvedStrews
  <2>3. PICK M \in SUBSET Id : M # {} /\ Ends(algorithmOf, X, pool, g, Sweep(r, held), M)
    BY <1>9, <2>2
  <2> QED BY <1>6, <1>7, <2>3 DEF g
<1>12. CASE Scattered(algorithmOf, X, pool, g, r)
  <2>1. PICK N \in SUBSET Id : Strewn(X, pool, g, r, N)
    BY <1>12 DEF Scattered
  <2>2. PICK M \in SUBSET Id : M # {} /\ Ends(algorithmOf, X, pool, g, Sweep(r, held), M)
    BY <1>9, <2>1
  <2> QED BY <1>6, <1>7, <2>2 DEF g
<1> QED BY <1>8, <1>10, <1>11, <1>12 DEF g, GivenUp

LEMMA LostEnds ==
    ASSUME NEW X, InvFor(X), NEW c \in Client, cGroup[c] # 0, NEW r,
           \/ GivenUp(algorithmOf, X, pool, cGroup[c], r)
           \/ Done(pool, cGroup[c], r) /\ Judged(c, r)
           \/ Halved(pool, cGroup[c], r),
           \/ Lost(c, r)
           \/ \E s \in {"WAITING", "DISCONNECTED"} : GroupDone(c, r, s),
           UNCHANGED <<urlVars, monitor>>
    PROVE  GroupEnds(X, c)
<1> DEFINE q == Sweep(r, HeldByOthers(c))
<1>1. /\ pool' = q
      /\ cGroup' = [cGroup EXCEPT ![c] = 0]
      /\ \E s \in {"WAITING", "DISCONNECTED"} : cState' = [cState EXCEPT ![c] = s]
  BY DEF Lost, GroupDone
<1>2. PICK N \in SUBSET Id : Ends(algorithmOf, X, pool, cGroup[c], q, N) /\ (N = {} => Judged(c, q))
  <2>1. \E N \in SUBSET Id : /\ Ends(algorithmOf, X, pool, cGroup[c], Sweep(r, HeldByOthers(c)), N)
                             /\ N = {} => Judged(c, Sweep(r, HeldByOthers(c)))
    BY HandEnds
  <2> QED BY <2>1
<1> HIDE DEF q
<1>3. PICK p : p = pool'
  OBVIOUS
<1>4. Ends(algorithmOf, X, pool, cGroup[c], p, N) /\ (N = {} => Judged(c, p))
  BY <1>1, <1>2, <1>3
<1> QED BY <1>1, <1>3, <1>4 DEF GroupEnds

(* Nothing is swept away when a client without a group is lost.             *)
LEMMA LostIdle ==
    ASSUME NEW X, InvFor(X), NEW c \in Client, cGroup[c] = 0, Lost(c, pool), UNCHANGED <<urlVars, monitor>>
    PROVE  Idle(c)
<1> DEFINE held == HeldByOthers(c)
           q == Sweep(pool, held)
<1>1. Shape(pool) /\ Ordered(algorithmOf, X, pool) /\ Hands(pool, cGroup, cState)
  BY DEF InvFor, Ordered
<1>2. /\ Shape(q)
      /\ q.url = pool.url /\ q.queue = pool.queue /\ q.visitingList = pool.visitingList
      /\ DOMAIN q.group = DOMAIN pool.group \cap (ToSet(pool.queue) \cup ToSet(pool.visitingList) \cup held)
      /\ \A h \in DOMAIN q.group : q.group[h] = pool.group[h]
  BY <1>1, Swept
<1>3. pool' = q /\ cGroup' = [cGroup EXCEPT ![c] = 0]
      /\ cState' = [cState EXCEPT ![c] = "DISCONNECTED"]
  BY DEF Lost
<1> HIDE DEF q
<1>4. \A h \in DOMAIN pool.group : h \in ToSet(pool.queue) \cup held
  <2> TAKE h \in DOMAIN pool.group
  <2>1. h # 0
    BY <1>1 DEF Shape, Id
  <2> QED BY <1>1, <2>1 DEF Hands, HeldByOthers
<1>5. DOMAIN q.group = DOMAIN pool.group
  BY <1>2, <1>4
<1>6. q.group = pool.group
  BY <1>1, <1>2, <1>5 DEF Shape
<1>7. q = pool
  BY <1>1, <1>2, <1>6 DEF Shape
<1>8. cGroup' = cGroup
  <2>1. cGroup \in [Client -> {0} \cup DOMAIN pool.group]
    BY <1>1 DEF Hands
  <2> QED BY <1>3, <2>1
<1> QED BY <1>3, <1>7, <1>8 DEF Idle

-----------------------------------------------------------------------------
(* What a report says of the URLs.                                          *)

LEMMA SetMaliciousTells ==
    ASSUME NEW p, Shape(p), NEW g \in DOMAIN p.group, NEW alg, NEW mal \in BOOLEAN, NEW blamed,
           NEW u \in UrlsOf(p, g)
    PROVE  LET r == SetMalicious(p, g, alg, mal, blamed)
           IN  /\ r.url[u].error = p.url[u].error
               /\ alg = "bulk" => r.url[u].malicious = IF u \in blamed THEN "yes" ELSE "no"
               /\ alg # "bulk" /\ (~mal \/ Len(p.group[g].urls) = 1) =>
                     r.url[u].malicious = IF mal THEN "yes" ELSE "no"
<1> DEFINE guilty(v) == IF alg = "bulk" THEN v \in blamed ELSE mal
           told == alg = "bulk" \/ ~mal \/ Len(p.group[g].urls) = 1
           f == [v \in Url |-> IF v \in UrlsOf(p, g)
                               THEN [p.url[v] EXCEPT !.malicious = IF guilty(v) THEN "yes" ELSE "no"]
                               ELSE p.url[v]]
           r == SetMalicious(p, g, alg, mal, blamed)
<1>1. u \in Url /\ p.url[u] \in UrlRecord
  BY UrlsAreUrls DEF Shape
<1>2. p = [url |-> p.url, group |-> p.group, queue |-> p.queue, visitingList |-> p.visitingList]
  BY DEF Shape
<1>3. r = [p EXCEPT !.group = [p.group EXCEPT ![g].malicious = mal], !.url = IF told THEN f ELSE p.url]
  BY <1>2 DEF SetMalicious, OnUrls
<1>4. r.url = IF told THEN f ELSE p.url
  <2> HIDE DEF f, r
  <2> QED BY <1>2, <1>3
<1>5. /\ f[u].error = p.url[u].error
      /\ f[u].malicious = IF guilty(u) THEN "yes" ELSE "no"
  BY <1>1 DEF UrlRecord
<1> HIDE DEF f, r
<1> QED BY <1>4, <1>5 DEF r

LEMMA CopyErrorsMarks ==
    ASSUME NEW p, Shape(p), NEW g \in DOMAIN p.group, NEW failed, NEW kind,
           NEW u \in UrlsOf(p, g), u \in failed
    PROVE  CopyErrors(p, g, failed, kind).url[u].error = "OTHER"
<1>1. u \in Url /\ p.url[u] \in UrlRecord
  BY UrlsAreUrls DEF Shape
<1>2. p = [url |-> p.url, group |-> p.group, queue |-> p.queue, visitingList |-> p.visitingList]
  BY DEF Shape
<1> QED BY <1>1, <1>2 DEF CopyErrors, OnUrls, UrlRecord

(* A report brings the algorithm of the plugin of the first URL.            *)
LEMMA ReportedIs ==
    ASSUME NEW X, InvFor(X), NEW c \in Client, Ready(algorithmOf, X, pool, cGroup[c])
    PROVE  LET x == pool.group[cGroup[c]]
           IN  /\ ReportedAlgorithm(c) = algorithmOf[x.urls[1]]
               /\ ReportedAlgorithm(c) \in Algorithm
               /\ x.algorithm \in {"none", ReportedAlgorithm(c)}
<1> DEFINE x == pool.group[cGroup[c]]
<1>1. x.urls \in Seq(Url) /\ x.urls # <<>> /\ x.algorithm \in {"none", algorithmOf[x.urls[1]]}
  BY UrlsAreUrls DEF Ready, Calm, Sound
<1> HIDE DEF x
<1>2. Head(x.urls) = x.urls[1] /\ x.urls[1] \in Url
  BY <1>1
<1>3. algorithmOf \in [Url -> Algorithm]
  BY UrlGroupsAssumption DEF InvFor, Rest
<1>4. ReportedAlgorithm(c) = algorithmOf[x.urls[1]]
  BY <1>2 DEF ReportedAlgorithm, x
<1> QED BY <1>1, <1>2, <1>3, <1>4 DEF x

(* A report that ends a visit: the URLs that did something are noticed,     *)
(* unless they failed, and nothing is held against a group without a reason. *)
LEMMA Judging ==
    ASSUME NEW X, InvFor(X), NEW c \in Client, cGroup[c] # 0,
           NEW p, Rated(pool, cGroup[c], p), NEW mal \in BOOLEAN,
           \A u \in Guilty(c) : p.url[u].error = "OK" => u \in cEvents[c].noticed,
           cEvents[c].noticed # {} => mal,
           mal => Guilty(c) # {},
           NEW q, q = SetMalicious(p, cGroup[c], ReportedAlgorithm(c), mal, cEvents[c].kept),
           NEW r, r = SetVisited(q, cGroup[c])
    PROVE  \/ Done(pool, cGroup[c], r) /\ Judged(c, r)
           \/ Halved(pool, cGroup[c], r)
<1> DEFINE g == cGroup[c]
           alg == ReportedAlgorithm(c)
           kept == cEvents[c].kept
<1>1. Ready(algorithmOf, X, pool, g)
  BY InHand
<1>2. /\ Shape(p) /\ g \in DOMAIN p.group /\ p.group[g].urls = pool.group[g].urls
      /\ UrlsOf(p, g) = UrlsOf(pool, g)
  BY <1>1 DEF Ready, Rated, Same, UrlsOf
<1>3. Rated(p, g, q) /\ q.group[g].malicious = mal
  BY <1>2, SetMaliciousRates
<1>4. Rated(pool, g, q)
  BY <1>1, <1>3, RatedRated DEF Ready
<1>5. /\ Sound(algorithmOf, q.group[g]) /\ g \in DOMAIN q.group /\ Shape(q)
      /\ IsFiniteSet(DOMAIN q.group) /\ IsInjective(q.visitingList)
      /\ q.group[g].urls = pool.group[g].urls /\ q.group[g].algorithm = pool.group[g].algorithm
      /\ UrlsOf(q, g) = UrlsOf(pool, g)
  BY <1>1, <1>4, RatedLeaves, SMTT(20)
<1>6. CASE Splits(q.group[g])
  <2>1. Halved(q, g, r)
    BY <1>5, <1>6, SetVisitedEnds
  <2> QED BY <1>1, <1>4, <2>1, RatedDone DEF Ready
<1>7. CASE ~Splits(q.group[g])
  <2>1. Done(q, g, r) /\ Shown(q, g, r)
    BY <1>5, <1>7, SetVisitedEnds
  <2>2. Done(pool, g, r)
    BY <1>1, <1>4, <2>1, RatedDone DEF Ready
  <2>3. ASSUME NEW u \in UrlsOf(pool, g), r.url[u].state = "VISITED"
        PROVE  RightIn(r, u) \/ Excused(u)
    <3>1. /\ q.url[u].error = p.url[u].error
          /\ alg = "bulk" => q.url[u].malicious = IF u \in kept THEN "yes" ELSE "no"
          /\ alg # "bulk" /\ (~mal \/ Len(p.group[g].urls) = 1) =>
                q.url[u].malicious = IF mal THEN "yes" ELSE "no"
      <4>1. u \in UrlsOf(p, g)
        BY <1>2, <2>3
      <4> QED BY <1>2, <4>1, SetMaliciousTells, SMTT(20)
    <3>2. r.url[u].malicious = q.url[u].malicious /\ p.url[u].error = "OK"
      BY <1>5, <2>1, <2>3, <3>1 DEF Shown
    <3>3. u \in Malicious => u \in cEvents[c].noticed
      BY <2>3, <3>2 DEF Guilty
    <3>4. c \in Holders(u)
      BY <2>3 DEF Holders
    <3>5. CASE alg = "bulk"
      <4>1. kept \subseteq Malicious
        BY DEF InvFor, Seen
      <4>2. CASE u \in kept \/ u \notin Malicious
        BY <3>1, <3>2, <3>5, <4>1, <4>2 DEF RightIn
      <4>3. CASE u \in Malicious /\ u \notin kept
        BY <3>3, <3>4, <3>5, <4>3 DEF ChangeNotKept, VisitedBy, ReportedAlgorithm, Excused
      <4> QED BY <4>2, <4>3
    <3>6. CASE alg # "bulk" /\ ~mal
      <4>1. u \notin Malicious
        BY <3>3, <3>6
      <4> QED BY <3>1, <3>2, <3>6, <4>1 DEF RightIn
    <3>7. CASE alg # "bulk" /\ mal /\ Len(pool.group[g].urls) = 1
      <4>1. UrlsOf(pool, g) = {u}
        <5>1. pool.group[g].urls \in Seq(Url) /\ DOMAIN pool.group[g].urls = 1..1
          BY <1>1, <3>7, UrlsAreUrls, LenProperties DEF Ready
        <5>2. 1..1 = {1}
          OBVIOUS
        <5> QED BY <2>3, <5>1, <5>2 DEF UrlsOf, ToSet
      <4>2. u \in Malicious
        BY <3>7, <4>1 DEF Guilty
      <4> QED BY <1>2, <3>1, <3>2, <3>7, <4>2 DEF RightIn
    <3>8. CASE alg # "bulk" /\ mal /\ Len(pool.group[g].urls) # 1
      <4>1. pool.group[g].urls \in Seq(Url) /\ pool.group[g].urls # <<>>
        BY <1>1, UrlsAreUrls DEF Ready, Calm, Sound
      <4>2. PICK n \in Nat : n = Len(pool.group[g].urls) /\ n # 0
        BY <4>1, LenProperties, EmptySeq
      <4>3. n > 1
        <5>1. n # 1
          BY <3>8, <4>2
        <5>2. \A m \in Nat : m # 0 /\ m # 1 => m > 1
          OBVIOUS
        <5> QED BY <4>2, <5>1, <5>2, Zenon
      <4>4. Len(pool.group[g].urls) > 1
        BY <4>2, <4>3
      <4>5. alg = "dac" => pool.group[g].algorithm = "none"
        <5>1. pool.group[g].algorithm \in {"none", alg}
          BY <1>1, ReportedIs
        <5> QED BY <1>3, <1>5, <1>7, <3>8, <4>4, <5>1 DEF Splits
      <4>6. alg = "seq" \/ alg = "dac"
        <5>1. alg \in Algorithm
          BY <1>1, ReportedIs
        <5> QED BY <3>8, <5>1 DEF Algorithm
      <4>7. VisitedBy("seq", c, u) \/ (VisitedBy("dac", c, u) /\ pool.group[g].algorithm = "none")
        BY <3>4, <4>5, <4>6 DEF VisitedBy, ReportedAlgorithm
      <4> QED BY <4>4, <4>7 DEF AmongOthers, Excused
    <3> QED BY <3>5, <3>6, <3>7, <3>8
  <2> QED BY <2>2, <2>3 DEF Judged
<1> QED BY <1>6, <1>7

LEMMA SendFailsEnds ==
    ASSUME NEW X, InvFor(X), NEW c \in Client, SendFails(c)
    PROVE  GroupFails(X, c)
<1>1. PICK t \in TakeUrlGroup :
         /\ Lost(c, SetError(SetMajorErrorCode(Abandon(t.pool, t.group), t.group, "OTHER"), t.group))
         /\ urlQueue' = t.urls
  BY DEF SendFails
<1> DEFINE p == t.pool
           g == t.group
           held == HeldByOthers(c)
           r == SetError(SetMajorErrorCode(Abandon(p, g), g, "OTHER"), g)
<1>2. /\ Ordered(algorithmOf, X, pool) /\ Hands(pool, cGroup, cState)
      /\ Places(pool, urlQueue, accepted) /\ accepted \subseteq Url /\ urlQueue \cap X = {}
  BY DEF InvFor, Rest
<1>3. Taken(algorithmOf, X, pool, urlQueue, p, g, t.urls)
  BY <1>2, TakeUrlGroupTakes
<1>4. cState[c] = "WAITING" /\ cGroup[c] = 0
  BY <1>2 DEF SendFails, Hands
<1>5. /\ pool' = Sweep(r, held) /\ cGroup' = [cGroup EXCEPT ![c] = 0]
      /\ cState' = [cState EXCEPT ![c] = "DISCONNECTED"]
  BY <1>1 DEF Lost
<1> HIDE DEF p, g, r
<1>6. Ordered(algorithmOf, X, p) /\ g \in DOMAIN p.group /\ g \in Id
  BY <1>3 DEF Taken
<1>7. Ready(algorithmOf, X, p, g) /\ Shape(p) /\ Lined(p)
  BY <1>6 DEF Ready, Ordered, Lined
<1>8. GivenUp(algorithmOf, X, p, g, r)
  <2>1. GivenUp(algorithmOf, X, p, g, Abandon(p, g))
    BY <1>7, AbandonOnce
  <2>2. PICK code \in Code : code = "OTHER"
    BY DEF Code
  <2> DEFINE k == Abandon(p, g)
  <2>3. GivenUp(algorithmOf, X, p, g, k)
    BY <2>1
  <2>4. r = SetError(SetMajorErrorCode(k, g, code), g)
    BY <2>2 DEF r
  <2> HIDE DEF k
  <2> QED BY <1>7, <2>3, <2>4, GiveUpAgain
<1>9. Spread(p, g, held)
  <2> DEFINE g2 == [cGroup EXCEPT ![c] = g]
             s2 == [cState EXCEPT ![c] = "AWAITING_VISITING"]
  <2>1. Hands(p, g2, s2)
    BY <1>2, <1>3, <1>4, TakingKeepsHands
  <2>2. g2[c] = g /\ \A d \in Client \ {c} : g2[d] = cGroup[d]
    BY <1>2 DEF Hands
  <2> HIDE DEF g2, s2
  <2>3. g2[c] # 0
    BY <1>6, <2>2 DEF Id
  <2>4. Spread(p, g2[c], Others(g2, c))
    BY <1>6, <2>1, <2>3, GivingSpreads
  <2>5. Others(g2, c) = held
    BY <2>2 DEF HeldByOthers, Others
  <2> QED BY <2>2, <2>4, <2>5
<1> HIDE DEF held
<1>10. \E N \in SUBSET Id : Ends(algorithmOf, X, p, g, Sweep(r, held), N)
  <2>1. CASE Failed(algorithmOf, X, p, g, r)
    <3>1. PICK N \in SUBSET {g} : Ends(algorithmOf, X, p, g, Sweep(r, held), N)
      BY <1>6, <1>9, <2>1, FailedEnds
    <3> QED BY <1>6, <3>1
  <2>2. CASE Scattered(algorithmOf, X, p, g, r)
    <3>1. PICK N \in SUBSET Id : Strewn(X, p, g, r, N)
      BY <2>2 DEF Scattered
    <3>2. Ends(algorithmOf, X, p, g, Sweep(r, held), N)
      BY <1>6, <1>9, <3>1, StrewnEnds
    <3> QED BY <3>2
  <2> QED BY <1>8, <2>1, <2>2 DEF GivenUp
<1>11. \A u \in UrlsOf(p, g) : pool'.url[u].state = "ERROR"
  <2>1. Shape(r)
    BY <1>8 DEF GivenUp, Failed, Same, Scattered, Strewn
  <2>2. \A u \in UrlsOf(p, g) : r.url[u].state = "ERROR"
    BY <1>8 DEF GivenUp, Failed, Scattered
  <2> DEFINE q == Sweep(r, held)
  <2>3. q.url = r.url
    BY <2>1, Swept
  <2>4. pool' = q
    BY <1>5
  <2> HIDE DEF q
  <2> QED BY <2>2, <2>3, <2>4
<1>12. \E M \in SUBSET Id : Ends(algorithmOf, X, t.pool, t.group, pool', M)
  BY <1>5, <1>10 DEF p, g
<1>13. \A u \in UrlsOf(t.pool, t.group) : pool'.url[u].state = "ERROR"
  BY <1>11 DEF p, g
<1> QED BY <1>1, <1>4, <1>5, <1>12, <1>13 DEF GroupFails, SendFails

LEMMA DisconnectIs ==
    ASSUME NEW X, InvFor(X), NEW c \in Client, Disconnect(c)
    PROVE  GroupEnds(X, c) \/ Idle(c)
<1>1. Lost(c, Abandon(pool, cGroup[c])) /\ UNCHANGED <<urlVars, monitor>>
  BY DEF Disconnect
<1>2. CASE cGroup[c] = 0
  <2>1. Abandon(pool, cGroup[c]) = pool
    BY <1>2 DEF Abandon
  <2> QED BY <1>1, <1>2, <2>1, LostIdle
<1>3. CASE cGroup[c] # 0
  <2>1. Ready(algorithmOf, X, pool, cGroup[c]) /\ Lined(pool)
    BY <1>3, InHand
  <2>2. GivenUp(algorithmOf, X, pool, cGroup[c], Abandon(pool, cGroup[c]))
    BY <2>1, AbandonOnce
  <2> QED BY <1>1, <1>3, <2>2, LostEnds
<1> QED BY <1>2, <1>3

LEMMA TimeoutIs ==
    ASSUME NEW X, InvFor(X), NEW c \in Client, Timeout(c)
    PROVE  GroupEnds(X, c) \/ Idle(c)
<1> DEFINE g == cGroup[c]
           q == SetError(SetMajorErrorCode(pool, g, "LISTED"), g)
<1>1. Lost(c, IF g = 0 THEN pool ELSE Abandon(q, g)) /\ UNCHANGED <<urlVars, monitor>>
  BY DEF Timeout
<1>2. CASE g = 0
  BY <1>1, <1>2, LostIdle
<1>3. CASE g # 0
  <2>1. Ready(algorithmOf, X, pool, g) /\ Lined(pool)
    BY <1>3, InHand
  <2>2. PICK code \in Code : code = "LISTED"
    BY DEF Code
  <2>3. GivenUp(algorithmOf, X, pool, g, SetError(SetMajorErrorCode(pool, g, code), g))
    BY <2>1, GiveUpOnce
  <2>4. GivenUp(algorithmOf, X, pool, g, q)
    BY <2>2, <2>3
  <2>5. Lost(c, Abandon(q, g))
    BY <1>1, <1>3
  <2> HIDE DEF q
  <2>6. GivenUp(algorithmOf, X, pool, g, Abandon(q, g))
    BY <2>1, <2>4, AbandonAgain
  <2> QED BY <1>1, <1>3, <2>5, <2>6, LostEnds
<1> QED BY <1>2, <1>3

(* A judged group that divide and conquer would not take apart is calm.     *)
LEMMA JudgedCalm ==
    ASSUME NEW X, InvFor(X), NEW c \in Client, Ready(algorithmOf, X, pool, cGroup[c]),
           NEW q, Rated(pool, cGroup[c], q), ~Splits(q.group[cGroup[c]]),
           NEW mal \in BOOLEAN, q.group[cGroup[c]].malicious = mal,
           mal => Guilty(c) # {}, LeftWhole(c, mal) \subseteq X
    PROVE  Calm(algorithmOf, X, q.group[cGroup[c]])
<1> DEFINE g == cGroup[c]
           x == q.group[g]
           urls == pool.group[g].urls
<1>1. Sound(algorithmOf, x) /\ x.urls = urls /\ x.algorithm = pool.group[g].algorithm
  BY RatedLeaves
<1>2. ReportedAlgorithm(c) = algorithmOf[urls[1]] /\ x.algorithm \in {"none", ReportedAlgorithm(c)}
  BY <1>1, ReportedIs
<1>3. x.malicious => ToSet(x.urls) \cap Malicious # {}
  BY <1>1 DEF Guilty, UrlsOf
<1>4. ToSet(urls) \subseteq X \/ ToSet(urls) \cap X = {}
  BY DEF Ready, Calm
<1>5. Len(urls) > 1 \/ Len(urls) = 1
  <2>1. urls \in Seq(Url) /\ urls # <<>>
    BY UrlsAreUrls DEF Ready, Calm, Sound
  <2> HIDE DEF urls
  <2>2. PICK n \in Nat : n = Len(urls) /\ n # 0
    BY <2>1, LenProperties, EmptySeq
  <2>3. n > 1 \/ n = 1
    BY <2>2
  <2> QED BY <2>2, <2>3
<1>6. ASSUME ~(ToSet(urls) \subseteq X), mal, Len(urls) > 1 PROVE algorithmOf[urls[1]] # "dac"
  <2>1. CASE x.algorithm = "none"
    <3>1. ~(UrlsOf(pool, g) \subseteq X)
      BY <1>6 DEF UrlsOf
    <3> QED BY <1>1, <1>2, <1>6, <2>1, <3>1 DEF LeftWhole
  <2>2. CASE x.algorithm # "none"
    BY <1>1, <1>2, <1>6, <2>2 DEF Splits
  <2> QED BY <2>1, <2>2
<1> HIDE DEF x, urls
<1>7. Calm(algorithmOf, X, x)
  BY <1>1, <1>3, <1>4, <1>5, <1>6 DEF Calm, x
<1> QED BY <1>7 DEF x

LEMMA SystemEventIs ==
    ASSUME NEW X, InvFor(X), NEW c \in Client, NEW u \in Url, SystemEvent(c, u)
    PROVE  GroupEnds(X, c) \/ GroupMarked(X, c) \/ Idle(c)
<1> DEFINE g == cGroup[c]
           x == pool.group[g]
<1>1. cState[c] = "VISITING" /\ UNCHANGED <<urlVars, monitor>>
  BY DEF SystemEvent
<1>2. g # 0
  BY <1>1 DEF InvFor, Hands
<1>3. Ready(algorithmOf, X, pool, g) /\ x.algorithm # "none"
  BY <1>1, <1>2, InHand
<1>4. PICK mal \in BOOLEAN : mal = TRUE
  OBVIOUS
<1>5. CASE x.algorithm = "dac" /\ Len(x.urls) # 1
              /\ GroupDone(c, SetVisited(SetMalicious(pool, g, "dac", TRUE, {}), g), "DISCONNECTED")
  <2> DEFINE q == SetMalicious(pool, g, "dac", mal, {})
  <2>1. Rated(pool, g, q)
    BY <1>3, SetMaliciousRates DEF Ready
  <2>2. GroupDone(c, SetVisited(q, g), "DISCONNECTED")
    BY <1>4, <1>5
  <2> HIDE DEF q
  <2>3. Sound(algorithmOf, q.group[g]) /\ g \in DOMAIN q.group /\ Shape(q)
    BY <1>3, <2>1, RatedLeaves
  <2>4. IsFiniteSet(DOMAIN q.group) /\ IsInjective(q.visitingList)
    BY <1>3, <2>1 DEF Ready, Rated, Same
  <2>5. Splits(q.group[g])
    <3>1. q.group[g].malicious /\ q.group[g].algorithm = "dac" /\ q.group[g].urls = x.urls
      BY <1>3, <1>4, <1>5, <2>1, SetMaliciousRates DEF Ready, Rated, Same, q
    <3>2. x.urls \in Seq(Url) /\ x.urls # <<>>
      BY <1>3, UrlsAreUrls DEF Ready, Calm, Sound
    <3>3. PICK n \in Nat : n = Len(x.urls)
      BY <3>2, LenProperties
    <3>4. n # 0 /\ n # 1
      BY <1>5, <3>2, <3>3, EmptySeq
    <3>5. n # 0 /\ n # 1 => n > 1
      OBVIOUS
    <3> QED BY <3>1, <3>3, <3>4, <3>5 DEF Splits
  <2>6. Halved(q, g, SetVisited(q, g))
    BY <2>3, <2>4, <2>5, SetVisitedEnds
  <2> DEFINE r == SetVisited(q, g)
  <2> HIDE DEF r
  <2>7. Halved(pool, g, r)
    BY <1>3, <2>1, <2>6, RatedDone DEF Ready, r
  <2>8. \E s \in {"WAITING", "DISCONNECTED"} : GroupDone(c, r, s)
    BY <2>2 DEF r
  <2> QED BY <1>1, <1>2, <2>7, <2>8, LostEnds
<1>6. CASE /\ x.algorithm = "seq" \/ Len(x.urls) = 1
           /\ pool' = SetMalicious(pool, g, x.algorithm, TRUE, UrlsOf(pool, g))
           /\ UNCHANGED <<cState, cGroup, listening, parked>>
  <2> DEFINE q == SetMalicious(pool, g, x.algorithm, mal, UrlsOf(pool, g))
  <2>1. Rated(pool, g, q)
    BY <1>3, SetMaliciousRates DEF Ready
  <2>2. pool' = q
    BY <1>4, <1>6
  <2> HIDE DEF q
  <2>3. Sound(algorithmOf, q.group[g]) /\ q.group[g].urls = x.urls /\ q.group[g].algorithm = x.algorithm
    BY <1>3, <2>1, RatedLeaves
  <2>4. Len(x.urls) = 1 \/ algorithmOf[x.urls[1]] # "dac"
    BY <1>3, <1>6, <2>3 DEF Sound
  <2>5. u \in ToSet(x.urls) \cap Malicious
    BY DEF SystemEvent, Guilty, UrlsOf
  <2>6. Calm(algorithmOf, X, q.group[g])
    BY <1>3, <2>3, <2>4, <2>5 DEF Ready, Calm
  <2>7. Marked(pool, g, q)
    BY <2>1, RatedMarked
  <2> QED BY <1>1, <1>2, <1>6, <2>2, <2>6, <2>7 DEF GroupMarked
<1>7. CASE UNCHANGED <<pool, cState, cGroup, listening, parked>>
  BY <1>1, <1>7 DEF Idle
<1> QED BY <1>5, <1>6, <1>7 DEF SystemEvent

LEMMA MarkedMarked ==
    ASSUME NEW p, NEW g \in DOMAIN p.group, NEW q, Marked(p, g, q), NEW r, Marked(q, g, r)
    PROVE  Marked(p, g, r)
<1>1. Same(p, g, r)
  BY SameSame DEF Marked
<1> QED BY <1>1 DEF Marked

(* The group of which a first report says that its visit has ended.         *)
LEMMA VisitedIs ==
    ASSUME NEW X, InvFor(X), NEW c \in Client, cGroup[c] # 0,
           NEW p, Rated(pool, cGroup[c], p), NEW mal \in BOOLEAN,
           \A u \in Guilty(c) : p.url[u].error = "OK" => u \in cEvents[c].noticed,
           cEvents[c].noticed # {} => mal,
           mal => Guilty(c) # {}, LeftWhole(c, mal) \subseteq X,
           NEW q, q = SetMalicious(p, cGroup[c], ReportedAlgorithm(c), mal, cEvents[c].kept),
           NEW s \in {"WAITING", "DISCONNECTED"}, Visited(c, q, s), UNCHANGED <<urlVars, monitor>>
    PROVE  GroupEnds(X, c) \/ GroupMarked(X, c)
<1> DEFINE g == cGroup[c]
<1>1. Ready(algorithmOf, X, pool, g)
  BY InHand
<1>2. CASE Startless(q, g) = {}
  <2> DEFINE r == SetVisited(q, g)
  <2>1. GroupDone(c, r, s)
    BY <1>2 DEF Visited
  <2>2. r = SetVisited(q, g)
    OBVIOUS
  <2> HIDE DEF r
  <2>3. (Done(pool, g, r) /\ Judged(c, r)) \/ Halved(pool, g, r)
    BY <2>2, Judging
  <2> QED BY <2>1, <2>3, LostEnds
<1>3. CASE Startless(q, g) # {}
  <2>1. /\ pool' = SetMajorErrorCode(SetVisitedThrows(q, g), g, "OTHER")
        /\ UNCHANGED <<cState, cGroup>>
    BY <1>3 DEF Visited
  <2>2. Shape(p) /\ g \in DOMAIN p.group
    BY <1>1 DEF Ready, Rated, Same
  <2>3. Rated(p, g, q) /\ q.group[g].malicious = mal
    BY <2>2, SetMaliciousRates
  <2>4. Rated(pool, g, q)
    BY <1>1, <2>3, RatedRated DEF Ready
  <2>5. /\ Shape(q) /\ g \in DOMAIN q.group /\ UrlsOf(q, g) = UrlsOf(pool, g)
        /\ q.group[g].urls = pool.group[g].urls /\ q.group[g].algorithm = pool.group[g].algorithm
    BY <1>1, <2>4, RatedLeaves
  <2>6. PICK u \in UrlsOf(pool, g) : ~q.url[u].started
    <3>1. PICK k \in DOMAIN q.group[g].urls : ~q.url[q.group[g].urls[k]].started
      BY <1>3 DEF Startless
    <3> QED BY <2>5, <3>1 DEF UrlsOf, ToSet
  <2>7. u \in Url
    BY <1>1, UrlsAreUrls DEF Ready
  <2>8. ~pool.url[u].started
    BY <2>4, <2>6, <2>7 DEF Rated, Same
  <2>9. pool.group[g].algorithm = "none"
    BY <1>1, <2>8 DEF InvFor, Ordered, Ready
  <2>10. pool.group[g].state # "VISITING"
    BY <1>1, <2>9 DEF Ready, Calm, Sound
  <2>11. ~Splits(q.group[g])
    BY <2>5, <2>9 DEF Splits
  <2>12. Calm(algorithmOf, X, q.group[g])
    BY <1>1, <2>3, <2>4, <2>11, JudgedCalm
  <2>13. Ready(algorithmOf, X, q, g)
    BY <1>1, <2>4, <2>12, ReadyRated
  <2>14. q.group[g].state # "VISITING"
    BY <2>4, <2>10 DEF Rated
  <2>15. PICK code \in Code : code = "OTHER"
    BY DEF Code
  <2> DEFINE r == SetMajorErrorCode(SetVisitedThrows(q, g), g, code)
  <2>16. Marked(q, g, r) /\ Calm(algorithmOf, X, r.group[g])
    BY <2>13, <2>14, ThrowMarks
  <2>17. pool' = r
    BY <2>1, <2>15
  <2> HIDE DEF r
  <2>18. Marked(pool, g, r)
    BY <1>1, <2>4, <2>16, RatedMarked, MarkedMarked DEF Ready
  <2> QED BY <2>1, <2>16, <2>17, <2>18 DEF GroupMarked
<1> QED BY <1>2, <1>3

(* A group about which a report is due is in hand.                          *)
LEMMA DueInHand ==
    ASSUME NEW X, InvFor(X), NEW c \in Client, due[c] # "none"
    PROVE  cGroup[c] # 0
BY DEF InvFor, Hands, Rest, Awaits

LEMMA VisitFinishIs ==
    ASSUME NEW X, InvFor(X), NEW c \in Client, NEW failed, VisitFinish(c, failed), unsplit' \subseteq X
    PROVE  GroupEnds(X, c) \/ GroupMarked(X, c)
<1> DEFINE g == cGroup[c]
           p == CopyErrors(pool, g, failed, "finish")
           bad == p.group[g].malicious \/ cEvents[c].noticed # {}
           s == IF bad THEN "DISCONNECTED" ELSE AfterVisit
<1>1. due[c] # "none" /\ UNCHANGED <<urlVars, monitor>>
  BY DEF VisitFinish
<1>2. g # 0
  BY <1>1, DueInHand
<1>3. Ready(algorithmOf, X, pool, g)
  BY <1>2, InHand
<1>4. Rated(pool, g, p) /\ p.group[g].malicious = pool.group[g].malicious
  <2>1. PICK kind : kind = "finish"
    OBVIOUS
  <2>2. /\ Rated(pool, g, CopyErrors(pool, g, failed, kind))
        /\ CopyErrors(pool, g, failed, kind).group[g].malicious = pool.group[g].malicious
    BY <1>3, CopyErrorsRates DEF Ready
  <2> QED BY <2>1, <2>2
<1>5. /\ Visited(c, SetMalicious(p, g, ReportedAlgorithm(c), bad, cEvents[c].kept), s)
      /\ unsplit' = unsplit \cup LeftWhole(c, bad)
  BY DEF VisitFinish
<1>6. s \in {"WAITING", "DISCONNECTED"}
  BY DEF AfterVisit
<1> HIDE DEF s, p
<1>7. PICK mal \in BOOLEAN : mal = bad
  OBVIOUS
<1> DEFINE q == SetMalicious(p, g, ReportedAlgorithm(c), mal, cEvents[c].kept)
<1>8. Visited(c, q, s) /\ LeftWhole(c, mal) \subseteq X
  BY <1>5, <1>7
<1>9. cEvents[c].noticed = Guilty(c)
  BY DEF VisitFinish
<1>10. mal => Guilty(c) # {}
  <2>1. pool.group[g].malicious => Guilty(c) # {}
    BY <1>3 DEF Ready, Calm, Guilty, UrlsOf
  <2> QED BY <1>4, <1>7, <1>9, <2>1
<1>11. q = SetMalicious(p, g, ReportedAlgorithm(c), mal, cEvents[c].kept)
  OBVIOUS
<1> HIDE DEF q
<1> QED BY <1>1, <1>2, <1>4, <1>6, <1>7, <1>8, <1>9, <1>10, <1>11, VisitedIs

LEMMA VisitErrorIs ==
    ASSUME NEW X, InvFor(X), NEW c \in Client, NEW retry \in BOOLEAN, NEW failed, VisitError(c, retry, failed),
           unsplit' \subseteq X
    PROVE  GroupEnds(X, c) \/ GroupMarked(X, c)
<1> DEFINE g == cGroup[c]
           n == CopyErrors(pool, g, failed, "error")
           bad == cEvents[c].noticed # {}
           s == IF bad THEN "DISCONNECTED" ELSE AfterVisit
           p0 == SetMalicious(n, g, ReportedAlgorithm(c), bad, cEvents[c].kept)
<1>1. due[c] # "none" /\ UNCHANGED <<urlVars, monitor>>
  BY DEF VisitError
<1>2. g # 0
  BY <1>1, DueInHand
<1>3. Ready(algorithmOf, X, pool, g)
  BY <1>2, InHand
<1>4. Rated(pool, g, n)
  <2>1. PICK kind : kind = "error"
    OBVIOUS
  <2>2. Rated(pool, g, CopyErrors(pool, g, failed, kind))
    BY <1>3, CopyErrorsRates DEF Ready
  <2> QED BY <2>1, <2>2
<1>5. /\ IF retry THEN GroupDone(c, SetError(SetMajorErrorCode(p0, g, "OTHER"), g), "DISCONNECTED")
         ELSE Visited(c, p0, s)
      /\ unsplit' = unsplit \cup LeftWhole(c, bad)
  BY DEF VisitError
<1>6. s \in {"WAITING", "DISCONNECTED"}
  BY DEF AfterVisit
<1> HIDE DEF s, n
<1>7. PICK mal \in BOOLEAN : mal = bad
  OBVIOUS
<1> DEFINE p == SetMalicious(n, g, ReportedAlgorithm(c), mal, cEvents[c].kept)
<1>8. p0 = p /\ LeftWhole(c, mal) \subseteq X
  BY <1>5, <1>7
<1>9. Shape(n) /\ g \in DOMAIN n.group
  BY <1>3, <1>4 DEF Ready, Rated, Same
<1>10. Rated(n, g, p) /\ p.group[g].malicious = mal
  BY <1>9, SetMaliciousRates
<1>11. p = SetMalicious(n, g, ReportedAlgorithm(c), mal, cEvents[c].kept)
  OBVIOUS
<1> HIDE DEF p, p0
<1>12. Rated(pool, g, p)
  BY <1>3, <1>4, <1>10, RatedRated DEF Ready
<1>13. g \in DOMAIN p.group /\ Shape(p)
  BY <1>3, <1>12, RatedLeaves
<1>14. (cEvents[c].noticed # {} => mal) /\ (mal => Guilty(c) # {})
  <2>1. cEvents[c].noticed \subseteq Guilty(c)
    BY <1>2 DEF InvFor, Seen, Guilty
  <2> QED BY <1>7, <2>1
<1>15. CASE ~retry
  <2>1. Visited(c, p, s)
    BY <1>5, <1>8, <1>15
  <2>2. ASSUME NEW u \in Guilty(c), n.url[u].error = "OK" PROVE u \in cEvents[c].noticed
    <3>1. Shape(pool) /\ g \in DOMAIN pool.group /\ u \in UrlsOf(pool, g)
      BY <1>3, <2>2 DEF Ready, Guilty
    <3>2. u \notin failed
      <4>1. PICK kind : kind = "error"
        OBVIOUS
      <4>2. u \in failed => CopyErrors(pool, g, failed, kind).url[u].error = "OTHER"
        BY <3>1, CopyErrorsMarks
      <4> QED BY <2>2, <4>1, <4>2 DEF n
    <3>3. Guilty(c) \ failed \subseteq cEvents[c].noticed
      BY <1>15 DEF VisitError
    <3> QED BY <3>2, <3>3
  <2> QED BY <1>1, <1>2, <1>4, <1>6, <1>8, <1>11, <1>14, <2>1, <2>2, VisitedIs
<1>16. CASE retry
  <2>1. PICK code \in Code : code = "OTHER"
    BY DEF Code
  <2> DEFINE q == SetMajorErrorCode(p, g, code)
             r == SetError(q, g)
  <2>2. GroupDone(c, r, "DISCONNECTED")
    BY <1>5, <1>8, <1>16, <2>1
  <2>3. Rated(p, g, q) /\ q.group[g].malicious = mal
    BY <1>10, <1>13, SetMajorErrorCodeRates
  <2> HIDE DEF q
  <2>4. Rated(pool, g, q)
    BY <1>3, <1>12, <2>3, RatedRated DEF Ready
  <2>5. /\ Sound(algorithmOf, q.group[g]) /\ g \in DOMAIN q.group /\ Shape(q)
        /\ IsFiniteSet(DOMAIN q.group) /\ IsInjective(q.visitingList)
    BY <1>3, <2>4, RatedLeaves
  <2>6. Halved(q, g, r) \/ Failed(algorithmOf, X, q, g, r)
    <3>1. CASE Splits(q.group[g])
      BY <2>5, <3>1, SetErrorEnds DEF Split
    <3>2. CASE ~Splits(q.group[g])
      <4>1. Calm(algorithmOf, X, q.group[g])
        BY <1>3, <1>8, <1>14, <2>3, <2>4, <3>2, JudgedCalm
      <4> QED BY <2>5, <3>2, <4>1, SetErrorEnds
    <3> QED BY <3>1, <3>2
  <2> HIDE DEF r
  <2>7. Halved(pool, g, r) \/ Failed(algorithmOf, X, pool, g, r)
    BY <1>3, <2>4, <2>6, RatedDone, RatedFailed DEF Ready
  <2>8. \E x \in {"WAITING", "DISCONNECTED"} : GroupDone(c, r, x)
    BY <2>2
  <2> QED BY <1>1, <1>2, <2>7, <2>8, LostEnds DEF GivenUp
<1> QED BY <1>15, <1>16

LEMMA ReceiverEndsIs ==
    ASSUME NEW X, InvFor(X), NEW c \in Client, ReceiverEnds(c)
    PROVE  GroupMarked(X, c) \/ Idle(c)
<1> DEFINE g == cGroup[c]
<1>1. /\ pool' = IF g = 0 THEN pool ELSE SetMajorErrorCode(pool, g, "OTHER")
      /\ UNCHANGED <<urlVars, cState, cGroup, monitor>>
  BY DEF ReceiverEnds
<1>2. CASE g = 0
  BY <1>1, <1>2 DEF Idle
<1>3. CASE g # 0
  <2>1. Ready(algorithmOf, X, pool, g)
    BY <1>3, InHand
  <2>2. PICK code \in Code : code = "OTHER"
    BY DEF Code
  <2> DEFINE q == SetMajorErrorCode(pool, g, code)
  <2>3. Rated(pool, g, q) /\ q.group[g].malicious = pool.group[g].malicious
    BY <2>1, SetMajorErrorCodeRates DEF Ready
  <2>4. pool' = q
    BY <1>1, <1>3, <2>2
  <2> HIDE DEF q
  <2>5. Calm(algorithmOf, X, q.group[g])
    BY <2>1, <2>3, RatedSound DEF Ready
  <2>6. Marked(pool, g, q)
    BY <2>3, RatedMarked
  <2> QED BY <1>1, <1>3, <2>4, <2>5, <2>6 DEF GroupMarked
<1> QED BY <1>2, <1>3

(* Every step of a client is one of these, once the URLs it leaves whole    *)
(* are in X.                                                                *)
LEMMA StepIs ==
    ASSUME NEW X, InvFor(X), NEW c \in Client, Step(c), unsplit' \subseteq X
    PROVE  \/ GroupEnds(X, c) \/ GroupFails(X, c) \/ GroupMarked(X, c) \/ Idle(c)
           \/ VisitStart(c) \/ Send(c)
<1>1. CASE Connect(c)
  <2>1. cGroup[c] = 0
    BY <1>1 DEF InvFor, Hands, Connect
  <2> QED BY <1>1, <2>1 DEF Connect, Idle
<1>2. CASE Park(c) \/ Reconnect(c)
  BY <1>2 DEF Park, Reconnect, Idle
<1>3. ASSUME NEW u \in Url, EventMissed(c, u) \/ SystemEvent(c, u)
      PROVE  GroupEnds(X, c) \/ GroupMarked(X, c) \/ Idle(c)
  <2>1. CASE EventMissed(c, u)
    BY <2>1 DEF EventMissed, Idle
  <2> QED BY <1>3, <2>1, SystemEventIs
<1>4. CASE ReceiverEnds(c)
  BY <1>4, ReceiverEndsIs
<1>5. CASE Disconnect(c) \/ Timeout(c)
  BY <1>5, DisconnectIs, TimeoutIs
<1>6. CASE SendFails(c)
  BY <1>6, SendFailsEnds
<1>7. ASSUME NEW failed \in Failures, VisitFinish(c, failed) PROVE GroupEnds(X, c) \/ GroupMarked(X, c)
  BY <1>7, VisitFinishIs
<1>8. ASSUME NEW failed \in Failures, NEW retry \in BOOLEAN, VisitError(c, retry, failed)
      PROVE  GroupEnds(X, c) \/ GroupMarked(X, c)
  BY <1>8, VisitErrorIs
<1> QED BY <1>1, <1>2, <1>3, <1>4, <1>5, <1>6, <1>7, <1>8 DEF Step

-----------------------------------------------------------------------------
(* The invariant is inductive.                                              *)

Core(X) ==
    /\ X \subseteq accepted \ urlQueue
    /\ Ordered(algorithmOf, X, pool)
    /\ Hands(pool, cGroup, cState)
    /\ Places(pool, urlQueue, accepted)

CoreNext(X) ==
    /\ X \subseteq accepted' \ urlQueue'
    /\ Ordered(algorithmOf', X, pool')
    /\ Hands(pool', cGroup', cState')
    /\ Places(pool', urlQueue', accepted')

(* X may grow by the URLs of a group in hand.                               *)
LEMMA Widen ==
    ASSUME NEW X, InvFor(X), NEW c \in Client, cGroup[c] # 0,
           NEW Y, Y = X \cup UrlsOf(pool, cGroup[c])
    PROVE  InvFor(Y)
<1> DEFINE g == cGroup[c]
<1>1. Ordered(algorithmOf, X, pool) /\ g \in DOMAIN pool.group /\ Places(pool, urlQueue, accepted)
  BY DEF InvFor, Hands
<1> HIDE DEF g
<1>2. \A h \in DOMAIN pool.group \ {g} : UrlsOf(pool, h) \cap UrlsOf(pool, g) \subseteq X
  BY <1>1 DEF Ordered
<1>3. ASSUME NEW h \in DOMAIN pool.group
      PROVE  UrlsOf(pool, h) \subseteq Y \/ (UrlsOf(pool, h) \cap X = {} /\ UrlsOf(pool, h) \cap Y = {})
  <2>1. UrlsOf(pool, h) \subseteq X \/ UrlsOf(pool, h) \cap X = {}
    BY <1>1 DEF Ordered, Calm, UrlsOf
  <2>2. CASE h = g
    BY <2>2 DEF g
  <2>3. CASE h # g /\ UrlsOf(pool, h) \cap X = {}
    <3>1. UrlsOf(pool, h) \cap UrlsOf(pool, g) = {}
      BY <1>2, <2>3
    <3> QED BY <2>3, <3>1 DEF g
  <2> QED BY <2>1, <2>2, <2>3
<1>4. \A h \in DOMAIN pool.group : Calm(algorithmOf, Y, pool.group[h])
  BY <1>1, <1>3 DEF Ordered, Calm, UrlsOf
<1>5. Ordered(algorithmOf, Y, pool)
  <2>1. \A h, i \in DOMAIN pool.group : h # i => UrlsOf(pool, h) \cap UrlsOf(pool, i) \subseteq Y
    BY <1>1 DEF Ordered
  <2> QED BY <1>1, <1>4, <2>1 DEF Ordered
<1>6. Y \subseteq accepted \ urlQueue
  BY <1>1 DEF InvFor, Places, g
<1> QED BY <1>5, <1>6 DEF InvFor

LEMMA GroupEndsKeeps ==
    ASSUME NEW X, InvFor(X), NEW c \in Client, GroupEnds(X, c)
    PROVE  CoreNext(X)
<1>1. /\ Ordered(algorithmOf, X, pool) /\ Hands(pool, cGroup, cState)
      /\ Places(pool, urlQueue, accepted) /\ accepted \subseteq Url
      /\ X \subseteq accepted \ urlQueue /\ urlQueue \cap X = {}
  BY DEF InvFor, Rest
<1>2. PICK N \in SUBSET Id : Ends(algorithmOf, X, pool, cGroup[c], pool', N)
  BY DEF GroupEnds
<1>3. PICK s \in {"WAITING", "DISCONNECTED"} : cState' = [cState EXCEPT ![c] = s]
  BY DEF GroupEnds
<1>4. /\ cGroup[c] # 0 /\ cGroup' = [cGroup EXCEPT ![c] = 0]
      /\ algorithmOf' = algorithmOf /\ urlQueue' = urlQueue /\ accepted' = accepted
  BY DEF GroupEnds, urlVars
<1>5. cGroup[c] \in DOMAIN pool.group /\ cGroup[c] \notin ToSet(pool.queue)
  BY <1>1, <1>4 DEF Hands
<1>6. Ordered(algorithmOf, X, pool')
  BY <1>1, <1>2, <1>5, GivingKeepsOrder
<1>7. Hands(pool', [cGroup EXCEPT ![c] = 0], [cState EXCEPT ![c] = s])
  BY <1>1, <1>2, <1>4, GivingKeepsHands
<1>8. Places(pool', urlQueue, accepted)
  BY <1>1, <1>2, <1>5, GivingKeepsPlaces
<1> QED BY <1>1, <1>3, <1>4, <1>6, <1>7, <1>8 DEF CoreNext

LEMMA SendKeeps ==
    ASSUME NEW X, InvFor(X), NEW c \in Client, Send(c)
    PROVE  CoreNext(X)
<1>1. /\ Ordered(algorithmOf, X, pool) /\ Hands(pool, cGroup, cState)
      /\ Places(pool, urlQueue, accepted) /\ accepted \subseteq Url
      /\ X \subseteq accepted \ urlQueue /\ urlQueue \cap X = {}
  BY DEF InvFor, Rest
<1>2. PICK t \in TakeUrlGroup :
         pool' = t.pool /\ urlQueue' = t.urls /\ cGroup' = [cGroup EXCEPT ![c] = t.group]
  BY DEF Send
<1>3. /\ cState[c] = "WAITING" /\ cState' = [cState EXCEPT ![c] = "AWAITING_VISITING"]
      /\ algorithmOf' = algorithmOf /\ accepted' = accepted
  BY DEF Send
<1>4. cGroup[c] = 0
  BY <1>1, <1>3 DEF Hands
<1>5. Taken(algorithmOf, X, pool, urlQueue, t.pool, t.group, t.urls)
  BY <1>1, TakeUrlGroupTakes
<1>6. Ordered(algorithmOf, X, t.pool)
  BY <1>5 DEF Taken
<1>7. Hands(t.pool, [cGroup EXCEPT ![c] = t.group], [cState EXCEPT ![c] = "AWAITING_VISITING"])
  BY <1>1, <1>4, <1>5, TakingKeepsHands
<1>8. Places(t.pool, t.urls, accepted)
  BY <1>1, <1>5, TakingKeepsPlaces
<1>9. t.urls \subseteq urlQueue
  BY <1>5 DEF Taken
<1> QED BY <1>1, <1>2, <1>3, <1>6, <1>7, <1>8, <1>9 DEF CoreNext

LEMMA GroupFailsKeeps ==
    ASSUME NEW X, InvFor(X), NEW c \in Client, GroupFails(X, c)
    PROVE  CoreNext(X)
<1>1. /\ Ordered(algorithmOf, X, pool) /\ Hands(pool, cGroup, cState)
      /\ Places(pool, urlQueue, accepted) /\ accepted \subseteq Url
      /\ X \subseteq accepted \ urlQueue /\ urlQueue \cap X = {}
  BY DEF InvFor, Rest
<1>2. PICK t \in TakeUrlGroup :
         /\ \E N \in SUBSET Id : Ends(algorithmOf, X, t.pool, t.group, pool', N)
         /\ urlQueue' = t.urls
  BY DEF GroupFails
<1>3. PICK N \in SUBSET Id : Ends(algorithmOf, X, t.pool, t.group, pool', N)
  BY <1>2
<1>4. /\ cState[c] = "WAITING" /\ cGroup' = [cGroup EXCEPT ![c] = 0]
      /\ cState' = [cState EXCEPT ![c] = "DISCONNECTED"]
      /\ algorithmOf' = algorithmOf /\ accepted' = accepted
  BY DEF GroupFails
<1>5. cGroup[c] = 0
  BY <1>1, <1>4 DEF Hands
<1> DEFINE p == t.pool
           g == t.group
           g2 == [cGroup EXCEPT ![c] = g]
           s2 == [cState EXCEPT ![c] = "AWAITING_VISITING"]
<1>6. Taken(algorithmOf, X, pool, urlQueue, p, g, t.urls)
  BY <1>1, TakeUrlGroupTakes
<1>7. Hands(p, g2, s2)
  BY <1>1, <1>5, <1>6, TakingKeepsHands
<1>8. Places(p, t.urls, accepted)
  BY <1>1, <1>6, TakingKeepsPlaces
<1>9. /\ [g2 EXCEPT ![c] = 0] = cGroup' /\ [s2 EXCEPT ![c] = "DISCONNECTED"] = cState'
      /\ g2[c] = g
  BY <1>1, <1>4 DEF Hands
<1> HIDE DEF p, g2, s2
<1>10. Ordered(algorithmOf, X, p) /\ g \in DOMAIN p.group /\ g \notin ToSet(p.queue) /\ g # 0
  BY <1>6 DEF Taken, Id
<1>11. Ends(algorithmOf, X, p, g, pool', N)
  BY <1>3 DEF p
<1> HIDE DEF g
<1>12. Ordered(algorithmOf, X, pool')
  BY <1>10, <1>11, GivingKeepsOrder
<1>13. Hands(pool', [g2 EXCEPT ![c] = 0], [s2 EXCEPT ![c] = "DISCONNECTED"])
  <2>1. PICK s \in {"WAITING", "DISCONNECTED"} : s = "DISCONNECTED"
    OBVIOUS
  <2>2. g2[c] # 0 /\ Ends(algorithmOf, X, p, g2[c], pool', N)
    BY <1>9, <1>10, <1>11
  <2>3. Hands(pool', [g2 EXCEPT ![c] = 0], [s2 EXCEPT ![c] = s])
    BY <1>7, <1>10, <2>2, GivingKeepsHands
  <2> QED BY <2>1, <2>3
<1>14. Places(pool', t.urls, accepted)
  BY <1>1, <1>8, <1>10, <1>11, GivingKeepsPlaces
<1>15. t.urls \subseteq urlQueue
  BY <1>6 DEF Taken
<1> QED BY <1>1, <1>2, <1>4, <1>9, <1>12, <1>13, <1>14, <1>15 DEF CoreNext

(* What a report or the end of a receiver leaves of the group in hand.      *)
LEMMA GroupMarkedKeeps ==
    ASSUME NEW X, InvFor(X), NEW c \in Client, GroupMarked(X, c)
    PROVE  CoreNext(X)
<1> DEFINE g == cGroup[c]
<1>1. /\ Ordered(algorithmOf, X, pool) /\ Hands(pool, cGroup, cState)
      /\ Places(pool, urlQueue, accepted) /\ accepted \subseteq Url
      /\ X \subseteq accepted \ urlQueue
  BY DEF InvFor, Rest
<1>2. /\ Marked(pool, g, pool') /\ Calm(algorithmOf, X, pool'.group[g]) /\ g # 0
      /\ cGroup' = cGroup /\ cState' = cState
      /\ algorithmOf' = algorithmOf /\ urlQueue' = urlQueue /\ accepted' = accepted
  BY DEF GroupMarked, urlVars
<1>3. g \in DOMAIN pool.group
  BY <1>1, <1>2 DEF Hands
<1> HIDE DEF g
<1>4. PICK q : q = pool'
  OBVIOUS
<1>5. /\ Shape(q) /\ DOMAIN q.group = DOMAIN pool.group
      /\ q.queue = pool.queue /\ q.visitingList = pool.visitingList
      /\ \A h \in DOMAIN pool.group : q.group[h].urls = pool.group[h].urls
      /\ \A h \in DOMAIN pool.group : q.group[h].algorithm = pool.group[h].algorithm
      /\ \A h \in DOMAIN pool.group : q.group[h].state = "VISITING" <=> pool.group[h].state = "VISITING"
      /\ \A h \in DOMAIN pool.group \ {g} : q.group[h] = pool.group[h]
      /\ \A u \in Url \ UrlsOf(pool, g) : q.url[u] = pool.url[u]
      /\ \A u \in Url : pool.url[u].started => q.url[u].started
      /\ Calm(algorithmOf, X, q.group[g])
  BY <1>2, <1>3, <1>4 DEF Marked, Same
<1>6. \A h \in DOMAIN pool.group : UrlsOf(q, h) = UrlsOf(pool, h) /\ UrlsOf(pool, h) \subseteq Url
  BY <1>1, <1>5, UrlsAreUrls DEF UrlsOf, Ordered
<1>7. Ordered(algorithmOf, X, q)
  <2>1. \A h \in DOMAIN q.group : Calm(algorithmOf, X, q.group[h])
    BY <1>1, <1>5 DEF Ordered
  <2>2. \A h \in DOMAIN q.group : q.group[h].state = "VISITING" <=> h \in ToSet(q.visitingList)
    BY <1>1, <1>5 DEF Ordered
  <2>3. \A h, i \in DOMAIN q.group : h # i => UrlsOf(q, h) \cap UrlsOf(q, i) \subseteq X
    BY <1>1, <1>5, <1>6 DEF Ordered
  <2>4. \A h \in DOMAIN q.group : q.group[h].algorithm # "none" => \A u \in UrlsOf(q, h) : q.url[u].started
    BY <1>1, <1>5, <1>6 DEF Ordered
  <2> QED BY <1>1, <1>5, <2>1, <2>2, <2>3, <2>4 DEF Ordered
<1>8. Hands(q, cGroup, cState)
  BY <1>1, <1>5 DEF Hands
<1>9. Places(q, urlQueue, accepted)
  <2>1. \A h \in DOMAIN q.group : UrlsOf(q, h) \subseteq accepted \ urlQueue
    BY <1>1, <1>5, <1>6 DEF Places
  <2>2. ASSUME NEW u \in accepted \ urlQueue
        PROVE  (\E h \in DOMAIN q.group : u \in UrlsOf(q, h)) \/ q.url[u].state \in Outcome
    <3>1. CASE \E h \in DOMAIN pool.group : u \in UrlsOf(pool, h)
      BY <1>5, <1>6, <3>1
    <3>2. CASE ~\E h \in DOMAIN pool.group : u \in UrlsOf(pool, h)
      <4>1. u \in Url \ UrlsOf(pool, g) /\ pool.url[u].state \in Outcome
        BY <1>1, <1>3, <3>2 DEF Places
      <4> QED BY <1>5, <4>1
    <3> QED BY <3>1, <3>2
  <2> QED BY <1>1, <2>1, <2>2 DEF Places
<1> QED BY <1>1, <1>2, <1>4, <1>7, <1>8, <1>9 DEF CoreNext

LEMMA IdleKeeps ==
    ASSUME NEW X, InvFor(X), NEW c \in Client, Idle(c)
    PROVE  CoreNext(X)
<1>1. /\ Ordered(algorithmOf, X, pool) /\ Hands(pool, cGroup, cState)
      /\ Places(pool, urlQueue, accepted) /\ X \subseteq accepted \ urlQueue
  BY DEF InvFor
<1>2. /\ pool' = pool /\ cGroup' = cGroup
      /\ algorithmOf' = algorithmOf /\ urlQueue' = urlQueue /\ accepted' = accepted
  BY DEF Idle, urlVars
<1>3. CASE cState' = cState
  BY <1>1, <1>2, <1>3 DEF CoreNext
<1>4. ASSUME NEW s \in {"WAITING", "DISCONNECTED"}, cGroup[c] = 0, cState' = [cState EXCEPT ![c] = s]
      PROVE  CoreNext(X)
  <2> DEFINE s2 == [cState EXCEPT ![c] = s]
  <2>1. /\ s2 \in [Client -> {"WAITING", "AWAITING_VISITING", "VISITING", "DISCONNECTED"}]
        /\ s2[c] = s /\ \A d \in Client \ {c} : s2[d] = cState[d]
    BY <1>1 DEF Hands
  <2> HIDE DEF s2
  <2>2. 0 \notin ToSet(pool.visitingList)
    BY <1>1 DEF Ordered, Shape, Id
  <2>3. \A d \in Client : cGroup[d] # 0 <=> s2[d] \in {"AWAITING_VISITING", "VISITING"}
    BY <1>1, <1>4, <2>1 DEF Hands
  <2>4. \A d \in Client : cGroup[d] \in ToSet(pool.visitingList) <=> s2[d] = "VISITING"
    BY <1>1, <1>4, <2>1, <2>2 DEF Hands
  <2>5. Hands(pool, cGroup, s2)
    BY <1>1, <2>1, <2>3, <2>4 DEF Hands
  <2>6. cState' = s2
    BY <1>4 DEF s2
  <2> QED BY <1>1, <1>2, <2>5, <2>6 DEF CoreNext
<1> QED BY <1>3, <1>4 DEF Idle

-----------------------------------------------------------------------------
(* The report of a start.                                                   *)

\* Group g is listed as visited, with the plugin of its first URL.
Started(a, X, p, g, r) ==
    /\ Shape(r) /\ DOMAIN r.group = DOMAIN p.group
    /\ \A h \in DOMAIN p.group \ {g} : r.group[h] = p.group[h]
    /\ r.group[g].urls = p.group[g].urls /\ r.group[g].state = "VISITING"
    /\ Calm(a, X, r.group[g])
    /\ \A u \in Url \ UrlsOf(p, g) : r.url[u] = p.url[u]
    /\ \A u \in Url : p.url[u].started => r.url[u].started
    /\ \A u \in UrlsOf(p, g) : r.url[u].started
    /\ r.queue = p.queue /\ r.visitingList = Append(p.visitingList, g)

LEMMA SetVisitingStarts ==
    ASSUME NEW X, NEW p, Shape(p), NEW g \in DOMAIN p.group,
           NEW a \in [Url -> Algorithm], Calm(a, X, p.group[g])
    PROVE  Started(a, X, p, g, SetVisiting([p EXCEPT !.group[g].algorithm = a[Head(p.group[g].urls)]], g))
<1> DEFINE y == p.group[g]
           n == a[Head(y.urls)]
           p1 == [p EXCEPT !.group[g].algorithm = n]
           x1 == [y EXCEPT !.algorithm = n]
           x == [x1 EXCEPT !.state = "VISITING"]
           f == [u \in Url |-> IF u \in UrlsOf(p, g) THEN [p.url[u] EXCEPT !.state = "VISITING", !.started = TRUE]
                               ELSE p.url[u]]
           l == Append(p.visitingList, g)
           r == SetVisiting(p1, g)
<1>1. y \in Group /\ g \in Id
  BY DEF Shape
<1>2. y.urls \in Seq(Url) /\ y.urls # <<>>
  BY <1>1 DEF Group, Calm, Sound
<1>3. Head(y.urls) = y.urls[1] /\ y.urls[1] \in Url
  BY <1>2, Members
<1>4. n = a[y.urls[1]] /\ n \in Algorithm
  BY <1>3
<1> HIDE DEF n
<1>5. x1 \in Group /\ x1.urls = y.urls
  BY <1>1, <1>4 DEF Group
<1>6. /\ x \in Group /\ x.urls = y.urls /\ x.state = "VISITING" /\ x.algorithm = n
      /\ x.malicious = y.malicious /\ x.errorCount = y.errorCount /\ x.retryCount = y.retryCount
  BY <1>1, <1>4 DEF Group, OutcomeState
<1>7. p = [url |-> p.url, group |-> p.group, queue |-> p.queue, visitingList |-> p.visitingList]
  BY DEF Shape
<1>8. p1 = [url |-> p.url, group |-> [p.group EXCEPT ![g] = x1], queue |-> p.queue,
            visitingList |-> p.visitingList]
  <2>1. p1 = [p EXCEPT !.group = [p.group EXCEPT ![g] = x1]]
    OBVIOUS
  <2> HIDE DEF p1, x1
  <2> QED BY <1>7, <2>1
<1>9. /\ p1.url = p.url /\ p1.group = [p.group EXCEPT ![g] = x1]
      /\ p1.queue = p.queue /\ p1.visitingList = p.visitingList
  <2> HIDE DEF p1, x1
  <2> QED BY <1>8
<1>10. UrlsOf(p1, g) = UrlsOf(p, g)
  <2> HIDE DEF p1, x1
  <2> QED BY <1>5, <1>9 DEF UrlsOf
<1>11. OnUrls(p1, g, LAMBDA u : [p1.url[u] EXCEPT !.state = "VISITING", !.started = TRUE]) = f
  <2> HIDE DEF p1
  <2> QED BY <1>9, <1>10 DEF OnUrls
<1>12. [p1.group EXCEPT ![g] = [p1.group[g] EXCEPT !.state = "VISITING"]] = [p.group EXCEPT ![g] = x]
  <2> HIDE DEF p1, x1
  <2> QED BY <1>9
<1>13. r = [p1 EXCEPT !.group = [p.group EXCEPT ![g] = x], !.url = f, !.visitingList = l]
  <2>1. r = [p1 EXCEPT !.group = [p1.group EXCEPT ![g] = [p1.group[g] EXCEPT !.state = "VISITING"]],
                       !.url = f, !.visitingList = Append(p1.visitingList, g)]
    BY <1>11 DEF SetVisiting
  <2> HIDE DEF r, p1, x, f
  <2> QED BY <1>9, <1>12, <2>1
<1> HIDE DEF r, f
<1>14. r = [url |-> f, group |-> [p.group EXCEPT ![g] = x], queue |-> p.queue, visitingList |-> l]
  <2> HIDE DEF p1, x1, x, l
  <2> QED BY <1>8, <1>13
<1>15. p.url \in [Url -> UrlRecord] /\ p.queue \in Seq(Id) /\ p.visitingList \in Seq(Id)
  BY DEF Shape
<1>16. f \in [Url -> UrlRecord] /\ \A u \in Url \ UrlsOf(p, g) : f[u] = p.url[u]
  BY <1>15 DEF UrlRecord, OutcomeState, f
<1>17. \A u \in UrlsOf(p, g) : u \in Url /\ f[u].started
  <2> TAKE u \in UrlsOf(p, g)
  <2>1. u \in Url
    BY UrlsAreUrls
  <2> QED BY <1>15, <2>1 DEF UrlRecord, f
<1>18. \A u \in Url : p.url[u].started => f[u].started
  BY <1>16, <1>17
<1>19. l \in Seq(Id)
  BY <1>1, <1>15, Appended
<1> HIDE DEF x, l
<1>20. Shape(r) /\ r.group[g] = x
  BY <1>6, <1>14, <1>15, <1>16, <1>19 DEF Shape
<1>21. Calm(a, X, x)
  BY <1>4, <1>6 DEF Calm, Sound, Algorithm
<1>22. /\ DOMAIN r.group = DOMAIN p.group
       /\ \A h \in DOMAIN p.group \ {g} : r.group[h] = p.group[h]
       /\ r.url = f /\ r.queue = p.queue /\ r.visitingList = l
  BY <1>14
<1>23. Started(a, X, p, g, r)
  BY <1>6, <1>16, <1>20, <1>21, <1>22, <1>17, <1>18 DEF Started, l
<1> QED BY <1>23 DEF r, p1, n

LEMMA VisitStartKeeps ==
    ASSUME NEW X, InvFor(X), NEW c \in Client, VisitStart(c)
    PROVE  CoreNext(X)
<1> DEFINE g == cGroup[c]
           s == [cState EXCEPT ![c] = "VISITING"]
<1>1. /\ Ordered(algorithmOf, X, pool) /\ Hands(pool, cGroup, cState)
      /\ Places(pool, urlQueue, accepted) /\ X \subseteq accepted \ urlQueue
  BY DEF InvFor
<1>2. /\ cState[c] = "AWAITING_VISITING" /\ cState' = s
      /\ cGroup' = cGroup /\ algorithmOf' = algorithmOf /\ urlQueue' = urlQueue /\ accepted' = accepted
  BY DEF VisitStart, urlVars, InvFor, Rest, Awaits
<1>3. g # 0 /\ g \in DOMAIN pool.group /\ g \notin ToSet(pool.visitingList)
  BY <1>1, <1>2 DEF Hands
<1>4. algorithmOf \in [Url -> Algorithm]
  BY UrlGroupsAssumption DEF InvFor, Rest
<1>5. Shape(pool) /\ Calm(algorithmOf, X, pool.group[g])
  BY <1>1, <1>3 DEF Ordered
<1> DEFINE q == SetVisiting([pool EXCEPT !.group[g].algorithm = algorithmOf[Head(pool.group[g].urls)]], g)
<1>6. pool' = q
  BY DEF VisitStart, ReportedAlgorithm
<1>7. Started(algorithmOf, X, pool, g, q)
  BY <1>3, <1>4, <1>5, SetVisitingStarts
<1> HIDE DEF q
<1>8. /\ s \in [Client -> {"WAITING", "AWAITING_VISITING", "VISITING", "DISCONNECTED"}]
      /\ s[c] = "VISITING" /\ \A d \in Client \ {c} : s[d] = cState[d]
  BY <1>1 DEF Hands
<1>9. \A d \in Client : cGroup[d] = g => d = c
  BY <1>1, <1>3 DEF Hands
<1> HIDE DEF s
<1>10. g \in Id /\ pool.visitingList \in Seq(Id)
  BY <1>3, <1>5 DEF Shape
<1> HIDE DEF g
<1>11. /\ Shape(q) /\ DOMAIN q.group = DOMAIN pool.group
       /\ q.queue = pool.queue /\ q.visitingList = Append(pool.visitingList, g)
       /\ \A h \in DOMAIN pool.group \ {g} : q.group[h] = pool.group[h]
       /\ q.group[g].urls = pool.group[g].urls /\ q.group[g].state = "VISITING"
       /\ Calm(algorithmOf, X, q.group[g])
       /\ \A u \in Url : pool.url[u].started => q.url[u].started
       /\ \A u \in UrlsOf(pool, g) : q.url[u].started
  BY <1>7 DEF Started
<1>12. ToSet(q.visitingList) = {g} \cup ToSet(pool.visitingList) /\ IsInjective(q.visitingList)
  BY <1>1, <1>3, <1>10, <1>11, Appended DEF Ordered
<1>13. \A h \in DOMAIN pool.group : UrlsOf(q, h) = UrlsOf(pool, h) /\ UrlsOf(pool, h) \subseteq Url
  BY <1>5, <1>11, UrlsAreUrls DEF UrlsOf
<1>14. g \notin ToSet(pool.queue)
  BY <1>1 DEF Hands, g
<1>15. Ordered(algorithmOf, X, q)
  <2>1. \A h \in DOMAIN q.group : Calm(algorithmOf, X, q.group[h])
    BY <1>1, <1>11 DEF Ordered
  <2>2. \A h \in DOMAIN q.group : q.group[h].state = "VISITING" <=> h \in ToSet(q.visitingList)
    BY <1>1, <1>11, <1>12 DEF Ordered
  <2>3. \A h, i \in DOMAIN q.group : h # i => UrlsOf(q, h) \cap UrlsOf(q, i) \subseteq X
    BY <1>1, <1>11, <1>13 DEF Ordered
  <2>4. ToSet(q.queue) \cap ToSet(q.visitingList) = {}
    BY <1>1, <1>11, <1>12, <1>14 DEF Ordered
  <2>5. ToSet(q.queue) \cup ToSet(q.visitingList) \subseteq DOMAIN q.group
    BY <1>1, <1>3, <1>11, <1>12 DEF Ordered
  <2>6. \A h \in DOMAIN q.group : q.group[h].algorithm # "none" => \A u \in UrlsOf(q, h) : q.url[u].started
    BY <1>1, <1>11, <1>13 DEF Ordered
  <2> QED BY <1>1, <1>11, <1>12, <2>1, <2>2, <2>3, <2>4, <2>5, <2>6 DEF Ordered
<1>16. Hands(q, cGroup, s)
  <2>1. \A d \in Client : cGroup[d] # 0 <=> s[d] \in {"AWAITING_VISITING", "VISITING"}
    BY <1>1, <1>3, <1>8 DEF Hands, g
  <2>2. \A d \in Client : cGroup[d] \in ToSet(q.visitingList) <=> s[d] = "VISITING"
    <3> SUFFICES ASSUME NEW d \in Client
                 PROVE  cGroup[d] \in ToSet(q.visitingList) <=> s[d] = "VISITING"
      OBVIOUS
    <3>1. CASE d = c
      BY <1>8, <1>12, <3>1 DEF g
    <3>2. CASE d # c
      <4>1. cGroup[d] # g
        BY <1>9, <3>2
      <4> QED BY <1>1, <1>8, <1>12, <3>2, <4>1 DEF Hands
    <3> QED BY <3>1, <3>2
  <2> QED BY <1>1, <1>8, <1>11, <2>1, <2>2 DEF Hands
<1>17. Places(q, urlQueue, accepted)
  <2>1. \A h \in DOMAIN q.group : UrlsOf(q, h) \subseteq accepted \ urlQueue
    BY <1>1, <1>11, <1>13 DEF Places
  <2>2. ASSUME NEW u \in accepted \ urlQueue
        PROVE  (\E h \in DOMAIN q.group : u \in UrlsOf(q, h)) \/ q.url[u].state \in Outcome
    <3>1. CASE \E h \in DOMAIN pool.group : u \in UrlsOf(pool, h)
      BY <1>11, <1>13, <3>1
    <3>2. CASE ~\E h \in DOMAIN pool.group : u \in UrlsOf(pool, h)
      <4>1. pool.url[u].state \in Outcome
        BY <1>1, <3>2 DEF Places
      <4>2. u \in Url \ UrlsOf(pool, g)
        BY <1>3, <3>2 DEF InvFor, Rest, g
      <4>3. q.url[u] = pool.url[u]
        BY <1>7, <4>2 DEF Started
      <4> QED BY <4>1, <4>3
    <3> QED BY <3>1, <3>2
  <2> QED BY <1>1, <2>1, <2>2 DEF Places
<1> QED BY <1>1, <1>2, <1>6, <1>15, <1>16, <1>17 DEF CoreNext

-----------------------------------------------------------------------------
(* The other steps, and what does not hang on the pool.                     *)

LEMMA AddUrlKeeps ==
    ASSUME NEW X, InvFor(X), NEW u \in Url, AddUrl(u)
    PROVE  CoreNext(X)
<1>1. /\ Ordered(algorithmOf, X, pool) /\ Hands(pool, cGroup, cState)
      /\ Places(pool, urlQueue, accepted) /\ accepted \subseteq offered
      /\ X \subseteq accepted \ urlQueue
  BY DEF InvFor, Rest
<1>2. /\ pool' = pool /\ algorithmOf' = algorithmOf /\ cGroup' = cGroup /\ cState' = cState
      /\ u \notin offered
  BY DEF AddUrl, clientVars
<1>3. CASE UNCHANGED <<accepted, urlQueue>>
  BY <1>1, <1>2, <1>3 DEF CoreNext
<1>4. CASE accepted' = accepted \cup {u} /\ urlQueue' = urlQueue \cup {u}
  <2>1. IsFiniteSet(urlQueue \cup {u})
    BY <1>1, FS_AddElement DEF Places
  <2>2. (accepted \cup {u}) \ (urlQueue \cup {u}) = accepted \ urlQueue
    BY <1>1, <1>2
  <2>3. Places(pool, urlQueue \cup {u}, accepted \cup {u})
    BY <1>1, <2>1, <2>2 DEF Places
  <2> QED BY <1>1, <1>2, <1>4, <2>3 DEF CoreNext
<1> QED BY <1>3, <1>4 DEF AddUrl

Event == [noticed : SUBSET Url, kept : SUBSET Url]

\* The state of c becomes st, and then d is due.
LEMMA DueKept ==
    ASSUME Awaits(cState, due),
           NEW State, cState \in [Client -> State], NEW c \in Client,
           NEW st, cState' = cState \/ cState' = [cState EXCEPT ![c] = st],
           NEW d \in {"none", "start", "end"}, due' = [due EXCEPT ![c] = d],
           d # "none" => cState'[c] \in {"AWAITING_VISITING", "VISITING"},
           d = "start" => cState'[c] = "AWAITING_VISITING"
    PROVE  Awaits(cState', due')
<1>1. due \in [Client -> {"none", "start", "end"}]
  BY DEF Awaits
<1>2. due' \in [Client -> {"none", "start", "end"}] /\ due'[c] = d
  BY <1>1
<1>3. \A e \in Client \ {c} : due'[e] = due[e] /\ cState'[e] = cState[e]
  BY <1>1
<1> QED BY <1>2, <1>3 DEF Awaits

\* What the steps of a client leave of Rest.
Rested(c) ==
    /\ cEvents' \in [Client -> Event] /\ listening' \subseteq Client /\ parked' \subseteq Client
    /\ Awaits(cState', due')
    /\ UNCHANGED <<algorithmOf, offered, accepted, monitor>>

ClientState == {"WAITING", "AWAITING_VISITING", "VISITING", "DISCONNECTED"}

LEMMA LostRests ==
    ASSUME Rest, cState \in [Client -> ClientState], NEW c \in Client, NEW p, Lost(c, p),
           UNCHANGED <<algorithmOf, offered, accepted, monitor>>
    PROVE  Rested(c)
<1>1. NoEvents \in Event
  BY DEF NoEvents, Event
<1>2. cEvents' \in [Client -> Event] /\ listening' \subseteq Client /\ parked' \subseteq Client
  BY <1>1 DEF Lost, Rest, Event
<1>3. PICK d \in {"none", "start", "end"} : d = "none"
  OBVIOUS
<1>4. cState' = [cState EXCEPT ![c] = "DISCONNECTED"] /\ due' = [due EXCEPT ![c] = d]
  BY <1>3 DEF Lost
<1>5. Awaits(cState, due)
  BY DEF Rest
<1>6. Awaits(cState', due')
  BY <1>3, <1>4, <1>5, DueKept
<1> QED BY <1>2, <1>6 DEF Rested

LEMMA DoneRests ==
    ASSUME Rest, cState \in [Client -> ClientState], NEW c \in Client, NEW p, NEW s, GroupDone(c, p, s),
           UNCHANGED <<algorithmOf, offered, accepted, monitor>>
    PROVE  Rested(c)
<1>1. CASE Lost(c, p)
  BY <1>1, LostRests
<1>2. CASE /\ UNCHANGED <<cEvents, listening, parked>>
           /\ cState' = [cState EXCEPT ![c] = s] /\ due' = [due EXCEPT ![c] = "none"]
  <2>1. PICK d \in {"none", "start", "end"} : d = "none"
    OBVIOUS
  <2>2. due' = [due EXCEPT ![c] = d] /\ Awaits(cState, due)
    BY <1>2, <2>1 DEF Rest
  <2>3. Awaits(cState', due')
    BY <1>2, <2>1, <2>2, DueKept
  <2> QED BY <1>2, <2>3 DEF Rest, Rested, Event
<1> QED BY <1>1, <1>2 DEF GroupDone

LEMMA VisitedRests ==
    ASSUME Rest, cState \in [Client -> ClientState], NEW c \in Client, NEW p, NEW s, Visited(c, p, s),
           UNCHANGED <<algorithmOf, offered, accepted, monitor>>
    PROVE  Rested(c)
<1>1. CASE \E q : GroupDone(c, q, s)
  BY <1>1, DoneRests
<1>2. CASE /\ UNCHANGED <<cState, cEvents, parked>> /\ listening' = listening \ {c}
           /\ due' = [due EXCEPT ![c] = "none"]
  <2>1. PICK d \in {"none", "start", "end"} : d = "none"
    OBVIOUS
  <2>2. due' = [due EXCEPT ![c] = d] /\ Awaits(cState, due)
    BY <1>2, <2>1 DEF Rest
  <2>3. Awaits(cState', due')
    BY <1>2, <2>1, <2>2, DueKept
  <2> QED BY <1>2, <2>3 DEF Rest, Rested, Event
<1> QED BY <1>1, <1>2 DEF Visited

LEMMA NoticedRests ==
    ASSUME Rest, NEW c \in Client, NEW u \in Url
    PROVE  /\ [cEvents EXCEPT ![c].noticed = @ \cup {u}] \in [Client -> Event]
           /\ LET noticed == [cEvents[c] EXCEPT !.noticed = @ \cup {u}]
              IN  /\ [cEvents EXCEPT ![c] = noticed] \in [Client -> Event]
                  /\ [cEvents EXCEPT ![c] = [noticed EXCEPT !.kept = @ \cup {u}]] \in [Client -> Event]
BY DEF Rest, Event

LEMMA StepRests ==
    ASSUME Rest, cState \in [Client -> ClientState], NEW c \in Client, Step(c)
    PROVE  Rested(c)
<1>1. /\ Awaits(cState, due) /\ cEvents \in [Client -> Event]
      /\ listening \subseteq Client /\ parked \subseteq Client
  BY DEF Rest, Event
<1>2. CASE Connect(c)
  <2>1. due[c] = "none"
    BY <1>1, <1>2 DEF Connect, Awaits
  <2>2. PICK d \in {"none", "start", "end"} : d = "none"
    OBVIOUS
  <2>3. due' = [due EXCEPT ![c] = d] /\ cState' = [cState EXCEPT ![c] = "WAITING"]
    BY <1>1, <1>2, <2>1, <2>2 DEF Connect, Awaits
  <2>4. Awaits(cState', due')
    BY <1>1, <2>2, <2>3, DueKept
  <2> QED BY <1>1, <1>2, <2>4 DEF Connect, Rested, urlVars
<1>3. CASE Park(c) \/ ReceiverEnds(c)
  BY <1>1, <1>3 DEF Park, ReceiverEnds, Rested, urlVars
<1>4. CASE Reconnect(c)
  <2>1. CASE UNCHANGED due
    BY <1>1, <1>4, <2>1 DEF Reconnect, Rested, urlVars
  <2>2. CASE due[c] = "start" /\ due' = [due EXCEPT ![c] = "end"]
    <3>1. PICK d \in {"none", "start", "end"} : d = "end"
      OBVIOUS
    <3>2. cState' = cState /\ cState[c] = "AWAITING_VISITING" /\ due' = [due EXCEPT ![c] = d]
      BY <1>1, <1>4, <2>2, <3>1 DEF Reconnect, Awaits
    <3>3. Awaits(cState', due')
      BY <1>1, <3>1, <3>2, DueKept
    <3> QED BY <1>1, <1>4, <3>3 DEF Reconnect, Rested, urlVars
  <2> QED BY <1>4, <2>1, <2>2 DEF Reconnect
<1>5. CASE VisitStart(c)
  <2>1. PICK d \in {"none", "start", "end"} : d = "end"
    OBVIOUS
  <2>2. due' = [due EXCEPT ![c] = d] /\ cState' = [cState EXCEPT ![c] = "VISITING"]
    BY <1>5, <2>1 DEF VisitStart
  <2>3. cState'[c] = "VISITING"
    BY <2>2
  <2>4. Awaits(cState', due')
    BY <1>1, <2>1, <2>2, <2>3, DueKept
  <2> QED BY <1>1, <1>5, <2>4 DEF VisitStart, Rested, urlVars
<1>6. CASE Send(c)
  <2>1. PICK d \in {"none", "start", "end"} : d = "start"
    OBVIOUS
  <2>2. due' = [due EXCEPT ![c] = d] /\ cState' = [cState EXCEPT ![c] = "AWAITING_VISITING"]
    BY <1>6, <2>1 DEF Send
  <2>3. cState'[c] = "AWAITING_VISITING"
    BY <2>2
  <2>4. Awaits(cState', due')
    BY <1>1, <2>1, <2>2, <2>3, DueKept
  <2>5. cEvents' \in [Client -> Event]
    BY <1>1, <1>6 DEF Send, Event
  <2> QED BY <1>1, <1>6, <2>4, <2>5 DEF Send, Rested
<1>7. CASE SendFails(c)
  <2>1. PICK p : Lost(c, p)
    BY <1>7 DEF SendFails
  <2> QED BY <1>7, <2>1, LostRests DEF SendFails
<1>8. ASSUME NEW u \in Url, EventMissed(c, u) PROVE Rested(c)
  BY <1>1, <1>8, NoticedRests DEF EventMissed, Rested, urlVars
<1>9. ASSUME NEW u \in Url, SystemEvent(c, u) PROVE Rested(c)
  <2> DEFINE noticed == [cEvents[c] EXCEPT !.noticed = @ \cup {u}]
  <2>1. UNCHANGED <<algorithmOf, offered, accepted, monitor>>
    BY <1>9 DEF SystemEvent, urlVars
  <2>2. CASE \E p, s : GroupDone(c, p, s)
    BY <2>1, <2>2, DoneRests
  <2>3. CASE /\ listening' = listening /\ parked' = parked /\ cState' = cState /\ due' = due
             /\ \/ cEvents' = [cEvents EXCEPT ![c] = noticed]
                \/ cEvents' = [cEvents EXCEPT ![c] = [noticed EXCEPT !.kept = @ \cup {u}]]
    <3>1. /\ [cEvents EXCEPT ![c] = noticed] \in [Client -> Event]
          /\ [cEvents EXCEPT ![c] = [noticed EXCEPT !.kept = @ \cup {u}]] \in [Client -> Event]
      BY NoticedRests
    <3> QED BY <1>1, <2>1, <2>3, <3>1 DEF Rested
  <2> QED BY <1>9, <2>2, <2>3 DEF SystemEvent
<1>10. ASSUME NEW failed, VisitFinish(c, failed) PROVE Rested(c)
  <2>1. PICK p, s : Visited(c, p, s)
    BY <1>10 DEF VisitFinish
  <2> QED BY <1>10, <2>1, VisitedRests DEF VisitFinish, urlVars
<1>11. ASSUME NEW failed, NEW retry \in BOOLEAN, VisitError(c, retry, failed) PROVE Rested(c)
  <2>1. (\E p, s : GroupDone(c, p, s)) \/ (\E p, s : Visited(c, p, s))
    BY <1>11 DEF VisitError
  <2> QED BY <1>11, <2>1, DoneRests, VisitedRests DEF VisitError, urlVars
<1>12. CASE Disconnect(c) \/ Timeout(c)
  <2>1. \E p : Lost(c, p)
    BY <1>12 DEF Disconnect, Timeout
  <2>2. PICK p : Lost(c, p)
    BY <2>1
  <2> QED BY <1>12, <2>2, LostRests DEF Disconnect, Timeout, urlVars
<1> QED BY <1>2, <1>3, <1>7, <1>8, <1>9, <1>10, <1>11, <1>12, <1>4, <1>5, <1>6 DEF Step

-----------------------------------------------------------------------------
(* What the clients have noticed.                                           *)

\* The steps of c leave alone what the others noticed, and give reasons for their own.
Noted(c) ==
    /\ \A d \in Client \ {c} : cEvents'[d] = cEvents[d] /\ cGroup'[d] = cGroup[d]
    /\ cEvents'[c].kept \subseteq Malicious
    /\ cGroup'[c] # 0 =>
          \/ cEvents'[c].noticed = {}
          \/ cGroup'[c] = cGroup[c] /\ cEvents'[c].noticed \subseteq UrlsOf(pool, cGroup[c]) \cap Malicious

LEMMA LostNoted ==
    ASSUME NEW X, InvFor(X), NEW c \in Client, NEW p, NEW s,
           Lost(c, p) \/ GroupDone(c, p, s) \/ Visited(c, p, s)
    PROVE  Noted(c)
<1>1. /\ cEvents \in [Client -> Event] /\ cGroup \in [Client -> {0} \cup DOMAIN pool.group]
      /\ cEvents[c].kept \subseteq Malicious
  BY DEF InvFor, Rest, Hands, Seen, Event
<1>2. CASE UNCHANGED <<cGroup, cEvents>>
  BY <1>2 DEF Noted, InvFor, Seen
<1>3. (\E q : Lost(c, q) \/ GroupDone(c, q, s)) \/ UNCHANGED <<cGroup, cEvents>>
  BY DEF Visited
<1>4. ASSUME NEW q, Lost(c, q) \/ GroupDone(c, q, s) PROVE Noted(c)
  <2>1. cGroup' = [cGroup EXCEPT ![c] = 0] /\ (cEvents' = cEvents \/ cEvents' = [cEvents EXCEPT ![c] = NoEvents])
    BY <1>4 DEF Lost, GroupDone
  <2> QED BY <1>1, <2>1 DEF Noted, NoEvents
<1> QED BY <1>2, <1>3, <1>4

LEMMA NoticedNoted ==
    ASSUME NEW X, InvFor(X), NEW c \in Client, NEW u \in Guilty(c), cGroup' = cGroup,
           \/ cEvents' = [cEvents EXCEPT ![c].noticed = @ \cup {u}]
           \/ LET noticed == [cEvents[c] EXCEPT !.noticed = @ \cup {u}]
              IN  \/ cEvents' = [cEvents EXCEPT ![c] = noticed]
                  \/ cEvents' = [cEvents EXCEPT ![c] = [noticed EXCEPT !.kept = @ \cup {u}]]
    PROVE  Noted(c)
<1>1. /\ cEvents \in [Client -> Event] /\ cEvents[c] \in Event
      /\ cEvents[c].kept \subseteq Malicious
      /\ cGroup[c] # 0 => cEvents[c].noticed \subseteq UrlsOf(pool, cGroup[c]) \cap Malicious
  BY DEF InvFor, Rest, Seen, Event
<1>2. u \in UrlsOf(pool, cGroup[c]) \cap Malicious
  BY DEF Guilty
<1>3. PICK e : cEvents' = [cEvents EXCEPT ![c] = e]
               /\ e.noticed = cEvents[c].noticed \cup {u}
               /\ e.kept \subseteq cEvents[c].kept \cup {u}
  BY <1>1 DEF Event
<1>4. cEvents'[c] = e /\ \A d \in Client \ {c} : cEvents'[d] = cEvents[d]
  BY <1>1, <1>3
<1> QED BY <1>1, <1>2, <1>3, <1>4 DEF Noted

LEMMA StepNotes ==
    ASSUME NEW X, InvFor(X), NEW c \in Client, Step(c)
    PROVE  Noted(c)
<1>1. CASE Connect(c) \/ Park(c) \/ Reconnect(c) \/ ReceiverEnds(c) \/ VisitStart(c)
  BY <1>1 DEF Connect, Park, Reconnect, ReceiverEnds, VisitStart, InvFor, Seen, Noted
<1>2. CASE Send(c)
  <2>1. /\ cEvents \in [Client -> Event] /\ cEvents[c].kept \subseteq Malicious
        /\ cGroup \in [Client -> {0} \cup DOMAIN pool.group]
    BY DEF InvFor, Rest, Seen, Hands, Event
  <2>2. cEvents' = [cEvents EXCEPT ![c].noticed = {}] /\ \E g : cGroup' = [cGroup EXCEPT ![c] = g]
    BY <1>2 DEF Send
  <2> QED BY <2>1, <2>2 DEF Noted, Event
<1>3. CASE SendFails(c)
  <2>1. PICK p : Lost(c, p)
    BY <1>3 DEF SendFails
  <2> QED BY <2>1, LostNoted
<1>4. ASSUME NEW u \in Url, EventMissed(c, u) PROVE Noted(c)
  BY <1>4, NoticedNoted DEF EventMissed
<1>5. ASSUME NEW u \in Url, SystemEvent(c, u) PROVE Noted(c)
  <2> DEFINE noticed == [cEvents[c] EXCEPT !.noticed = @ \cup {u}]
  <2>1. u \in Guilty(c)
    BY <1>5 DEF SystemEvent
  <2>2. CASE \E p, s : GroupDone(c, p, s)
    BY <2>2, LostNoted
  <2>3. CASE /\ cGroup' = cGroup
             /\ \/ cEvents' = [cEvents EXCEPT ![c] = noticed]
                \/ cEvents' = [cEvents EXCEPT ![c] = [noticed EXCEPT !.kept = @ \cup {u}]]
    BY <2>1, <2>3, NoticedNoted
  <2> QED BY <1>5, <2>2, <2>3 DEF SystemEvent
<1>6. ASSUME NEW failed, VisitFinish(c, failed) PROVE Noted(c)
  <2>1. PICK p, s : Visited(c, p, s)
    BY <1>6 DEF VisitFinish
  <2> QED BY <2>1, LostNoted
<1>7. ASSUME NEW failed, NEW retry \in BOOLEAN, VisitError(c, retry, failed) PROVE Noted(c)
  <2>1. \E p, s : GroupDone(c, p, s) \/ Visited(c, p, s)
    BY <1>7 DEF VisitError
  <2> QED BY <2>1, LostNoted
<1>8. CASE Disconnect(c) \/ Timeout(c)
  <2>1. \E p : Lost(c, p)
    BY <1>8 DEF Disconnect, Timeout
  <2> QED BY <2>1, LostNoted
<1> QED BY <1>1, <1>2, <1>3, <1>4, <1>5, <1>6, <1>7, <1>8 DEF Step

\* A client that keeps its group in hand keeps it with its URLs.
HandsKept == \A d \in Client : cGroup[d] # 0 /\ cGroup'[d] = cGroup[d] => UrlsOf(pool', cGroup[d]) = UrlsOf(pool, cGroup[d])

LEMMA StepKeepsHands ==
    ASSUME NEW X, InvFor(X), NEW c \in Client, Step(c), unsplit' \subseteq X
    PROVE  HandsKept
<1>1. /\ Ordered(algorithmOf, X, pool) /\ Hands(pool, cGroup, cState)
      /\ Places(pool, urlQueue, accepted) /\ accepted \subseteq Url /\ urlQueue \cap X = {}
  BY DEF InvFor, Rest
<1>2. /\ \A d \in Client : cGroup[d] \in {0} \cup DOMAIN pool.group
      /\ \A d \in Client : cGroup[d] # 0 /\ cGroup[d] = cGroup[c] => d = c
      /\ cGroup \in [Client -> {0} \cup DOMAIN pool.group]
  BY <1>1 DEF Hands
<1>3. CASE GroupEnds(X, c)
  <2>1. PICK N \in SUBSET Id : Ends(algorithmOf, X, pool, cGroup[c], pool', N)
    BY <1>3 DEF GroupEnds
  <2>2. cGroup[c] # 0 /\ cGroup'[c] = 0
    BY <1>2, <1>3 DEF GroupEnds
  <2>3. \A h \in DOMAIN pool.group \ {cGroup[c]} : pool'.group[h] = pool.group[h]
    BY <2>1 DEF Ends
  <2> QED BY <1>2, <2>2, <2>3 DEF HandsKept, UrlsOf
<1>4. CASE GroupFails(X, c)
  <2>1. PICK t \in TakeUrlGroup : \E N \in SUBSET Id : Ends(algorithmOf, X, t.pool, t.group, pool', N)
    BY <1>4 DEF GroupFails
  <2>2. PICK N \in SUBSET Id : Ends(algorithmOf, X, t.pool, t.group, pool', N)
    BY <2>1
  <2>3. Taken(algorithmOf, X, pool, urlQueue, t.pool, t.group, t.urls)
    BY <1>1, TakeUrlGroupTakes
  <2>4. \A d \in Client : cGroup[d] # t.group \/ cGroup[d] = 0
    BY <1>1, <1>2, <2>3 DEF Taken, Hands
  <2>5. \A h \in DOMAIN t.pool.group \ {t.group} : pool'.group[h] = t.pool.group[h]
    BY <2>2 DEF Ends
  <2>6. \A h \in DOMAIN pool.group : h \in DOMAIN t.pool.group /\ t.pool.group[h] = pool.group[h]
    BY <2>3 DEF Taken
  <2> QED BY <1>2, <2>4, <2>5, <2>6 DEF HandsKept, UrlsOf
<1>5. CASE GroupMarked(X, c)
  <2>1. \A h \in DOMAIN pool.group : pool'.group[h].urls = pool.group[h].urls
    BY <1>2, <1>5 DEF GroupMarked, Marked, Same
  <2> QED BY <1>2, <2>1 DEF HandsKept, UrlsOf
<1>6. CASE Idle(c)
  BY <1>6 DEF Idle, HandsKept
<1>7. CASE Send(c)
  <2>1. PICK t \in TakeUrlGroup : pool' = t.pool
    BY <1>7 DEF Send
  <2>2. Taken(algorithmOf, X, pool, urlQueue, t.pool, t.group, t.urls)
    BY <1>1, TakeUrlGroupTakes
  <2>3. \A h \in DOMAIN pool.group : pool'.group[h] = pool.group[h]
    BY <2>1, <2>2 DEF Taken
  <2> QED BY <1>2, <2>3 DEF HandsKept, UrlsOf
<1>8. CASE VisitStart(c)
  <2> DEFINE g == cGroup[c]
             q == SetVisiting([pool EXCEPT !.group[g].algorithm = algorithmOf[Head(pool.group[g].urls)]], g)
  <2>1. pool' = q
    BY <1>8 DEF VisitStart, ReportedAlgorithm
  <2>2. g \in DOMAIN pool.group
    <3>1. cState[c] = "AWAITING_VISITING"
      BY <1>8 DEF InvFor, Rest, Awaits, VisitStart
    <3> QED BY <1>1, <3>1 DEF Hands
  <2>3. algorithmOf \in [Url -> Algorithm]
    BY UrlGroupsAssumption DEF InvFor, Rest
  <2>4. Shape(pool) /\ Calm(algorithmOf, X, pool.group[g])
    BY <1>1, <2>2 DEF Ordered
  <2>5. Started(algorithmOf, X, pool, g, q)
    BY <2>2, <2>3, <2>4, SetVisitingStarts
  <2> HIDE DEF q
  <2>6. \A h \in DOMAIN pool.group : pool'.group[h].urls = pool.group[h].urls
    BY <2>1, <2>5 DEF Started
  <2> QED BY <1>2, <2>6 DEF HandsKept, UrlsOf
<1> QED BY <1>3, <1>4, <1>5, <1>6, <1>7, <1>8, StepIs

LEMMA StepKeepsSeen ==
    ASSUME NEW X, InvFor(X), NEW c \in Client, Step(c), unsplit' \subseteq X
    PROVE  Seen(pool', cGroup', cEvents')
<1>1. Noted(c) /\ HandsKept
  BY StepNotes, StepKeepsHands
<1>2. Seen(pool, cGroup, cEvents)
  BY DEF InvFor
<1> SUFFICES ASSUME NEW d \in Client
             PROVE  /\ cEvents'[d].kept \subseteq Malicious
                    /\ cGroup'[d] # 0 =>
                          cEvents'[d].noticed \subseteq UrlsOf(pool', cGroup'[d]) \cap Malicious
  BY DEF Seen
<1>3. CASE d = c
  BY <1>1, <1>3 DEF Noted, HandsKept
<1>4. CASE d # c
  <2>1. cEvents'[d] = cEvents[d] /\ cGroup'[d] = cGroup[d]
    BY <1>1, <1>4 DEF Noted
  <2> QED BY <1>1, <1>2, <2>1 DEF Seen, HandsKept
<1> QED BY <1>3, <1>4

-----------------------------------------------------------------------------
(* What QueueMonitor misses.                                                *)

\* The groups in the queue were there, or in the hands of c, or their URLs were queued.
LEMMA StepKeepsQueued ==
    ASSUME NEW X, InvFor(X), NEW c \in Client, Step(c), unsplit' \subseteq X
    PROVE  \A h \in ToSet(pool'.queue) :
              \/ UrlsOf(pool', h) \subseteq urlQueue \ urlQueue'
              \/ cGroup[c] # 0 /\ UrlsOf(pool', h) \subseteq UrlsOf(pool, cGroup[c])
              \/ h \in ToSet(pool.queue) /\ UrlsOf(pool', h) = UrlsOf(pool, h)
              \/ \E i \in ToSet(pool.queue) : UrlsOf(pool', h) \subseteq UrlsOf(pool, i)
<1>1. /\ Ordered(algorithmOf, X, pool) /\ Hands(pool, cGroup, cState)
      /\ Places(pool, urlQueue, accepted) /\ accepted \subseteq Url /\ urlQueue \cap X = {}
  BY DEF InvFor, Rest
<1>2. /\ ToSet(pool.queue) \subseteq DOMAIN pool.group /\ cGroup[c] \notin ToSet(pool.queue)
      /\ cGroup[c] \in {0} \cup DOMAIN pool.group
  BY <1>1 DEF Ordered, Hands
<1>3. CASE GroupEnds(X, c)
  <2>1. PICK N \in SUBSET Id : Ends(algorithmOf, X, pool, cGroup[c], pool', N)
    BY <1>3 DEF GroupEnds
  <2>2. cGroup[c] # 0
    BY <1>3 DEF GroupEnds
  <2>3. /\ ToSet(pool'.queue) = ToSet(pool.queue) \cup N
        /\ \A h \in N : UrlsOf(pool', h) \subseteq UrlsOf(pool, cGroup[c])
        /\ \A h \in DOMAIN pool.group \ {cGroup[c]} : pool'.group[h] = pool.group[h]
    BY <2>1 DEF Ends
  <2> QED BY <1>2, <2>2, <2>3 DEF UrlsOf
<1>4. CASE GroupFails(X, c)
  <2>1. PICK t \in TakeUrlGroup :
           urlQueue' = t.urls /\ \E N \in SUBSET Id : Ends(algorithmOf, X, t.pool, t.group, pool', N)
    BY <1>4 DEF GroupFails
  <2>2. PICK N \in SUBSET Id : Ends(algorithmOf, X, t.pool, t.group, pool', N)
    BY <2>1
  <2>3. Taken(algorithmOf, X, pool, urlQueue, t.pool, t.group, t.urls)
    BY <1>1, TakeUrlGroupTakes
  <2>4. /\ ToSet(pool'.queue) = ToSet(t.pool.queue) \cup N
        /\ \A h \in N : UrlsOf(pool', h) \subseteq UrlsOf(t.pool, t.group)
        /\ \A h \in DOMAIN t.pool.group \ {t.group} : pool'.group[h] = t.pool.group[h]
    BY <2>2 DEF Ends
  <2>5. /\ ToSet(t.pool.queue) = ToSet(pool.queue) \ {t.group}
        /\ \A h \in DOMAIN pool.group : h \in DOMAIN t.pool.group /\ t.pool.group[h] = pool.group[h]
        /\ t.group \in ToSet(pool.queue) \/ t.group \notin DOMAIN pool.group
        /\ t.urls = urlQueue \ UrlsOf(t.pool, t.group)
        /\ t.group \in DOMAIN pool.group \/ UrlsOf(t.pool, t.group) \subseteq urlQueue
    BY <2>3 DEF Taken
  <2>6. ASSUME NEW h \in ToSet(pool.queue) \ {t.group} PROVE UrlsOf(pool', h) = UrlsOf(pool, h)
    BY <1>2, <2>4, <2>5 DEF UrlsOf
  <2>7. CASE t.group \in ToSet(pool.queue)
    <3>1. UrlsOf(t.pool, t.group) = UrlsOf(pool, t.group)
      BY <1>2, <2>5, <2>7 DEF UrlsOf
    <3> QED BY <2>4, <2>5, <2>6, <2>7, <3>1
  <2>8. CASE t.group \notin DOMAIN pool.group
    <3>1. UrlsOf(t.pool, t.group) \subseteq urlQueue \ urlQueue'
      BY <2>1, <2>5, <2>8
    <3> QED BY <2>4, <2>5, <2>6, <3>1
  <2> QED BY <2>5, <2>7, <2>8
<1>5. CASE GroupMarked(X, c)
  <2>1. pool'.queue = pool.queue /\ \A h \in DOMAIN pool.group : pool'.group[h].urls = pool.group[h].urls
    BY <1>2, <1>5 DEF GroupMarked, Marked, Same
  <2> QED BY <1>2, <2>1 DEF UrlsOf
<1>6. CASE Idle(c)
  BY <1>6 DEF Idle
<1>7. CASE Send(c)
  <2>1. PICK t \in TakeUrlGroup : pool' = t.pool
    BY <1>7 DEF Send
  <2>2. Taken(algorithmOf, X, pool, urlQueue, t.pool, t.group, t.urls)
    BY <1>1, TakeUrlGroupTakes
  <2>3. /\ \A h \in DOMAIN pool.group : pool'.group[h] = pool.group[h]
        /\ ToSet(pool'.queue) = ToSet(pool.queue) \ {t.group}
    BY <2>1, <2>2 DEF Taken
  <2> QED BY <1>2, <2>3 DEF UrlsOf
<1>8. CASE VisitStart(c)
  <2> DEFINE g == cGroup[c]
             q == SetVisiting([pool EXCEPT !.group[g].algorithm = algorithmOf[Head(pool.group[g].urls)]], g)
  <2>1. pool' = q /\ cGroup[c] # 0
    BY <1>8, DueInHand DEF VisitStart, ReportedAlgorithm
  <2>2. algorithmOf \in [Url -> Algorithm]
    BY UrlGroupsAssumption DEF InvFor, Rest
  <2>3. g \in DOMAIN pool.group
    BY <1>2, <2>1
  <2>4. Shape(pool) /\ Calm(algorithmOf, X, pool.group[g])
    BY <1>1, <2>3 DEF Ordered
  <2>5. Started(algorithmOf, X, pool, g, q)
    BY <2>2, <2>3, <2>4, SetVisitingStarts
  <2> HIDE DEF q
  <2>6. pool'.queue = pool.queue /\ \A h \in DOMAIN pool.group : pool'.group[h].urls = pool.group[h].urls
    BY <2>1, <2>5 DEF Started
  <2> QED BY <1>2, <2>6 DEF UrlsOf
<1> QED BY <1>3, <1>4, <1>5, <1>6, <1>7, <1>8, StepIs

\* A client gets a group only when it is sent one, and URLs leave their queue only then.
LEMMA StepHands ==
    ASSUME NEW X, InvFor(X), NEW c \in Client, Step(c), unsplit' \subseteq X
    PROVE  /\ urlQueue' \subseteq urlQueue /\ monitor' = monitor /\ accepted' = accepted
           /\ \A d \in Client : \/ cGroup'[d] \in {0, cGroup[d]}
                                \/ d = c /\ cState'[c] = "AWAITING_VISITING"
<1>1. /\ Ordered(algorithmOf, X, pool) /\ Hands(pool, cGroup, cState)
      /\ Places(pool, urlQueue, accepted) /\ accepted \subseteq Url /\ urlQueue \cap X = {}
  BY DEF InvFor, Rest
<1>2. cGroup \in [Client -> {0} \cup DOMAIN pool.group] /\ cState \in [Client -> ClientState]
  BY <1>1 DEF Hands, ClientState
<1>3. \A t \in TakeUrlGroup : t.urls \subseteq urlQueue
  BY <1>1, TakeUrlGroupTakes DEF Taken
<1>4. CASE GroupEnds(X, c)
  BY <1>2, <1>4 DEF GroupEnds, urlVars
<1>5. CASE GroupFails(X, c)
  BY <1>2, <1>3, <1>5 DEF GroupFails
<1>6. CASE GroupMarked(X, c) \/ Idle(c)
  BY <1>6 DEF GroupMarked, Idle, urlVars
<1>7. CASE VisitStart(c)
  BY <1>7 DEF VisitStart, urlVars
<1>8. CASE Send(c)
  <2>1. /\ cState' = [cState EXCEPT ![c] = "AWAITING_VISITING"]
        /\ \E g : cGroup' = [cGroup EXCEPT ![c] = g]
    BY <1>8 DEF Send
  <2>2. cState'[c] = "AWAITING_VISITING" /\ \A d \in Client \ {c} : cGroup'[d] = cGroup[d]
    BY <1>2, <2>1
  <2> QED BY <1>3, <1>8, <2>2 DEF Send
<1> QED BY <1>4, <1>5, <1>6, <1>7, <1>8, StepIs

LEMMA StepKeepsWatched ==
    ASSUME NEW X, InvFor(X), NEW c \in Client, Step(c), unsplit' \subseteq X,
           Watched, Miss, monitor # Exited, CoreNext(X)
    PROVE  Watched'
<1>1. /\ urlQueue' \subseteq urlQueue /\ monitor' = monitor
      /\ \A d \in Client : \/ cGroup'[d] \in {0, cGroup[d]}
                           \/ d = c /\ cState'[c] = "AWAITING_VISITING"
  BY StepHands
<1>2. SUFFICES ASSUME monitor' \in 4..7
               PROVE  /\ \A d \in Client : cGroup'[d] # 0 => UrlsOf(pool', cGroup'[d]) \subseteq missed'
                      /\ monitor' \in 5..7 => \A g \in ToSet(pool'.queue) : UrlsOf(pool', g) \subseteq missed'
                      /\ monitor' \in 6..7 => urlQueue' \subseteq missed'
  <2>1. 5..7 \subseteq 4..7 /\ 6..7 \subseteq 4..7
    OBVIOUS
  <2> QED BY <2>1 DEF Watched
<1>3. missed \subseteq missed' /\ urlQueue \ urlQueue' \subseteq missed' /\ Unlisted' \subseteq missed'
  <2>1. monitor' \in SecondLook..Exited
    BY <1>2 DEF SecondLook, Exited
  <2> QED BY <2>1 DEF Miss
<1>4. \A d \in Client : cGroup[d] # 0 => UrlsOf(pool, cGroup[d]) \subseteq missed
  BY <1>1, <1>2 DEF Watched
<1>5. ASSUME NEW d \in Client, cGroup'[d] # 0
      PROVE  UrlsOf(pool', cGroup'[d]) \subseteq missed'
  <2>1. CASE cGroup'[d] = cGroup[d]
    <3>1. HandsKept
      BY StepKeepsHands
    <3>2. UrlsOf(pool', cGroup[d]) = UrlsOf(pool, cGroup[d])
      BY <1>5, <2>1, <3>1 DEF HandsKept
    <3> QED BY <1>3, <1>4, <1>5, <2>1, <3>2
  <2>2. CASE d = c /\ cState'[c] = "AWAITING_VISITING"
    <3>1. cGroup'[d] \notin ToSet(pool'.visitingList)
      BY <2>2 DEF CoreNext, Hands
    <3>2. UrlsOf(pool', cGroup'[d]) \subseteq Unlisted'
      BY <1>5, <3>1 DEF Unlisted
    <3> QED BY <1>3, <3>2
  <2> QED BY <1>1, <1>5, <2>1, <2>2
<1>6. ASSUME monitor' \in 5..7, NEW h \in ToSet(pool'.queue)
      PROVE  UrlsOf(pool', h) \subseteq missed'
  <2>1. \A i \in ToSet(pool.queue) : UrlsOf(pool, i) \subseteq missed
    BY <1>1, <1>6 DEF Watched
  <2> QED BY <1>3, <1>4, <2>1, StepKeepsQueued
<1>7. ASSUME monitor' \in 6..7 PROVE urlQueue' \subseteq missed'
  BY <1>1, <1>3, <1>7 DEF Watched
<1> QED BY <1>5, <1>6, <1>7

LEMMA MonitorKeepsWatched ==
    ASSUME IInv, MonitorLook, Miss
    PROVE  Watched'
<1>1. /\ monitor \in 0..Exited \cup {Off} /\ monitor # Off /\ Watched
      /\ pool' = pool /\ cGroup' = cGroup /\ urlQueue' = urlQueue
  BY DEF IInv, InvFor, Rest, MonitorLook, urlVars, clientVars
<1>2. SUFFICES ASSUME monitor' \in 4..7
               PROVE  /\ \A d \in Client : cGroup[d] # 0 => UrlsOf(pool, cGroup[d]) \subseteq missed'
                      /\ monitor' \in 5..7 => \A g \in ToSet(pool.queue) : UrlsOf(pool, g) \subseteq missed'
                      /\ monitor' \in 6..7 => urlQueue \subseteq missed'
  <2>1. 5..7 \subseteq 4..7 /\ 6..7 \subseteq 4..7
    OBVIOUS
  <2> QED BY <1>1, <2>1 DEF Watched
<1>3. missed \subseteq missed' /\ Unlisted' \subseteq missed'
  <2>1. monitor' \in SecondLook..Exited
    BY <1>2 DEF SecondLook, Exited
  <2> QED BY <2>1 DEF Miss
<1>4. NothingRead /\ monitor' = monitor + 1 /\ monitor \in 3..6
  BY <1>1, <1>2 DEF MonitorLook, Exited, Off
<1>5. ASSUME NEW d \in Client, cGroup[d] # 0 PROVE UrlsOf(pool, cGroup[d]) \subseteq missed'
  <2>1. CASE monitor = 3
    <3>1. pool.visitingList = <<>>
      BY <1>4, <2>1 DEF NothingRead
    <3>2. cGroup[d] \notin ToSet(pool.visitingList)
      BY <3>1 DEF ToSet
    <3>3. UrlsOf(pool, cGroup[d]) \subseteq Unlisted'
      BY <1>1, <1>5, <3>2 DEF Unlisted
    <3> QED BY <1>3, <3>3
  <2>2. CASE monitor \in 4..7
    BY <1>1, <1>3, <1>5, <2>2 DEF Watched
  <2> QED BY <1>4, <2>1, <2>2
<1>6. ASSUME monitor' \in 5..7, NEW g \in ToSet(pool.queue) PROVE UrlsOf(pool, g) \subseteq missed'
  <2>1. CASE monitor = 4
    <3>1. pool.queue = <<>>
      BY <1>4, <2>1 DEF NothingRead
    <3> QED BY <1>6, <3>1 DEF ToSet
  <2>2. CASE monitor \in 5..7
    BY <1>1, <1>3, <1>6, <2>2 DEF Watched
  <2> QED BY <1>4, <1>6, <2>1, <2>2
<1>7. ASSUME monitor' \in 6..7 PROVE urlQueue \subseteq missed'
  <2>1. CASE monitor = 5
    BY <1>4, <2>1 DEF NothingRead
  <2>2. CASE monitor \in 6..7
    BY <1>1, <1>3, <2>2 DEF Watched
  <2> QED BY <1>4, <1>7, <2>1, <2>2
<1> QED BY <1>5, <1>6, <1>7

LEMMA AddUrlKeepsWatched ==
    ASSUME NEW u \in Url, AddUrl(u), accepted \subseteq offered, Watched, Miss
    PROVE  Watched'
<1>1. /\ pool' = pool /\ cGroup' = cGroup /\ monitor' = monitor /\ u \notin accepted
      /\ urlQueue' \subseteq urlQueue \cup (accepted' \ accepted)
  BY DEF AddUrl, clientVars
<1>2. SUFFICES ASSUME monitor' \in 4..7
               PROVE  /\ \A d \in Client : cGroup[d] # 0 => UrlsOf(pool, cGroup[d]) \subseteq missed'
                      /\ monitor' \in 5..7 => \A g \in ToSet(pool.queue) : UrlsOf(pool, g) \subseteq missed'
                      /\ monitor' \in 6..7 => urlQueue' \subseteq missed'
  <2>1. 5..7 \subseteq 4..7 /\ 6..7 \subseteq 4..7
    OBVIOUS
  <2> QED BY <1>1, <2>1 DEF Watched
<1>3. missed \subseteq missed' /\ accepted' \ accepted \subseteq missed'
  <2>1. monitor' \in SecondLook..Exited
    BY <1>2 DEF SecondLook, Exited
  <2> QED BY <2>1 DEF Miss
<1> QED BY <1>1, <1>2, <1>3 DEF Watched

\* What is missed was taken in.
LEMMA MissedBounded ==
    ASSUME NEW X, InvFor(X), Miss, accepted \subseteq accepted', CoreNext(X)
    PROVE  missed' \subseteq accepted'
<1>1. missed \subseteq accepted /\ urlQueue \subseteq accepted
  BY DEF InvFor, Rest, Places
<1>2. Unlisted' \subseteq accepted'
  <2>1. SUFFICES ASSUME NEW c \in Client, cGroup'[c] # 0
                 PROVE  UrlsOf(pool', cGroup'[c]) \subseteq accepted'
    BY DEF Unlisted
  <2>2. cGroup'[c] \in DOMAIN pool'.group
    BY <2>1 DEF CoreNext, Hands
  <2> QED BY <2>2 DEF CoreNext, Places
<1> QED BY <1>1, <1>2 DEF Miss

-----------------------------------------------------------------------------
(* A report that leaves a group whole, and every other step, as a step of a *)
(* state in which the URLs of that group are in X already.                  *)

LEMMA LeavesSome ==
    ASSUME NEW c, NEW bad
    PROVE  LeftWhole(c, bad) \in {{}, UrlsOf(pool, cGroup[c])}
BY DEF LeftWhole

LEMMA StepWidens ==
    ASSUME IInv, NEW c \in Client, Step(c)
    PROVE  \/ unsplit' = unsplit
           \/ cGroup[c] # 0 /\ unsplit' = unsplit \cup UrlsOf(pool, cGroup[c])
<1>1. ASSUME due[c] # "none", NEW bad, unsplit' = unsplit \cup LeftWhole(c, bad)
      PROVE  \/ unsplit' = unsplit
             \/ cGroup[c] # 0 /\ unsplit' = unsplit \cup UrlsOf(pool, cGroup[c])
  <2>1. PICK X : X = unsplit /\ InvFor(X)
    BY DEF IInv
  <2>2. cGroup[c] # 0
    BY <1>1, <2>1, DueInHand
  <2>3. LeftWhole(c, bad) \in {{}, UrlsOf(pool, cGroup[c])}
    BY LeavesSome
  <2> QED BY <1>1, <2>2, <2>3
<1>2. ASSUME NEW failed, VisitFinish(c, failed)
      PROVE  due[c] # "none" /\ \E bad : unsplit' = unsplit \cup LeftWhole(c, bad)
  BY <1>2 DEF VisitFinish
<1>3. ASSUME NEW failed, NEW retry, VisitError(c, retry, failed)
      PROVE  due[c] # "none" /\ \E bad : unsplit' = unsplit \cup LeftWhole(c, bad)
  BY <1>3 DEF VisitError
<1>4. ASSUME NEW u, EventMissed(c, u) \/ SystemEvent(c, u) PROVE unsplit' = unsplit
  BY <1>4 DEF EventMissed, SystemEvent
<1>5. CASE Connect(c) \/ Park(c) \/ Send(c) \/ SendFails(c) \/ VisitStart(c)
  BY <1>5 DEF Connect, Park, Send, SendFails, VisitStart
<1>6. CASE ReceiverEnds(c) \/ Reconnect(c) \/ Disconnect(c) \/ Timeout(c)
  BY <1>6 DEF ReceiverEnds, Reconnect, Disconnect, Timeout
<1> QED BY <1>1, <1>2, <1>3, <1>4, <1>5, <1>6 DEF Step

LEMMA Widened ==
    ASSUME IInv, NEW c \in Client, Step(c)
    PROVE  \E X : X = unsplit' /\ unsplit \subseteq X /\ InvFor(X)
<1>1. PICK X : X = unsplit /\ InvFor(X)
  BY DEF IInv
<1>2. PICK Y : Y = X \cup UrlsOf(pool, cGroup[c])
  OBVIOUS
<1>3. cGroup[c] # 0 => InvFor(Y)
  BY <1>1, <1>2, Widen
<1>4. unsplit' = X \/ (cGroup[c] # 0 /\ unsplit' = Y)
  BY <1>1, <1>2, StepWidens
<1> QED BY <1>1, <1>2, <1>3, <1>4

-----------------------------------------------------------------------------
LEMMA InitInvariant == Init => IInv
<1> SUFFICES ASSUME Init PROVE IInv
  OBVIOUS
<1> DEFINE f == [u \in Url |-> [state |-> "NONE", malicious |-> "null", error |-> "OK", started |-> FALSE]]
<1>1. /\ pool = [url |-> f, group |-> <<>>, queue |-> <<>>, visitingList |-> <<>>]
      /\ cState = [c \in Client |-> "DISCONNECTED"] /\ cGroup = [c \in Client |-> 0]
      /\ urlQueue = {} /\ accepted = {}
  BY DEF Init
<1>2. f \in [Url -> UrlRecord]
  BY DEF UrlRecord, OutcomeState, Code
<1> HIDE DEF f
<1>3. PICK e \in Seq(Id) : e = <<>>
  <2>1. <<>> \in Seq(Id)
    BY EmptySeq
  <2> QED BY <2>1
<1>4. DOMAIN e = {} /\ ToSet(e) = {} /\ IsInjective(e) /\ e = [g \in DOMAIN e |-> e[g]]
  BY <1>3 DEF ToSet, IsInjective
<1>5. pool.url = f /\ pool.group = e /\ pool.queue = e /\ pool.visitingList = e
  BY <1>1, <1>3
<1>6. Shape(pool)
  BY <1>1, <1>2, <1>3, <1>4, <1>5 DEF Shape
<1>7. IsFiniteSet({})
  BY FS_EmptySet
<1>8. Ordered(algorithmOf, {}, pool)
  BY <1>4, <1>5, <1>6, <1>7 DEF Ordered
<1>9. Hands(pool, cGroup, cState)
  BY <1>1, <1>4, <1>5 DEF Hands
<1>10. Places(pool, urlQueue, accepted)
  BY <1>1, <1>4, <1>5, <1>7 DEF Places
<1>11. Seen(pool, cGroup, cEvents)
  BY DEF Init, Seen, NoEvents
<1>12. Rest
  <2>1. algorithmOf \in {s.plugins : s \in Setups} /\ monitor \in 0..Exited \cup {Off}
    BY DEF Init, Exited, Off
  <2>2. Awaits(cState, due)
    BY DEF Init, Awaits
  <2> QED BY <2>1, <2>2 DEF Init, Rest, NoEvents
<1>13. monitor \notin 4..7 /\ unsplit = {}
  BY DEF Init, Off
<1>14. Watched
  <2>1. 5..7 \subseteq 4..7 /\ 6..7 \subseteq 4..7
    OBVIOUS
  <2> QED BY <1>13, <2>1 DEF Watched
<1> QED BY <1>8, <1>9, <1>10, <1>11, <1>12, <1>13, <1>14 DEF IInv, InvFor

LEMMA NextInvariant == IInv /\ [Next]_vars => IInv'
<1> SUFFICES ASSUME IInv, [Next]_vars PROVE IInv'
  OBVIOUS
<1>1. PICK X : X = unsplit /\ InvFor(X)
  BY DEF IInv
<1>2. ASSUME NEW Y, Y = unsplit', CoreNext(Y), Seen(pool', cGroup', cEvents'), Rest', Watched'
      PROVE  IInv'
  BY <1>2 DEF IInv, InvFor, CoreNext
<1>3. ASSUME NEW u \in Url, AddUrl(u), Miss, monitor # Exited PROVE IInv'
  <2>1. CoreNext(X) /\ X = unsplit'
    BY <1>1, <1>3, AddUrlKeeps DEF AddUrl
  <2>2. accepted \subseteq accepted' /\ accepted' \subseteq offered' /\ accepted \subseteq offered
    BY <1>1, <1>3 DEF InvFor, Rest, AddUrl
  <2>3. missed' \subseteq accepted'
    BY <1>1, <1>3, <2>1, <2>2, MissedBounded
  <2>4. Rest'
    BY <1>1, <1>3, <2>2, <2>3 DEF InvFor, Rest, Awaits, AddUrl, clientVars
  <2>5. Seen(pool', cGroup', cEvents')
    BY <1>1, <1>3 DEF InvFor, AddUrl, clientVars
  <2>6. Watched'
    BY <1>3, <2>2, AddUrlKeepsWatched DEF IInv
  <2> QED BY <1>2, <2>1, <2>4, <2>5, <2>6
<1>4. ASSUME NEW c \in Client, Step(c), Miss, monitor # Exited PROVE IInv'
  <2>1. PICK Y : Y = unsplit' /\ InvFor(Y)
    BY <1>4, Widened
  <2>2. CoreNext(Y)
    BY <1>4, <2>1, StepIs, GroupEndsKeeps, GroupFailsKeeps, GroupMarkedKeeps, IdleKeeps,
       VisitStartKeeps, SendKeeps
  <2>3. Rested(c)
    <3>1. Rest /\ cState \in [Client -> ClientState]
      BY <2>1 DEF InvFor, Hands, ClientState
    <3> QED BY <1>4, <3>1, StepRests
  <2>4. missed' \subseteq accepted'
    BY <1>4, <2>1, <2>2, <2>3, MissedBounded DEF Rested
  <2>5. Rest'
    BY <2>1, <2>3, <2>4 DEF InvFor, Rest, Rested, Event
  <2>6. Seen(pool', cGroup', cEvents')
    BY <1>4, <2>1, StepKeepsSeen
  <2>7. Watched'
    BY <1>4, <2>1, <2>2, StepKeepsWatched DEF IInv
  <2> QED BY <1>2, <2>1, <2>2, <2>5, <2>6, <2>7
<1>5. ASSUME MonitorLook, Miss, monitor # Exited PROVE IInv'
  <2>1. CoreNext(X) /\ X = unsplit'
    BY <1>1, <1>5 DEF InvFor, CoreNext, MonitorLook, urlVars, clientVars
  <2>2. missed' \subseteq accepted'
    BY <1>1, <1>5, <2>1, MissedBounded DEF MonitorLook, urlVars
  <2>3. monitor' \in 0..Exited \cup {Off}
    BY <1>1, <1>5 DEF InvFor, Rest, MonitorLook, Exited, Off
  <2>4. Rest'
    BY <1>1, <1>5, <2>2, <2>3 DEF InvFor, Rest, Awaits, MonitorLook, urlVars, clientVars
  <2>5. Seen(pool', cGroup', cEvents')
    BY <1>1, <1>5 DEF InvFor, MonitorLook, clientVars
  <2>6. Watched'
    BY <1>5, MonitorKeepsWatched
  <2> QED BY <1>2, <2>1, <2>4, <2>5, <2>6
<1>6. CASE UNCHANGED vars
  <2>1. CoreNext(X) /\ X = unsplit'
    BY <1>1, <1>6 DEF InvFor, CoreNext, vars
  <2>2. Rest'
    BY <1>1, <1>6 DEF InvFor, Rest, Awaits, vars
  <2>3. Seen(pool', cGroup', cEvents')
    BY <1>1, <1>6 DEF InvFor, vars
  <2>4. Watched'
    BY <1>6 DEF IInv, Watched, vars
  <2> QED BY <1>2, <2>1, <2>2, <2>3, <2>4
<1> QED BY <1>3, <1>4, <1>5, <1>6 DEF Next

(* The invariant holds in every reachable state.                            *)
THEOREM Invariance == Spec => []IInv
BY InitInvariant, NextInvariant, PTL DEF Spec

-----------------------------------------------------------------------------
(* Where a URL is.                                                          *)

LEMMA Whereabouts ==
    ASSUME IInv, NEW u \in Url
    PROVE  /\ \A c \in Holders(u) : /\ c \in Client /\ cGroup[c] \in DOMAIN pool.group /\ u \in UrlsOf(pool, cGroup[c])
                                    /\ cGroup[c] # 0 /\ cGroup[c] \notin ToSet(pool.queue)
           /\ \A i \in QueuedAt(u) : /\ i \in DOMAIN pool.queue /\ pool.queue[i] \in ToSet(pool.queue)
                                     /\ pool.queue[i] \in DOMAIN pool.group /\ u \in UrlsOf(pool, pool.queue[i])
           /\ u \in urlQueue \/ u \notin accepted => Holders(u) = {} /\ QueuedAt(u) = {}
<1>1. /\ Ordered(algorithmOf, unsplit, pool) /\ Hands(pool, cGroup, cState)
      /\ Places(pool, urlQueue, accepted)
  BY DEF IInv, InvFor
<1>2. \A c \in Holders(u) : /\ c \in Client /\ cGroup[c] \in DOMAIN pool.group /\ u \in UrlsOf(pool, cGroup[c])
                            /\ cGroup[c] # 0 /\ cGroup[c] \notin ToSet(pool.queue)
  BY <1>1 DEF Hands, Holders
<1>3. \A i \in QueuedAt(u) : /\ i \in DOMAIN pool.queue /\ pool.queue[i] \in ToSet(pool.queue)
                             /\ pool.queue[i] \in DOMAIN pool.group /\ u \in UrlsOf(pool, pool.queue[i])
  <2>1. ToSet(pool.queue) \subseteq DOMAIN pool.group
    BY <1>1 DEF Ordered
  <2>2. \A i \in DOMAIN pool.queue : pool.queue[i] \in ToSet(pool.queue)
    BY DEF ToSet
  <2> QED BY <2>1, <2>2 DEF QueuedAt
<1>4. ASSUME u \in urlQueue \/ u \notin accepted PROVE Holders(u) = {} /\ QueuedAt(u) = {}
  <2>1. \A g \in DOMAIN pool.group : u \notin UrlsOf(pool, g)
    BY <1>1, <1>4 DEF Places
  <2> QED BY <1>2, <1>3, <2>1
<1> QED BY <1>2, <1>3, <1>4

LEMMA OnePlace ==
    ASSUME IInv, NEW u \in Url \ unsplit
    PROVE  /\ \A c, d \in Holders(u) : c = d
           /\ \A i, j \in QueuedAt(u) : i = j
           /\ Holders(u) = {} \/ QueuedAt(u) = {}
<1>1. /\ Ordered(algorithmOf, unsplit, pool) /\ Hands(pool, cGroup, cState)
  BY DEF IInv, InvFor
<1>2. \A g, h \in DOMAIN pool.group : u \in UrlsOf(pool, g) /\ u \in UrlsOf(pool, h) => g = h
  BY <1>1 DEF Ordered
<1>3. \A c, d \in Holders(u) : c = d
  <2>1. \A c, d \in Client : cGroup[c] # 0 /\ cGroup[c] = cGroup[d] => c = d
    BY <1>1 DEF Hands
  <2> QED BY <1>2, <2>1, Whereabouts
<1>4. \A i, j \in QueuedAt(u) : i = j
  <2>1. IsInjective(pool.queue)
    BY <1>1 DEF Ordered
  <2>2. \A i, j \in DOMAIN pool.queue : pool.queue[i] = pool.queue[j] => i = j
    BY <2>1 DEF IsInjective
  <2> QED BY <1>2, <2>2, Whereabouts
<1>5. Holders(u) = {} \/ QueuedAt(u) = {}
  BY <1>2, Whereabouts
<1> QED BY <1>3, <1>4, <1>5

LEMMA AtMostOne ==
    ASSUME NEW S, \A x, y \in S : x = y
    PROVE  Cardinality(S) = IF S = {} THEN 0 ELSE 1
<1>1. CASE S = {}
  BY <1>1, FS_EmptySet
<1>2. CASE S # {}
  <2>1. PICK x : x \in S
    BY <1>2
  <2>2. S = {x}
    BY <2>1
  <2>3. Cardinality({x}) = 1
    BY FS_Singleton
  <2> QED BY <1>2, <2>2, <2>3
<1> QED BY <1>1, <1>2

(* A URL that was left whole can be in several places, but in finitely many. *)
LEMMA FinitelyMany ==
    ASSUME IInv, NEW u \in Url
    PROVE  IsFiniteSet(Holders(u)) /\ IsFiniteSet(QueuedAt(u))
<1>1. /\ IsFiniteSet(DOMAIN pool.group) /\ pool.queue \in Seq(Id)
      /\ \A c, d \in Client : cGroup[c] # 0 /\ cGroup[c] = cGroup[d] => c = d
  BY DEF IInv, InvFor, Ordered, Shape, Hands
<1>2. IsFiniteSet(Holders(u))
  <2> DEFINE f == [c \in Holders(u) |-> cGroup[c]]
  <2>1. f \in [Holders(u) -> DOMAIN pool.group] /\ IsInjective(f)
    BY <1>1, Whereabouts DEF IsInjective
  <2>2. f \in Injection(Holders(u), DOMAIN pool.group)
    BY <2>1 DEF Injection
  <2> QED BY <1>1, <2>2, FS_Injection
<1>3. IsFiniteSet(QueuedAt(u))
  <2>1. PICK n \in Nat : DOMAIN pool.queue = 1..n
    BY <1>1, LenProperties
  <2>2. IsFiniteSet(1..n)
    BY FS_Interval
  <2>3. QueuedAt(u) \in SUBSET (1..n)
    BY <2>1 DEF QueuedAt
  <2> QED BY <2>2, <2>3, FS_Subset
<1> QED BY <1>2, <1>3

LEMMA Nowhere ==
    ASSUME IInv, NEW u \in Url
    PROVE  Copies(u) = 0 <=> Holders(u) = {} /\ QueuedAt(u) = {} /\ u \notin urlQueue
<1>1. /\ Cardinality(Holders(u)) \in Nat /\ Cardinality(QueuedAt(u)) \in Nat
      /\ Cardinality(Holders(u)) = 0 <=> Holders(u) = {}
      /\ Cardinality(QueuedAt(u)) = 0 <=> QueuedAt(u) = {}
  BY FinitelyMany, FS_CardinalityType, FS_EmptySet
<1> QED BY <1>1 DEF Copies

LEMMA Counted ==
    ASSUME IInv, NEW u \in Url \ unsplit
    PROVE  Copies(u) = IF Holders(u) = {} /\ QueuedAt(u) = {} /\ u \notin urlQueue THEN 0 ELSE 1
<1>1. Cardinality(Holders(u)) = IF Holders(u) = {} THEN 0 ELSE 1
  BY OnePlace, AtMostOne
<1>2. Cardinality(QueuedAt(u)) = IF QueuedAt(u) = {} THEN 0 ELSE 1
  BY OnePlace, AtMostOne
<1>3. u \in urlQueue => Holders(u) = {} /\ QueuedAt(u) = {}
  BY Whereabouts
<1> QED BY <1>1, <1>2, <1>3, OnePlace DEF Copies

(* A group is in hand or queued, and so are its URLs.                       *)
LEMMA Placed ==
    ASSUME IInv, NEW g \in DOMAIN pool.group, NEW u \in UrlsOf(pool, g)
    PROVE  /\ g \in ToSet(pool.queue) => QueuedAt(u) # {}
           /\ g \notin ToSet(pool.queue) => \E c \in Client : cGroup[c] = g /\ c \in Holders(u)
           /\ u \in Url
<1>1. /\ Ordered(algorithmOf, unsplit, pool) /\ Hands(pool, cGroup, cState)
      /\ Places(pool, urlQueue, accepted) /\ accepted \subseteq Url
  BY DEF IInv, InvFor, Rest
<1>2. u \in Url
  BY <1>1 DEF Places
<1>3. CASE g \in ToSet(pool.queue)
  <2>1. PICK i \in DOMAIN pool.queue : pool.queue[i] = g
    BY <1>3 DEF ToSet
  <2>2. i \in QueuedAt(u)
    BY <2>1 DEF QueuedAt
  <2> QED BY <1>2, <1>3, <2>2
<1>4. CASE g \notin ToSet(pool.queue)
  <2>1. PICK c \in Client : cGroup[c] = g
    BY <1>1, <1>4 DEF Hands
  <2>2. g # 0
    BY <1>1 DEF Ordered, Shape, Id
  <2>3. c \in Holders(u)
    BY <2>1, <2>2 DEF Holders
  <2> QED BY <1>2, <1>4, <2>1, <2>3
<1> QED BY <1>3, <1>4

-----------------------------------------------------------------------------
(* The safety properties.                                                   *)

(* TypeOK: groups, lists and hands of the clients keep their types, and the *)
(* lists and the clients refer to groups that exist.                        *)
THEOREM TypeCorrect == Spec => []TypeOK
<1>1. IInv => TypeOK
  <2> SUFFICES ASSUME IInv PROVE TypeOK
    OBVIOUS
  <2>1. /\ Shape(pool) /\ ToSet(pool.queue) \cup ToSet(pool.visitingList) \subseteq DOMAIN pool.group
        /\ Hands(pool, cGroup, cState) /\ urlQueue \subseteq accepted /\ Rest
        /\ unsplit \subseteq accepted
    BY DEF IInv, InvFor, Ordered, Places
  <2> QED BY <2>1 DEF TypeOK, Rest, Awaits, Hands, Shape, UrlRecord, Group
<1> QED BY <1>1, Invariance, PTL

(* WorkIsUnique: disconnect(), a failed send and a time-out mark a group in *)
(* error several times, and still no URL is in two places, but for those of *)
(* a group that was left whole; visitingList holds the groups being visited *)
(* and nothing else.                                                        *)
THEOREM WorkUnique == Spec => []WorkIsUnique
<1>1. IInv => WorkIsUnique
  <2> SUFFICES ASSUME IInv PROVE WorkIsUnique
    OBVIOUS
  <2>1. NoDuplicateWork
    BY Counted DEF NoDuplicateWork
  <2>2. VisitingListExact
    <3>1. Ordered(algorithmOf, unsplit, pool)
      BY DEF IInv, InvFor
    <3>2. ToSet(pool.visitingList) = {g \in DOMAIN pool.group : pool.group[g].state = "VISITING"}
      BY <3>1 DEF Ordered
    <3> QED BY <3>1, <3>2 DEF VisitingListExact, Ordered
  <2> QED BY <2>1, <2>2 DEF WorkIsUnique
<1> QED BY <1>1, Invariance, PTL

(* SettledHasOutcome, a part of OutcomeIsRight: no path through send,       *)
(* report, time-out, retry and split drops a URL before it has an outcome,  *)
(* not even one whose group was left whole.                                 *)
THEOREM SettledEnded == Spec => []SettledHasOutcome
<1>1. IInv => SettledHasOutcome
  <2> SUFFICES ASSUME IInv, NEW u \in Url, Settled(u)
               PROVE  pool.url[u].state \in {"VISITED", "ERROR"}
    BY DEF SettledHasOutcome
  <2>1. Holders(u) = {} /\ QueuedAt(u) = {} /\ u \in accepted \ urlQueue
    BY Nowhere DEF Settled
  <2>2. \A g \in DOMAIN pool.group : u \notin UrlsOf(pool, g)
    BY <2>1, Placed
  <2> QED BY <2>1, <2>2 DEF IInv, InvFor, Places, Outcome
<1> QED BY <1>1, Invariance, PTL

(* RetriedOnce, a part of OutcomeIsRight: errorCount is advanced by every   *)
(* setError, up to four times for one failure, and lets one retry through.  *)
THEOREM RetriesBounded == Spec => []RetriedOnce
<1>1. IInv => RetriedOnce
  BY DEF IInv, InvFor, Ordered, Calm, Sound, RetriedOnce
<1> QED BY <1>1, Invariance, PTL

(* ExitLosesOnlyMissed: the three reads of QueueMonitor and its exit are    *)
(* steps of their own, and every URL that is not settled when it ends the   *)
(* server went past it after its last read of visitingList.                 *)
THEOREM ExitLoses == Spec => []ExitLosesOnlyMissed
<1>1. IInv => ExitLosesOnlyMissed
  <2> SUFFICES ASSUME IInv, monitor = Exited, NEW u \in accepted, ~Settled(u)
               PROVE  u \in missed
    BY DEF ExitLosesOnlyMissed
  <2>1. u \in Url /\ Watched
    BY DEF IInv, InvFor, Rest
  <2>2. /\ \A c \in Client : cGroup[c] # 0 => UrlsOf(pool, cGroup[c]) \subseteq missed
        /\ \A g \in ToSet(pool.queue) : UrlsOf(pool, g) \subseteq missed
        /\ urlQueue \subseteq missed
    BY <2>1 DEF Watched, Exited
  <2>3. Holders(u) # {} \/ QueuedAt(u) # {} \/ u \in urlQueue
    BY <2>1, Nowhere DEF Settled
  <2> QED BY <2>1, <2>2, <2>3, Whereabouts DEF Holders
<1> QED BY <1>1, Invariance, PTL

-----------------------------------------------------------------------------
(* The verdicts.                                                            *)

\* u has been taken in and is nowhere any more.
Gone(p, queued, taken, u) ==
    u \in taken \ queued /\ \A h \in DOMAIN p.group : u \notin UrlsOf(p, h)

SettledNow == \A u \in Url : Settled(u) <=> Gone(pool, urlQueue, accepted, u)
SettledNext == \A u \in Url : Settled(u)' <=> Gone(pool', urlQueue', accepted', u)

LEMMA SettledIsGone == IInv => SettledNow
<1> SUFFICES ASSUME IInv, NEW u \in Url
             PROVE  Settled(u) <=> Gone(pool, urlQueue, accepted, u)
  BY DEF SettledNow
<1>1. CASE \E h \in DOMAIN pool.group : u \in UrlsOf(pool, h)
  <2>1. ~Gone(pool, urlQueue, accepted, u)
    BY <1>1 DEF Gone
  <2>2. Holders(u) # {} \/ QueuedAt(u) # {}
    BY <1>1, Placed
  <2> QED BY <2>1, <2>2, Nowhere DEF Settled
<1>2. CASE \A h \in DOMAIN pool.group : u \notin UrlsOf(pool, h)
  <2>1. \A c \in Client : cGroup[c] # 0 => cGroup[c] \in DOMAIN pool.group
    BY DEF IInv, InvFor, Hands
  <2>2. Holders(u) = {}
    BY <1>2, <2>1 DEF Holders
  <2>3. \A i \in DOMAIN pool.queue : pool.queue[i] \in DOMAIN pool.group
    BY DEF IInv, InvFor, Ordered, ToSet
  <2>4. QueuedAt(u) = {}
    BY <1>2, <2>3 DEF QueuedAt
  <2>5. (Copies(u) = 0) <=> u \notin urlQueue
    BY <2>2, <2>4, Nowhere
  <2> QED BY <1>2, <2>5 DEF Settled, Gone
<1> QED BY <1>1, <1>2

LEMMA SettledNowNext == SettledNow' <=> SettledNext
BY DEF SettledNow, SettledNext

LEMMA SettledThen == IInv' => SettledNext
<1>1. IInv' => SettledNow'
  BY SettledIsGone, PTL
<1> QED BY <1>1, SettledNowNext

\* A URL that ends now has the right verdict, or an excuse; one that had ended keeps it.
Told(u) ==
    Gone(pool', urlQueue', accepted', u) /\ pool'.url[u].state = "VISITED" =>
        \/ RightIn(pool', u)
        \/ Excused(u)
        \/ Gone(pool, urlQueue, accepted, u) /\ pool'.url[u] = pool.url[u]

LEMMA StepTells ==
    ASSUME NEW X, InvFor(X), NEW c \in Client, Step(c), unsplit' \subseteq X, NEW u \in Url
    PROVE  Told(u)
<1>1. /\ Ordered(algorithmOf, X, pool) /\ Hands(pool, cGroup, cState)
      /\ Places(pool, urlQueue, accepted) /\ accepted \subseteq Url /\ urlQueue \cap X = {}
  BY DEF InvFor, Rest
<1>2. cGroup[c] \in {0} \cup DOMAIN pool.group
  BY <1>1 DEF Hands
<1>3. CASE GroupEnds(X, c)
  <2> DEFINE g == cGroup[c]
  <2>1. PICK N \in SUBSET Id : Ends(algorithmOf, X, pool, g, pool', N) /\ (N = {} => Judged(c, pool'))
    BY <1>3 DEF GroupEnds
  <2>2. urlQueue' = urlQueue /\ accepted' = accepted /\ g \in DOMAIN pool.group
    BY <1>2, <1>3 DEF GroupEnds, urlVars
  <2>3. /\ DOMAIN pool'.group = (DOMAIN pool.group \ {g}) \cup N
        /\ \A h \in DOMAIN pool.group \ {g} : UrlsOf(pool', h) = UrlsOf(pool, h)
    BY <2>1 DEF Ends, UrlsOf
  <2>4. CASE u \in UrlsOf(pool, g)
    <3>1. N # {} => \E h \in N : u \in UrlsOf(pool', h)
      BY <2>1, <2>4 DEF Ends
    <3>2. Gone(pool', urlQueue', accepted', u) => N = {}
      BY <2>3, <3>1 DEF Gone
    <3> QED BY <2>1, <2>4, <3>2 DEF Told, Judged
  <2>5. CASE u \notin UrlsOf(pool, g)
    <3>1. pool'.url[u] = pool.url[u]
      BY <2>1, <2>5 DEF Ends
    <3>2. Gone(pool', urlQueue', accepted', u) => Gone(pool, urlQueue, accepted, u)
      BY <2>2, <2>3, <2>5 DEF Gone
    <3> QED BY <3>1, <3>2 DEF Told
  <2> QED BY <2>4, <2>5
<1>4. CASE GroupFails(X, c)
  <2>1. PICK t \in TakeUrlGroup :
           /\ \E N \in SUBSET Id : Ends(algorithmOf, X, t.pool, t.group, pool', N)
           /\ \A v \in UrlsOf(t.pool, t.group) : pool'.url[v].state = "ERROR"
           /\ urlQueue' = t.urls
    BY <1>4 DEF GroupFails
  <2> DEFINE p == t.pool
             g == t.group
  <2>2. PICK N \in SUBSET Id : Ends(algorithmOf, X, p, g, pool', N)
    BY <2>1
  <2>3. Taken(algorithmOf, X, pool, urlQueue, p, g, t.urls)
    BY <1>1, TakeUrlGroupTakes
  <2>4. accepted' = accepted /\ urlQueue' = urlQueue \ UrlsOf(p, g)
    BY <1>4, <2>1, <2>3 DEF GroupFails, Taken
  <2> HIDE DEF p, g
  <2>5. CASE u \in UrlsOf(p, g)
    BY <2>1, <2>5 DEF Told, p, g
  <2>6. CASE u \notin UrlsOf(p, g)
    <3>1. pool'.url[u] = pool.url[u]
      BY <2>2, <2>3, <2>6 DEF Ends, Taken
    <3>2. \A h \in DOMAIN p.group \ {g} : h \in DOMAIN pool'.group /\ UrlsOf(pool', h) = UrlsOf(p, h)
      BY <2>2 DEF Ends, UrlsOf
    <3>3. \A h \in DOMAIN pool.group : h \in DOMAIN p.group /\ UrlsOf(p, h) = UrlsOf(pool, h)
      BY <2>3 DEF Taken, UrlsOf
    <3>4. Gone(pool', urlQueue', accepted', u) => Gone(pool, urlQueue, accepted, u)
      BY <2>4, <2>6, <3>2, <3>3 DEF Gone
    <3> QED BY <3>1, <3>4 DEF Told
  <2> QED BY <2>5, <2>6
<1>5. CASE GroupMarked(X, c)
  <2> DEFINE g == cGroup[c]
  <2>1. /\ Same(pool, g, pool') /\ g \in DOMAIN pool.group
        /\ urlQueue' = urlQueue /\ accepted' = accepted
    BY <1>2, <1>5 DEF GroupMarked, Marked, urlVars
  <2>2. DOMAIN pool'.group = DOMAIN pool.group /\ \A h \in DOMAIN pool.group : UrlsOf(pool', h) = UrlsOf(pool, h)
    BY <2>1 DEF Same, UrlsOf
  <2>3. u \notin UrlsOf(pool, g) => pool'.url[u] = pool.url[u]
    BY <2>1 DEF Same
  <2> QED BY <2>1, <2>2, <2>3 DEF Told, Gone
<1>6. CASE Idle(c)
  BY <1>6 DEF Idle, urlVars, Told
<1>7. CASE Send(c)
  <2>1. PICK t \in TakeUrlGroup : pool' = t.pool /\ urlQueue' = t.urls
    BY <1>7 DEF Send
  <2>2. Taken(algorithmOf, X, pool, urlQueue, t.pool, t.group, t.urls)
    BY <1>1, TakeUrlGroupTakes
  <2>3. accepted' = accepted /\ urlQueue' = urlQueue \ UrlsOf(pool', t.group) /\ pool'.url = pool.url
    BY <1>7, <2>1, <2>2 DEF Send, Taken
  <2>4. /\ t.group \in DOMAIN pool'.group
        /\ \A h \in DOMAIN pool.group : h \in DOMAIN pool'.group /\ UrlsOf(pool', h) = UrlsOf(pool, h)
    BY <2>1, <2>2 DEF Taken, UrlsOf
  <2> QED BY <2>3, <2>4 DEF Told, Gone
<1>8. CASE VisitStart(c)
  <2> DEFINE g == cGroup[c]
             q == SetVisiting([pool EXCEPT !.group[g].algorithm = algorithmOf[Head(pool.group[g].urls)]], g)
  <2>1. pool' = q /\ urlQueue' = urlQueue /\ accepted' = accepted
    BY <1>8 DEF VisitStart, ReportedAlgorithm, urlVars
  <2>2. g \in DOMAIN pool.group
    <3>1. cGroup[c] # 0
      BY <1>8, DueInHand DEF VisitStart
    <3> QED BY <1>2, <3>1
  <2>3. algorithmOf \in [Url -> Algorithm]
    BY UrlGroupsAssumption DEF InvFor, Rest
  <2>4. Shape(pool) /\ Calm(algorithmOf, X, pool.group[g])
    BY <1>1, <2>2 DEF Ordered
  <2>5. Started(algorithmOf, X, pool, g, q)
    BY <2>2, <2>3, <2>4, SetVisitingStarts
  <2> HIDE DEF q
  <2>6. DOMAIN pool'.group = DOMAIN pool.group /\ \A h \in DOMAIN pool.group : UrlsOf(pool', h) = UrlsOf(pool, h)
    BY <2>1, <2>5 DEF Started, UrlsOf
  <2>7. u \notin UrlsOf(pool, g) => pool'.url[u] = pool.url[u]
    BY <2>1, <2>5 DEF Started
  <2> QED BY <2>1, <2>2, <2>6, <2>7 DEF Told, Gone
<1> QED BY <1>3, <1>4, <1>5, <1>6, <1>7, <1>8, StepIs

LEMMA NextTells ==
    ASSUME IInv, [Next]_vars, NEW u \in Url
    PROVE  Told(u)
<1>1. ASSUME NEW v \in Url, AddUrl(v) PROVE Told(u)
  <2>1. urlQueue \subseteq accepted /\ accepted \subseteq offered
    BY DEF IInv, InvFor, Places, Rest
  <2> QED BY <1>1, <2>1 DEF AddUrl, Told, Gone
<1>2. ASSUME NEW c \in Client, Step(c) PROVE Told(u)
  <2>1. PICK X : X = unsplit' /\ InvFor(X)
    BY <1>2, Widened
  <2> QED BY <1>2, <2>1, StepTells
<1>3. CASE MonitorLook \/ UNCHANGED vars
  BY <1>3 DEF MonitorLook, vars, urlVars, Told
<1> QED BY <1>1, <1>2, <1>3 DEF Next

(* VerdictIsRight, a part of OutcomeIsRight: a URL whose last visit counts  *)
(* carries the right verdict, whether it was visited alone, in a clean      *)
(* group, or in a bulk group whose state changes were kept, and keeps it.   *)
THEOREM VerdictRight == Spec => VerdictIsRight
<1>1. IInv /\ IInv' /\ [Next]_vars =>
        [\A u \in Url : Settled(u)' /\ pool'.url[u].state = "VISITED" /\ ~Right(u)'
           => \/ ChangeNotKept(u)
              \/ AmongOthers(u)
              \/ Settled(u) /\ pool'.url[u] = pool.url[u]]_vars
  <2> SUFFICES ASSUME IInv, IInv', [Next]_vars, NEW u \in Url,
                      Settled(u)', pool'.url[u].state = "VISITED", ~Right(u)'
               PROVE  \/ ChangeNotKept(u)
                      \/ AmongOthers(u)
                      \/ Settled(u) /\ pool'.url[u] = pool.url[u]
    OBVIOUS
  <2>1. Gone(pool', urlQueue', accepted', u)
    BY SettledThen DEF SettledNext
  <2>2. ~RightIn(pool', u)
    BY DEF Right, RightIn
  <2>3. \/ Excused(u)
        \/ Gone(pool, urlQueue, accepted, u) /\ pool'.url[u] = pool.url[u]
    <3>1. Told(u)
      BY NextTells
    <3> QED BY <2>1, <2>2, <3>1 DEF Told
  <2> QED BY <2>3, SettledIsGone DEF SettledNow, Excused
<1> QED BY <1>1, Invariance, PTL DEF VerdictIsRight, Spec

(* OutcomeIsRight: every URL the server is done with has an outcome, the    *)
(* outcome is right, and no group was visited more than twice for it.       *)
THEOREM OutcomeRight == Spec => OutcomeIsRight
BY SettledEnded, RetriesBounded, VerdictRight, PTL DEF OutcomeIsRight

-----------------------------------------------------------------------------
(* What the ledger makes of a pool and the hands of the clients.            *)

HoldersIn(p, g, u) == {c \in Client : g[c] # 0 /\ u \in UrlsOf(p, g[c])}

StatusIn(X, p, g, queued, taken) ==
    [u \in Url |->
        IF u \notin taken THEN "absent"
        ELSE IF u \in X THEN "disowned"
        ELSE IF HoldersIn(p, g, u) # {} THEN "out"
        ELSE IF u \in queued \/ \E h \in ToSet(p.queue) : u \in UrlsOf(p, h) THEN "waiting"
        ELSE "settled"]

HolderIn(X, p, g) ==
    [u \in Url |-> IF u \in X \/ HoldersIn(p, g, u) = {} THEN NoClient ELSE CHOOSE c \in HoldersIn(p, g, u) : TRUE]

At(st, ho, u, where, whose) == st[u] = where /\ ho[u] = whose

\* The entries of the ledger, case by case.
View(X, p, g, queued, taken, st, ho) ==
    /\ st = [u \in Url |-> st[u]] /\ ho = [u \in Url |-> ho[u]]
    /\ \A u \in Url \ taken : At(st, ho, u, "absent", NoClient)
    /\ \A u \in queued : At(st, ho, u, "waiting", NoClient)
    /\ \A u \in X : At(st, ho, u, "disowned", NoClient)
    /\ \A h \in ToSet(p.queue) : \A u \in UrlsOf(p, h) \ X : At(st, ho, u, "waiting", NoClient)
    /\ \A c \in Client : g[c] # 0 => \A u \in UrlsOf(p, g[c]) \ X : At(st, ho, u, "out", c)
    /\ \A u \in (taken \ queued) \ X : (\A h \in DOMAIN p.group : u \notin UrlsOf(p, h))
          => At(st, ho, u, "settled", NoClient)

Moved(S, to, whose, st, ho, st2, ho2) ==
    /\ st2 = [u \in Url |-> IF u \in S THEN to ELSE st[u]]
    /\ ho2 = [u \in Url |-> IF u \in S THEN whose ELSE ho[u]]

LEMMA Viewing ==
    ASSUME NEW a, NEW X, NEW p, Ordered(a, X, p), NEW g, NEW state, Hands(p, g, state),
           NEW queued, NEW taken, taken \subseteq Url, Places(p, queued, taken),
           X \subseteq taken \ queued
    PROVE  View(X, p, g, queued, taken, StatusIn(X, p, g, queued, taken), HolderIn(X, p, g))
<1> DEFINE st == StatusIn(X, p, g, queued, taken)
           ho == HolderIn(X, p, g)
<1>1. st = [u \in Url |-> st[u]] /\ ho = [u \in Url |-> ho[u]]
  BY DEF StatusIn, HolderIn
<1>2. \A u \in Url : HoldersIn(p, g, u) = {} => ho[u] = NoClient
  BY DEF HolderIn
<1>3. \A h, i \in DOMAIN p.group : h # i => UrlsOf(p, h) \cap UrlsOf(p, i) \subseteq X
  BY DEF Ordered
<1>4. ToSet(p.queue) \subseteq DOMAIN p.group
  BY DEF Ordered
<1>5. \A c \in Client : /\ g[c] \in {0} \cup DOMAIN p.group /\ g[c] \notin ToSet(p.queue)
                        /\ \A d \in Client : g[c] # 0 /\ g[c] = g[d] => c = d
  BY DEF Hands
<1>6. queued \subseteq taken /\ \A h \in DOMAIN p.group : UrlsOf(p, h) \subseteq taken \ queued
  BY DEF Places
<1>7. \A u \in Url, c \in Client : c \in HoldersIn(p, g, u) <=> g[c] # 0 /\ u \in UrlsOf(p, g[c])
  BY DEF HoldersIn
<1>8. \A u \in Url : HoldersIn(p, g, u) \subseteq Client
  BY DEF HoldersIn
<1>9. ASSUME NEW u \in Url \ taken PROVE At(st, ho, u, "absent", NoClient)
  <2>1. HoldersIn(p, g, u) = {}
    BY <1>5, <1>6, <1>7, <1>8, <1>9
  <2> QED BY <1>2, <1>9, <2>1 DEF At, StatusIn
<1>10. ASSUME NEW u \in queued PROVE At(st, ho, u, "waiting", NoClient)
  <2>1. u \in Url /\ u \in taken /\ HoldersIn(p, g, u) = {}
    BY <1>5, <1>6, <1>7, <1>8, <1>10
  <2> QED BY <1>2, <1>10, <2>1 DEF At, StatusIn
<1>11. ASSUME NEW h \in ToSet(p.queue), NEW u \in UrlsOf(p, h) \ X PROVE At(st, ho, u, "waiting", NoClient)
  <2>1. h \in DOMAIN p.group /\ u \in Url /\ u \in taken
    BY <1>4, <1>6, <1>11
  <2>2. HoldersIn(p, g, u) = {}
    <3> SUFFICES ASSUME NEW c \in HoldersIn(p, g, u) PROVE FALSE
      OBVIOUS
    <3>1. c \in Client /\ g[c] # 0 /\ u \in UrlsOf(p, g[c]) /\ g[c] \in DOMAIN p.group
      BY <1>5, <1>7, <1>8, <2>1
    <3> QED BY <1>3, <1>5, <1>11, <2>1, <3>1
  <2> QED BY <1>2, <1>11, <2>1, <2>2 DEF At, StatusIn
<1>12. ASSUME NEW c \in Client, g[c] # 0, NEW u \in UrlsOf(p, g[c]) \ X PROVE At(st, ho, u, "out", c)
  <2>1. g[c] \in DOMAIN p.group /\ u \in Url /\ u \in taken
    BY <1>5, <1>6, <1>12
  <2>2. c \in HoldersIn(p, g, u)
    BY <1>7, <1>12, <2>1
  <2>3. \A d \in HoldersIn(p, g, u) : d = c
    <3> SUFFICES ASSUME NEW d \in HoldersIn(p, g, u) PROVE d = c
      OBVIOUS
    <3>1. d \in Client /\ g[d] # 0 /\ u \in UrlsOf(p, g[d]) /\ g[d] \in DOMAIN p.group
      BY <1>5, <1>7, <1>8, <2>1
    <3>2. g[c] = g[d]
      BY <1>3, <1>12, <2>1, <3>1
    <3> QED BY <1>5, <1>12, <3>1, <3>2
  <2>4. HoldersIn(p, g, u) = {c}
    BY <2>2, <2>3
  <2>5. ho[u] = c
    BY <1>12, <2>1, <2>4 DEF HolderIn
  <2> QED BY <1>12, <2>1, <2>4, <2>5 DEF At, StatusIn
<1>13. ASSUME NEW u \in (taken \ queued) \ X, \A h \in DOMAIN p.group : u \notin UrlsOf(p, h)
       PROVE  At(st, ho, u, "settled", NoClient)
  <2>1. u \in Url /\ HoldersIn(p, g, u) = {}
    BY <1>5, <1>7, <1>8, <1>13
  <2>2. ~\E h \in ToSet(p.queue) : u \in UrlsOf(p, h)
    BY <1>4, <1>13
  <2> QED BY <1>2, <1>13, <2>1, <2>2 DEF At, StatusIn
<1>14. \A u \in X : At(st, ho, u, "disowned", NoClient)
  BY DEF At, StatusIn, HolderIn
<1> HIDE DEF st, ho
<1> QED BY <1>1, <1>9, <1>10, <1>11, <1>12, <1>13, <1>14 DEF View, st, ho

\* Every URL is in one of these places.
Somewhere(X, p, g, queued, taken, u) ==
    \/ u \notin taken
    \/ u \in queued
    \/ u \in X
    \/ \E h \in ToSet(p.queue) : u \in UrlsOf(p, h)
    \/ \E c \in Client : g[c] # 0 /\ u \in UrlsOf(p, g[c])
    \/ u \in taken \ queued /\ \A h \in DOMAIN p.group : u \notin UrlsOf(p, h)

LEMMA EveryoneSomewhere ==
    ASSUME NEW a, NEW X, NEW p, Ordered(a, X, p), NEW g, NEW state, Hands(p, g, state),
           NEW queued, NEW taken, NEW u
    PROVE  Somewhere(X, p, g, queued, taken, u)
<1>1. \A h \in DOMAIN p.group : h # 0 /\ (h \in ToSet(p.queue) \/ \E c \in Client : g[c] = h)
  BY DEF Hands, Ordered, Shape, Id
<1> QED BY <1>1 DEF Somewhere

LEMMA HeldIs ==
    ASSUME NEW a, NEW X, NEW p, Ordered(a, X, p), NEW g, NEW state, Hands(p, g, state),
           NEW queued, NEW taken, taken \subseteq Url, Places(p, queued, taken),
           NEW st, NEW ho, View(X, p, g, queued, taken, st, ho), NEW c \in Client
    PROVE  {u \in Url : ho[u] = c} = IF g[c] = 0 THEN {} ELSE UrlsOf(p, g[c]) \ X
<1>1. c # NoClient
  BY UrlGroupsAssumption
<1>2. g[c] # 0 => \A u \in UrlsOf(p, g[c]) \ X : u \in Url /\ ho[u] = c
  BY DEF View, At, Hands, Places
<1>3. ASSUME NEW u \in Url, ho[u] = c PROVE g[c] # 0 /\ u \in UrlsOf(p, g[c]) \ X
  <2>1. Somewhere(X, p, g, queued, taken, u)
    BY EveryoneSomewhere
  <2>2. PICK d \in Client : g[d] # 0 /\ u \in UrlsOf(p, g[d]) \ X
    BY <1>1, <1>3, <2>1 DEF Somewhere, View, At
  <2>3. ho[u] = d
    BY <2>2 DEF View, At
  <2> QED BY <1>3, <2>2, <2>3
<1> QED BY <1>2, <1>3

LEMMA GivingMoves ==
    ASSUME NEW a, NEW X, NEW p, Ordered(a, X, p), NEW g, NEW state, Hands(p, g, state),
           NEW queued, NEW taken, taken \subseteq Url, Places(p, queued, taken),
           NEW c \in Client, g[c] # 0,
           NEW q, NEW N, Ends(a, X, p, g[c], q, N),
           NEW g2, g2 = [g EXCEPT ![c] = 0],
           NEW st, NEW ho, View(X, p, g, queued, taken, st, ho),
           NEW st2, NEW ho2, View(X, q, g2, queued, taken, st2, ho2)
    PROVE  /\ N = {} => Moved(UrlsOf(p, g[c]) \ X, "settled", NoClient, st, ho, st2, ho2)
           /\ N # {} => Moved(UrlsOf(p, g[c]) \ X, "waiting", NoClient, st, ho, st2, ho2)
<1> DEFINE x == g[c]
           S == UrlsOf(p, x) \ X
<1>1. /\ g \in [Client -> {0} \cup DOMAIN p.group] /\ x \in DOMAIN p.group
      /\ \A d \in Client : g[d] = x => d = c
      /\ x \notin ToSet(p.queue)
  BY DEF Hands
<1>2. \A d \in Client \ {c} : g2[d] = g[d]
  BY <1>1
<1>3. S \subseteq (taken \ queued) \ X /\ S \subseteq Url
  BY <1>1 DEF Places
<1>4. /\ DOMAIN q.group = (DOMAIN p.group \ {x}) \cup N
      /\ ToSet(q.queue) = ToSet(p.queue) \cup N
      /\ \A h \in N : UrlsOf(q, h) \subseteq S \cup X
      /\ N # {} => \A u \in S : \E h \in N : u \in UrlsOf(q, h)
  BY DEF Ends
<1>5. \A h \in DOMAIN p.group \ {x} : UrlsOf(q, h) = UrlsOf(p, h)
  BY DEF Ends, UrlsOf
<1>6. \A h \in DOMAIN p.group \ {x} : UrlsOf(p, h) \cap S = {}
  BY <1>1 DEF Ordered
<1>7. ToSet(p.queue) \subseteq DOMAIN p.group
  BY DEF Ordered
<1>8. x # 0
  OBVIOUS
<1>9. N # {} => \A u \in S : \E h \in N : u \in UrlsOf(q, h)
  BY <1>4
<1> HIDE DEF S, x
<1>10. ASSUME NEW u \in S, N = {} PROVE At(st2, ho2, u, "settled", NoClient)
  <2>1. \A h \in DOMAIN q.group : u \notin UrlsOf(q, h)
    BY <1>4, <1>5, <1>6, <1>10
  <2> QED BY <1>3, <1>10, <2>1 DEF View
<1>11. ASSUME NEW u \in S, N # {} PROVE At(st2, ho2, u, "waiting", NoClient)
  <2>1. u \notin X /\ \E h \in ToSet(q.queue) : u \in UrlsOf(q, h)
    BY <1>3, <1>4, <1>11, <1>9
  <2> QED BY <2>1 DEF View
<1>12. ASSUME NEW u \in Url \ S PROVE st2[u] = st[u] /\ ho2[u] = ho[u]
  <2>1. Somewhere(X, p, g, queued, taken, u)
    BY EveryoneSomewhere
  <2>2. CASE u \notin taken \/ u \in queued
    <3>1. /\ u \notin taken => At(st, ho, u, "absent", NoClient) /\ At(st2, ho2, u, "absent", NoClient)
          /\ u \in queued => At(st, ho, u, "waiting", NoClient) /\ At(st2, ho2, u, "waiting", NoClient)
      BY <1>12 DEF View
    <3> QED BY <2>2, <3>1 DEF At
  <2>3. CASE u \in X
    <3>1. At(st, ho, u, "disowned", NoClient) /\ At(st2, ho2, u, "disowned", NoClient)
      BY <2>3 DEF View
    <3> QED BY <3>1 DEF At
  <2>4. CASE u \notin X /\ \E h \in ToSet(p.queue) : u \in UrlsOf(p, h)
    <3>1. PICK h \in ToSet(p.queue) : u \in UrlsOf(p, h)
      BY <2>4
    <3>2. h \in ToSet(q.queue) /\ u \in UrlsOf(q, h)
      BY <1>1, <1>4, <1>5, <1>7, <3>1
    <3>3. At(st, ho, u, "waiting", NoClient) /\ At(st2, ho2, u, "waiting", NoClient)
      BY <2>4, <3>1, <3>2 DEF View
    <3> QED BY <3>3 DEF At
  <2>5. CASE u \notin X /\ \E d \in Client : g[d] # 0 /\ u \in UrlsOf(p, g[d])
    <3>1. PICK d \in Client : g[d] # 0 /\ u \in UrlsOf(p, g[d])
      BY <2>5
    <3>2. g[d] # x
      BY <1>12, <2>5, <3>1 DEF S
    <3>3. d # c
      BY <3>2 DEF x
    <3>4. g[d] \in DOMAIN p.group \ {x}
      BY <1>1, <3>1, <3>2
    <3>5. g2[d] # 0 /\ u \in UrlsOf(q, g2[d])
      BY <1>2, <1>5, <3>1, <3>3, <3>4
    <3>6. At(st, ho, u, "out", d) /\ At(st2, ho2, u, "out", d)
      BY <2>5, <3>1, <3>5 DEF View
    <3> QED BY <3>6 DEF At
  <2>6. CASE u \in (taken \ queued) \ X /\ \A h \in DOMAIN p.group : u \notin UrlsOf(p, h)
    <3>1. \A h \in DOMAIN q.group : u \notin UrlsOf(q, h)
      BY <1>4, <1>5, <1>12, <2>6
    <3>2. At(st, ho, u, "settled", NoClient)
      BY <2>6 DEF View
    <3>3. At(st2, ho2, u, "settled", NoClient)
      BY <2>6, <3>1 DEF View
    <3> QED BY <3>2, <3>3 DEF At
  <2> QED BY <2>1, <2>2, <2>4, <2>5, <2>6, <2>3 DEF Somewhere
<1>13. st2 = [u \in Url |-> st2[u]] /\ ho2 = [u \in Url |-> ho2[u]]
  BY DEF View
<1>14. CASE N = {}
  <2>1. Moved(S, "settled", NoClient, st, ho, st2, ho2)
    BY <1>3, <1>10, <1>12, <1>13, <1>14 DEF Moved, At
  <2> QED BY <1>14, <2>1 DEF S, x
<1>15. CASE N # {}
  <2>1. Moved(S, "waiting", NoClient, st, ho, st2, ho2)
    BY <1>3, <1>11, <1>12, <1>13, <1>15 DEF Moved, At
  <2> QED BY <1>15, <2>1 DEF S, x
<1> QED BY <1>14, <1>15

LEMMA TakingMoves ==
    ASSUME NEW a, NEW X, NEW p, Ordered(a, X, p), NEW g, NEW state, Hands(p, g, state),
           NEW queued, NEW taken, taken \subseteq Url, Places(p, queued, taken), X \subseteq taken \ queued,
           NEW c \in Client, g[c] = 0,
           NEW q, NEW x, NEW left, Taken(a, X, p, queued, q, x, left),
           NEW g2, g2 = [g EXCEPT ![c] = x],
           NEW st, NEW ho, View(X, p, g, queued, taken, st, ho),
           NEW st2, NEW ho2, View(X, q, g2, left, taken, st2, ho2)
    PROVE  /\ Moved(UrlsOf(q, x) \ X, "out", c, st, ho, st2, ho2)
           /\ \A u \in UrlsOf(q, x) \ X : u \in Url /\ At(st, ho, u, "waiting", NoClient)
<1> DEFINE S == UrlsOf(q, x) \ X
<1>1. /\ g \in [Client -> {0} \cup DOMAIN p.group]
      /\ \A d \in Client : g[d] \notin ToSet(p.queue)
  BY DEF Hands
<1>2. g2[c] = x /\ \A d \in Client \ {c} : g2[d] = g[d]
  BY <1>1
<1>3. /\ x # 0 /\ DOMAIN q.group = DOMAIN p.group \cup {x}
      /\ ToSet(q.queue) = ToSet(p.queue) \ {x}
      /\ x \in ToSet(p.queue) \/ x \notin DOMAIN p.group
      /\ left = queued \ S /\ (x \in DOMAIN p.group \/ S \subseteq queued)
  BY DEF Taken, Id
<1>4. \A h \in DOMAIN p.group : UrlsOf(q, h) = UrlsOf(p, h)
  BY DEF Taken, UrlsOf
<1>5. ToSet(p.queue) \subseteq DOMAIN p.group
  BY DEF Ordered
<1>6. queued \subseteq Url /\ \A h \in DOMAIN p.group : UrlsOf(p, h) \subseteq Url
  BY DEF Places
<1> HIDE DEF S
<1>7. \A u \in S : u \in Url /\ At(st, ho, u, "waiting", NoClient)
  <2>1. CASE x \in ToSet(p.queue)
    <3>1. S = UrlsOf(p, x) \ X /\ x \in DOMAIN p.group
      BY <1>4, <1>5, <2>1 DEF S
    <3> QED BY <1>6, <2>1, <3>1 DEF View
  <2>2. CASE x \notin DOMAIN p.group
    BY <1>3, <1>6, <2>2 DEF View
  <2> QED BY <1>3, <2>1, <2>2
<1>8. ASSUME NEW u \in S PROVE At(st2, ho2, u, "out", c)
  BY <1>2, <1>3, <1>8 DEF View, S
<1>9. ASSUME NEW u \in Url \ S PROVE st2[u] = st[u] /\ ho2[u] = ho[u]
  <2>1. Somewhere(X, p, g, queued, taken, u)
    BY EveryoneSomewhere
  <2>2. CASE u \notin taken
    <3>1. At(st, ho, u, "absent", NoClient)
      BY <1>9, <2>2 DEF View
    <3>2. At(st2, ho2, u, "absent", NoClient)
      BY <1>9, <2>2 DEF View
    <3> QED BY <3>1, <3>2 DEF At
  <2>3. CASE u \in queued
    <3>1. At(st, ho, u, "waiting", NoClient)
      BY <2>3 DEF View
    <3>2. u \in left
      BY <1>3, <1>9, <2>3
    <3>3. At(st2, ho2, u, "waiting", NoClient)
      BY <3>2 DEF View
    <3> QED BY <3>1, <3>3 DEF At
  <2>4. CASE u \in X
    <3>1. At(st, ho, u, "disowned", NoClient) /\ At(st2, ho2, u, "disowned", NoClient)
      BY <2>4 DEF View
    <3> QED BY <3>1 DEF At
  <2>5. CASE u \notin X /\ \E h \in ToSet(p.queue) : u \in UrlsOf(p, h)
    <3>1. PICK h \in ToSet(p.queue) : u \in UrlsOf(p, h)
      BY <2>5
    <3>2. u \in UrlsOf(q, h)
      BY <1>4, <1>5, <3>1
    <3>3. h \in ToSet(q.queue)
      BY <1>3, <1>9, <2>5, <3>1, <3>2 DEF S
    <3> QED BY <2>5, <3>1, <3>2, <3>3 DEF View, At
  <2>6. CASE u \notin X /\ \E d \in Client : g[d] # 0 /\ u \in UrlsOf(p, g[d])
    <3>1. PICK d \in Client : g[d] # 0 /\ u \in UrlsOf(p, g[d])
      BY <2>6
    <3>2. d # c /\ g[d] \in DOMAIN p.group
      BY <1>1, <3>1
    <3>3. g2[d] # 0 /\ u \in UrlsOf(q, g2[d])
      BY <1>2, <1>4, <3>1, <3>2
    <3> QED BY <2>6, <3>1, <3>3 DEF View, At
  <2>7. CASE u \in (taken \ queued) \ X /\ \A h \in DOMAIN p.group : u \notin UrlsOf(p, h)
    <3>1. \A h \in DOMAIN q.group : u \notin UrlsOf(q, h)
      BY <1>3, <1>4, <1>9, <2>7 DEF S
    <3>2. u \in taken \ left
      BY <1>3, <2>7
    <3>3. At(st, ho, u, "settled", NoClient)
      BY <2>7 DEF View
    <3>4. At(st2, ho2, u, "settled", NoClient)
      BY <2>7, <3>1, <3>2 DEF View
    <3> QED BY <3>3, <3>4 DEF At
  <2> QED BY <2>1, <2>2, <2>5, <2>6, <2>7, <2>3, <2>4 DEF Somewhere
<1>10. st2 = [u \in Url |-> st2[u]] /\ ho2 = [u \in Url |-> ho2[u]]
  BY DEF View
<1>11. Moved(S, "out", c, st, ho, st2, ho2)
  BY <1>7, <1>8, <1>9, <1>10 DEF Moved, At
<1> QED BY <1>7, <1>11 DEF S

LEMMA StayingMoves ==
    ASSUME NEW a, NEW X, NEW p, Ordered(a, X, p), NEW g, NEW state, Hands(p, g, state),
           NEW queued, NEW taken,
           NEW q, DOMAIN q.group = DOMAIN p.group, q.queue = p.queue,
           \A h \in DOMAIN p.group : UrlsOf(q, h) = UrlsOf(p, h),
           NEW st, NEW ho, View(X, p, g, queued, taken, st, ho),
           NEW st2, NEW ho2, View(X, q, g, queued, taken, st2, ho2)
    PROVE  st2 = st /\ ho2 = ho
<1>1. ToSet(p.queue) \subseteq DOMAIN p.group /\ \A c \in Client : g[c] \in {0} \cup DOMAIN p.group
  BY DEF Ordered, Hands
<1>2. ASSUME NEW u \in Url PROVE st2[u] = st[u] /\ ho2[u] = ho[u]
  <2>1. Somewhere(X, p, g, queued, taken, u)
    BY EveryoneSomewhere
  <2>2. CASE u \notin taken \/ u \in queued
    BY <1>2, <2>2 DEF View, At
  <2>3. CASE u \in X
    <3>1. At(st, ho, u, "disowned", NoClient) /\ At(st2, ho2, u, "disowned", NoClient)
      BY <2>3 DEF View
    <3> QED BY <3>1 DEF At
  <2>4. CASE u \notin X /\ \E h \in ToSet(p.queue) : u \in UrlsOf(p, h)
    <3>1. PICK h \in ToSet(p.queue) : u \in UrlsOf(p, h)
      BY <2>4
    <3> QED BY <1>1, <2>4, <3>1 DEF View, At
  <2>5. CASE u \notin X /\ \E c \in Client : g[c] # 0 /\ u \in UrlsOf(p, g[c])
    <3>1. PICK c \in Client : g[c] # 0 /\ u \in UrlsOf(p, g[c])
      BY <2>5
    <3>2. u \in UrlsOf(q, g[c])
      BY <1>1, <3>1
    <3> QED BY <2>5, <3>1, <3>2 DEF View, At
  <2>6. CASE u \in (taken \ queued) \ X /\ \A h \in DOMAIN p.group : u \notin UrlsOf(p, h)
    <3>1. At(st, ho, u, "settled", NoClient)
      BY <2>6 DEF View
    <3>2. At(st2, ho2, u, "settled", NoClient)
      BY <2>6 DEF View
    <3> QED BY <3>1, <3>2 DEF At
  <2> QED BY <2>1, <2>2, <2>4, <2>5, <2>6, <2>3 DEF Somewhere
<1>3. /\ st = [u \in Url |-> st[u]] /\ ho = [u \in Url |-> ho[u]]
      /\ st2 = [u \in Url |-> st2[u]] /\ ho2 = [u \in Url |-> ho2[u]]
  BY DEF View
<1> HIDE DEF View
<1> QED BY <1>2, <1>3

LEMMA WideningMoves ==
    ASSUME NEW a, NEW X, NEW p, Ordered(a, X, p), NEW g, NEW state, Hands(p, g, state),
           NEW queued, NEW taken, taken \subseteq Url, Places(p, queued, taken),
           NEW c \in Client, g[c] # 0, NEW Y, Y = X \cup UrlsOf(p, g[c]),
           NEW st, NEW ho, View(X, p, g, queued, taken, st, ho),
           NEW st2, NEW ho2, View(Y, p, g, queued, taken, st2, ho2)
    PROVE  Moved(UrlsOf(p, g[c]), "disowned", NoClient, st, ho, st2, ho2)
<1> DEFINE S == UrlsOf(p, g[c])
<1>1. g[c] \in DOMAIN p.group
  BY DEF Hands
<1>2. S \subseteq taken \ queued /\ S \subseteq Url /\ Y = X \cup S
  BY <1>1 DEF Places
<1> HIDE DEF S
<1>3. ASSUME NEW u \in S PROVE At(st2, ho2, u, "disowned", NoClient)
  BY <1>2, <1>3 DEF View
<1>4. ASSUME NEW u \in Url \ S PROVE st2[u] = st[u] /\ ho2[u] = ho[u]
  <2>1. Somewhere(X, p, g, queued, taken, u)
    BY EveryoneSomewhere
  <2>2. CASE u \notin taken
    <3>1. At(st, ho, u, "absent", NoClient) /\ At(st2, ho2, u, "absent", NoClient)
      BY <1>4, <2>2 DEF View
    <3> QED BY <3>1 DEF At
  <2>3. CASE u \in queued
    <3>1. At(st, ho, u, "waiting", NoClient) /\ At(st2, ho2, u, "waiting", NoClient)
      BY <2>3 DEF View
    <3> QED BY <3>1 DEF At
  <2>4. CASE u \in X
    <3>1. At(st, ho, u, "disowned", NoClient) /\ At(st2, ho2, u, "disowned", NoClient)
      BY <1>2, <2>4 DEF View
    <3> QED BY <3>1 DEF At
  <2>5. CASE u \notin X /\ \E h \in ToSet(p.queue) : u \in UrlsOf(p, h)
    <3>1. At(st, ho, u, "waiting", NoClient) /\ At(st2, ho2, u, "waiting", NoClient)
      BY <1>2, <1>4, <2>5 DEF View
    <3> QED BY <3>1 DEF At
  <2>6. CASE u \notin X /\ \E d \in Client : g[d] # 0 /\ u \in UrlsOf(p, g[d])
    <3>1. PICK d \in Client : g[d] # 0 /\ u \in UrlsOf(p, g[d])
      BY <2>6
    <3>2. At(st, ho, u, "out", d) /\ At(st2, ho2, u, "out", d)
      BY <1>2, <1>4, <2>6, <3>1 DEF View
    <3> QED BY <3>2 DEF At
  <2>7. CASE u \in (taken \ queued) \ X /\ \A h \in DOMAIN p.group : u \notin UrlsOf(p, h)
    <3>1. At(st, ho, u, "settled", NoClient)
      BY <2>7 DEF View
    <3>2. At(st2, ho2, u, "settled", NoClient)
      BY <1>2, <1>4, <2>7 DEF View
    <3> QED BY <3>1, <3>2 DEF At
  <2> QED BY <2>1, <2>2, <2>3, <2>4, <2>5, <2>6, <2>7 DEF Somewhere
<1>5. st2 = [u \in Url |-> st2[u]] /\ ho2 = [u \in Url |-> ho2[u]]
  BY DEF View
<1>6. Moved(S, "disowned", NoClient, st, ho, st2, ho2)
  BY <1>2, <1>3, <1>4, <1>5 DEF Moved, At
<1> QED BY <1>6 DEF S
-----------------------------------------------------------------------------
(* The refinement of the ledger.                                            *)

StatusMap == [u \in Url |-> LedgerStatus(u)]
HolderMap == [u \in Url |-> LedgerHolder(u)]

Viewed == View(unsplit, pool, cGroup, urlQueue, accepted, StatusMap, HolderMap)
ViewedNext == View(unsplit', pool', cGroup', urlQueue', accepted', StatusMap', HolderMap')

LEMMA ViewedIsNext == ViewedNext <=> Viewed'
BY DEF ViewedNext, Viewed

LEMMA ViewedNow == IInv => Viewed
<1> SUFFICES ASSUME IInv PROVE Viewed
  OBVIOUS
<1>1. \A u \in Url : HoldersIn(pool, cGroup, u) = Holders(u)
  BY DEF HoldersIn, Holders
<1>2. \A u \in Url : QueuedAt(u) # {} <=> \E h \in ToSet(pool.queue) : u \in UrlsOf(pool, h)
  BY DEF QueuedAt, ToSet
<1>3. \A u \in Url \ unsplit : Copies(u) > 0 <=> Holders(u) # {} \/ QueuedAt(u) # {} \/ u \in urlQueue
  BY Counted
<1>4. StatusMap = StatusIn(unsplit, pool, cGroup, urlQueue, accepted)
  BY <1>1, <1>2, <1>3 DEF StatusMap, StatusIn, LedgerStatus
<1>5. HolderMap = HolderIn(unsplit, pool, cGroup)
  BY DEF HolderMap, HolderIn, LedgerHolder, HoldersIn, Holders
<1>6. View(unsplit, pool, cGroup, urlQueue, accepted, StatusIn(unsplit, pool, cGroup, urlQueue, accepted),
           HolderIn(unsplit, pool, cGroup))
  BY Viewing DEF IInv, InvFor, Rest
<1> QED BY <1>4, <1>5, <1>6 DEF Viewed

LEMMA ViewedThen == IInv' => ViewedNext
<1>1. IInv' => Viewed'
  BY ViewedNow, PTL
<1> QED BY <1>1, ViewedIsNext

LedgerMoved(S, to, whose) == Moved(S, to, whose, StatusMap, HolderMap, StatusMap', HolderMap')

LEMMA LedgerMoves ==
    ASSUME NEW S, NEW to, NEW whose, LedgerMoved(S, to, whose)
    PROVE  Ledger!Move(S, to, whose)
BY DEF LedgerMoved, Moved, StatusMap, HolderMap, Ledger!Move

LEMMA LedgerHeld ==
    ASSUME IInv, NEW c \in Client
    PROVE  Ledger!HeldBy(c) = IF cGroup[c] = 0 THEN {} ELSE UrlsOf(pool, cGroup[c]) \ unsplit
<1>1. {u \in Url : HolderMap[u] = c} = IF cGroup[c] = 0 THEN {} ELSE UrlsOf(pool, cGroup[c]) \ unsplit
  BY ViewedNow, HeldIs DEF IInv, InvFor, Rest, Viewed
<1>2. Ledger!HeldBy(c) = {u \in Url : HolderMap[u] = c}
  BY DEF Ledger!HeldBy, HolderMap
<1> QED BY <1>1, <1>2

LEMMA NothingMoves ==
    ASSUME NEW to, NEW whose, LedgerMoved({}, to, whose)
    PROVE  StatusMap' = StatusMap /\ HolderMap' = HolderMap
<1>1. StatusMap = [u \in Url |-> StatusMap[u]] /\ HolderMap = [u \in Url |-> HolderMap[u]]
  BY DEF StatusMap, HolderMap
<1> QED BY <1>1 DEF LedgerMoved, Moved

\* The ledger moves, or nothing does.
Kept == Ledger!Next \/ (StatusMap' = StatusMap /\ HolderMap' = HolderMap)

LEMMA GroupEndsMoves ==
    ASSUME NEW X, InvFor(X), NEW c \in Client, GroupEnds(X, c),
           NEW st, NEW ho, View(X, pool, cGroup, urlQueue, accepted, st, ho),
           NEW st2, NEW ho2, View(X, pool', cGroup', urlQueue', accepted', st2, ho2)
    PROVE  \E to \in {"settled", "waiting"} :
              Moved(UrlsOf(pool, cGroup[c]) \ X, to, NoClient, st, ho, st2, ho2)
<1>1. /\ Ordered(algorithmOf, X, pool) /\ Hands(pool, cGroup, cState)
      /\ Places(pool, urlQueue, accepted) /\ accepted \subseteq Url
  BY DEF InvFor, Rest
<1>2. PICK N \in SUBSET Id : Ends(algorithmOf, X, pool, cGroup[c], pool', N)
  BY DEF GroupEnds
<1>3. /\ cGroup[c] # 0 /\ cGroup' = [cGroup EXCEPT ![c] = 0]
      /\ urlQueue' = urlQueue /\ accepted' = accepted
  BY DEF GroupEnds, urlVars
<1>4. View(X, pool', cGroup', urlQueue, accepted, st2, ho2)
  BY <1>3
<1>5. /\ N = {} => Moved(UrlsOf(pool, cGroup[c]) \ X, "settled", NoClient, st, ho, st2, ho2)
      /\ N # {} => Moved(UrlsOf(pool, cGroup[c]) \ X, "waiting", NoClient, st, ho, st2, ho2)
  BY <1>1, <1>2, <1>3, <1>4, GivingMoves
<1> QED BY <1>5

LEMMA GroupEndsLedger ==
    ASSUME IInv, IInv', NEW X, X = unsplit, X = unsplit', NEW c \in Client, GroupEnds(X, c)
    PROVE  Kept
<1>1. PICK S : S = UrlsOf(pool, cGroup[c]) \ X
  OBVIOUS
<1>2. /\ InvFor(X) /\ View(X, pool, cGroup, urlQueue, accepted, StatusMap, HolderMap)
      /\ View(X, pool', cGroup', urlQueue', accepted', StatusMap', HolderMap')
  BY ViewedNow, ViewedThen DEF Viewed, ViewedNext, IInv
<1>3. PICK to \in {"settled", "waiting"} : LedgerMoved(S, to, NoClient)
  BY <1>1, <1>2, GroupEndsMoves DEF LedgerMoved
<1>4. Ledger!HeldBy(c) = S
  BY <1>1, LedgerHeld DEF GroupEnds
<1>5. CASE S = {}
  BY <1>3, <1>5, NothingMoves DEF Kept
<1>6. CASE S # {}
  <2>1. Ledger!Move(S, to, NoClient)
    BY <1>3, LedgerMoves
  <2>2. Ledger!Settle(c) \/ Ledger!PutBack(c)
    BY <1>4, <1>6, <2>1 DEF Ledger!Settle, Ledger!PutBack
  <2> QED BY <2>2 DEF Ledger!Next, Kept
<1> QED BY <1>5, <1>6

LEMMA SendLedger ==
    ASSUME IInv, IInv', NEW X, X = unsplit, X = unsplit', NEW c \in Client, Send(c)
    PROVE  Kept
<1>1. /\ Ordered(algorithmOf, X, pool) /\ Hands(pool, cGroup, cState)
      /\ Places(pool, urlQueue, accepted) /\ accepted \subseteq Url
      /\ X \subseteq accepted \ urlQueue /\ urlQueue \cap X = {}
  BY DEF IInv, InvFor, Rest
<1>2. PICK t \in TakeUrlGroup :
         pool' = t.pool /\ urlQueue' = t.urls /\ cGroup' = [cGroup EXCEPT ![c] = t.group]
  BY DEF Send
<1>3. cState[c] = "WAITING" /\ accepted' = accepted
  BY DEF Send
<1>4. cGroup[c] = 0
  BY <1>1, <1>3 DEF Hands
<1>5. Taken(algorithmOf, X, pool, urlQueue, t.pool, t.group, t.urls)
  BY <1>1, TakeUrlGroupTakes
<1>6. /\ View(X, pool, cGroup, urlQueue, accepted, StatusMap, HolderMap)
      /\ View(X, t.pool, cGroup', t.urls, accepted, StatusMap', HolderMap')
  BY <1>2, <1>3, ViewedNow, ViewedThen DEF Viewed, ViewedNext
<1> DEFINE p == t.pool
           x == t.group
           left == t.urls
           S == UrlsOf(p, x) \ X
<1> HIDE DEF p, x, left
<1>7. /\ LedgerMoved(S, "out", c)
      /\ \A u \in S : u \in Url /\ At(StatusMap, HolderMap, u, "waiting", NoClient)
  <2>1. PICK st, ho, g2 : st = StatusMap' /\ ho = HolderMap' /\ g2 = cGroup'
    OBVIOUS
  <2>2. /\ View(X, p, g2, left, accepted, st, ho) /\ g2 = [cGroup EXCEPT ![c] = x]
        /\ Taken(algorithmOf, X, pool, urlQueue, p, x, left)
    BY <1>2, <1>5, <1>6, <2>1 DEF p, x, left
  <2>3. View(X, pool, cGroup, urlQueue, accepted, StatusMap, HolderMap)
    BY <1>6
  <2>4. /\ Moved(UrlsOf(p, x) \ X, "out", c, StatusMap, HolderMap, st, ho)
        /\ \A u \in UrlsOf(p, x) \ X : u \in Url /\ At(StatusMap, HolderMap, u, "waiting", NoClient)
    BY <1>1, <1>4, <2>2, <2>3, TakingMoves
  <2> QED BY <2>1, <2>4 DEF LedgerMoved
<1> HIDE DEF S
<1>8. Ledger!Move(S, "out", c)
  BY <1>7, LedgerMoves
<1>9. Ledger!HeldBy(c) = {}
  BY <1>4, LedgerHeld
<1>10. S \in SUBSET {u \in Url : StatusMap[u] = "waiting"}
  BY <1>7 DEF At
<1>11. CASE S = {}
  BY <1>7, <1>11, NothingMoves DEF Kept
<1>12. CASE S # {}
  <2>1. Ledger!HandOut(c)
    BY <1>8, <1>9, <1>10, <1>12 DEF Ledger!HandOut, StatusMap
  <2> QED BY <2>1 DEF Ledger!Next, Kept
<1> QED BY <1>11, <1>12

LEMMA GroupFailsLedger ==
    ASSUME IInv, IInv', NEW X, X = unsplit, X = unsplit', NEW c \in Client, GroupFails(X, c)
    PROVE  Kept
<1>1. /\ Ordered(algorithmOf, X, pool) /\ Hands(pool, cGroup, cState)
      /\ Places(pool, urlQueue, accepted) /\ accepted \subseteq Url
      /\ X \subseteq accepted \ urlQueue /\ urlQueue \cap X = {}
  BY DEF IInv, InvFor, Rest
<1>2. PICK t \in TakeUrlGroup :
         /\ \E N \in SUBSET Id : Ends(algorithmOf, X, t.pool, t.group, pool', N)
         /\ urlQueue' = t.urls
  BY DEF GroupFails
<1>3. PICK N \in SUBSET Id : Ends(algorithmOf, X, t.pool, t.group, pool', N)
  BY <1>2
<1>4. cState[c] = "WAITING" /\ cGroup' = [cGroup EXCEPT ![c] = 0] /\ accepted' = accepted
  BY DEF GroupFails
<1>5. cGroup[c] = 0
  BY <1>1, <1>4 DEF Hands
<1> DEFINE p == t.pool
           x == t.group
           left == t.urls
           g2 == [cGroup EXCEPT ![c] = x]
           s2 == [cState EXCEPT ![c] = "AWAITING_VISITING"]
           st == StatusIn(X, p, g2, left, accepted)
           ho == HolderIn(X, p, g2)
           S == UrlsOf(p, x) \ X
<1>6. Taken(algorithmOf, X, pool, urlQueue, p, x, left)
  BY <1>1, TakeUrlGroupTakes
<1>7. Hands(p, g2, s2)
  BY <1>1, <1>5, <1>6, TakingKeepsHands
<1>8. Places(p, left, accepted)
  BY <1>1, <1>6, TakingKeepsPlaces
<1>9. Ordered(algorithmOf, X, p) /\ x # 0
  BY <1>6 DEF Taken, Id
<1>10. g2[c] = x /\ cGroup' = [g2 EXCEPT ![c] = 0]
  BY <1>1, <1>4 DEF Hands
<1>11. View(X, p, g2, left, accepted, st, ho)
  <2>1. X \subseteq accepted \ left
    BY <1>1, <1>6 DEF Taken
  <2> HIDE DEF g2, s2, p, left
  <2> QED BY <1>1, <1>7, <1>8, <1>9, <2>1, Viewing
<1>12. /\ View(X, pool, cGroup, urlQueue, accepted, StatusMap, HolderMap)
       /\ View(X, pool', cGroup', left, accepted, StatusMap', HolderMap')
  BY <1>2, <1>4, ViewedNow, ViewedThen DEF Viewed, ViewedNext
<1> HIDE DEF st, ho
<1>13. /\ Moved(S, "out", c, StatusMap, HolderMap, st, ho)
       /\ \A u \in S : u \in Url /\ At(StatusMap, HolderMap, u, "waiting", NoClient)
  BY <1>1, <1>5, <1>6, <1>11, <1>12, TakingMoves
<1> HIDE DEF p, x, left, g2, s2
<1>14. Ends(algorithmOf, X, p, g2[c], pool', N) /\ g2[c] # 0 /\ UrlsOf(p, g2[c]) \ X = S
  BY <1>3, <1>9, <1>10 DEF p, x
<1>15. /\ N = {} => Moved(S, "settled", NoClient, st, ho, StatusMap', HolderMap')
       /\ N # {} => Moved(S, "waiting", NoClient, st, ho, StatusMap', HolderMap')
  BY <1>1, <1>7, <1>8, <1>9, <1>10, <1>11, <1>12, <1>14, GivingMoves
<1> HIDE DEF S
<1>16. CASE N = {}
  <2>1. LedgerMoved(S, "settled", NoClient)
    BY <1>13, <1>15, <1>16 DEF LedgerMoved, Moved
  <2>2. Ledger!Move(S, "settled", NoClient)
    BY <2>1, LedgerMoves
  <2>3. S \in SUBSET {u \in Url : StatusMap[u] = "waiting"}
    BY <1>13 DEF At
  <2>4. CASE S = {}
    BY <2>1, <2>4, NothingMoves DEF Kept
  <2>5. CASE S # {}
    <3>1. Ledger!GiveUp
      BY <2>2, <2>3, <2>5 DEF Ledger!GiveUp, StatusMap
    <3> QED BY <3>1 DEF Ledger!Next, Kept
  <2> QED BY <2>4, <2>5
<1>17. CASE N # {}
  <2>1. StatusMap = [u \in Url |-> StatusMap[u]] /\ HolderMap = [u \in Url |-> HolderMap[u]]
    BY DEF StatusMap, HolderMap
  <2>2. LedgerMoved(S, "waiting", NoClient)
    BY <1>13, <1>15, <1>17 DEF LedgerMoved, Moved
  <2>3. StatusMap' = StatusMap /\ HolderMap' = HolderMap
    BY <1>13, <2>1, <2>2 DEF LedgerMoved, Moved, At
  <2> QED BY <2>3 DEF Kept
<1> QED BY <1>16, <1>17

LEMMA AddUrlLedger ==
    ASSUME IInv, IInv', NEW X, X = unsplit, X = unsplit', NEW u \in Url, AddUrl(u)
    PROVE  Kept
<1>1. /\ Ordered(algorithmOf, X, pool) /\ Hands(pool, cGroup, cState)
      /\ Places(pool, urlQueue, accepted) /\ accepted \subseteq Url /\ u \notin accepted
      /\ X \subseteq accepted \ urlQueue
  BY DEF IInv, InvFor, Rest, AddUrl
<1>2. pool' = pool /\ cGroup' = cGroup
  BY DEF AddUrl, clientVars
<1>3. PICK st, ho, st2, ho2 : st = StatusMap /\ ho = HolderMap /\ st2 = StatusMap' /\ ho2 = HolderMap'
  OBVIOUS
<1>4. /\ View(X, pool, cGroup, urlQueue, accepted, st, ho)
      /\ View(X, pool, cGroup, urlQueue', accepted', st2, ho2)
  BY <1>2, <1>3, ViewedNow, ViewedThen DEF Viewed, ViewedNext
<1>5. CASE UNCHANGED <<accepted, urlQueue>>
  <2>1. View(X, pool, cGroup, urlQueue, accepted, st2, ho2)
    BY <1>4, <1>5
  <2>2. st2 = st /\ ho2 = ho
    BY <1>1, <1>4, <2>1, StayingMoves
  <2> QED BY <1>3, <2>2 DEF Kept
<1>6. CASE accepted' = accepted \cup {u} /\ urlQueue' = urlQueue \cup {u}
  <2>1. View(X, pool, cGroup, urlQueue \cup {u}, accepted \cup {u}, st2, ho2)
    BY <1>4, <1>6
  <2>2. At(st, ho, u, "absent", NoClient) /\ At(st2, ho2, u, "waiting", NoClient)
    BY <1>1, <1>4, <2>1 DEF View
  <2>3. ASSUME NEW v \in Url \ {u} PROVE st2[v] = st[v] /\ ho2[v] = ho[v]
    <3>1. Somewhere(X, pool, cGroup, urlQueue, accepted, v)
      BY <1>1, EveryoneSomewhere
    <3>2. CASE v \notin accepted
      <4>1. At(st, ho, v, "absent", NoClient) /\ At(st2, ho2, v, "absent", NoClient)
        BY <1>4, <2>1, <2>3, <3>2 DEF View
      <4> QED BY <4>1 DEF At
    <3>3. CASE v \in urlQueue
      <4>1. At(st, ho, v, "waiting", NoClient) /\ At(st2, ho2, v, "waiting", NoClient)
        BY <1>4, <2>1, <2>3, <3>3 DEF View
      <4> QED BY <4>1 DEF At
    <3>4. CASE v \in X
      <4>1. At(st, ho, v, "disowned", NoClient) /\ At(st2, ho2, v, "disowned", NoClient)
        BY <1>4, <2>1, <3>4 DEF View
      <4> QED BY <4>1 DEF At
    <3>5. CASE v \notin X /\ \E h \in ToSet(pool.queue) : v \in UrlsOf(pool, h)
      <4>1. PICK h \in ToSet(pool.queue) : v \in UrlsOf(pool, h)
        BY <3>5
      <4>2. At(st, ho, v, "waiting", NoClient) /\ At(st2, ho2, v, "waiting", NoClient)
        BY <1>4, <2>1, <3>5, <4>1 DEF View
      <4> QED BY <4>2 DEF At
    <3>6. CASE v \notin X /\ \E c \in Client : cGroup[c] # 0 /\ v \in UrlsOf(pool, cGroup[c])
      <4>1. PICK c \in Client : cGroup[c] # 0 /\ v \in UrlsOf(pool, cGroup[c])
        BY <3>6
      <4>2. At(st, ho, v, "out", c)
        BY <1>4, <3>6, <4>1 DEF View
      <4>3. At(st2, ho2, v, "out", c)
        BY <2>1, <3>6, <4>1 DEF View
      <4> QED BY <4>2, <4>3 DEF At
    <3>7. CASE v \in (accepted \ urlQueue) \ X /\ \A h \in DOMAIN pool.group : v \notin UrlsOf(pool, h)
      <4>1. At(st, ho, v, "settled", NoClient)
        BY <1>4, <3>7 DEF View
      <4>2. At(st2, ho2, v, "settled", NoClient)
        BY <2>1, <2>3, <3>7 DEF View
      <4> QED BY <4>1, <4>2 DEF At
    <3> QED BY <3>1, <3>2, <3>3, <3>5, <3>6, <3>7, <3>4 DEF Somewhere
  <2>4. st2 = [v \in Url |-> st2[v]] /\ ho2 = [v \in Url |-> ho2[v]]
    BY <1>4 DEF View
  <2>5. Moved({u}, "waiting", NoClient, st, ho, st2, ho2)
    BY <2>2, <2>3, <2>4 DEF Moved, At
  <2>6. Ledger!Move({u}, "waiting", NoClient)
    BY <1>3, <2>5, LedgerMoves DEF LedgerMoved
  <2>7. StatusMap[u] = "absent"
    BY <1>3, <2>2 DEF At
  <2>8. Ledger!Accept(u)
    BY <2>6, <2>7 DEF Ledger!Accept, StatusMap
  <2> QED BY <2>8 DEF Ledger!Next, Kept
<1> QED BY <1>5, <1>6 DEF AddUrl

\* The URLs stay in their groups and the groups in their places.
SamePlaces ==
    /\ DOMAIN pool'.group = DOMAIN pool.group /\ pool'.queue = pool.queue
    /\ \A h \in DOMAIN pool.group : pool'.group[h].urls = pool.group[h].urls
    /\ cGroup' = cGroup /\ urlQueue' = urlQueue /\ accepted' = accepted

LEMMA SamePlacesMoves ==
    ASSUME NEW X, InvFor(X), SamePlaces,
           NEW st, NEW ho, View(X, pool, cGroup, urlQueue, accepted, st, ho),
           NEW st2, NEW ho2, View(X, pool', cGroup', urlQueue', accepted', st2, ho2)
    PROVE  st2 = st /\ ho2 = ho
<1>1. PICK q : q = pool'
  OBVIOUS
<1>2. View(X, q, cGroup, urlQueue, accepted, st2, ho2)
  BY <1>1 DEF SamePlaces
<1>3. DOMAIN q.group = DOMAIN pool.group /\ q.queue = pool.queue
  BY <1>1 DEF SamePlaces
<1>4. \A h \in DOMAIN pool.group : UrlsOf(q, h) = UrlsOf(pool, h)
  BY <1>1 DEF SamePlaces, UrlsOf
<1>5. Ordered(algorithmOf, X, pool) /\ Hands(pool, cGroup, cState)
  BY DEF InvFor
<1> QED BY <1>2, <1>3, <1>4, <1>5, StayingMoves

LEMMA SamePlacesStep ==
    ASSUME NEW X, InvFor(X),
           \/ \E c \in Client : GroupMarked(X, c) \/ Idle(c) \/ VisitStart(c)
           \/ MonitorLook
           \/ UNCHANGED vars
    PROVE  SamePlaces
<1>1. ASSUME NEW c \in Client, GroupMarked(X, c) PROVE SamePlaces
  <2>1. cGroup[c] \in DOMAIN pool.group
    BY <1>1 DEF InvFor, Hands, GroupMarked
  <2> QED BY <1>1, <2>1 DEF GroupMarked, Marked, Same, SamePlaces, urlVars
<1>2. ASSUME NEW c \in Client, Idle(c) PROVE SamePlaces
  BY <1>2 DEF Idle, SamePlaces, urlVars
<1>3. ASSUME NEW c \in Client, VisitStart(c) PROVE SamePlaces
  <2> DEFINE g == cGroup[c]
             q == SetVisiting([pool EXCEPT !.group[g].algorithm = algorithmOf[Head(pool.group[g].urls)]], g)
  <2>1. pool' = q /\ cGroup' = cGroup /\ urlQueue' = urlQueue /\ accepted' = accepted
    BY <1>3 DEF VisitStart, ReportedAlgorithm, urlVars
  <2>2. g \in DOMAIN pool.group
    <3>1. g # 0
      BY <1>3, DueInHand DEF VisitStart
    <3> QED BY <3>1 DEF InvFor, Hands
  <2>3. algorithmOf \in [Url -> Algorithm]
    BY UrlGroupsAssumption DEF InvFor, Rest
  <2>4. Shape(pool) /\ Calm(algorithmOf, X, pool.group[g])
    BY <2>2 DEF InvFor, Ordered
  <2>5. Started(algorithmOf, X, pool, g, q)
    BY <2>2, <2>3, <2>4, SetVisitingStarts
  <2> HIDE DEF q
  <2> QED BY <2>1, <2>2, <2>5 DEF Started, SamePlaces
<1>4. CASE MonitorLook
  BY <1>4 DEF MonitorLook, SamePlaces, urlVars, clientVars
<1>5. CASE UNCHANGED vars
  BY <1>5 DEF vars, SamePlaces
<1> QED BY <1>1, <1>2, <1>3, <1>4, <1>5

LEMMA SamePlacesLedger ==
    ASSUME IInv, IInv', NEW X, X = unsplit, X = unsplit', SamePlaces
    PROVE  Kept
<1>1. /\ InvFor(X) /\ View(X, pool, cGroup, urlQueue, accepted, StatusMap, HolderMap)
      /\ View(X, pool', cGroup', urlQueue', accepted', StatusMap', HolderMap')
  BY ViewedNow, ViewedThen DEF Viewed, ViewedNext, IInv
<1> QED BY <1>1, SamePlacesMoves DEF Kept

(* A report leaves the group in hand whole: seen with its URLs in X before  *)
(* and after, the ledger stays as it is.                                    *)
LEMMA LeftWholeLedger ==
    ASSUME IInv, IInv', NEW c \in Client, Step(c), cGroup[c] # 0,
           unsplit' = unsplit \cup UrlsOf(pool, cGroup[c])
    PROVE  Kept
<1>1. PICK X, Y, S : X = unsplit /\ Y = unsplit' /\ S = UrlsOf(pool, cGroup[c])
  OBVIOUS
<1>2. InvFor(X) /\ Y = X \cup S
  BY <1>1 DEF IInv
<1>3. InvFor(Y)
  BY <1>1, <1>2, Widen
<1>4. /\ Ordered(algorithmOf, X, pool) /\ Ordered(algorithmOf, Y, pool)
      /\ Hands(pool, cGroup, cState) /\ Places(pool, urlQueue, accepted)
      /\ accepted \subseteq Url /\ Y \subseteq accepted \ urlQueue
  BY <1>2, <1>3 DEF InvFor, Rest
<1>5. PICK st, ho : View(Y, pool, cGroup, urlQueue, accepted, st, ho)
  BY <1>4, Viewing
<1>6. /\ View(X, pool, cGroup, urlQueue, accepted, StatusMap, HolderMap)
      /\ View(Y, pool', cGroup', urlQueue', accepted', StatusMap', HolderMap')
  BY <1>1, ViewedNow, ViewedThen DEF Viewed, ViewedNext
<1>7. Moved(S, "disowned", NoClient, StatusMap, HolderMap, st, ho)
  BY <1>1, <1>2, <1>4, <1>5, <1>6, WideningMoves
<1>8. st = [u \in Url |-> st[u]] /\ ho = [u \in Url |-> ho[u]]
  BY <1>5 DEF View
<1>9. StatusMap' = st /\ HolderMap' = ho
  <2>1. CASE GroupEnds(Y, c)
    <3>1. S \ Y = {}
      BY <1>2
    <3>2. PICK to : Moved({}, to, NoClient, st, ho, StatusMap', HolderMap')
      BY <1>1, <1>3, <1>5, <1>6, <2>1, <3>1, GroupEndsMoves
    <3> QED BY <1>8, <3>2 DEF Moved
  <2>2. CASE GroupMarked(Y, c) \/ Idle(c) \/ VisitStart(c)
    <3>1. SamePlaces
      BY <1>3, <2>2, SamePlacesStep
    <3> QED BY <1>3, <1>5, <1>6, <3>1, SamePlacesMoves
  <2>3. ~GroupFails(Y, c) /\ ~Send(c)
    BY <1>4 DEF GroupFails, Send, Hands
  <2> QED BY <1>1, <1>3, <2>1, <2>2, <2>3, StepIs
<1>10. LedgerMoved(S, "disowned", NoClient)
  BY <1>7, <1>9 DEF LedgerMoved
<1>11. S \cap X = {} \/ S \subseteq X
  <2>1. cGroup[c] \in DOMAIN pool.group
    BY <1>4 DEF Hands
  <2> QED BY <1>1, <1>4, <2>1 DEF Ordered, Calm, UrlsOf
<1>12. CASE S \subseteq X
  <2>1. \A u \in S : At(StatusMap, HolderMap, u, "disowned", NoClient)
    BY <1>6, <1>12 DEF View
  <2>2. LedgerMoved({}, "disowned", NoClient)
    BY <1>10, <2>1 DEF LedgerMoved, Moved, At, StatusMap, HolderMap
  <2> QED BY <2>2, NothingMoves DEF Kept
<1>13. CASE S \cap X = {} /\ S # {}
  <2>1. Ledger!HeldBy(c) = S
    BY <1>1, <1>13, LedgerHeld
  <2>2. Ledger!Disown(c)
    BY <1>10, <1>13, <2>1, LedgerMoves DEF Ledger!Disown
  <2> QED BY <2>2 DEF Ledger!Next, Kept
<1> QED BY <1>11, <1>12, <1>13

LEMMA LedgerInit == Init => Ledger!Init
<1> SUFFICES ASSUME Init PROVE Ledger!Init
  OBVIOUS
<1>1. IInv
  BY InitInvariant
<1>2. \A u \in Url : Holders(u) = {}
  BY <1>1, Whereabouts DEF Init
<1>3. \A u \in Url : LedgerStatus(u) = "absent" /\ LedgerHolder(u) = NoClient
  BY <1>2 DEF Init, LedgerStatus, LedgerHolder
<1> QED BY <1>3 DEF Ledger!Init

LEMMA LedgerStep ==
    ASSUME IInv, IInv', [Next]_vars
    PROVE  Kept
<1>1. PICK X : X = unsplit /\ InvFor(X)
  BY DEF IInv
<1>2. ASSUME NEW u \in Url, AddUrl(u) PROVE Kept
  BY <1>1, <1>2, AddUrlLedger DEF AddUrl
<1>3. ASSUME NEW c \in Client, Step(c) PROVE Kept
  <2>1. CASE unsplit' = unsplit
    <3>1. CASE GroupEnds(X, c)
      BY <1>1, <2>1, <3>1, GroupEndsLedger
    <3>2. CASE GroupFails(X, c)
      BY <1>1, <2>1, <3>2, GroupFailsLedger
    <3>3. CASE Send(c)
      BY <1>1, <2>1, <3>3, SendLedger
    <3>4. CASE GroupMarked(X, c) \/ Idle(c) \/ VisitStart(c)
      BY <1>1, <2>1, <3>4, SamePlacesStep, SamePlacesLedger
    <3> QED BY <1>1, <1>3, <2>1, <3>1, <3>2, <3>3, <3>4, StepIs
  <2>2. CASE cGroup[c] # 0 /\ unsplit' = unsplit \cup UrlsOf(pool, cGroup[c])
    BY <1>3, <2>2, LeftWholeLedger
  <2> QED BY <1>3, <2>1, <2>2, StepWidens
<1>4. CASE MonitorLook \/ UNCHANGED vars
  <2>1. unsplit' = unsplit
    BY <1>4 DEF MonitorLook, vars
  <2> QED BY <1>1, <1>4, <2>1, SamePlacesStep, SamePlacesLedger
<1> QED BY <1>2, <1>3, <1>4 DEF Next

(* ImplementsLedger: with every step of its queues and handlers the server  *)
(* gives URLs to one client that has none, takes back or settles all URLs   *)
(* of a client, or leaves every URL where it is.  The URLs of a group that  *)
(* is left whole are disowned in the step that leaves it so.                *)
THEOREM LedgerKept == Spec => ImplementsLedger
<1>1. IInv /\ IInv' /\ [Next]_vars => [Ledger!Next]_(Ledger!vars)
  <2> SUFFICES ASSUME IInv, IInv', [Next]_vars, ~Ledger!Next PROVE UNCHANGED Ledger!vars
    OBVIOUS
  <2>1. StatusMap' = StatusMap /\ HolderMap' = HolderMap
    BY LedgerStep DEF Kept
  <2> QED BY <2>1 DEF Ledger!vars, StatusMap, HolderMap
<1> QED BY <1>1, LedgerInit, Invariance, PTL DEF Spec, ImplementsLedger, Ledger!Spec

=============================================================================
