--------------------------- MODULE DashboardProofs ---------------------------
(***************************************************************************)
(* Proofs about Dashboard, for any panels, filters and pages and any       *)
(* number of selections, failures and changes of the data.                 *)
(***************************************************************************)
EXTENDS Dashboard, FiniteSetTheorems, TLAPS

-----------------------------------------------------------------------------
(* Requests are told apart by panel and number.                            *)

Unique(rs) == \A r, q \in rs : r.panel = q.panel /\ r.no = q.no => r = q

Requests(rs) == rs \subseteq Request /\ IsFiniteSet(rs) /\ Unique(rs)

Round(rs) == \E r \in rs : r.kind = "round"

\* The panels a round still loads, each one once.
RoundPanels(rs) == {r.panel : r \in {q \in rs : q.kind = "round"}}

RoundOnce(rs) ==
  \A r, q \in rs : r.kind = "round" /\ q.kind = "round" /\ r.panel = q.panel => r = q

LEMMA FreeNumber ==
  ASSUME NEW rs, Requests(rs), NEW p \in Panels
  PROVE  Unused(rs, p) \in Nat \ {0} /\ \A r \in rs : r.panel = p => r.no # Unused(rs, p)
<1> DEFINE N == 1 .. Cardinality(rs) + 1
<1>1. Cardinality(rs) \in Nat
  BY FS_CardinalityType DEF Requests
<1>2. IsFiniteSet(N) /\ Cardinality(N) = Cardinality(rs) + 1
  BY <1>1, FS_Interval
<1>3. \E n \in N : \A r \in rs : r.panel = p => r.no # n
  <2> SUFFICES ASSUME \A n \in N : \E r \in rs : r.panel = p /\ r.no = n
               PROVE  FALSE
    OBVIOUS
  <2> DEFINE f == [n \in N |-> CHOOSE r \in rs : r.panel = p /\ r.no = n]
  <2>1. \A n \in N : f[n] \in rs /\ f[n].no = n
    OBVIOUS
  <2>2. f \in [N -> rs]
    BY <2>1
  <2>3. \E n, m \in N : n # m /\ f[n] = f[m]
    <3> HIDE DEF f, N
    <3>1. IsFiniteSet(rs) /\ Cardinality(rs) < Cardinality(N)
      BY <1>1, <1>2 DEF Requests
    <3>. QED
      BY <2>2, <1>2, <3>1, FS_PigeonHole
  <2> HIDE DEF f, N
  <2>. QED
    BY <2>1, <2>3
<1>4. Unused(rs, p) \in N /\ \A r \in rs : r.panel = p => r.no # Unused(rs, p)
  BY <1>3 DEF Unused
<1>. QED
  BY <1>1, <1>4

\* The image of a finite set under a function is finite.
LEMMA FiniteImage ==
  ASSUME NEW S, IsFiniteSet(S), NEW T, NEW f \in [S -> T], \A y \in T : \E x \in S : f[x] = y
  PROVE  IsFiniteSet(T)
<1>1. f \in Surjection(S, T)
  BY DEF Surjection
<1>. QED
  BY <1>1, FS_Surjection

LEMMA FinitePanels == IsFiniteSet(Panels)
<1>1. IsFiniteSet({"total", "os", "process", "log"})
  <2>1. IsFiniteSet(((({} \cup {"total"}) \cup {"os"}) \cup {"process"}) \cup {"log"})
    <3>1. IsFiniteSet({} \cup {"total"})
      BY FS_EmptySet, FS_AddElement
    <3>2. IsFiniteSet(({} \cup {"total"}) \cup {"os"})
      BY <3>1, FS_AddElement
    <3>3. IsFiniteSet((({} \cup {"total"}) \cup {"os"}) \cup {"process"})
      BY <3>2, FS_AddElement
    <3>. QED
      BY <3>3, FS_AddElement
  <2>2. ((({} \cup {"total"}) \cup {"os"}) \cup {"process"}) \cup {"log"}
          = {"total", "os", "process", "log"}
    OBVIOUS
  <2>. QED
    BY <2>1, <2>2
<1>. QED
  BY <1>1, PanelAssumption, FS_Subset

-----------------------------------------------------------------------------
(* What Send and GiveUp do to the requests.                                *)

Older(r, ps) == [r EXCEPT !.alone = @ /\ r.panel \notin ps]

Newer(rs, p, s, kind) ==
  [panel |-> p, no |-> Unused(rs, p), sel |-> s[p], since |-> Oldest(p), kind |-> kind,
   alone |-> \A r \in rs : r.panel # p]

LEMMA SendParts ==
  ASSUME NEW rs, NEW ps, NEW s, NEW kind
  PROVE  Send(rs, ps, s, kind) = {Older(r, ps) : r \in rs} \cup {Newer(rs, p, s, kind) : p \in ps}
  BY DEF Send, Older, Newer

LEMMA OlderKeeps ==
  ASSUME NEW r \in Request, NEW ps
  PROVE  /\ Older(r, ps) \in Request
         /\ Older(r, ps).panel = r.panel /\ Older(r, ps).no = r.no
         /\ Older(r, ps).kind = r.kind /\ Older(r, ps).sel = r.sel
         /\ Older(r, ps).since = r.since
         /\ Older(r, ps).alone = (r.alone /\ r.panel \notin ps)
  BY DEF Older, Request

LEMMA SendRequests ==
  ASSUME NEW rs, Requests(rs), NEW ps \in SUBSET Panels, NEW s \in [Panels -> Selection],
         NEW kind \in {"round", "past", "user"}, version \in Nat, cached \in Nat
  PROVE  /\ Requests(Send(rs, ps, s, kind))
         /\ Round(Send(rs, ps, s, kind)) <=> Round(rs) \/ (kind = "round" /\ ps # {})
         /\ RoundOnce(rs) /\ (kind = "round" => ~Round(rs)) => RoundOnce(Send(rs, ps, s, kind))
         /\ RoundPanels(Send(rs, ps, s, kind))
              = RoundPanels(rs) \cup (IF kind = "round" THEN ps ELSE {})
<1> DEFINE old == {Older(r, ps) : r \in rs}
           new == {Newer(rs, p, s, kind) : p \in ps}
<1>1. \A p \in ps : /\ Newer(rs, p, s, kind) \in Request
                    /\ Newer(rs, p, s, kind).panel = p
                    /\ Newer(rs, p, s, kind).kind = kind
                    /\ \A r \in rs : r.panel = p => r.no # Newer(rs, p, s, kind).no
  BY FreeNumber DEF Newer, Request, Oldest
<1>2. \A r \in rs : r \in Request
  BY DEF Requests
<1>3. old \subseteq Request /\ new \subseteq Request
  BY <1>1, <1>2, OlderKeeps
<1>4. IsFiniteSet(old)
  <2> DEFINE f == [r \in rs |-> Older(r, ps)]
  <2>1. f \in [rs -> old] /\ \A y \in old : \E r \in rs : f[r] = y
    OBVIOUS
  <2>2. IsFiniteSet(rs)
    BY DEF Requests
  <2> HIDE DEF f, old, new
  <2>. QED
    BY <2>1, <2>2, FiniteImage
<1>5. IsFiniteSet(new)
  <2> DEFINE f == [p \in ps |-> Newer(rs, p, s, kind)]
  <2>1. f \in [ps -> new] /\ \A y \in new : \E p \in ps : f[p] = y
    OBVIOUS
  <2>2. IsFiniteSet(ps)
    BY FinitePanels, FS_Subset
  <2> HIDE DEF f, old, new
  <2>. QED
    BY <2>1, <2>2, FiniteImage
<1>6. Unique(old \cup new)
  <2> SUFFICES ASSUME NEW a \in old \cup new, NEW b \in old \cup new,
                      a.panel = b.panel, a.no = b.no
               PROVE  a = b
    BY DEF Unique
  <2>1. CASE a \in old /\ b \in old
    BY <2>1, <1>2, OlderKeeps DEF Requests, Unique
  <2>2. CASE a \in new /\ b \in new
    BY <2>2, <1>1
  <2>3. CASE (a \in old /\ b \in new) \/ (a \in new /\ b \in old)
    BY <2>3, <1>1, <1>2, OlderKeeps
  <2>. QED
    BY <2>1, <2>2, <2>3
<1>7. Round(old \cup new) <=> Round(rs) \/ (kind = "round" /\ ps # {})
  <2>1. Round(old) <=> Round(rs)
    BY <1>2, OlderKeeps DEF Round
  <2>2. Round(new) <=> (kind = "round" /\ ps # {})
    BY <1>1 DEF Round
  <2>. QED
    BY <2>1, <2>2 DEF Round
<1>8. IsFiniteSet(old \cup new)
  BY <1>4, <1>5, FS_Union
<1>a. \A a \in old : \E r \in rs : a = Older(r, ps)
  OBVIOUS
<1>b. \A a \in new : \E p \in ps : a = Newer(rs, p, s, kind)
  OBVIOUS
<1>c. /\ \A r \in rs : Older(r, ps) \in old
      /\ \A p \in ps : Newer(rs, p, s, kind) \in new
  OBVIOUS
<1>d. \A r \in rs : Older(r, ps).kind = r.kind /\ Older(r, ps).panel = r.panel
  BY <1>2, OlderKeeps
<1> HIDE DEF old, new
<1>9. ASSUME RoundOnce(rs), kind = "round" => ~Round(rs)
      PROVE  RoundOnce(old \cup new)
  <2>1. \A a \in old, b \in new : a.kind # "round" \/ b.kind # "round"
    BY <1>1, <1>9, <1>a, <1>b, <1>d DEF Round
  <2>2. \A a, b \in old : a.kind = "round" /\ b.kind = "round" /\ a.panel = b.panel => a = b
    BY <1>9, <1>a, <1>d DEF RoundOnce
  <2>3. \A a, b \in new : a.panel = b.panel => a = b
    BY <1>1, <1>b
  <2>. QED
    BY <2>1, <2>2, <2>3 DEF RoundOnce
<1>10. RoundPanels(old \cup new) = RoundPanels(rs) \cup (IF kind = "round" THEN ps ELSE {})
  <2>1. \A x : x \in RoundPanels(old \cup new)
                <=> \/ \E a \in old : a.kind = "round" /\ a.panel = x
                    \/ \E a \in new : a.kind = "round" /\ a.panel = x
    BY DEF RoundPanels
  <2>2. \A x : (\E a \in old : a.kind = "round" /\ a.panel = x) <=> x \in RoundPanels(rs)
    BY <1>a, <1>c, <1>d DEF RoundPanels
  <2>3. \A x : (\E a \in new : a.kind = "round" /\ a.panel = x) <=> kind = "round" /\ x \in ps
    BY <1>1, <1>b, <1>c
  <2>. QED
    BY <2>1, <2>2, <2>3
<1>. QED
  BY <1>3, <1>6, <1>7, <1>8, <1>9, <1>10, SendParts DEF Requests, old, new

LEMMA GiveUpRequests ==
  ASSUME NEW rs, Requests(rs)
  PROVE  Requests(GiveUp(rs)) /\ ~Round(GiveUp(rs))
<1> DEFINE past(r) == [r EXCEPT !.kind = IF @ = "round" THEN "past" ELSE @]
<1>1. \A r \in rs : /\ past(r) \in Request /\ past(r).kind # "round"
                    /\ past(r).panel = r.panel /\ past(r).no = r.no
                    /\ past(r).sel = r.sel /\ past(r).since = r.since /\ past(r).alone = r.alone
  BY DEF Requests, Request
<1>2. GiveUp(rs) = {past(r) : r \in rs}
  BY DEF GiveUp
<1>3. IsFiniteSet(GiveUp(rs))
  <2> DEFINE f == [r \in rs |-> past(r)]
  <2>1. f \in [rs -> GiveUp(rs)] /\ \A y \in GiveUp(rs) : \E r \in rs : f[r] = y
    BY <1>2
  <2>2. IsFiniteSet(rs)
    BY DEF Requests
  <2> HIDE DEF f
  <2>. QED
    BY <2>1, <2>2, FiniteImage
<1>4. GiveUp(rs) \subseteq Request /\ ~Round(GiveUp(rs))
  BY <1>1, <1>2 DEF Round
<1>5. Unique(GiveUp(rs))
  <2> HIDE DEF past
  <2> SUFFICES ASSUME NEW a \in GiveUp(rs), NEW b \in GiveUp(rs), a.panel = b.panel, a.no = b.no
               PROVE  a = b
    BY DEF Unique
  <2>1. PICK r \in rs : a = past(r)
    BY <1>2
  <2>2. PICK q \in rs : b = past(q)
    BY <1>2
  <2>. QED
    BY <1>1, <2>1, <2>2 DEF Requests, Unique
<1>. QED
  BY <1>3, <1>4, <1>5 DEF Requests

LEMMA RemoveRequests ==
  ASSUME NEW rs, Requests(rs), NEW r
  PROVE  Requests(rs \ {r})
  BY FS_RemoveElement DEF Requests, Unique

-----------------------------------------------------------------------------
(* Requests that are alone.                                                *)

\* The rows w shows at a panel are from version n or older.
NotNewer(shown, n) == shown # None => shown.version <= n

\* An answer to a request of rs that is alone is to show what is selected in
\* s and, for the log panel, nothing older than what w shows.
Lone(rs, s, w) ==
  \A r \in rs :
    r.alone =>
      /\ \A q \in rs : q.panel = r.panel => q = r
      /\ r.sel = s[r.panel]
      /\ r.panel = "log" => NotNewer(w["log"], r.since)


\* Nothing is dated later than the data.
Dated(rs, w) ==
  /\ \A r \in rs : r.since <= version
  /\ \A p \in Panels : NotNewer(w[p], version)

LEMMA SendLone ==
  ASSUME NEW rs, Requests(rs), NEW ps \in SUBSET Panels, NEW s, NEW s0, NEW w,
         NEW kind \in {"round", "past", "user"}, version \in Nat, cached \in 0 .. version,
         Lone(rs, s0, w), Dated(rs, w), \A p \in Panels \ ps : s[p] = s0[p]
  PROVE  Lone(Send(rs, ps, s, kind), s, w) /\ Dated(Send(rs, ps, s, kind), w)
<1> DEFINE old == {Older(r, ps) : r \in rs}
           new == {Newer(rs, p, s, kind) : p \in ps}
<1>1. \A r \in rs : /\ r \in Request
                    /\ Older(r, ps).panel = r.panel /\ Older(r, ps).sel = r.sel
                    /\ Older(r, ps).since = r.since
                    /\ Older(r, ps).alone = (r.alone /\ r.panel \notin ps)
  BY OlderKeeps DEF Requests
<1>2. \A p \in ps : /\ Newer(rs, p, s, kind).panel = p
                    /\ Newer(rs, p, s, kind).sel = s[p]
                    /\ Newer(rs, p, s, kind).since <= version
                    /\ p = "log" => Newer(rs, p, s, kind).since = version
                    /\ Newer(rs, p, s, kind).alone <=> \A r \in rs : r.panel # p
  BY DEF Newer, Oldest
<1>a. \A a \in old : \E r \in rs : a = Older(r, ps)
  OBVIOUS
<1>b. \A a \in new : \E p \in ps : a = Newer(rs, p, s, kind)
  OBVIOUS
<1> HIDE DEF old, new
<1>3. Dated(old \cup new, w)
  <2>1. \A a \in old : a.since <= version
    BY <1>1, <1>a DEF Dated
  <2>2. \A a \in new : a.since <= version
    BY <1>2, <1>b
  <2>. QED
    BY <2>1, <2>2 DEF Dated
<1>4. Lone(old \cup new, s, w)
  <2>1. ASSUME NEW r \in rs, Older(r, ps).alone
        PROVE  /\ \A b \in old \cup new : b.panel = r.panel => b = Older(r, ps)
               /\ r.sel = s[r.panel]
               /\ r.panel = "log" => NotNewer(w["log"], r.since)
    <3>1. r.alone /\ r.panel \in Panels \ ps
      BY <1>1, <2>1 DEF Request
    <3>2. \A q \in rs : q.panel = r.panel => q = r
      BY <3>1 DEF Lone
    <3>3. \A b \in old : b.panel = r.panel => b = Older(r, ps)
      BY <1>1, <1>a, <3>2
    <3>4. \A b \in new : b.panel # r.panel
      BY <1>2, <1>b, <3>1
    <3>. QED
      BY <3>1, <3>3, <3>4 DEF Lone
  <2>2. ASSUME NEW p \in ps, Newer(rs, p, s, kind).alone
        PROVE  \A b \in old \cup new : b.panel = p => b = Newer(rs, p, s, kind)
    <3>1. \A r \in rs : r.panel # p
      BY <1>2, <2>2
    <3>2. \A b \in old : b.panel # p
      BY <1>1, <1>a, <3>1
    <3>3. \A b \in new : b.panel = p => b = Newer(rs, p, s, kind)
      BY <1>2, <1>b
    <3>. QED
      BY <3>2, <3>3
  <2>3. \A p \in ps : NotNewer(w[p], version)
    BY DEF Dated
  <2>4. ASSUME NEW a \in old, a.alone
        PROVE  /\ \A b \in old \cup new : b.panel = a.panel => b = a
               /\ a.sel = s[a.panel]
               /\ a.panel = "log" => NotNewer(w["log"], a.since)
    <3>1. PICK r \in rs : a = Older(r, ps)
      BY <1>a
    <3>. QED
      BY <1>1, <2>1, <2>4, <3>1
  <2>5. ASSUME NEW a \in new, a.alone
        PROVE  /\ \A b \in old \cup new : b.panel = a.panel => b = a
               /\ a.sel = s[a.panel]
               /\ a.panel = "log" => NotNewer(w["log"], a.since)
    <3>1. PICK p \in ps : a = Newer(rs, p, s, kind)
      BY <1>b
    <3>. QED
      BY <1>2, <2>2, <2>3, <2>5, <3>1
  <2>. QED
    BY <2>4, <2>5 DEF Lone
<1>. QED
  BY <1>3, <1>4, SendParts DEF old, new

\* Fewer requests, or requests given up, are as lonely.
LEMMA RestLone ==
  ASSUME NEW rs, NEW r \in rs, NEW s, NEW w, Lone(rs, s, w), Dated(rs, w)
  PROVE  Lone(rs \ {r}, s, w) /\ Dated(rs \ {r}, w)
  BY DEF Lone, Dated

LEMMA GiveUpLone ==
  ASSUME NEW rs, Requests(rs), NEW s, NEW w, Lone(rs, s, w), Dated(rs, w)
  PROVE  Lone(GiveUp(rs), s, w) /\ Dated(GiveUp(rs), w)
<1> DEFINE past(r) == [r EXCEPT !.kind = IF @ = "round" THEN "past" ELSE @]
<1>1. \A r \in rs : /\ past(r).panel = r.panel /\ past(r).alone = r.alone
                    /\ past(r).sel = r.sel /\ past(r).since = r.since
  BY DEF Requests, Request
<1>2. GiveUp(rs) = {past(r) : r \in rs}
  BY DEF GiveUp
<1> HIDE DEF past
<1>3. Dated(GiveUp(rs), w)
  BY <1>1, <1>2 DEF Dated
<1>4. Lone(GiveUp(rs), s, w)
  <2> SUFFICES ASSUME NEW r \in rs, r.alone
               PROVE  /\ \A q \in rs : q.panel = r.panel => past(q) = past(r)
                      /\ r.sel = s[r.panel]
                      /\ r.panel = "log" => NotNewer(w["log"], r.since)
    BY <1>1, <1>2 DEF Lone
  <2>. QED
    BY DEF Lone
<1>. QED
  BY <1>3, <1>4

-----------------------------------------------------------------------------
(* The requests and the coordinator.                                       *)

DataOK ==
  /\ version \in Nat /\ cached \in 0 .. version
  /\ sel \in [Panels -> Selection]
  /\ rows \in [Panels -> [sel : Selection, version : Nat] \cup {None}]

RequestInv ==
  /\ DataOK
  /\ Requests(requests)
  /\ refreshing \in BOOLEAN /\ pending \in BOOLEAN
  /\ auto \in BOOLEAN /\ visible \in BOOLEAN
  /\ CoordinatorExact
  /\ Dated(requests, rows)
  /\ Lone(requests, sel, rows)

\* CoordinatorExact in the words of these proofs.
LEMMA Exact ==
  CoordinatorExact <=> /\ refreshing <=> Round(requests)
                       /\ RoundOnce(requests)
                       /\ pending => refreshing /\ auto /\ visible
  BY DEF CoordinatorExact, RoundRequests, Round, RoundOnce

\* What makes up the invariant after a step.
LEMMA Rejoin ==
  ASSUME DataOK', Requests(requests'), Lone(requests', sel', rows'),
         \A r \in requests' : r.since <= version',
         \A p \in Panels : NotNewer(rows'[p], version'),
         refreshing' \in BOOLEAN, pending' \in BOOLEAN, auto' \in BOOLEAN, visible' \in BOOLEAN,
         refreshing' <=> Round(requests'), RoundOnce(requests'),
         pending' => refreshing' /\ auto' /\ visible'
  PROVE  RequestInv'
<1>1. CoordinatorExact'
  BY DEF CoordinatorExact, RoundRequests, Round, RoundOnce
<1>. QED
  BY <1>1 DEF RequestInv, Requests, Unique, Lone, Dated, NotNewer

LEMMA AskKeeps ==
  ASSUME RequestInv, Ask, UNCHANGED <<data, auto>>, visible' \in BOOLEAN,
         visible \/ ~refreshing \/ auto, refreshing => auto' /\ visible'
  PROVE  RequestInv'
<1>0. /\ version' = version /\ sel' = sel /\ rows' = rows /\ auto' = auto /\ auto \in BOOLEAN
      /\ DataOK' /\ version \in Nat /\ cached \in 0 .. version /\ cached \in Nat
  BY DEF RequestInv, DataOK, data
<1>1. CASE refreshing
  <2>1. requests' = requests /\ refreshing' = refreshing /\ pending' = TRUE
    BY <1>1 DEF Ask
  <2>2. (refreshing <=> Round(requests)) /\ RoundOnce(requests)
    BY Exact DEF RequestInv
  <2>. QED
    BY <1>0, <1>1, <2>1, <2>2, Rejoin DEF RequestInv, Dated
<1>2. CASE ~refreshing
  <2> DEFINE sent == Send(requests, Panels, sel, "round")
  <2>1. requests' = sent /\ refreshing' = TRUE /\ pending' = FALSE
    BY <1>2 DEF Ask
  <2>2. ~Round(requests) /\ RoundOnce(requests)
    BY <1>2, Exact DEF RequestInv
  <2>3. Requests(sent) /\ Round(sent) /\ RoundOnce(sent)
    BY <1>0, <2>2, SendRequests, PanelAssumption DEF RequestInv, DataOK
  <2>4. Lone(sent, sel, rows) /\ Dated(sent, rows)
    BY <1>0, SendLone DEF RequestInv, DataOK
  <2> HIDE DEF sent
  <2>. QED
    BY <1>0, <2>1, <2>3, <2>4, Rejoin DEF Dated
<1>. QED
  BY <1>1, <1>2 DEF RequestInv

\* The end of a round, when rs are the requests under way after it, s the
\* selections and w the rows.
LEMMA EndRoundKeeps ==
  ASSUME NEW rs, Requests(rs), ~Round(rs), NEW s \in [Panels -> Selection], NEW w,
         Lone(rs, s, w), Dated(rs, w), version \in Nat, cached \in 0 .. version,
         pending \in BOOLEAN, EndRound(rs, s)
  PROVE  /\ Requests(requests') /\ Lone(requests', s, w) /\ Dated(requests', w)
         /\ refreshing' \in BOOLEAN /\ pending' = FALSE
         /\ (refreshing' <=> Round(requests')) /\ RoundOnce(requests')
         /\ RoundPanels(requests') = IF pending THEN Panels ELSE {}
<1>0. RoundOnce(rs) /\ RoundPanels(rs) = {} /\ cached \in Nat
  BY DEF Round, RoundOnce, RoundPanels
<1>1. CASE pending
  <2>1. requests' = Send(rs, Panels, s, "round") /\ refreshing' = TRUE /\ pending' = FALSE
    BY <1>1 DEF EndRound
  <2>2. /\ Requests(Send(rs, Panels, s, "round")) /\ Round(Send(rs, Panels, s, "round"))
        /\ RoundOnce(Send(rs, Panels, s, "round"))
        /\ RoundPanels(Send(rs, Panels, s, "round")) = Panels
    BY <1>0, SendRequests, PanelAssumption
  <2>3. /\ Lone(Send(rs, Panels, s, "round"), s, w)
        /\ Dated(Send(rs, Panels, s, "round"), w)
    BY SendLone
  <2>. QED
    BY <1>1, <2>1, <2>2, <2>3
<1>2. CASE ~pending
  <2>1. requests' = rs /\ refreshing' = FALSE /\ pending' = FALSE
    BY <1>2 DEF EndRound
  <2>. QED
    BY <1>0, <1>2, <2>1
<1>. QED
  BY <1>1, <1>2

\* The other requests when one answer or failure has come in, with the
\* selections and rows after it.
LEMMA RestRequests ==
  ASSUME RequestInv, NEW r \in requests
  PROVE  /\ Requests(requests \ {r}) /\ RoundOnce(requests \ {r})
         /\ r.kind # "round" => RoundPanels(requests \ {r}) = RoundPanels(requests)
         /\ r.kind = "round" => RoundPanels(requests \ {r}) = RoundPanels(requests) \ {r.panel}
<1>1. RoundOnce(requests)
  BY Exact DEF RequestInv
<1>2. Requests(requests \ {r}) /\ RoundOnce(requests \ {r})
  BY <1>1, RemoveRequests DEF RequestInv, RoundOnce
<1>3. CASE r.kind # "round"
  BY <1>2, <1>3 DEF RoundPanels
<1>4. CASE r.kind = "round"
  <2>1. \A x : x \in RoundPanels(requests \ {r})
               <=> \E q \in requests : q # r /\ q.kind = "round" /\ q.panel = x
    BY DEF RoundPanels
  <2>2. \A x : x \in RoundPanels(requests)
               <=> \E q \in requests : q.kind = "round" /\ q.panel = x
    BY DEF RoundPanels
  <2>3. \A q \in requests : q.kind = "round" => (q # r <=> q.panel # r.panel)
    BY <1>1, <1>4 DEF RoundOnce
  <2>4. \A x : x \in RoundPanels(requests \ {r})
               <=> x \in RoundPanels(requests) /\ x # r.panel
    BY <2>1, <2>2, <2>3
  <2>. QED
    BY <1>2, <1>4, <2>4
<1>. QED
  BY <1>3, <1>4

LEMMA AnswerData ==
  ASSUME RequestInv, NEW r \in requests, Answer(r)
  PROVE  /\ DataOK' /\ version' = version /\ cached' = cached
         /\ Lone(requests \ {r}, sel', rows') /\ Dated(requests \ {r}, rows')
<1>1. r \in Request /\ r.panel \in Panels /\ r.sel \in Selection /\ r.since \in Nat
  BY DEF RequestInv, Requests, Request
<1>2. PICK v \in r.since .. version :
         rows' = [rows EXCEPT ![r.panel] = [sel |-> r.sel, version |-> v]]
  BY DEF Answer
<1>3. /\ version' = version /\ cached' = cached
      /\ version \in Nat /\ cached \in 0 .. version /\ v \in Nat /\ v <= version
  BY <1>1 DEF Answer, RequestInv, DataOK
<1>4. rows' \in [Panels -> [sel : Selection, version : Nat] \cup {None}]
  BY <1>1, <1>2, <1>3 DEF RequestInv, DataOK
<1>5. /\ sel' \in [Panels -> Selection]
      /\ \A p \in Panels \ {r.panel} : sel'[p] = sel[p]
  <2>1. CASE r.panel = "log"
    <3>1. sel' = [sel EXCEPT !["log"].page = r.sel.page]
      BY <2>1 DEF Answer
    <3>. QED
      BY <1>1, <2>1, <3>1 DEF RequestInv, DataOK, Selection
  <2>2. CASE r.panel # "log"
    BY <2>2 DEF Answer, RequestInv, DataOK
  <2>. QED
    BY <2>1, <2>2
<1>6. Dated(requests \ {r}, rows')
  <2>1. \A p \in Panels : NotNewer(rows'[p], version)
    BY <1>1, <1>2, <1>3 DEF RequestInv, Dated, DataOK, NotNewer
  <2>. QED
    BY <2>1 DEF RequestInv, Dated
<1>7. Lone(requests \ {r}, sel', rows')
  <2> SUFFICES ASSUME NEW q \in requests \ {r}, q.alone
               PROVE  /\ \A b \in requests \ {r} : b.panel = q.panel => b = q
                      /\ q.sel = sel'[q.panel]
                      /\ q.panel = "log" => NotNewer(rows'["log"], q.since)
    BY DEF Lone
  <2>1. /\ \A b \in requests : b.panel = q.panel => b = q
        /\ q.sel = sel[q.panel]
        /\ q.panel = "log" => NotNewer(rows["log"], q.since)
    BY DEF RequestInv, Lone
  <2>2. q.panel \in Panels \ {r.panel}
    BY <2>1 DEF RequestInv, Requests, Request
  <2>3. rows'[q.panel] = rows[q.panel]
    BY <1>2, <2>2 DEF RequestInv, DataOK
  <2>. QED
    BY <1>5, <2>1, <2>2, <2>3
<1>. QED
  BY <1>3, <1>4, <1>5, <1>6, <1>7 DEF DataOK

\* An answer or failure of r leaves the round as it is, takes r's panel from
\* it, or ends it.
Comes(r) ==
  \/ /\ requests' = requests \ {r} /\ refreshing' = refreshing /\ pending' = pending
     /\ \/ r.kind # "round"
        \/ r.kind = "round" /\ RoundPanels(requests') # {}
  \/ /\ r.kind = "round"
     /\ \E rs : /\ rs \in {requests \ {r}, GiveUp(requests \ {r})}
                /\ ~Round(rs) /\ EndRound(rs, sel')

LEMMA AnswerComes ==
  ASSUME RequestInv, NEW r \in requests, Answer(r) \/ Fail(r)
  PROVE  Comes(r) /\ auto' = auto /\ visible' = visible
<1> DEFINE rest == requests \ {r}
           last == r.kind = "round" /\ \A q \in rest : q.kind # "round"
<1>1. last \/ r.kind # "round" \/ (r.kind = "round" /\ RoundPanels(rest) # {})
  BY DEF RoundPanels
<1>2. last => ~Round(rest)
  BY DEF Round
<1>3. ~Round(GiveUp(rest))
  BY RestRequests, GiveUpRequests
<1>4. CASE Answer(r)
  <2>1. IF last THEN EndRound(rest, sel')
        ELSE requests' = rest /\ refreshing' = refreshing /\ pending' = pending
    BY <1>4 DEF Answer
  <2>2. auto' = auto /\ visible' = visible
    BY <1>4 DEF Answer, page
  <2>3. CASE last
    <3>1. r.kind = "round" /\ ~Round(rest) /\ EndRound(rest, sel')
      BY <1>2, <2>1, <2>3
    <3>. QED
      BY <2>2, <3>1 DEF Comes
  <2>4. CASE ~last
    <3>1. requests' = rest /\ refreshing' = refreshing /\ pending' = pending
      BY <2>1, <2>4
    <3>2. r.kind # "round" \/ (r.kind = "round" /\ RoundPanels(rest) # {})
      BY <1>1, <2>4
    <3> HIDE DEF last
    <3>. QED
      BY <2>2, <3>1, <3>2 DEF Comes
  <2>. QED
    BY <2>3, <2>4
<1>5. CASE Fail(r)
  <2>1. /\ \/ r.kind = "round" /\ r.panel # "log" /\ EndRound(GiveUp(rest), sel)
           \/ last /\ r.panel = "log" /\ EndRound(rest, sel)
           \/ /\ r.kind # "round" \/ (r.panel = "log" /\ ~last)
              /\ requests' = rest /\ refreshing' = refreshing /\ pending' = pending
        /\ auto' = auto /\ visible' = visible /\ sel' = sel
    BY <1>5 DEF Fail, page, data
  <2>2. CASE r.kind = "round" /\ r.panel # "log" /\ EndRound(GiveUp(rest), sel)
    BY <1>3, <2>1, <2>2 DEF Comes
  <2>3. CASE last /\ r.panel = "log" /\ EndRound(rest, sel)
    BY <1>2, <2>1, <2>3 DEF Comes
  <2>4. CASE /\ r.kind # "round" \/ (r.panel = "log" /\ ~last)
             /\ requests' = rest /\ refreshing' = refreshing /\ pending' = pending
    <3>1. r.kind # "round" \/ (r.kind = "round" /\ RoundPanels(rest) # {})
      BY <1>1, <2>4
    <3>2. requests' = rest /\ refreshing' = refreshing /\ pending' = pending
      BY <2>4
    <3> HIDE DEF last
    <3>. QED
      BY <2>1, <3>1, <3>2 DEF Comes
  <2>. QED
    BY <2>1, <2>2, <2>3, <2>4
<1>. QED
  BY <1>4, <1>5

\* What the coordinator has after an answer or failure of r, and what that
\* means for the round.
LEMMA ComesKeeps ==
  ASSUME RequestInv, NEW r \in requests, Comes(r), sel' \in [Panels -> Selection], NEW w,
         Lone(requests \ {r}, sel', w), Dated(requests \ {r}, w)
  PROVE  /\ Requests(requests') /\ Lone(requests', sel', w) /\ Dated(requests', w)
         /\ refreshing' \in BOOLEAN /\ pending' \in BOOLEAN
         /\ (refreshing' <=> Round(requests')) /\ RoundOnce(requests')
         /\ pending' => pending /\ refreshing'
         /\ \/ RoundPanels(requests') = RoundPanels(requests) /\ pending' = pending
            \/ /\ RoundPanels(requests') = RoundPanels(requests) \ {r.panel}
               /\ r.panel \in RoundPanels(requests) /\ RoundPanels(requests') # {}
               /\ pending' = pending
            \/ /\ RoundPanels(requests) # {} /\ pending' = FALSE
               /\ RoundPanels(requests') = IF pending THEN Panels ELSE {}
<1> DEFINE rest == requests \ {r}
<1>1. /\ Requests(rest) /\ RoundOnce(rest)
      /\ r.kind # "round" => RoundPanels(rest) = RoundPanels(requests)
      /\ r.kind = "round" => RoundPanels(rest) = RoundPanels(requests) \ {r.panel}
  BY RestRequests
<1>2. /\ refreshing \in BOOLEAN /\ pending \in BOOLEAN /\ (refreshing <=> Round(requests))
      /\ pending => refreshing
      /\ version \in Nat /\ cached \in 0 .. version
  BY Exact DEF RequestInv, DataOK
<1>3. r.kind = "round" => r.panel \in RoundPanels(requests)
  BY DEF RoundPanels
<1>4. \A rs : Round(rs) <=> RoundPanels(rs) # {}
  BY DEF Round, RoundPanels
<1>5. CASE /\ requests' = rest /\ refreshing' = refreshing /\ pending' = pending
           /\ r.kind # "round" \/ (r.kind = "round" /\ RoundPanels(requests') # {})
  <2>1. Round(rest) <=> Round(requests)
    BY <1>1, <1>3, <1>4, <1>5
  <2> HIDE DEF rest
  <2>. QED
    BY <1>1, <1>2, <1>3, <1>5, <2>1 DEF rest
<1>6. CASE r.kind = "round" /\ \E rs : /\ rs \in {rest, GiveUp(rest)}
                                       /\ ~Round(rs) /\ EndRound(rs, sel')
  <2>1. PICK rs : rs \in {rest, GiveUp(rest)} /\ ~Round(rs) /\ EndRound(rs, sel')
    BY <1>6
  <2>2. Requests(rs) /\ Lone(rs, sel', w) /\ Dated(rs, w)
    BY <1>1, <2>1, GiveUpRequests, GiveUpLone
  <2>3. /\ Requests(requests') /\ Lone(requests', sel', w) /\ Dated(requests', w)
        /\ refreshing' \in BOOLEAN /\ pending' = FALSE
        /\ (refreshing' <=> Round(requests')) /\ RoundOnce(requests')
        /\ RoundPanels(requests') = IF pending THEN Panels ELSE {}
    BY <1>2, <2>1, <2>2, EndRoundKeeps
  <2>. QED
    BY <1>3, <1>6, <2>3
<1>. QED
  BY <1>5, <1>6 DEF Comes

LEMMA AnswerKeeps ==
  ASSUME RequestInv, NEW r \in requests, Answer(r) \/ Fail(r)
  PROVE  RequestInv'
<1>1. /\ DataOK' /\ version' = version
      /\ Lone(requests \ {r}, sel', rows') /\ Dated(requests \ {r}, rows')
  <2>1. CASE Answer(r)
    BY <2>1, AnswerData
  <2>2. CASE Fail(r)
    <3>1. version' = version /\ cached' = cached /\ sel' = sel /\ rows' = rows
      BY <2>2 DEF Fail, data
    <3>2. DataOK'
      BY <3>1 DEF RequestInv, DataOK
    <3>3. Lone(requests \ {r}, sel, rows) /\ Dated(requests \ {r}, rows)
      BY RestLone DEF RequestInv
    <3>. QED
      BY <3>1, <3>2, <3>3
  <2>. QED
    BY <2>1, <2>2
<1>2. Comes(r) /\ auto' = auto /\ visible' = visible
  BY AnswerComes
<1>3. sel' \in [Panels -> Selection]
  BY <1>1 DEF DataOK
<1>4. /\ Requests(requests') /\ Lone(requests', sel', rows') /\ Dated(requests', rows')
      /\ refreshing' \in BOOLEAN /\ pending' \in BOOLEAN
      /\ (refreshing' <=> Round(requests')) /\ RoundOnce(requests')
      /\ pending' => pending /\ refreshing'
  BY <1>1, <1>2, <1>3, ComesKeeps
<1>5. /\ auto \in BOOLEAN /\ visible \in BOOLEAN
      /\ pending => auto /\ visible
  BY Exact DEF RequestInv
<1>6. /\ \A q \in requests' : q.since <= version'
      /\ \A p \in Panels : NotNewer(rows'[p], version')
  BY <1>1, <1>4 DEF Dated
<1>. QED
  BY <1>1, <1>2, <1>4, <1>5, <1>6, Rejoin

LEMMA ChooseKeeps ==
  ASSUME RequestInv, NEW p \in Panels, NEW s \in Selection, Choose(p, s)
  PROVE  RequestInv' /\ RoundPanels(requests') = RoundPanels(requests)
<1> DEFINE sent == Send(requests, {p}, sel', "user")
<1>1. /\ requests' = sent /\ sel' = [sel EXCEPT ![p] = s]
      /\ version' = version /\ cached' = cached /\ rows' = rows
      /\ refreshing' = refreshing /\ pending' = pending
      /\ auto' = auto /\ visible' = visible
  BY DEF Choose, page
<1>2. DataOK' /\ version \in Nat /\ cached \in 0 .. version /\ cached \in Nat
  BY <1>1 DEF RequestInv, DataOK
<1>3. sel' \in [Panels -> Selection] /\ \A q \in Panels \ {p} : sel'[q] = sel[q]
  BY <1>1, <1>2 DEF RequestInv, DataOK
<1>4. /\ refreshing \in BOOLEAN /\ pending \in BOOLEAN /\ auto \in BOOLEAN /\ visible \in BOOLEAN
      /\ (refreshing <=> Round(requests)) /\ RoundOnce(requests)
      /\ pending => refreshing /\ auto /\ visible
  BY Exact DEF RequestInv
<1>5. {p} \in SUBSET Panels /\ "user" # "round"
  OBVIOUS
<1>6. /\ Requests(sent) /\ (Round(sent) <=> Round(requests))
      /\ RoundOnce(sent) /\ RoundPanels(sent) = RoundPanels(requests)
  <2>1. /\ Requests(requests) /\ "user" \in {"round", "past", "user"}
    BY DEF RequestInv
  <2>2. /\ Requests(sent) /\ (Round(sent) <=> Round(requests) \/ ("user" = "round" /\ {p} # {}))
        /\ RoundOnce(requests) /\ ("user" = "round" => ~Round(requests)) => RoundOnce(sent)
        /\ RoundPanels(sent) = RoundPanels(requests) \cup (IF "user" = "round" THEN {p} ELSE {})
    BY <1>2, <1>3, <1>5, <2>1, SendRequests
  <2> HIDE DEF sent
  <2>. QED
    BY <1>4, <1>5, <2>2
<1>7. Lone(sent, sel', rows) /\ Dated(sent, rows)
  <2>1. Requests(requests) /\ Lone(requests, sel, rows) /\ Dated(requests, rows)
    BY DEF RequestInv
  <2> HIDE DEF sent
  <2>. QED
    BY <1>2, <1>3, <1>5, <2>1, SendLone DEF sent
<1> HIDE DEF sent
<1>8. /\ \A r \in requests' : r.since <= version'
      /\ \A q \in Panels : NotNewer(rows'[q], version')
  BY <1>1, <1>7 DEF Dated
<1>9. Requests(requests') /\ Lone(requests', sel', rows')
  BY <1>1, <1>6, <1>7
<1>10. /\ refreshing' \in BOOLEAN /\ pending' \in BOOLEAN /\ auto' \in BOOLEAN
       /\ visible' \in BOOLEAN /\ (refreshing' <=> Round(requests')) /\ RoundOnce(requests')
       /\ pending' => refreshing' /\ auto' /\ visible'
  BY <1>1, <1>4, <1>6
<1>11. RequestInv'
  BY <1>2, <1>8, <1>9, <1>10, Rejoin
<1>. QED
  BY <1>1, <1>6, <1>11

LEMMA RequestInit == Init => RequestInv
<1> SUFFICES ASSUME Init PROVE RequestInv
  OBVIOUS
<1> DEFINE first == Send({}, Panels, sel, "round")
<1>1. DataOK
  BY SelectionAssumption DEF Init, DataOK, Selection
<1>2. /\ Requests({}) /\ ~Round({}) /\ RoundOnce({})
      /\ Lone({}, sel, rows) /\ Dated({}, rows)
  BY FS_EmptySet DEF Init, Requests, Unique, Round, RoundOnce, Lone, Dated, NotNewer
<1>3. version \in Nat /\ cached \in Nat /\ cached \in 0 .. version
  BY DEF Init
<1>4. Requests(first) /\ Round(first) /\ RoundOnce(first)
  BY <1>1, <1>2, <1>3, SendRequests, PanelAssumption DEF DataOK
<1>5. Lone(first, sel, rows) /\ Dated(first, rows)
  BY <1>1, <1>2, <1>3, SendLone DEF DataOK
<1>6. /\ requests = first /\ refreshing = TRUE /\ pending = FALSE
      /\ auto = TRUE /\ visible \in BOOLEAN
  BY DEF Init
<1> HIDE DEF first
<1>7. CoordinatorExact
  BY <1>4, <1>6, Exact
<1>. QED
  BY <1>1, <1>4, <1>5, <1>6, <1>7 DEF RequestInv

LEMMA RequestStep == RequestInv /\ [Next]_vars => RequestInv'
<1> SUFFICES ASSUME RequestInv, [Next]_vars PROVE RequestInv'
  OBVIOUS
<1>0. /\ refreshing \in BOOLEAN /\ pending \in BOOLEAN /\ auto \in BOOLEAN /\ visible \in BOOLEAN
      /\ (refreshing <=> Round(requests)) /\ RoundOnce(requests)
      /\ pending => refreshing /\ auto /\ visible
  BY Exact DEF RequestInv
<1>1. ASSUME UNCHANGED <<data, requests, refreshing>>, pending' \in BOOLEAN,
             auto' \in BOOLEAN, visible' \in BOOLEAN,
             pending' => pending /\ auto' /\ visible'
      PROVE  RequestInv'
  <2>1. /\ version' = version /\ cached' = cached /\ sel' = sel /\ rows' = rows
        /\ requests' = requests /\ refreshing' = refreshing
    BY <1>1 DEF data
  <2>2. DataOK'
    BY <2>1 DEF RequestInv, DataOK
  <2>3. /\ Requests(requests) /\ Lone(requests, sel, rows)
        /\ \A r \in requests : r.since <= version
        /\ \A p \in Panels : NotNewer(rows[p], version)
    BY DEF RequestInv, Dated
  <2>. QED
    BY <1>0, <1>1, <2>1, <2>2, <2>3, Rejoin
<1>2. ASSUME UNCHANGED <<data, coordinator, auto, visible>> PROVE RequestInv'
  BY <1>0, <1>1, <1>2 DEF coordinator
<1>3. ASSUME AskAutomatic(auto, visible'), UNCHANGED <<data, auto>>, visible' \in BOOLEAN,
             visible => visible'
      PROVE  RequestInv'
  <2>1. CASE Interval(auto, Connected, visible') # "none"
    <3>1. auto /\ visible' /\ Ask
      BY <1>3, <2>1 DEF Interval, AskAutomatic
    <3>. QED
      BY <1>0, <1>3, <3>1, AskKeeps
  <2>2. CASE Interval(auto, Connected, visible') = "none"
    <3>1. UNCHANGED coordinator
      BY <1>3, <2>2 DEF AskAutomatic
    <3>. QED
      BY <1>0, <1>1, <1>3, <3>1 DEF coordinator
  <2>. QED
    BY <2>1, <2>2
<1>4. CASE \E p \in Panels, s \in Selection : Choose(p, s)
  BY <1>4, ChooseKeeps
<1>5. CASE Refresh
  <2>1. Ask /\ UNCHANGED <<data, auto>> /\ visible' = visible /\ ~refreshing
    BY <1>5 DEF Refresh, page
  <2>. QED
    BY <1>0, <2>1, AskKeeps
<1>6. CASE SwitchAuto
  <2>1. /\ UNCHANGED <<data, requests, refreshing>>
        /\ auto' = ~auto /\ visible' = visible /\ visible
        /\ pending' = (pending /\ auto')
    BY <1>6 DEF SwitchAuto
  <2>. QED
    BY <1>0, <1>1, <2>1
<1>7. CASE Hide
  <2>1. /\ UNCHANGED <<data, requests, refreshing>>
        /\ auto' = auto /\ visible' = FALSE /\ pending' = FALSE
    BY <1>7 DEF Hide
  <2>. QED
    BY <1>0, <1>1, <2>1
<1>8. CASE Show
  <2>1. AskAutomatic(auto, visible') /\ visible' = TRUE /\ UNCHANGED <<data, auto>>
    BY <1>8 DEF Show, AskAutomatic, Interval, Connected
  <2>. QED
    BY <1>3, <2>1
<1>9. CASE Unmount
  BY <1>2, <1>9 DEF Unmount
<1>10. CASE Change \/ Expire
  <2>1. /\ version \in Nat /\ cached \in 0 .. version
        /\ version' \in Nat /\ version' >= version /\ cached' \in 0 .. version'
    BY <1>10 DEF RequestInv, DataOK, Change, Expire
  <2>2. /\ sel' = sel /\ rows' = rows /\ requests' = requests /\ refreshing' = refreshing
        /\ pending' = pending /\ auto' = auto /\ visible' = visible
    BY <1>10 DEF Change, Expire, coordinator, page
  <2>3. DataOK'
    BY <2>1, <2>2 DEF RequestInv, DataOK
  <2>4. /\ \A r \in requests' : r.since <= version'
        /\ \A p \in Panels : NotNewer(rows'[p], version')
    <3>1. \A r \in requests : r.since \in Nat /\ r.since <= version
      BY DEF RequestInv, Requests, Request, Dated
    <3>2. \A p \in Panels : rows[p] # None => rows[p].version \in Nat
      BY DEF RequestInv, DataOK
    <3>3. \A p \in Panels : NotNewer(rows[p], version)
      BY DEF RequestInv, Dated
    <3>. QED
      BY <2>1, <2>2, <3>1, <3>2, <3>3 DEF NotNewer
  <2>5. Requests(requests) /\ Lone(requests, sel, rows)
    BY DEF RequestInv
  <2>. QED
    BY <1>0, <2>2, <2>3, <2>4, <2>5, Rejoin
<1>11. CASE \E r \in requests : Answer(r) \/ Fail(r)
  BY <1>11, AnswerKeeps
<1>12. CASE SocketOpens \/ SocketCloses \/ Reconnect
  BY <1>2, <1>12 DEF SocketOpens, SocketCloses, Reconnect, Status
<1>13. CASE Event \/ Tick
  <2>1. AskAutomatic(auto, visible') /\ UNCHANGED <<data, auto>> /\ visible' = visible
    BY <1>13 DEF Event, Tick, page, AskAutomatic, Interval, Connected
  <2>. QED
    BY <1>0, <1>3, <2>1
<1>14. CASE UNCHANGED vars
  BY <1>2, <1>14 DEF vars, page
<1>. QED
  BY <1>4, <1>5, <1>6, <1>7, <1>8, <1>9, <1>10, <1>11, <1>12, <1>13, <1>14
  DEF Next, User, Network

LEMMA RequestCorrect == Spec => []RequestInv
  BY RequestInit, RequestStep, PTL DEF Spec

\* The refresh flags agree with the requests under way, so that no refresh is
\* swallowed for good (refreshCoordinator.ts:13-32, OmmsDashboard.vue:426-443).
THEOREM CoordinatorCorrect == Spec => []CoordinatorExact
<1>1. RequestInv => CoordinatorExact
  BY DEF RequestInv
<1>. QED
  BY <1>1, RequestCorrect, PTL

\* An answer to the only request of its panel shows the current selection, and
\* the logs it shows are never older than those shown before
\* (OmmsDashboard.vue:451-522, 530-594).
THEOREM LoneAnswerCorrect == Spec => LoneAnswerIsCurrent
<1> DEFINE Good(r) ==
      /\ rows'[r.panel].sel = sel[r.panel]
      /\ r.panel = "log" /\ rows["log"] # None => rows'["log"].version >= rows["log"].version
<1>1. ASSUME RequestInv, [Next]_vars, NEW r \in requests, r.alone, rows'[r.panel] # rows[r.panel]
      PROVE  Good(r)
  <2>1. CASE \E a \in requests : Answer(a)
    <3>1. PICK a \in requests : Answer(a)
      BY <2>1
    <3>2. PICK v \in a.since .. version :
            rows' = [rows EXCEPT ![a.panel] = [sel |-> a.sel, version |-> v]]
      BY <3>1 DEF Answer
    <3>3. /\ a.panel \in Panels /\ r.panel \in Panels /\ r.since \in Nat
          /\ rows \in [Panels -> [sel : Selection, version : Nat] \cup {None}]
          /\ version \in Nat
      BY <1>1 DEF RequestInv, Requests, Request, DataOK
    <3>4. r.panel = a.panel
      BY <1>1, <3>2, <3>3
    <3>5. /\ a = r /\ r.sel = sel[r.panel]
          /\ r.panel = "log" /\ rows["log"] # None => rows["log"].version <= r.since
      BY <1>1, <3>4 DEF RequestInv, Lone, NotNewer
    <3>6. rows'[r.panel].sel = r.sel /\ rows'[r.panel].version = v
      BY <3>2, <3>3, <3>5
    <3>7. rows[r.panel] # None => rows[r.panel].version \in Nat
      BY <3>3
    <3>8. v \in Nat /\ v >= r.since
      BY <3>3, <3>5
    <3>. QED
      BY <3>3, <3>5, <3>6, <3>7, <3>8
  <2>2. CASE ~\E a \in requests : Answer(a)
    <3>1. rows' = rows
      BY <1>1, <2>2
      DEF Next, User, Network, vars, data, Choose, Refresh, SwitchAuto, Hide, Show, Unmount,
          Change, Expire, Fail, SocketOpens, SocketCloses, Reconnect, Event, Tick, Status
    <3>. QED
      BY <1>1, <3>1
  <2>. QED
    BY <2>1, <2>2
<1>2. RequestInv /\ [Next]_vars =>
        [\A r \in requests \ requests' :
           r.alone /\ rows'[r.panel] # rows[r.panel] => Good(r)]_vars
  BY <1>1
<1>. QED
  BY <1>2, RequestCorrect, PTL DEF Spec, LoneAnswerIsCurrent

-----------------------------------------------------------------------------
(* The timer.                                                              *)

PageInv ==
  /\ auto \in BOOLEAN /\ visible \in BOOLEAN /\ mounted \in BOOLEAN
  /\ timer \in {"none", "fallback", "reconcile"}
  /\ socket \in {"connecting", "open", "waiting", "closed"}
  /\ mounted <=> socket # "closed"
  /\ TimerMatchesMode

LEMMA PageInit == Init => PageInv
  BY DEF Init, PageInv, TimerMatchesMode, Interval, Connected

LEMMA PageStep == PageInv /\ [Next]_vars => PageInv'
<1> SUFFICES ASSUME PageInv, [Next]_vars PROVE PageInv'
  OBVIOUS
<1>1. ASSUME UNCHANGED page PROVE PageInv'
  BY <1>1 DEF page, PageInv, TimerMatchesMode, Connected
<1>2. ASSUME NEW connected \in BOOLEAN, Status(connected), mounted,
             socket' \in {"open", "waiting"}, connected = (socket' = "open")
      PROVE  PageInv'
  BY <1>2 DEF Status, PageInv, TimerMatchesMode, Interval, Connected
<1>3. CASE \E p \in Panels, s \in Selection : Choose(p, s)
  BY <1>1, <1>3 DEF Choose
<1>4. CASE Refresh
  BY <1>1, <1>4 DEF Refresh
<1>5. CASE SwitchAuto
  BY <1>5 DEF SwitchAuto, PageInv, TimerMatchesMode, StartTimer, Interval, Connected
<1>6. CASE Hide
  BY <1>6 DEF Hide, PageInv, TimerMatchesMode, Interval, Connected
<1>7. CASE Show
  BY <1>7 DEF Show, PageInv, TimerMatchesMode, StartTimer, Interval, Connected
<1>8. CASE Unmount
  BY <1>8 DEF Unmount, PageInv, TimerMatchesMode
<1>9. CASE Change \/ Expire
  BY <1>1, <1>9 DEF Change, Expire
<1>10. CASE \E r \in requests : Answer(r) \/ Fail(r)
  BY <1>1, <1>10 DEF Answer, Fail
<1>11. CASE SocketOpens
  BY <1>2, <1>11 DEF SocketOpens, PageInv
<1>12. CASE SocketCloses
  BY <1>2, <1>12 DEF SocketCloses, PageInv
<1>13. CASE Reconnect
  BY <1>13 DEF Reconnect, PageInv, TimerMatchesMode, Interval, Connected
<1>14. CASE Event
  BY <1>1, <1>14 DEF Event
<1>15. CASE Tick
  BY <1>1, <1>15 DEF Tick
<1>16. CASE UNCHANGED vars
  BY <1>1, <1>16 DEF vars
<1>. QED
  BY <1>3, <1>4, <1>5, <1>6, <1>7, <1>8, <1>9, <1>10, <1>11, <1>12, <1>13, <1>14, <1>15, <1>16
  DEF Next, User, Network

LEMMA PageCorrect == Spec => []PageInv
  BY PageInit, PageStep, PTL DEF Spec

\* The timer runs at the rate of the mode the page is in, and not at all once
\* the page is gone (OmmsDashboard.vue:341-361, 616-681).
THEOREM TimerCorrect == Spec => []TimerMatchesMode
<1>1. PageInv => TimerMatchesMode
  BY DEF PageInv
<1>. QED
  BY <1>1, PageCorrect, PTL

-----------------------------------------------------------------------------
(* The budgets, and with them the types.                                   *)

BudgetInv ==
  /\ version \in 0 .. MaxVersion /\ cached \in 0 .. version
  /\ choices \in 0 .. MaxChoices /\ failures \in 0 .. MaxFailures

LEMMA BudgetCorrect == Spec => []BudgetInv
<1>1. Init => BudgetInv
  BY BoundAssumption DEF Init, BudgetInv
<1>2. BudgetInv /\ [Next]_vars => BudgetInv'
  <2> SUFFICES ASSUME BudgetInv, [Next]_vars PROVE BudgetInv'
    OBVIOUS
  <2>1. ASSUME UNCHANGED <<version, cached, choices, failures>> PROVE BudgetInv'
    BY <2>1 DEF BudgetInv
  <2>2. CASE \E p \in Panels, s \in Selection : Choose(p, s)
    BY <2>2, BoundAssumption DEF BudgetInv, Choose
  <2>3. CASE Change \/ Expire
    BY <2>3, BoundAssumption DEF BudgetInv, Change, Expire, budget
  <2>4. CASE \E r \in requests : Answer(r)
    BY <2>1, <2>4 DEF Answer, budget
  <2>5. CASE \E r \in requests : Fail(r)
    BY <2>5, BoundAssumption DEF BudgetInv, Fail, data
  <2>6. CASE Refresh \/ SwitchAuto \/ Hide \/ Show \/ Unmount \/ Tick
    BY <2>1, <2>6 DEF Refresh, SwitchAuto, Hide, Show, Unmount, Tick, data, budget
  <2>7. CASE SocketOpens \/ SocketCloses \/ Reconnect \/ Event
    BY <2>1, <2>7 DEF SocketOpens, SocketCloses, Reconnect, Event, Status, data, budget
  <2>8. CASE UNCHANGED vars
    BY <2>1, <2>8 DEF vars, data, budget
  <2>. QED
    BY <2>2, <2>3, <2>4, <2>5, <2>6, <2>7, <2>8 DEF Next, User, Network
<1>. QED
  BY <1>1, <1>2, PTL DEF Spec

\* Every reachable state of the page is well typed; in particular no two
\* requests under way are confused (OmmsDashboard.vue:214-232).
THEOREM TypeCorrect == Spec => []TypeOK
<1>1. RequestInv /\ PageInv /\ BudgetInv => TypeOK
  BY DEF RequestInv, DataOK, Requests, Unique, PageInv, BudgetInv, TypeOK
<1>. QED
  BY <1>1, RequestCorrect, PageCorrect, BudgetCorrect, PTL

-----------------------------------------------------------------------------
(* The page implements the refresh coordinator's promise.                  *)

\* A step of the coordinator: from L to M a round waits for, from a to b it is
\* automatic.
RoundStep(L, M, a, b) ==
  \/ /\ L = {} /\ M = Panels /\ pending' = pending
     /\ a = b \/ (~a /\ b)
  \/ /\ L # {} /\ M = L /\ pending' = TRUE /\ b
     /\ a = b \/ ~a
  \/ \E p \in L : M = L \ {p} /\ M # {} /\ pending' = pending /\ a = b
  \/ L # {} /\ M = (IF pending THEN Panels ELSE {}) /\ pending' = FALSE /\ a = b
  \/ M = L /\ pending' = FALSE /\ a /\ ~b
  \/ M = L /\ pending' = pending /\ (~a \/ b)

LEMMA RoundStepImplements ==
  ASSUME pending \in BOOLEAN, pending' \in BOOLEAN,
         auto \in BOOLEAN, visible \in BOOLEAN, auto' \in BOOLEAN, visible' \in BOOLEAN,
         RoundStep(RoundPanels(requests), RoundPanels(requests'),
                   auto /\ visible, auto' /\ visible')
  PROVE  [Rounds!Next]_(Rounds!vars)
<1> DEFINE L == {r.panel : r \in RoundRequests}
           a == auto /\ visible
<1>1. L = RoundPanels(requests) /\ L' = RoundPanels(requests')
  BY DEF RoundRequests, RoundPanels
<1>2. a \in BOOLEAN /\ a' \in BOOLEAN /\ (a' <=> auto' /\ visible')
  OBVIOUS
<1>3. RoundStep(L, L', a, a')
  BY <1>1
<1> HIDE DEF L, a
<1>4. \/ /\ L = {} /\ L' = Panels /\ pending' = pending
         /\ a' = a \/ (a = FALSE /\ a' = TRUE)
      \/ /\ L # {} /\ L' = L /\ pending' = TRUE /\ a'
         /\ a' = a \/ (a = FALSE /\ a' = TRUE)
      \/ (\E p \in L : L' = L \ {p}) /\ L' # {} /\ pending' = pending /\ a' = a
      \/ L # {} /\ L' = (IF pending THEN Panels ELSE {}) /\ pending' = FALSE /\ a' = a
      \/ L' = L /\ pending' = FALSE /\ a = TRUE /\ a' = FALSE
      \/ L' = L /\ pending' = pending /\ a' = a
      \/ L' = L /\ pending' = pending /\ a = FALSE /\ a' = TRUE
  BY <1>2, <1>3 DEF RoundStep
<1>5. [\/ (\/ L = {} /\ L' = Panels /\ UNCHANGED pending
           \/ L # {} /\ a' /\ pending' = TRUE /\ UNCHANGED L) /\ UNCHANGED a
       \/ /\ \E p \in L : L' = L \ {p}
          /\ L' # {}
          /\ UNCHANGED <<pending, a>>
       \/ /\ L # {}
          /\ L' = IF pending THEN Panels ELSE {}
          /\ pending' = FALSE
          /\ UNCHANGED a
       \/ a /\ a' = FALSE /\ pending' = FALSE /\ UNCHANGED L
       \/ /\ ~a /\ a' = TRUE
          /\ \/ (\/ L = {} /\ L' = Panels /\ UNCHANGED pending
                 \/ L # {} /\ a' /\ pending' = TRUE /\ UNCHANGED L)
             \/ UNCHANGED <<L, pending>>]_<<L, pending, a>>
  BY <1>4
<1>. QED
  BY <1>5 DEF L, a, Rounds!Next, Rounds!Request, Rounds!Ask, Rounds!Progress, Rounds!End,
              Rounds!Leave, Rounds!Enter, Rounds!vars

\* What asking does for the round.
LEMMA AskRoundStep ==
  ASSUME RequestInv, Ask, refreshing => auto' /\ visible', auto' \in BOOLEAN, visible' \in BOOLEAN,
         auto' = auto, visible' = visible \/ (~visible /\ visible')
  PROVE  /\ RoundStep(RoundPanels(requests), RoundPanels(requests'),
                      auto /\ visible, auto' /\ visible')
         /\ pending' \in BOOLEAN
<1>1. /\ refreshing \in BOOLEAN /\ pending \in BOOLEAN /\ auto \in BOOLEAN /\ visible \in BOOLEAN
      /\ (refreshing <=> Round(requests)) /\ (pending => refreshing)
      /\ version \in Nat /\ cached \in Nat
  BY Exact DEF RequestInv, DataOK
<1>2. Round(requests) <=> RoundPanels(requests) # {}
  BY DEF Round, RoundPanels
<1>3. CASE refreshing
  <2>1. requests' = requests /\ pending' = TRUE
    BY <1>3 DEF Ask
  <2>. QED
    BY <1>1, <1>2, <1>3, <2>1 DEF RoundStep
<1>4. CASE ~refreshing
  <2> DEFINE sent == Send(requests, Panels, sel, "round")
  <2>1. requests' = sent /\ pending' = FALSE /\ pending = FALSE
    BY <1>1, <1>4 DEF Ask
  <2>2. RoundPanels(sent) = RoundPanels(requests) \cup Panels
    BY <1>1, SendRequests DEF RequestInv, DataOK
  <2>3. RoundPanels(requests) = {} /\ RoundPanels(sent) = Panels
    BY <1>1, <1>2, <1>4, <2>2
  <2> HIDE DEF sent
  <2>. QED
    BY <1>1, <2>1, <2>3 DEF RoundStep
<1>. QED
  BY <1>1, <1>3, <1>4

LEMMA DashboardStep ==
  ASSUME RequestInv, RequestInv', [Next]_vars
  PROVE  RoundStep(RoundPanels(requests), RoundPanels(requests'),
                   auto /\ visible, auto' /\ visible')
<1>1. /\ pending \in BOOLEAN /\ auto \in BOOLEAN /\ visible \in BOOLEAN
      /\ pending' \in BOOLEAN /\ auto' \in BOOLEAN /\ visible' \in BOOLEAN
      /\ pending => auto /\ visible
  BY Exact DEF RequestInv
<1> DEFINE Goal == RoundStep(RoundPanels(requests), RoundPanels(requests'),
                             auto /\ visible, auto' /\ visible')
<1>2. ASSUME UNCHANGED <<coordinator, auto, visible>> PROVE Goal
  BY <1>2 DEF coordinator, RoundStep
<1>3. ASSUME AskAutomatic(auto, visible'), auto' = auto,
             visible' = visible \/ (~visible /\ visible')
      PROVE  Goal
  <2>1. CASE Interval(auto, Connected, visible') # "none"
    <3>1. auto /\ visible' /\ Ask
      BY <1>3, <2>1 DEF Interval, AskAutomatic
    <3>. QED
      BY <1>1, <1>3, <3>1, AskRoundStep
  <2>2. CASE Interval(auto, Connected, visible') = "none"
    <3>1. requests' = requests /\ pending' = pending /\ ~(auto /\ visible')
      BY <1>1, <1>3, <2>2 DEF AskAutomatic, Interval, coordinator
    <3>. QED
      BY <1>1, <1>3, <3>1 DEF RoundStep
  <2>. QED
    BY <2>1, <2>2
<1>4. CASE \E p \in Panels, s \in Selection : Choose(p, s)
  <2>1. PICK p \in Panels, s \in Selection : Choose(p, s)
    BY <1>4
  <2>2. RoundPanels(requests') = RoundPanels(requests)
    BY <2>1, ChooseKeeps
  <2>3. pending' = pending /\ auto' = auto /\ visible' = visible
    BY <2>1 DEF Choose, page
  <2>. QED
    BY <1>1, <2>2, <2>3 DEF RoundStep
<1>5. CASE Refresh
  <2>1. Ask /\ auto' = auto /\ visible' = visible /\ ~refreshing
    BY <1>5 DEF Refresh, page
  <2>. QED
    BY <1>1, <2>1, AskRoundStep
<1>6. CASE SwitchAuto
  <2>1. requests' = requests /\ auto' = ~auto /\ visible' = visible /\ visible
        /\ pending' = (pending /\ auto')
    BY <1>6 DEF SwitchAuto
  <2>. QED
    BY <1>1, <2>1 DEF RoundStep
<1>7. CASE Hide
  <2>1. requests' = requests /\ auto' = auto /\ visible' = FALSE /\ visible /\ pending' = FALSE
    BY <1>7 DEF Hide
  <2>2. auto \/ pending' = pending
    BY <1>1, <2>1
  <2>. QED
    BY <1>1, <2>1, <2>2 DEF RoundStep
<1>8. CASE Show
  <2>1. AskAutomatic(auto, visible') /\ visible' = TRUE /\ ~visible /\ auto' = auto
    BY <1>8 DEF Show, AskAutomatic, Interval, Connected
  <2>. QED
    BY <1>3, <2>1
<1>9. CASE \/ Unmount \/ Change \/ Expire \/ SocketOpens \/ SocketCloses \/ Reconnect
           \/ UNCHANGED vars
  BY <1>2, <1>9 DEF Unmount, Change, Expire, SocketOpens, SocketCloses, Reconnect, Status,
                    page, vars
<1>10. CASE \E r \in requests : Answer(r) \/ Fail(r)
  <2>1. PICK r \in requests : Answer(r) \/ Fail(r)
    BY <1>10
  <2>2. Comes(r) /\ auto' = auto /\ visible' = visible
    BY <2>1, AnswerComes
  <2>3. /\ sel' \in [Panels -> Selection]
        /\ Lone(requests \ {r}, sel', rows') /\ Dated(requests \ {r}, rows')
    <3>1. CASE Answer(r)
      BY <3>1, AnswerData DEF DataOK
    <3>2. CASE Fail(r)
      <4>1. sel' = sel /\ rows' = rows
        BY <3>2 DEF Fail, data
      <4>. QED
        BY <4>1, RestLone DEF RequestInv, DataOK
    <3>. QED
      BY <2>1, <3>1, <3>2
  <2>4. \/ RoundPanels(requests') = RoundPanels(requests) /\ pending' = pending
        \/ /\ RoundPanels(requests') = RoundPanels(requests) \ {r.panel}
           /\ r.panel \in RoundPanels(requests) /\ RoundPanels(requests') # {}
           /\ pending' = pending
        \/ /\ RoundPanels(requests) # {} /\ pending' = FALSE
           /\ RoundPanels(requests') = IF pending THEN Panels ELSE {}
    BY <2>2, <2>3, ComesKeeps
  <2>. QED
    BY <1>1, <2>2, <2>4 DEF RoundStep
<1>11. CASE Event \/ Tick
  <2>1. AskAutomatic(auto, visible') /\ auto' = auto /\ visible' = visible
    BY <1>11 DEF Event, Tick, page, AskAutomatic, Interval, Connected
  <2>. QED
    BY <1>3, <2>1
<1>. QED
  BY <1>4, <1>5, <1>6, <1>7, <1>8, <1>9, <1>10, <1>11 DEF Next, User, Network

\* Every step of the page is a step of a refresh coordinator or invisible to
\* it: a round loads every panel once and no other round starts before it is
\* over, a round asked for during another starts the moment that one ends, only
\* hiding the page or switching to manual takes it back; and no refresh that a
\* visible page in automatic mode asks for is dropped
\* (refreshCoordinator.ts:9-31, OmmsDashboard.vue:422-443).
THEOREM DashboardRefreshes == Spec => Rounds!Safety /\ AsksAreHeeded
<1>1. RequestInv /\ Init => Rounds!Init
  <2> SUFFICES ASSUME RequestInv, Init PROVE Rounds!Init
    OBVIOUS
  <2> DEFINE L == {r.panel : r \in RoundRequests}
  <2>1. L = RoundPanels(requests)
    BY DEF RoundRequests, RoundPanels
  <2>2. requests = Send({}, Panels, sel, "round")
    BY DEF Init
  <2>3. Requests({}) /\ RoundPanels({}) = {} /\ version \in Nat /\ cached \in Nat
    BY FS_EmptySet DEF Init, Requests, Unique, RoundPanels
  <2>4. RoundPanels(requests) = {} \cup Panels
    BY <2>2, <2>3, SendRequests DEF RequestInv, DataOK
  <2>5. L \in {{}, Panels}
    BY <2>1, <2>4
  <2>6. pending = FALSE /\ (auto /\ visible) \in BOOLEAN
    BY DEF Init
  <2> HIDE DEF L
  <2>. QED
    BY <2>5, <2>6 DEF L, Rounds!Init
<1>2. RequestInv /\ RequestInv' /\ [Next]_vars => [Rounds!Next]_(Rounds!vars)
  <2> SUFFICES ASSUME RequestInv, RequestInv', [Next]_vars
               PROVE  [Rounds!Next]_(Rounds!vars)
    OBVIOUS
  <2>1. RoundStep(RoundPanels(requests), RoundPanels(requests'),
                  auto /\ visible, auto' /\ visible')
    BY DashboardStep
  <2>2. /\ pending \in BOOLEAN /\ auto \in BOOLEAN /\ visible \in BOOLEAN
        /\ pending' \in BOOLEAN /\ auto' \in BOOLEAN /\ visible' \in BOOLEAN
    BY DEF RequestInv
  <2>. QED
    BY <2>1, <2>2, RoundStepImplements
<1>3. ASSUME RequestInv, Refresh \/ Show \/ Event \/ Tick, auto, visible'
      PROVE  refreshing' /\ (refreshing => pending')
  <2>1. Ask
    <3>1. CASE Refresh
      BY <3>1 DEF Refresh
    <3>2. CASE Show
      BY <1>3, <3>2 DEF Show, AskAutomatic, Interval
    <3>3. CASE Event \/ Tick
      BY <1>3, <3>3 DEF Event, Tick, page, AskAutomatic, Interval
    <3>. QED
      BY <1>3, <3>1, <3>2, <3>3
  <2>2. refreshing \in BOOLEAN
    BY <1>3 DEF RequestInv
  <2>. QED
    BY <2>1, <2>2 DEF Ask
<1>4. RequestInv =>
        [(Refresh \/ Show \/ Event \/ Tick) /\ auto /\ visible' =>
           refreshing' /\ (refreshing => pending')]_vars
  BY <1>3
<1>. QED
  BY <1>1, <1>2, <1>4, RequestCorrect, PTL DEF Spec, Rounds!Safety, AsksAreHeeded

=============================================================================
