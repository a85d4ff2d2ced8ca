----------------------------- MODULE Coherence -----------------------------
(* The coherent cache (mem/ccache, mem/mshr, mem/cache_port), the requests  *)
(* that travel between caches (simu/memrequest) and their routing           *)
(* (simu/MRouter): first-level caches L1s above one shared cache L2 above a *)
(* Nice_cache. A request is one object that changes type on its way; a      *)
(* callback scheduled for it is its stage "at". Time is abstracted to what  *)
(* orders the handlers:                                                     *)
(*  - up[c] holds what L2 sent up to c, in the order of lastUpMsg; with     *)
(*    unlimited bank ports (port_num = 0) c handles it in that order, with  *)
(*    limited ones a fill waits for its bank and messages pass each other;  *)
(*  - down[c] holds what c sent down; only a request, which pays a tag      *)
(*    lookup, can be passed by an acknowledgement or a displacement of its  *)
(*    line, and a displacement, which pays nothing, passes acknowledgements;*)
(*  - where the configuration says slowMemory, the Nice_cache answers later *)
(*    than an invalidation takes up and back; elsewhere at any time.        *)
EXTENDS Integers, Sequences, FiniteSets, SequencesExt

CONSTANTS L1s,          \* the first-level caches
          L2,           \* the cache they share, the last one above memory
          Addr,         \* line addresses, all of one set
          Confs,        \* the configurations: see ConfAssumption
          MaxPrefetch,  \* max_prefetch of every cache
          MaxSharers,   \* CCACHE_MAXNSHARERS
          NEntries,     \* entries of the MSHR
          calcEntry,    \* the MSHR entry of an address
          PortsLimited, \* port_num > 0: fills may wait for a bank
          Ids           \* bound: MemRequest objects, 1..n

None == "none"
Cache == L1s \cup {L2}
Entries == {calcEntry[a] : a \in Addr}

(* A configuration: the options of each cache, max_requests of every cache,  *)
(* whether memory is slow, the addresses the next-line prefetcher adds to a  *)
(* request, the requests the cores send, the degrees of their prefetches     *)
(* and, a bound, how many requests they send in a behaviour. The options     *)
(* are those the constructor of CCache accepts.                              *)
ASSUME ConfAssumption ==
    /\ L2 \notin L1s /\ None \notin Cache \cup Addr
    /\ \A conf \in Confs :
          /\ conf.maxIssue \in Nat /\ conf.maxRequests \in Nat \ {0}
          /\ conf.slowMemory \in BOOLEAN /\ conf.degrees \subseteq Nat
          /\ conf.nlp \in [Addr -> Seq(Addr)]
          /\ \A c \in Cache : /\ conf.opt[c].directory => conf.opt[c].inclusive
                              /\ conf.opt[c].justDirectory =>
                                     /\ conf.opt[c].directory
                                     /\ conf.opt[c].allocateMiss /\ ~conf.opt[c].victim

VARIABLES conf,    \* the configuration: never changes
          cache,   \* per cache: its lines, its MSHR and its port
          mreq,    \* the MemRequest objects
          up,      \* per L1, what L2 sent it
          down,    \* per L1, what it sent L2
          issued   \* requests sent by the cores so far

vars == <<conf, cache, mreq, up, down, issued>>
-----------------------------------------------------------------------------
(* Lines and requests *)

Invalid == [state |-> "I", shareState |-> "I", share |-> <<>>, prefetch |-> FALSE]
isValid(l) == l.state # "I" \/ l.shareState # "I"
needsDisp(l) == l.state = "M"

Free == [at |-> "free"]

create(c, a, mt, ma) ==
    [at |-> "new", mt |-> mt, ma |-> ma, orig |-> ma, addr |-> a, home |-> c, creator |-> c,
     curr |-> c, top |-> None, first |-> None, firstMa |-> None, prefetch |-> FALSE,
     spec |-> FALSE, dropped |-> FALSE, retrying |-> FALSE, needsDisp |-> FALSE,
     nonCacheable |-> FALSE, scb |-> FALSE, pending |-> 0, ackOrig |-> 0]

(* send*Req*: what a core, or its store buffer, asks of its first cache *)
createReq(c, a, k) ==
    LET r == create(c, a, "req", IF k \in {"write", "ncwrite", "scb_dirty"} THEN "setDirty"
                                                                           ELSE "setValid")
    IN  [r EXCEPT !.spec = (k = "specread"), !.nonCacheable = (k \in {"ncread", "ncwrite"}),
                  !.scb = (k \in {"scb_clean", "scb_dirty", "scb_prefetch"}),
                  !.prefetch = (k = "scb_prefetch"),
                  !.top = IF k \in {"scb_clean", "scb_dirty"} THEN None ELSE c]

isHomeNode(r) == r.home = r.curr
isTopCoherentNode(r) == r.top = r.curr

adjustReqAction(r) ==
    IF r.first # None THEN r
    ELSE [r EXCEPT !.first = r.curr, !.firstMa = r.ma, !.ma = "setExclusive"]

recoverReqAction(r) ==
    IF r.first # r.curr THEN r ELSE [r EXCEPT !.first = None, !.ma = r.firstMa]

convert2SetStateAck(r, ma, disp) ==
    [r EXCEPT !.mt = "setStateAck", !.ma = ma, !.creator = r.curr, !.needsDisp = disp]

(* The up port a request came through; None for one made by the cache itself *)
getCreatorPort(c, r) ==
    IF c = L2 /\ (Cardinality(L1s) = 1 \/ r.creator \in L1s)
    THEN IF Cardinality(L1s) = 1 THEN CHOOSE x \in L1s : TRUE ELSE r.creator
    ELSE None
-----------------------------------------------------------------------------
(* CState: what a message does to a line *)

isBroadcastNeeded(l) == Len(l.share) >= MaxSharers

removeSharing(l, p) ==
    IF isBroadcastNeeded(l) \/ ~Contains(l.share, p) THEN l
    ELSE LET s == Remove(l.share, p)
         IN  [l EXCEPT !.share = s, !.shareState = IF s = <<>> THEN "I" ELSE @]

addSharing(l, p) ==
    CASE isBroadcastNeeded(l) -> l
      [] ~isBroadcastNeeded(l) /\ p = None ->
           [l EXCEPT !.shareState = IF l.share = <<>> THEN "I" ELSE @]
      [] OTHER -> [l EXCEPT !.share = IF Contains(@, p) THEN @ ELSE Append(@, p)]

shouldNotifyLowerLevels(l, ma) ==
    CASE ma = "setValid"  -> l.state = "I"
      [] ma = "setShared" -> l.state \notin {"S", "E"}
      [] ma \in {"setDirty", "setExclusive"} -> l.state \notin {"M", "E"}
      [] OTHER -> TRUE

\* Mutant: nobody is told when the line is shared already, not even of a write.
shouldNotifyHigherLevels_lazy(l, ma, p) ==
    l.share # <<>> /\ l.share # <<p>> /\ l.shareState # "S"

shouldNotifyHigherLevels(l, ma, p) ==
    /\ l.share # <<>>
    /\ l.share # <<p>>
    /\ ma \in {"setValid", "setShared"} => l.shareState # "S"

calcAdjustState(l, ma) ==
    CASE ma = "setValid"     -> IF l.state = "I" THEN "E" ELSE l.state
      [] ma = "setInvalid"   -> "I"
      [] ma = "setDirty"     -> "M"
      [] ma = "setShared"    -> "S"
      [] ma = "setExclusive" -> "E"

othersNeed(orig) == IF orig = "setValid" THEN "setShared" ELSE "setInvalid"

reqAckNeeds(l) ==
    CASE l.shareState = "M" -> "setDirty"  [] l.shareState = "E" -> "setExclusive"
      [] l.shareState = "S" -> "setShared" [] l.shareState = "I" -> "setInvalid"

(* adjustState, for each type of message *)
adjustDisp(l, r, p) ==
    [removeSharing(l, p) EXCEPT
        !.state = IF r.ma = "setDirty" THEN "M" ELSE calcAdjustState(l, r.ma)]

adjustSetStateAck(l, r, p) ==
    LET shared == IF r.ma = "setInvalid"
                  THEN removeSharing([l EXCEPT !.share = IF isBroadcastNeeded(l)
                                                         THEN SubSeq(@, 1, MaxSharers - 1)
                                                         ELSE @], p)
                  ELSE [l EXCEPT !.shareState = IF @ # "I" THEN "S" ELSE @]
        state  == IF ~isHomeNode(r) THEN calcAdjustState(l, r.ma)
                  ELSE IF r.needsDisp THEN "M" ELSE l.state
    IN  [shared EXCEPT !.state = state]

adjustReq(l, r, p) ==
    LET top   == isTopCoherentNode(r)
        state == IF r.mt = "reqAck" /\ ~top
                 THEN CASE r.ma = "setDirty" -> IF l.state = "I" THEN "E" ELSE l.state
                        [] r.ma = "setShared" -> "S"
                        [] OTHER -> "E"
                 ELSE IF l.state # "I" /\ ~top THEN l.state ELSE calcAdjustState(l, r.ma)
        added == addSharing([l EXCEPT !.state = state], p)
    IN  [added EXCEPT !.shareState =
            CASE added.share = <<>> -> "I"
              [] Len(added.share) > 1 -> "S"
              [] OTHER -> IF state = "S" THEN "S" ELSE "E"]

adjustState(l, r, p) ==
    LET new == CASE r.mt = "disp"        -> adjustDisp(l, r, p)
                 [] r.mt = "setStateAck" -> adjustSetStateAck(l, r, p)
                 [] r.mt = "setState"    -> [l EXCEPT !.state = calcAdjustState(l, r.ma)]
                 [] OTHER                -> adjustReq(l, r, p)
    IN  IF isValid(new) THEN new ELSE Invalid
-----------------------------------------------------------------------------
(* The handlers are written as functions of the whole state, a record       *)
(* [cache, mreq, up, down], so that one can call another.                   *)

State == [cache |-> cache, mreq |-> mreq, up |-> up, down |-> down]

line(s, c, a) == s.cache[c].line[a]
setLine(s, c, a, l) == [s EXCEPT !.cache[c].line[a] = l]
freeIds(s) == SelectSeq([n \in 1..Cardinality(Ids) |-> n], LAMBDA i : s.mreq[i].at = "free")
destroy(s, i) == [s EXCEPT !.mreq[i] = Free]
stage(s, i, at) == [s EXCEPT !.mreq[i].at = at]

(* MRouter: down to the lower level, or up to the child on the home's side *)
scheduleReq(s, c, i) ==
    IF c = L2 THEN [s EXCEPT !.mreq[i].at = "memory", !.mreq[i].curr = "memory"]
    ELSE [s EXCEPT !.mreq[i].at = "down", !.mreq[i].curr = L2, !.down[c] = Append(@, i)]

scheduleReqAck(s, i) ==
    LET c == s.mreq[i].home
    IN  [s EXCEPT !.mreq[i].at = "up", !.mreq[i].curr = c, !.up[c] = Append(@, i)]

scheduleSetStateAck(s, c, i) ==
    [s EXCEPT !.mreq[i].at = "down", !.mreq[i].curr = L2, !.down[c] = Append(@, i)]

(* sendSetStateOthers, sendSetStateOthersPos, sendSetStateAll: one setState *)
(* for each of the caches of to, which request i waits for                  *)
sendSetState(s, to, i, ma) ==
    LET cs  == SetToSeq(to)
        ids == SubSeq(freeIds(s), 1, Len(cs))
        new(n) == [create(L2, s.mreq[i].addr, "setState", ma) EXCEPT
                      !.at = "up", !.creator = s.mreq[i].creator, !.curr = cs[n], !.ackOrig = i]
        at(x) == CHOOSE n \in DOMAIN cs : ids[n] = x
    IN  [s EXCEPT !.mreq = [x \in Ids |->
                               IF x \in ToSet(ids) THEN new(at(x))
                               ELSE IF x = i THEN [@[i] EXCEPT !.pending = @ + Len(cs)]
                               ELSE @[x]],
                  !.up = [c \in L1s |-> IF c \in to
                                        THEN Append(@[c], ids[CHOOSE n \in DOMAIN cs : cs[n] = c])
                                        ELSE @[c]]]

(* The caches above c that a displaced or shared line is invalidated in *)
upNodes(c) == IF c = L2 THEN L1s ELSE {}
-----------------------------------------------------------------------------
(* MSHR *)

canIssue(s, c, a) == s.cache[c].use[calcEntry[a]] = 0

blockEntry(s, c, a) ==
    [s EXCEPT !.cache[c].use[calcEntry[a]] = @ + 1, !.cache[c].free = @ - 1]

addEntry(s, c, i) ==
    LET e == calcEntry[s.mreq[i].addr]
    IN  [s EXCEPT !.cache[c].use[e] = @ + 1, !.cache[c].free = @ - 1,
                  !.cache[c].wait[e] = Append(@, i),
                  !.mreq[i].at = "mshr", !.mreq[i].retrying = TRUE]

\* Mutant: the next request of the entry is forgotten.
retire_alone(s, c, a) ==
    [s EXCEPT !.cache[c].use[calcEntry[a]] = @ - 1, !.cache[c].free = @ + 1]

(* retire calls the next request of the entry at once *)
retire(s, c, a) ==
    LET e    == calcEntry[a]
        next == s.cache[c].wait[e]
        out  == [s EXCEPT !.cache[c].use[e] = @ - 1, !.cache[c].free = @ + 1]
    IN  IF next = <<>> THEN out
        ELSE [out EXCEPT !.cache[c].wait[e] = Tail(@), !.mreq[Head(next)].at = "redoReq"]
-----------------------------------------------------------------------------
(* Cache_port *)

(* req2 for the n oldest requests of overflow *)
drain(s, c, n) ==
    LET o == s.cache[c].overflow
    IN  [s EXCEPT !.cache[c].overflow = SubSeq(o, n + 1, Len(o)),
                  !.cache[c].cur = @ + n,
                  !.mreq = [x \in Ids |-> IF x \in ToSet(SubSeq(o, 1, n))
                                          THEN [@[x] EXCEPT !.at = "redoReq"] ELSE @[x]]]

(* The loop over overflow: it looks at the limits only after the first one *)
overflowLoop(s, c) ==
    LET p    == s.cache[c]
        room == IF p.pref > MaxPrefetch \/ p.cur >= conf.maxRequests THEN 1
                ELSE conf.maxRequests - p.cur
    IN  drain(s, c, IF room < Len(p.overflow) THEN room ELSE Len(p.overflow))

req2(s, c, i) ==
    LET r == s.mreq[i]
    IN  stage(IF r.retrying THEN s
              ELSE IF r.prefetch /\ MaxPrefetch > 0 THEN [s EXCEPT !.cache[c].pref = @ + 1]
              ELSE [s EXCEPT !.cache[c].cur = @ + 1], i, "redoReq")

portReq(s, c, i) ==
    LET r     == s.mreq[i]
        queue(t) == [stage(t, i, "overflow") EXCEPT !.cache[c].overflow = Append(@, i)]
        t1    == overflowLoop(s, c)
    IN  CASE r.retrying \/ r.prefetch -> req2(s, c, i)
          [] ~r.retrying /\ ~r.prefetch /\ s.cache[c].cur >= conf.maxRequests -> queue(s)
          [] OTHER -> IF t1.cache[c].overflow # <<>> THEN queue(t1) ELSE req2(t1, c, i)

\* Mutant: a prefetch is given back to the requests.
reqRetire_cur(s, c, prefetch) == overflowLoop([s EXCEPT !.cache[c].cur = @ - 1], c)

reqRetire(s, c, prefetch) ==
    overflowLoop(IF prefetch /\ MaxPrefetch > 0 THEN [s EXCEPT !.cache[c].pref = @ - 1]
                                                ELSE [s EXCEPT !.cache[c].cur = @ - 1], c)

portBusy(s, c) == s.cache[c].cur >= conf.maxRequests \div 2
-----------------------------------------------------------------------------
(* Acknowledging a request *)

setStateAckDone(s, i) ==
    LET o    == s.mreq[i].ackOrig
        orig == [s.mreq[o] EXCEPT !.pending = @ - 1,
                     !.needsDisp = @ \/ (s.mreq[o].mt = "setState" /\ s.mreq[i].needsDisp)]
        done == IF orig.pending > 0 THEN orig
                ELSE CASE orig.mt = "req"    -> [orig EXCEPT !.at = "redoReq"]
                       [] orig.mt = "reqAck" -> [orig EXCEPT !.at = "redoReqAck"]
                       [] OTHER -> [convert2SetStateAck(orig, orig.ma, orig.needsDisp)
                                        EXCEPT !.at = "redoSetStateAck"]
    IN  IF o = 0 THEN s ELSE [s EXCEPT !.mreq[o] = done]

ack(s, i) ==
    destroy(IF s.mreq[i].mt = "setStateAck" THEN setStateAckDone(s, i) ELSE s, i)

dropPrefetch(s, i) ==
    LET t == [s EXCEPT !.mreq[i].dropped = TRUE]
    IN  IF isHomeNode(t.mreq[i]) THEN ack(t, i) ELSE scheduleReqAck(t, i)
-----------------------------------------------------------------------------
(* Displacing and allocating lines *)

valid(s, c) == {a \in Addr : isValid(line(s, c, a))}
victims(s, c) == IF Cardinality(valid(s, c)) < conf.opt[c].ways THEN {None} ELSE valid(s, c)

\* Mutant: a line leaves without invalidating the copies above it.
displaceLine_silent(s, c, i, v) == s

(* The copies above are invalidated and the line is forgotten without       *)
(* waiting for them; an untouched prefetched line leaves without a word.    *)
displaceLine(s, c, i, v) ==
    LET l      == line(s, c, v)
        aware  == conf.opt[c].inclusive /\ ~isTopCoherentNode(s.mreq[i])
        silent == l.prefetch /\ (aware => conf.opt[c].directory /\ l.share = <<>>)
        to     == CASE ~aware -> {}
                    [] aware /\ conf.opt[c].directory /\ Len(l.share) = 0 -> {}
                    [] aware /\ conf.opt[c].directory /\ Len(l.share) = 1 ->
                         IF Cardinality(upNodes(c)) > 1 THEN ToSet(l.share) ELSE {}
                    [] OTHER -> upNodes(c)
        inv    == freeIds(s)[1]
        told   == IF to = {} THEN s
                  ELSE sendSetState([s EXCEPT !.mreq[inv] =
                           [create(c, v, "setState", "setInvalid") EXCEPT !.at = "wait"]],
                           to, inv, "setInvalid")
        d      == freeIds(told)[1]
        disp   == [create(L2, v, "disp", IF needsDisp(l) THEN "setDirty" ELSE "setValid") EXCEPT
                       !.at = "down", !.creator = c, !.top = c,
                       !.prefetch = ~needsDisp(l) /\ l.prefetch]
    IN  CASE silent -> s
          [] ~silent /\ c = L2 -> told
          [] OTHER -> [told EXCEPT !.mreq[d] = disp, !.down[c] = Append(@, d)]

(* fillLine_replace only changes the tag: the line keeps the state of the   *)
(* one it replaces, without its sharers                                     *)
allocateLine(s, c, i, v) ==
    LET a   == s.mreq[i].addr
        t   == IF v = None THEN s ELSE displaceLine(s, c, i, v)
        old == IF v = None THEN Invalid ELSE line(s, c, v)
    IN  [t EXCEPT !.cache[c].line =
            [x \in Addr |-> CASE x = a -> [old EXCEPT !.share = <<>>,
                                                      !.prefetch = s.mreq[i].prefetch]
                              [] x # a /\ x = v -> Invalid
                              [] OTHER -> @[x]]]

startPrefetch(s, c, a) ==
    LET i == freeIds(s)[1]
        r == [create(c, a, "req", "setValid") EXCEPT !.prefetch = TRUE, !.top = c]
        t == [s EXCEPT !.mreq[i] = r,
                       !.cache[c].pref = IF MaxPrefetch > 0 THEN @ + 1 ELSE @,
                       !.cache[c].cur  = IF MaxPrefetch > 0 THEN @ ELSE @ + 1]
    IN  blockEntry(scheduleReq(t, c, i), c, a)

(* A cache that is busy, is not to prefetch so far ahead or does not         *)
(* allocate asks the next; the memory below L2 does nothing                  *)
tryPrefetch(s, c, a, degree) ==
    LET known(x) == isValid(line(s, x, a)) \/ ~canIssue(s, x, a)
        passes(x) == \/ ~conf.opt[x].allocateMiss \/ portBusy(s, x) \/ conf.opt[x].victim
                     \/ degree > conf.opt[x].prefetchDegree
    IN  CASE known(c) -> s
          [] ~known(c) /\ ~passes(c) -> startPrefetch(s, c, a)
          [] OTHER -> IF c = L2 \/ known(L2) \/ passes(L2) THEN s ELSE startPrefetch(s, L2, a)

(* The n-th next line is asked for with degree n - 1 *)
nextLinePrefetch(s, c, as) ==
    FoldLeft(LAMBDA t, n : tryPrefetch(t, c, as[n], n - 1), s, [n \in DOMAIN as |-> n])
-----------------------------------------------------------------------------
(* Requests going down *)

mustForwardReqDown(s, c, i) ==
    scheduleReq([s EXCEPT !.mreq[i] = IF @.ma = "setDirty" THEN adjustReqAction(@) ELSE @], c, i)

(* clearNeedsCoherence: L2 is the only cache above memory *)
notifyLowerLevels(c, l, r) ==
    /\ ~conf.opt[c].justDirectory
    /\ c \in L1s
    /\ r.mt = "req"
    /\ shouldNotifyLowerLevels(l, r.ma)

mustNotifyHigher(c, l, r) ==
    /\ ~isTopCoherentNode(r) /\ ~conf.opt[c].victim
    /\ shouldNotifyHigherLevels(l, r.ma, getCreatorPort(c, r))

(* The other sharers lose the line, or share it; i waits for all of them *)
notifyHigherLevels(s, c, i) ==
    LET r  == s.mreq[i]
        l  == line(s, c, r.addr)
        p  == getCreatorPort(c, r)
        ma == othersNeed(r.orig)
        to == IF ~conf.opt[c].directory \/ isBroadcastNeeded(l) THEN upNodes(c) \ {r.home}
                                                            ELSE ToSet(l.share) \ {p}
        t  == [s EXCEPT !.mreq[i].ma = IF ma = "setShared" /\ r.mt = "reqAck" /\ @ = "setExclusive"
                                       THEN "setShared" ELSE @]
    IN  IF r.prefetch THEN dropPrefetch(s, i) ELSE sendSetState(t, to, i, ma)

(* The line answers the request: to the core, or up to the home's cache *)
answer(s, c, i, drop) ==
    LET r  == s.mreq[i]
        l  == adjustState(line(s, c, r.addr), r, getCreatorPort(c, r))
        kept == CASE conf.opt[c].justDirectory -> [l EXCEPT !.state = "I"]
                  [] ~conf.opt[c].justDirectory /\ ~isHomeNode(r) /\ conf.opt[c].victim /\ ~r.spec -> Invalid
                  [] OTHER -> l
        t  == [setLine(s, c, r.addr, kept) EXCEPT !.mreq[i].dropped = @ \/ (drop /\ r.prefetch)]
    IN  IF isHomeNode(r) THEN ack(t, i)
        ELSE scheduleReqAck([t EXCEPT !.mreq[i].mt = "reqAck", !.mreq[i].ma = reqAckNeeds(l)], i)

finish(s, c, r) == retire(reqRetire(s, c, r.prefetch), c, r.addr)

(* doReq once the request holds its MSHR entry and the line is there *)
hit(s, c, i, drop) ==
    LET r == s.mreq[i]
        l == [line(s, c, r.addr) EXCEPT !.prefetch = FALSE]
        t == setLine(s, c, r.addr, l)
        n == notifyHigherLevels(t, c, i)
    IN  CASE notifyLowerLevels(c, l, r) -> mustForwardReqDown(t, c, i)
          [] ~notifyLowerLevels(c, l, r) /\ mustNotifyHigher(c, l, r) ->
               IF r.prefetch THEN finish(n, c, r)
               ELSE IF n.mreq[i].pending > 0
                    THEN [n EXCEPT !.mreq[i].retrying = TRUE, !.mreq[i].at = "wait"]
                    ELSE finish(answer(n, c, i, drop), c, r)
          [] OTHER -> IF r.dropped THEN finish(stage(t, i, "lost"), c, r)
                                   ELSE finish(answer(t, c, i, drop), c, r)

doReqOn(s, c, i, v, drop) ==
    LET r     == s.mreq[i]
        a     == r.addr
        fresh == ~r.retrying
        s1    == IF fresh THEN blockEntry(s, c, a) ELSE [s EXCEPT !.mreq[i].retrying = FALSE]
        there == isValid(line(s, c, a))
        s2    == IF fresh /\ ~r.prefetch THEN nextLinePrefetch(s1, c, conf.nlp[a]) ELSE s1
        s3    == [s2 EXCEPT !.mreq[i].dropped = @ \/ (there /\ r.prefetch /\ isHomeNode(r))]
    IN  CASE fresh /\ ~canIssue(s, c, a) -> IF r.prefetch THEN dropPrefetch(s, i)
                                                          ELSE addEntry(s, c, i)
          [] ~(fresh /\ ~canIssue(s, c, a)) /\ (r.nonCacheable \/ (~conf.opt[c].allocateMiss /\ ~there)) ->
               scheduleReq(s1, c, i)
          [] OTHER -> IF there THEN hit(s3, c, i, drop)
                      ELSE IF conf.opt[c].justDirectory /\ ~fresh
                      THEN hit(allocateLine(s3, c, i, v), c, i, drop)
                      ELSE mustForwardReqDown(s3, c, i)

(* doReqAck: the answer fills the line, unless its sharers above must first *)
(* be told, and goes on to the home                                         *)
doReqAckOn(s, c, i, v, drop) ==
    LET r0    == s.mreq[i]
        r     == [recoverReqAction(r0) EXCEPT !.retrying = FALSE]
        t     == [s EXCEPT !.mreq[i] = r]
        there == isValid(line(s, c, r.addr))
        fill  == IF conf.opt[c].victim THEN ~r.spec /\ isHomeNode(r)
                                   ELSE conf.opt[c].allocateMiss \/ isHomeNode(r)
        n     == notifyHigherLevels(t, c, i)
        filled == IF there THEN setLine(t, c, r.addr, [line(t, c, r.addr) EXCEPT !.prefetch = r.prefetch])
                  ELSE IF fill THEN allocateLine(t, c, i, v) ELSE t
        l     == adjustState(line(filled, c, r.addr), r, getCreatorPort(c, r))
        kept  == IF conf.opt[c].justDirectory THEN [l EXCEPT !.state = "I"] ELSE l
        done  == IF r.dropped \/ r.nonCacheable \/ ~(there \/ fill) THEN
                      IF r.dropped \/ r.nonCacheable THEN t ELSE filled
                 ELSE setLine(filled, c, r.addr, kept)
        out   == [done EXCEPT !.mreq[i].dropped = @ \/ (drop /\ r.prefetch)]
    IN  IF ~r.dropped /\ ~r.nonCacheable /\ there /\ mustNotifyHigher(c, line(t, c, r.addr), r)
                /\ ~r.prefetch
        THEN stage(n, i, "wait")
        ELSE finish(IF isHomeNode(r) THEN ack(out, i) ELSE scheduleReqAck(out, i), c, r)

(* doSetState: a first-level cache has no sharers of its own to tell *)
doSetStateOn(s, c, i) ==
    LET r == s.mreq[i]
        l == line(s, c, r.addr)
        t == CASE ~conf.opt[c].inclusive \/ ~isValid(l) ->
                    [s EXCEPT !.mreq[i] = convert2SetStateAck(r, "setInvalid", FALSE)]
               [] OTHER ->
                    [setLine(s, c, r.addr, adjustState(l, r, None))
                        EXCEPT !.mreq[i] = convert2SetStateAck(r, r.ma, needsDisp(l))]
    IN  scheduleSetStateAck(t, c, i)

doSetStateAckOn(s, i) ==
    LET r == s.mreq[i]
        l == line(s, L2, r.addr)
        t == IF ~isValid(l) THEN s
             ELSE [setLine(s, L2, r.addr, adjustState(l, r, getCreatorPort(L2, r)))
                      EXCEPT !.mreq[i].needsDisp = @ \/ needsDisp(l)]
    IN  ack(t, i)

(* doDisp: a line displaced above, or written by the store buffer of a core; *)
(* what a cache does not keep goes on to memory                              *)
doDispOn(s, c, i, v) ==
    LET r == s.mreq[i]
        t == IF isValid(line(s, c, r.addr)) \/ r.prefetch THEN s ELSE allocateLine(s, c, i, v)
        l == adjustState(line(t, c, r.addr), r, getCreatorPort(c, r))
        k == IF conf.opt[c].justDirectory /\ l.share = <<>> THEN Invalid ELSE l
    IN  ack(IF isValid(line(s, c, r.addr)) \/ ~r.prefetch THEN setLine(t, c, r.addr, k) ELSE t, i)
-----------------------------------------------------------------------------
Apply(s) ==
    /\ cache' = s.cache /\ conf' = conf
    /\ mreq' = s.mreq
    /\ up' = s.up
    /\ down' = s.down

Drops == IF PortsLimited THEN BOOLEAN ELSE {FALSE}

(* A core, or its store buffer, calls its first cache. *)
send(c, a, k) ==
    LET i == freeIds(State)[1]
        s == [State EXCEPT !.mreq[i] = createReq(c, a, k)]
    IN  /\ issued < conf.maxIssue
        /\ issued' = issued + 1
        /\ Apply(IF k \in {"scb_clean", "scb_dirty"} THEN stage(s, i, "disp") ELSE portReq(s, c, i))

(* The prefetcher of a core asks its first cache *)
prefetch(c, a, degree) ==
    /\ issued < conf.maxIssue
    /\ issued' = issued + 1
    /\ Apply(tryPrefetch(State, c, a, degree))

(* What of down[c] may be handled next *)
kind(i) == mreq[i].mt
passes(i, j) == \/ mreq[i].addr # mreq[j].addr
                \/ kind(i) = "disp" /\ kind(j) # "disp"
                \/ kind(i) = "setStateAck" /\ kind(j) = "req"
next(c, i) == \E n \in DOMAIN down[c] :
                 down[c][n] = i /\ \A m \in 1..n - 1 : passes(i, down[c][m])
taken(c, i) == [State EXCEPT !.down[c] = Remove(@, i)]

(* L2 receives a request: Cache_port::req *)
req(c, i) ==
    /\ next(c, i) /\ kind(i) = "req"
    /\ Apply(portReq(taken(c, i), L2, i))
    /\ UNCHANGED issued

doReq(i) ==
    /\ mreq[i].at = "redoReq"
    /\ \E v \in victims(State, mreq[i].curr), drop \in Drops :
          Apply(doReqOn(State, mreq[i].curr, i, v, drop))
    /\ UNCHANGED issued

(* Nice_cache::doReq *)
memory(i) ==
    /\ mreq[i].at = "memory"
    /\ conf.slowMemory => \A j \in Ids : mreq[j].at # "free" =>
          ~(mreq[j].addr = mreq[i].addr /\ mreq[j].mt \in {"setState", "setStateAck"})
    /\ mreq' = [mreq EXCEPT ![i].at = "redoReqAck", ![i].mt = "reqAck", ![i].curr = L2,
                            ![i].ma = IF @ = "setDirty" THEN @ ELSE "setExclusive"]
    /\ UNCHANGED <<conf, cache, up, down, issued>>

(* An answer that arrives at L2, from memory or after its sharers were told *)
doReqAck(i) ==
    /\ mreq[i].at = "redoReqAck"
    /\ \E v \in victims(State, L2), drop \in Drops : Apply(doReqAckOn(State, L2, i, v, drop))
    /\ UNCHANGED issued

(* A first-level cache handles what L2 sent it: in order, unless its ports  *)
(* are limited                                                              *)
receivable(c) == IF up[c] = <<>> THEN {} ELSE IF PortsLimited THEN ToSet(up[c]) ELSE {Head(up[c])}

doReqAckL1(c, i) ==
    /\ i \in receivable(c) /\ kind(i) # "setState"
    /\ \E v \in victims(State, c), drop \in Drops :
          Apply(doReqAckOn([State EXCEPT !.up[c] = Remove(@, i)], c, i, v, drop))
    /\ UNCHANGED issued

doSetState(c, i) ==
    /\ i \in receivable(c) /\ kind(i) = "setState"
    /\ Apply(doSetStateOn([State EXCEPT !.up[c] = Remove(@, i)], c, i))
    /\ UNCHANGED issued

doSetStateAck(c, i) ==
    /\ next(c, i) /\ kind(i) = "setStateAck"
    /\ Apply(doSetStateAckOn(taken(c, i), i))
    /\ UNCHANGED issued

(* All copies of a displaced line are gone *)
allAcked(i) ==
    /\ mreq[i].at = "redoSetStateAck"
    /\ Apply(doSetStateAckOn(State, i))
    /\ UNCHANGED issued

doDisp(c, i) ==
    /\ next(c, i) /\ kind(i) = "disp"
    /\ \E v \in victims(State, L2) : Apply(doDispOn(taken(c, i), L2, i, v))
    /\ UNCHANGED issued

doDispL1(i) ==
    /\ mreq[i].at = "disp"
    /\ \E v \in victims(State, mreq[i].curr) : Apply(doDispOn(State, mreq[i].curr, i, v))
    /\ UNCHANGED issued

Init ==
    /\ conf \in Confs
    /\ cache = [c \in Cache |->
                  [line |-> [a \in Addr |-> Invalid],
                   use |-> [e \in Entries |-> 0], wait |-> [e \in Entries |-> <<>>],
                   free |-> NEntries, cur |-> 0, pref |-> 0, overflow |-> <<>>]]
    /\ mreq = [i \in Ids |-> Free]
    /\ up = [c \in L1s |-> <<>>]
    /\ down = [c \in L1s |-> <<>>]
    /\ issued = 0

Work ==
    \/ \E i \in Ids : doReq(i) \/ memory(i) \/ doReqAck(i) \/ allAcked(i) \/ doDispL1(i)
    \/ \E c \in L1s, i \in Ids :
          \/ req(c, i) \/ doReqAckL1(c, i) \/ doSetState(c, i) \/ doSetStateAck(c, i)
          \/ doDisp(c, i)

Next == \/ \E c \in L1s, a \in Addr :
             \/ \E degree \in conf.degrees : prefetch(c, a, degree)
             \/ \E k \in conf.kinds : send(c, a, k)
        \/ Work

Spec == Init /\ [][Next]_vars
-----------------------------------------------------------------------------
(* Properties *)

(* What the code needs to know who has a line: L2 keeps the lines it passes *)
(* on, memory is slow, and no prefetch of L2's own displaces a line. Such a *)
(* prefetch is its own top coherent node, for which displaceLine tells no   *)
(* first-level cache: Coherence_prefetch.cfg shows two writers then.        *)
prefetches == conf.degrees # {} \/ \E a \in Addr : conf.nlp[a] # <<>>
coherent == /\ conf.opt[L2].allocateMiss /\ ~conf.opt[L2].victim
            /\ conf.slowMemory
            /\ prefetches => conf.opt[L2].ways >= Cardinality(Addr)

(* A line that a first-level cache may write (M or E) is in no other        *)
(* first-level cache.                                                       *)
OneWriter == \A a \in Addr, c, d \in L1s :
    c # d /\ cache[c].line[a].state \in {"M", "E"} => ~isValid(cache[d].line[a])

(* One writer a line, where L2 can know who has it:                         *)
(* shouldNotifyHigherLevels, the setState messages and their                *)
(* acknowledgements together.                                               *)
SingleWriter == coherent => OneWriter

(* When no request for a line is under way, L2 knows every first-level      *)
(* cache that holds it: displaceLine, addSharing and removeSharing agree    *)
(* with what happened above, whatever crossed on the way.                   *)
idle(a) == \A i \in Ids : mreq[i].at = "free" \/ mreq[i].addr # a
DirectoryTracks ==
    coherent => \A a \in Addr : idle(a) =>
       \A c \in L1s : isValid(cache[c].line[a]) => Contains(cache[L2].line[a].share, c)

(* Every path through the handlers gives back what it took: with nothing    *)
(* under way no MSHR entry is in use, all are free, no request is counted   *)
(* in a port and none waits in overflow (MSHR::retire, Cache_port::         *)
(* reqRetire).                                                              *)
EntriesReturned ==
    (\A i \in Ids : mreq[i].at \in {"free", "lost"}) =>
       \A c \in Cache : /\ cache[c].free = NEntries /\ \A e \in Entries : cache[c].use[e] = 0
                        /\ cache[c].cur = 0 /\ cache[c].overflow = <<>>

(* Nobody waits on everybody: while a request waits in an MSHR entry, in    *)
(* overflow or for acknowledgements, a callback is scheduled for some other *)
(* one, so every wait ends (retire, reqRetire, setStateAckDone).            *)
waiting(i) == mreq[i].at \in {"mshr", "overflow", "wait"}
NobodyStranded ==
    (\E i \in Ids : waiting(i)) => \E i \in Ids : mreq[i].at \notin {"free", "lost"} /\ ~waiting(i)
=============================================================================
