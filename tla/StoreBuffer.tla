---------------------------- MODULE StoreBuffer ----------------------------
(***************************************************************************)
(* The store completion buffer (SCB) of one core: simu/store_buffer.{hpp,  *)
(* cpp}, class Store_buffer, with the calls the load and store units, the  *)
(* prefetcher and the processor make on it.                                *)
(*                                                                         *)
(* scb_lines_map is a total function on Lines; a line that is not in the   *)
(* map is in state "Invalid" (the header: "when invalid it is removed from *)
(* the map").  The memory below is represented by what the buffer can see  *)
(* of it: the number of ownership_done and prefetch_done callbacks that    *)
(* are still to arrive for each line.                                      *)
(***************************************************************************)
EXTENDS Naturals, FiniteSets

CONSTANTS
  Lines,            \* line addresses: calc_line(addr)
  Words,            \* word offsets inside a line: calc_offset(addr) >> 2
  NoLine,           \* an inducing address that is no line of the model
  scb_size,         \* soc.core.scb_size
  PrefetchLines,    \* lines the address predictor produces; {} when it is off
  SpecLoadLines,    \* lines speculative loads touch
  PrefetchHits,     \* a prefetch may find its line in the L1 already
  FlushTransients,  \* do_random_transients: the processor flushes the buffer
  UninitPrefetch,   \* values a stack slot can hold in the never-initialised
                    \* field prefetch_line of a line built by init()
  MaxCallbacks      \* bound on the callbacks in flight per line and kind

ASSUME StoreBufferAssumption ==
  /\ scb_size \in Nat \ {0}
  /\ NoLine \notin Lines
  /\ IsFiniteSet(Lines)
  /\ PrefetchLines \subseteq Lines
  /\ SpecLoadLines \subseteq Lines
  /\ PrefetchHits \in BOOLEAN
  /\ FlushTransients \in BOOLEAN
  /\ UninitPrefetch \in (SUBSET BOOLEAN) \ {{}}
  /\ MaxCallbacks \in Nat \ {0}

VARIABLES
  scb,         \* scb_lines_map
  writes,      \* [line -> ownership_done callbacks in flight]
  prefetches,  \* [line -> prefetch_done callbacks in flight]
  loads,       \* [line -> speculative loads with present_in_scb set]
  unperformed, \* history: words of retired stores no write has covered yet
  dropped      \* history: lines whose prefetch the L1 dropped since it was
               \* last sent

vars == <<scb, writes, prefetches, loads, unperformed, dropped>>

LineState == {"Invalid", "Uncoherent", "Clean"}

StoreBufferLine ==
  [state         : LineState,
   transient     : BOOLEAN,
   prefetch_line : BOOLEAN,
   word_present  : SUBSET Words,
   inducing      : Lines \cup {NoLine}]

Absent == [state         |-> "Invalid",
           transient     |-> FALSE,
           prefetch_line |-> FALSE,
           word_present  |-> {},
           inducing      |-> NoLine]

TypeOK ==
  /\ scb \in [Lines -> StoreBufferLine]
  /\ writes \in [Lines -> Nat]
  /\ prefetches \in [Lines -> Nat]
  /\ loads \in [Lines -> Nat]
  /\ unperformed \in [Lines -> SUBSET Words]
  /\ dropped \subseteq Lines

----------------------------------------------------------------------------
(* Queries *)

Tracked(s)    == {l \in Lines : s[l].state # "Invalid"}
CleanLines(s) == {l \in Lines : s[l].state = "Clean"}

is_waiting_wb(line) == line.state = "Uncoherent"

can_accept_st(s, l) ==
  \/ Cardinality(Tracked(s)) - Cardinality(CleanLines(s)) < scb_size
  \/ l \in Tracked(s)

\* What a load to word w of line l is told: the buffer holds the word.
is_ld_forward(s, l, w) ==
  /\ l \in Tracked(s)
  /\ ~s[l].prefetch_line
  /\ w \in s[l].word_present

----------------------------------------------------------------------------
(* Updates of the map *)

Erase(s, D) == [l \in Lines |-> IF l \in D THEN Absent ELSE s[l]]

\* Mutant: room is made by dropping every line, waiting ones too.
remove_all(s) == Erase(s, Tracked(s))

remove_clean(s) ==
  Erase(s, {l \in Tracked(s) : s[l].state = "Clean" \/ s[l].prefetch_line})

\* Mutant: no room is made.
MakeNoRoom(s) == s

\* add_st and try_prefetch make room before they insert a line.
MakeRoom(s) ==
  IF Cardinality(Tracked(s)) > scb_size THEN remove_clean(s) ELSE s

\* Store_buffer_line::init does not assign prefetch_line or the inducing
\* address: the new line holds whatever was on the stack.
InitLine(pf, ind, w) ==
  [state         |-> "Uncoherent",
   transient     |-> FALSE,
   prefetch_line |-> pf,
   word_present  |-> {w},
   inducing      |-> ind]

InitPrefetch(ind) ==
  [state         |-> "Uncoherent",
   transient     |-> TRUE,
   prefetch_line |-> TRUE,
   word_present  |-> {},
   inducing      |-> ind]

\* convert_to_store, then add_st, on the line that is already in the map.
ConvertAndAdd(line, w) ==
  [line EXCEPT !.word_present  = IF line.prefetch_line THEN {w} ELSE @ \cup {w},
               !.prefetch_line = FALSE]

\* Mutant: a store to a clean line makes it wait but sends no write.
add_st_silent(l, w) ==
  \/ /\ l \notin Tracked(scb)
     /\ scb' = [MakeRoom(scb) EXCEPT ![l] = InitLine(FALSE, NoLine, w)]
     /\ writes' = [writes EXCEPT ![l] = @ + 1]
  \/ /\ l \in Tracked(scb)
     /\ scb' = [scb EXCEPT ![l] =
                  [ConvertAndAdd(@, w) EXCEPT !.state = "Uncoherent"]]
     /\ UNCHANGED writes

\* Store_buffer::add_st: a new line is inserted and a write is sent; a line
\* waiting for its write takes the word and sends nothing; a clean line waits
\* again and sends a write.
add_st(l, w) ==
  \/ /\ l \notin Tracked(scb)
     /\ \E pf \in UninitPrefetch :
          \E ind \in (IF pf THEN Lines \cup {NoLine} ELSE {NoLine}) :
             scb' = [MakeRoom(scb) EXCEPT ![l] = InitLine(pf, ind, w)]
     /\ writes' = [writes EXCEPT ![l] = @ + 1]
  \/ /\ l \in Tracked(scb)
     /\ is_waiting_wb(scb[l])
     /\ scb' = [scb EXCEPT ![l] = ConvertAndAdd(@, w)]
     /\ UNCHANGED writes
  \/ /\ l \in Tracked(scb)
     /\ ~is_waiting_wb(scb[l])
     /\ scb' = [scb EXCEPT ![l] =
                  [ConvertAndAdd(@, w) EXCEPT !.state = "Uncoherent"]]
     /\ writes' = [writes EXCEPT ![l] = @ + 1]

\* The lines promote_prefetch_scb_to_cache erases for a load of line l; the
\* clean ones are first sent to the L1, which calls nothing back.
Promoted(s, l) ==
  {p \in Tracked(s) : s[p].prefetch_line /\ s[p].inducing = l}

----------------------------------------------------------------------------
(* The calls made on the buffer *)

\* FUStore::preretire: the store is refused while the buffer cannot take it.
Store(l, w) ==
  /\ can_accept_st(scb, l)
  /\ writes[l] < MaxCallbacks
  /\ add_st(l, w)
  /\ unperformed' = [unperformed EXCEPT ![l] = @ \cup {w}]
  /\ UNCHANGED <<prefetches, loads, dropped>>

\* FULoad::performed_spec: the data of a speculative load came back; the load
\* enters the buffer through add_st.  When the buffer refuses it nothing here
\* changes.
PerformedSpec(l, w) ==
  /\ can_accept_st(scb, l)
  /\ writes[l] < MaxCallbacks
  /\ loads[l] < MaxCallbacks
  /\ add_st(l, w)
  /\ loads' = [loads EXCEPT ![l] = @ + 1]
  /\ UNCHANGED <<prefetches, unperformed, dropped>>

\* FULoad::preretire of a speculative load: its line leaves the buffer if the
\* load had entered it (remove_spec_load), and what it prefetched is promoted.
Preretire(l, present) ==
  LET s == IF present THEN Erase(scb, {l}) ELSE scb IN
  /\ present => loads[l] > 0
  /\ loads' = [loads EXCEPT ![l] = IF present THEN @ - 1 ELSE @]
  /\ scb' = Erase(s, Promoted(s, l))
  /\ UNCHANGED <<writes, prefetches, unperformed, dropped>>

\* Prefetcher::nextPrefetch for a speculative load of line ind.
try_prefetch(l, ind) ==
  /\ l \notin Tracked(scb)
  /\ prefetches[l] < MaxCallbacks
  /\ scb' = [MakeRoom(scb) EXCEPT ![l] = InitPrefetch(ind)]
  /\ prefetches' = [prefetches EXCEPT ![l] = @ + 1]
  /\ dropped' = dropped \ {l}
  /\ UNCHANGED <<writes, loads, unperformed>>

\* The data of a prefetch arrived.
prefetch_done(l) ==
  /\ prefetches[l] > 0
  /\ prefetches' = [prefetches EXCEPT ![l] = @ - 1]
  /\ scb' = IF l \in Tracked(scb) /\ scb[l].prefetch_line
              THEN [scb EXCEPT ![l].state = "Clean"] ELSE scb
  /\ UNCHANGED <<writes, loads, unperformed, dropped>>

\* CCache::doReq: a prefetch that finds its line in the L1 is useless; it is
\* dropped and retired without an answer.
prefetch_dropped(l) ==
  /\ PrefetchHits
  /\ prefetches[l] > 0
  /\ prefetches' = [prefetches EXCEPT ![l] = @ - 1]
  /\ dropped' = dropped \cup {l}
  /\ UNCHANGED <<scb, writes, loads, unperformed>>

\* Mutant: an ownership_done for a write that was never sent.
ownership_done_spurious(l) ==
  /\ writes' = [writes EXCEPT ![l] = @ - 1]
  /\ scb' = IF l \in Tracked(scb)
              THEN [scb EXCEPT ![l].state = "Clean"] ELSE scb
  /\ UNCHANGED <<prefetches, loads, unperformed, dropped>>

\* Mutant: ownership_done leaves the line waiting.
ownership_done_lost(l) ==
  /\ writes[l] > 0
  /\ writes' = [writes EXCEPT ![l] = @ - 1]
  /\ UNCHANGED <<scb, prefetches, loads, unperformed, dropped>>

\* The L1 owns the line of a write the buffer sent.
ownership_done(l) ==
  /\ writes[l] > 0
  /\ writes' = [writes EXCEPT ![l] = @ - 1]
  /\ scb' = IF l \in Tracked(scb)
              THEN [scb EXCEPT ![l].state = "Clean"] ELSE scb
  /\ unperformed' = [unperformed EXCEPT ![l] = IF writes[l] = 1 THEN {} ELSE @]
  /\ UNCHANGED <<prefetches, loads, dropped>>

\* GProcessor::flush_transient_from_scb, on every fetch that is not blocked.
flush_transient ==
  /\ FlushTransients
  /\ scb' = Erase(scb, {l \in Tracked(scb) : scb[l].transient})
  /\ UNCHANGED <<writes, prefetches, loads, unperformed, dropped>>

----------------------------------------------------------------------------
Init ==
  /\ scb        = [l \in Lines |-> Absent]
  /\ writes     = [l \in Lines |-> 0]
  /\ prefetches = [l \in Lines |-> 0]
  /\ loads      = [l \in Lines |-> 0]
  /\ unperformed = [l \in Lines |-> {}]
  /\ dropped = {}

Next ==
  \/ \E l \in Lines, w \in Words : Store(l, w)
  \/ \E l \in SpecLoadLines, w \in Words : PerformedSpec(l, w)
  \/ \E l \in SpecLoadLines, present \in BOOLEAN : Preretire(l, present)
  \/ \E l \in PrefetchLines, ind \in SpecLoadLines : try_prefetch(l, ind)
  \/ \E l \in Lines : prefetch_done(l)
  \/ \E l \in Lines : prefetch_dropped(l)
  \/ \E l \in Lines : ownership_done(l)
  \/ flush_transient

\* The memory answers every write it was sent, and every prefetch it does not
\* drop.
Fairness ==
  /\ \A l \in Lines : WF_vars(ownership_done(l))
  /\ \A l \in Lines : WF_vars(prefetch_done(l) \/ prefetch_dropped(l))

Spec == Init /\ [][Next]_vars

FairSpec == Spec /\ Fairness

----------------------------------------------------------------------------
(* Properties *)

\* add_st returns early on a line that waits ("with pending WB") and only
\* ownership_done or prefetch_done ends the wait: a line the buffer waits for
\* has a callback in flight that will clean it.
WaitingHasCallback ==
  \A l \in Lines : is_waiting_wb(scb[l]) =>
     \/ writes[l] > 0
     \/ scb[l].prefetch_line /\ prefetches[l] > 0

\* With prefetches the only lines that wait for nothing carry the transient
\* mark of a prefetch: one that a store turned into a store line before its
\* data came (convert_to_store on the early return of add_st), or one that
\* the L1 dropped because it had the line.
OnlyPrefetchesStall ==
  \A l \in Lines : is_waiting_wb(scb[l]) =>
     \/ writes[l] > 0
     \/ scb[l].prefetch_line /\ prefetches[l] > 0
     \/ scb[l].transient /\ (scb[l].prefetch_line => l \in dropped)

\* Lines only stores use: no speculative load and no prefetch touches them.
StoreOnly == Lines \ (SpecLoadLines \cup PrefetchLines)

\* Lines that no prefetch brought.
StoreLines(s) == {l \in Tracked(s) : ~s[l].transient}

\* can_accept_st and the room made by add_st keep the lines that are not
\* prefetches within one of scb_size (add_st compares with >, so one line more
\* than scb_size fits), however loads, prefetches and flushes interleave.
CapacityBound == Cardinality(StoreLines(scb)) <= scb_size + 1

\* A word a retired store put in the buffer is forwarded to loads until the
\* write of its line has been acknowledged: neither making room, nor a flush,
\* nor what loads of other lines remove or promote may lose it.
StoresStayForwardable ==
  \A l \in StoreOnly : \A w \in unperformed[l] : is_ld_forward(scb, l, w)

\* The buffer drains: a line that waits for its write stops waiting, so a
\* store refused by can_accept_st is not refused for ever.
WaitingLinesGetClean ==
  \A l \in Lines : is_waiting_wb(scb[l]) ~> ~is_waiting_wb(scb[l])

\* The same for the lines that are never prefetched.
UnprefetchedLinesGetClean ==
  \A l \in Lines \ PrefetchLines : is_waiting_wb(scb[l]) ~> ~is_waiting_wb(scb[l])
============================================================================
