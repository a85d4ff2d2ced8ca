----------------------------- MODULE Prefetcher -----------------------------
(***************************************************************************)
(* The stride prefetcher of a core (simu/Prefetcher.cpp) and its table of  *)
(* strides (simu/AddressPredictor.cpp).  A load that executes trains the   *)
(* entry of its PC; when the stride is trusted it arms a chain, and the    *)
(* callback nextPrefetch hands out one prefetch a clock: to the DL1, or,   *)
(* when a speculative load armed the chain, to the store buffer, with the  *)
(* address of that load.  Loads go on executing between two callbacks.     *)
(*                                                                         *)
(* No instruction is chained in this build (Dinst::getChained is 0 and     *)
(* setChain has no caller), so pending_chain_fetch is always 0.            *)
(***************************************************************************)
EXTENDS Integers

CONSTANTS PCs,         \* the load instructions
          Loads,       \* the addresses they read
          Size, Width, \* bimodal_size and bimodal_width
          Degrees, Distance,  \* the degrees a configuration may have, and distance
          AddrBits, IntBits   \* widths of Addr_t and of the int of a delta

ASSUME PrefetcherAssumption ==
    /\ Degrees \subseteq 1..1024 /\ \A d \in Degrees : Distance \in 0..d
    /\ Width \in 1..8 /\ Size \in {2^k : k \in 2..16}
    /\ 2^AddrBits \in Nat \ {0} /\ Loads \subseteq 0..(2^AddrBits - 1)
    /\ 2^IntBits \in Nat \ {0} /\ 2^IntBits % 2 = 0 /\ 2^AddrBits % 2^IntBits = 0

VARIABLES degree,               \* read from the configuration
          table,                \* BimodalStride::table
          pending_prefetch, pending_preq_pc, pending_preq_conf,
          pending_preq_addr, curPrefetch,
          inducing_spec_load, inducing_spec_load_addr,
          scheduled,            \* nextPrefetchCBs in the event queue
          armed,                \* history: the load that armed the chain
          out,                  \* history: what this step handed out
          steady                \* history: the last stride of an entry, as the distance of
                                \* two addresses, and how often it was seen in a row

pending == <<pending_prefetch, pending_preq_pc, pending_preq_conf,
             pending_preq_addr, curPrefetch>>
inducing == <<inducing_spec_load, inducing_spec_load_addr>>
vars == <<degree, table, pending, inducing, scheduled, armed, out, steady>>

None == [to |-> "nobody"]

-----------------------------------------------------------------------------
(* The table of strides. *)

max_conf == 2^Width

\* Exclusive or, bit by bit.
xor[a \in Nat, b \in Nat] ==
    IF a = 0 THEN b ELSE ((a + b) % 2) + 2 * xor[a \div 2, b \div 2]

get_index == [pc \in PCs |-> xor[(pc \div 4) \div 128, pc \div 4] % Size]

Entries == {get_index[pc] : pc \in PCs}

Entry == [addr |-> 0, delta |-> 0, delta2 |-> 0, conf |-> 0, conf2 |-> 0]

\* What an int keeps of x: its low bits, as a signed number.  The difference
\* of two addresses is narrowed to it, and a delta times a distance wraps in it.
toInt(x) == LET r == x % 2^IntBits
            IN  IF r < 2^IntBits \div 2 THEN r ELSE r - 2^IntBits

halved_or_less(c) == IF c > max_conf \div 4 THEN c \div 2
                     ELSE IF c > 0 THEN c - 1 ELSE 0

\* BimodalLastEntry::update: a second delta challenges the first, and takes
\* its place when it is trusted more.  (conf never exceeds max_conf.)
counted(e, ndelta) ==
    IF e.delta = ndelta
    THEN IF e.conf < max_conf THEN [e EXCEPT !.conf = @ + 1]
         ELSE [e EXCEPT !.conf2 = halved_or_less(@)]
    ELSE LET c2 == IF e.delta2 # ndelta THEN halved_or_less(e.conf2)
                   ELSE IF e.conf2 < max_conf THEN e.conf2 + 1 ELSE e.conf2
         IN  [e EXCEPT !.conf = IF @ > 0 THEN @ - 1 ELSE 0,
                       !.conf2 = c2,
                       !.delta2 = IF c2 = 0 THEN ndelta ELSE @]

\* Mutant: the challenger never takes the place of the first delta.
preferred_never(e) == e

preferred(e) ==
    IF e.conf < e.conf2
    THEN [e EXCEPT !.delta = e.delta2, !.conf = e.conf2,
                   !.delta2 = e.delta, !.conf2 = e.conf]
    ELSE e

entry_update(e, ndelta) == preferred(counted(e, ndelta))

bimodal_update(pc, naddr) ==
    LET e == table[get_index[pc]] IN
    [table EXCEPT ![get_index[pc]] =
        entry_update([e EXCEPT !.addr = naddr], toInt(naddr - e.addr))]

\* Conf_level, with None = 0, Low = 1, Mid = 2, High = 3.
has_conf(t, pc) ==
    LET v == t[get_index[pc]].conf IN
    IF v >= max_conf - 4 THEN 3
    ELSE IF v >= max_conf \div 4 THEN 2
    ELSE IF v <= 4 THEN 0 ELSE 1

\* Stride_address_predictor::predict: at least one line ahead when inLines.
predict(t, pc, distance, inLines) ==
    LET e == t[get_index[pc]]
        offset == toInt(IF e.delta < 64 /\ inLines THEN 64 * distance ELSE e.delta * distance)
    IN  IF has_conf(t, pc) = 0 THEN 0 ELSE (e.addr + offset) % 2^AddrBits

-----------------------------------------------------------------------------
Init ==
    /\ degree \in Degrees
    /\ table = [i \in Entries |-> Entry]
    /\ pending_prefetch = FALSE
    /\ pending_preq_pc \in PCs      \* not initialised: any value
    /\ pending_preq_conf = 0
    /\ pending_preq_addr = 0        \* not initialised, and written before it is read
    /\ curPrefetch = 0
    /\ inducing_spec_load = FALSE
    /\ inducing_spec_load_addr = 0  \* the same
    /\ scheduled = 0
    /\ armed = None
    /\ out = None
    /\ steady = [i \in Entries |-> [delta |-> 0, n |-> 0]]

\* The number of equal strides in a row after which the entry must know them.
LearnAfter == 2 * max_conf

observe(pc, naddr) ==
    LET i == get_index[pc]
        d == (naddr - table[i].addr) % 2^AddrBits
        n == IF d = steady[i].delta THEN steady[i].n + 1 ELSE 1
    IN  steady' = [steady EXCEPT ![i] =
                      [delta |-> d, n |-> IF n < LearnAfter THEN n ELSE LearnAfter]]

\* A better armed chain of the same PC is left alone; so is a PC not trusted.
refused(pc, level) ==
    \/ pending_preq_pc = pc /\ pending_preq_conf > 4 * level
    \/ level <= 1

schedule_next == scheduled' = IF pending_prefetch THEN scheduled ELSE scheduled + 1

\* Prefetcher::exe, called when a load executes.
exe(pc, addr, spec) ==
    /\ table' = bimodal_update(pc, addr)
    /\ UNCHANGED degree
    /\ observe(pc, addr)
    /\ out' = None
    /\ LET level == has_conf(table', pc) IN
       \/ /\ refused(pc, level)
          /\ UNCHANGED <<pending, inducing, scheduled, armed>>
       \/ /\ ~refused(pc, level)
          /\ pending_preq_pc' = pc
          /\ pending_preq_conf' = 4 * level
          /\ inducing_spec_load' = spec
          /\ inducing_spec_load_addr' = addr
          /\ curPrefetch' = Distance
          /\ pending_preq_addr' = addr
          /\ pending_prefetch' = TRUE
          /\ schedule_next
          /\ armed' = [pc |-> pc, addr |-> addr, spec |-> spec]

\* The end of a chain.
stop ==
    /\ pending_prefetch' = FALSE
    /\ pending_preq_conf' = 0
    /\ UNCHANGED pending_preq_pc

\* Mutant: the prefetch is tagged with the address predicted before it.
handed_stale(paddr) ==
    IF inducing_spec_load
    THEN [to |-> "scb", addr |-> paddr, pc |-> pending_preq_pc, load |-> paddr]
    ELSE [to |-> "DL1", addr |-> paddr, pc |-> pending_preq_pc]

\* Store_buffer::try_prefetch or MemObj::tryPrefetch.
handed(paddr) ==
    IF inducing_spec_load
    THEN [to |-> "scb", addr |-> paddr, pc |-> pending_preq_pc,
          load |-> inducing_spec_load_addr]
    ELSE [to |-> "DL1", addr |-> paddr, pc |-> pending_preq_pc]

\* Prefetcher::nextPrefetch, the callback: past the degree, or with the
\* confidence used up, the chain ends (that no chain is pending when it is
\* called never happens, by ChainOwned) ...
nextPrefetch_spent ==
    /\ scheduled > 0 /\ pending_prefetch
    /\ curPrefetch + 1 >= degree \/ pending_preq_conf - 1 <= 1
    /\ scheduled' = scheduled - 1
    /\ curPrefetch' = curPrefetch + 1
    /\ stop
    /\ out' = None
    /\ UNCHANGED <<degree, table, pending_preq_addr, inducing, armed, steady>>

\* ... it ends when no address is predicted (try_chain_predict is FALSE for
\* the stride predictor) ...
distance_ahead == curPrefetch + 1 + (curPrefetch + 1 - Distance)

nextPrefetch_lost ==
    /\ scheduled > 0 /\ pending_prefetch
    /\ curPrefetch + 1 < degree /\ pending_preq_conf - 1 > 1
    /\ predict(table, pending_preq_pc, distance_ahead, TRUE) \div 4096 = 0
    /\ scheduled' = scheduled - 1
    /\ curPrefetch' = curPrefetch + 1
    /\ stop
    /\ out' = None
    /\ UNCHANGED <<degree, table, pending_preq_addr, inducing, armed, steady>>

\* ... or a prefetch goes out; the test for an offset of 0 compares the
\* address with the variable it was just assigned to.
nextPrefetch ==
    /\ scheduled > 0 /\ pending_prefetch
    /\ curPrefetch + 1 < degree /\ pending_preq_conf - 1 > 1
    /\ LET paddr == predict(table, pending_preq_pc, distance_ahead, TRUE) IN
       /\ paddr \div 4096 # 0
       /\ pending_preq_addr' = paddr
       /\ out' = handed(paddr)
       /\ curPrefetch' = curPrefetch + 1
       /\ IF paddr = pending_preq_addr'
          THEN stop /\ scheduled' = scheduled - 1
          ELSE /\ pending_preq_conf' = pending_preq_conf - 1
               /\ UNCHANGED <<pending_prefetch, pending_preq_pc, scheduled>>
    /\ UNCHANGED <<degree, table, inducing, armed, steady>>

Next ==
    \/ \E pc \in PCs, addr \in Loads, spec \in BOOLEAN : exe(pc, addr, spec)
    \/ nextPrefetch_spent
    \/ nextPrefetch_lost
    \/ nextPrefetch

Spec == Init /\ [][Next]_vars

-----------------------------------------------------------------------------
\* However loads and callbacks interleave there is one nextPrefetchCB in the
\* event queue while a chain is pending and none otherwise (Prefetcher.cpp:111;
\* the callback is a member of the prefetcher and can be queued once), and what
\* a callback hands out belongs to the load that armed the chain last: its PC,
\* and, exactly when that load was speculative, the store buffer with the
\* address of that load.
ChainOwned ==
    /\ scheduled = (IF pending_prefetch THEN 1 ELSE 0)
    /\ out # None =>
         /\ out.pc = armed.pc
         /\ out.to = (IF armed.spec THEN "scb" ELSE "DL1")
         /\ out.to = "scb" => out.load = armed.addr

\* The strides, forwards or backwards, that an int holds.
fitsInt(d) == d < 2^IntBits \div 2 \/ d >= 2^AddrBits - 2^IntBits \div 2

\* A stride that goes on long enough is learned and trusted whatever the entry
\* held before, two PCs that share it included: the challenger delta2 always
\* gets through (AddressPredictor.cpp:30-66).  The predicted next address is
\* the right one when the stride fits an int; of a longer one
\* BimodalStride::update keeps the low bits (AddressPredictor.cpp:73), and the
\* prediction, trusted as much, is off by the rest.
StrideLearned ==
    \A pc \in PCs :
        LET i == get_index[pc] IN
        steady[i].n = LearnAfter =>
            /\ has_conf(table, pc) = 3
            /\ fitsInt(steady[i].delta) <=>
                 predict(table, pc, 1, FALSE) = (table[i].addr + steady[i].delta) % 2^AddrBits

\* A chain is cut after a prefetch only because of an offset of 0
\* (the comment at Prefetcher.cpp:199): it otherwise runs up to the degree.
CutAtOffsetZero ==
    [][ out' # None /\ ~pending_prefetch' => out'.addr = pending_preq_addr ]_vars
=============================================================================
