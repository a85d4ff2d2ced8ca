------------------------- MODULE StoreBufferProofs -------------------------
(***************************************************************************)
(* Proofs about StoreBuffer, for every set of lines and words and every    *)
(* scb_size.                                                               *)
(***************************************************************************)
EXTENDS StoreBuffer, FiniteSetTheorems, TLAPS

\* Erasing lines and making room keep the map well typed (remove_clean,
\* add_st, try_prefetch).
LEMMA MapUpdatesTyped ==
  ASSUME NEW s \in [Lines -> StoreBufferLine]
  PROVE  /\ \A D : Erase(s, D) \in [Lines -> StoreBufferLine]
         /\ remove_clean(s) \in [Lines -> StoreBufferLine]
         /\ MakeRoom(s) \in [Lines -> StoreBufferLine]
  <1>1. Absent \in StoreBufferLine
    BY DEF Absent, StoreBufferLine, LineState
  <1>2. \A D : Erase(s, D) \in [Lines -> StoreBufferLine]
    BY <1>1 DEF Erase
  <1>3. QED  BY <1>2 DEF remove_clean, MakeRoom

\* The lines add_st and try_prefetch build are lines.
LEMMA NewLinesTyped ==
  /\ \A pf \in BOOLEAN, ind \in Lines \cup {NoLine}, w \in Words :
        InitLine(pf, ind, w) \in StoreBufferLine
  /\ \A ind \in Lines \cup {NoLine} : InitPrefetch(ind) \in StoreBufferLine
  /\ \A line \in StoreBufferLine, w \in Words :
        /\ ConvertAndAdd(line, w) \in StoreBufferLine
        /\ ConvertAndAdd(line, w).state = line.state
        /\ ConvertAndAdd(line, w).transient = line.transient
        /\ ConvertAndAdd(line, w).prefetch_line = FALSE
        /\ w \in ConvertAndAdd(line, w).word_present
        /\ ~line.prefetch_line =>
             line.word_present \subseteq ConvertAndAdd(line, w).word_present
        /\ [ConvertAndAdd(line, w) EXCEPT !.state = "Uncoherent"]
             \in StoreBufferLine
  <1>1. ASSUME NEW pf \in BOOLEAN, NEW ind \in Lines \cup {NoLine}, NEW w \in Words
        PROVE  InitLine(pf, ind, w) \in StoreBufferLine
    BY DEF InitLine, StoreBufferLine, LineState
  <1>2. ASSUME NEW ind \in Lines \cup {NoLine}
        PROVE  InitPrefetch(ind) \in StoreBufferLine
    BY DEF InitPrefetch, StoreBufferLine, LineState
  <1>3. ASSUME NEW line \in StoreBufferLine, NEW w \in Words
        PROVE  /\ ConvertAndAdd(line, w) \in StoreBufferLine
               /\ ConvertAndAdd(line, w).state = line.state
               /\ ConvertAndAdd(line, w).transient = line.transient
               /\ ConvertAndAdd(line, w).prefetch_line = FALSE
               /\ w \in ConvertAndAdd(line, w).word_present
               /\ ~line.prefetch_line =>
                    line.word_present \subseteq ConvertAndAdd(line, w).word_present
               /\ [ConvertAndAdd(line, w) EXCEPT !.state = "Uncoherent"]
                    \in StoreBufferLine
    <2> DEFINE words == IF line.prefetch_line THEN {w} ELSE line.word_present \cup {w}
    <2>1. PICK n : n = ConvertAndAdd(line, w)
      OBVIOUS
    <2>2. /\ words \in SUBSET Words /\ w \in words
          /\ ~line.prefetch_line => line.word_present \subseteq words
      BY DEF StoreBufferLine
    <2>3. n = [line EXCEPT !.word_present = words, !.prefetch_line = FALSE]
      BY <2>1 DEF ConvertAndAdd
    <2> HIDE DEF words
    <2>4. n \in StoreBufferLine
      BY <2>2, <2>3 DEF StoreBufferLine
    <2>5. /\ n.state = line.state /\ n.transient = line.transient
          /\ n.prefetch_line = FALSE /\ n.word_present = words
      BY <2>3 DEF StoreBufferLine
    <2>6. [n EXCEPT !.state = "Uncoherent"] \in StoreBufferLine
      BY <2>4 DEF StoreBufferLine, LineState
    <2>7. QED  BY <2>1, <2>2, <2>4, <2>5, <2>6
  <1>4. QED  BY <1>1, <1>2, <1>3

\* add_st keeps the types of the map and of the writes in flight.
LEMMA AddStTyped ==
  ASSUME TypeOK, NEW l \in Lines, NEW w \in Words, add_st(l, w)
  PROVE  /\ scb' \in [Lines -> StoreBufferLine]
         /\ writes' \in [Lines -> Nat]
  <1> USE DEF TypeOK
  <1>1. CASE l \notin Tracked(scb)
    <2>1. PICK pf \in UninitPrefetch :
            \E ind \in (IF pf THEN Lines \cup {NoLine} ELSE {NoLine}) :
              scb' = [MakeRoom(scb) EXCEPT ![l] = InitLine(pf, ind, w)]
      BY <1>1 DEF add_st
    <2>2. PICK ind \in Lines \cup {NoLine} :
            scb' = [MakeRoom(scb) EXCEPT ![l] = InitLine(pf, ind, w)]
      BY <2>1
    <2>3. pf \in BOOLEAN
      BY <2>1, StoreBufferAssumption
    <2>4. InitLine(pf, ind, w) \in StoreBufferLine
      BY <2>2, <2>3, NewLinesTyped
    <2>5. scb' \in [Lines -> StoreBufferLine]
      BY <2>2, <2>4, MapUpdatesTyped
    <2>6. writes' \in [Lines -> Nat]
      BY <1>1 DEF add_st
    <2>7. QED  BY <2>5, <2>6
  <1>2. CASE l \in Tracked(scb) /\ is_waiting_wb(scb[l])
    <2>1. /\ scb' = [scb EXCEPT ![l] = ConvertAndAdd(scb[l], w)]
          /\ writes' = writes
      BY <1>2 DEF add_st
    <2>2. ConvertAndAdd(scb[l], w) \in StoreBufferLine
      BY NewLinesTyped
    <2>3. QED  BY <2>1, <2>2
  <1>3. CASE l \in Tracked(scb) /\ ~is_waiting_wb(scb[l])
    <2>1. /\ scb' = [scb EXCEPT ![l] =
                       [ConvertAndAdd(scb[l], w) EXCEPT !.state = "Uncoherent"]]
          /\ writes' = [writes EXCEPT ![l] = @ + 1]
      BY <1>3 DEF add_st
    <2>2. [ConvertAndAdd(scb[l], w) EXCEPT !.state = "Uncoherent"]
            \in StoreBufferLine
      BY NewLinesTyped
    <2>3. QED  BY <2>1, <2>2
  <1>4. QED  BY <1>1, <1>2, <1>3

\* Setting a line clean keeps the map well typed.
LEMMA SetCleanTyped ==
  ASSUME NEW s \in [Lines -> StoreBufferLine], NEW l \in Lines
  PROVE  [s EXCEPT ![l].state = "Clean"] \in [Lines -> StoreBufferLine]
  BY DEF StoreBufferLine, LineState

\* Every step of the buffer and of its callers keeps the state well typed.
LEMMA TypeStep ==
  TypeOK /\ [Next]_vars => TypeOK'
  <1> SUFFICES ASSUME TypeOK, [Next]_vars PROVE TypeOK'
    OBVIOUS
  <1> USE DEF TypeOK
  <1>1. ASSUME NEW l \in Lines, NEW w \in Words, Store(l, w) PROVE TypeOK'
    BY <1>1, AddStTyped DEF Store
  <1>2. ASSUME NEW l \in SpecLoadLines, NEW w \in Words, PerformedSpec(l, w)
        PROVE  TypeOK'
    BY <1>2, AddStTyped, StoreBufferAssumption DEF PerformedSpec
  <1>3. ASSUME NEW l \in SpecLoadLines, NEW present \in BOOLEAN,
               Preretire(l, present)
        PROVE  TypeOK'
    <2> DEFINE s == IF present THEN Erase(scb, {l}) ELSE scb
    <2>1. s \in [Lines -> StoreBufferLine]
      BY MapUpdatesTyped
    <2>2. Erase(s, Promoted(s, l)) \in [Lines -> StoreBufferLine]
      BY <2>1, MapUpdatesTyped
    <2>3. loads' \in [Lines -> Nat]
      <3>1. /\ loads' = [loads EXCEPT ![l] = IF present THEN @ - 1 ELSE @]
            /\ present => loads[l] > 0
        BY <1>3 DEF Preretire
      <3>2. l \in Lines /\ loads[l] \in Nat
        BY StoreBufferAssumption
      <3>3. (IF present THEN loads[l] - 1 ELSE loads[l]) \in Nat
        BY <3>1, <3>2
      <3>4. QED  BY <3>1, <3>2, <3>3
    <2>4. QED  BY <1>3, <2>2, <2>3 DEF Preretire
  <1>4. ASSUME NEW l \in PrefetchLines, NEW ind \in SpecLoadLines,
               try_prefetch(l, ind)
        PROVE  TypeOK'
    <2>1. InitPrefetch(ind) \in StoreBufferLine
      BY NewLinesTyped, StoreBufferAssumption
    <2>2. l \in Lines
      BY StoreBufferAssumption
    <2>3. MakeRoom(scb) \in [Lines -> StoreBufferLine]
      BY MapUpdatesTyped
    <2>4. scb' \in [Lines -> StoreBufferLine]
      BY <1>4, <2>1, <2>2, <2>3 DEF try_prefetch
    <2>5. prefetches' \in [Lines -> Nat]
      BY <1>4, <2>2 DEF try_prefetch
    <2>6. QED  BY <1>4, <2>4, <2>5 DEF try_prefetch
  <1>5. ASSUME NEW l \in Lines, prefetch_done(l) PROVE TypeOK'
    BY <1>5, SetCleanTyped DEF prefetch_done
  <1>6. ASSUME NEW l \in Lines, ownership_done(l) PROVE TypeOK'
    BY <1>6, SetCleanTyped DEF ownership_done
  <1>7. CASE flush_transient
    BY <1>7, MapUpdatesTyped DEF flush_transient
  <1>8. ASSUME NEW l \in Lines, prefetch_dropped(l) PROVE TypeOK'
    BY <1>8 DEF prefetch_dropped
  <1>9. CASE UNCHANGED vars
    BY <1>9 DEF vars
  <1>10. QED
    BY <1>1, <1>2, <1>3, <1>4, <1>5, <1>6, <1>7, <1>8, <1>9 DEF Next

\* The state of the store buffer is always well typed.
THEOREM TypeCorrect == Spec => []TypeOK
  <1>1. Init => TypeOK
    BY DEF Init, TypeOK, Absent, StoreBufferLine, LineState
  <1>2. QED  BY <1>1, TypeStep, PTL DEF Spec

----------------------------------------------------------------------------
(* What add_st does to each line *)

\* add_st leaves every other line alone, or removes it to make room, and then
\* only when it is clean or a prefetch.
LEMMA AddStOthers ==
  ASSUME TypeOK, NEW l \in Lines, NEW w \in Words, add_st(l, w),
         NEW k \in Lines, k # l
  PROVE  /\ writes'[k] = writes[k]
         /\ \/ scb'[k] = scb[k]
            \/ /\ scb'[k] = Absent
               /\ scb[k].state = "Clean" \/ scb[k].prefetch_line
  <1>1. CASE l \notin Tracked(scb)
    <2>1. /\ scb'[k] = MakeRoom(scb)[k]
          /\ writes'[k] = writes[k]
      BY <1>1, MapUpdatesTyped DEF add_st, TypeOK
    <2>2. \/ MakeRoom(scb)[k] = scb[k]
          \/ /\ MakeRoom(scb)[k] = Absent
             /\ scb[k].state = "Clean" \/ scb[k].prefetch_line
      BY DEF MakeRoom, remove_clean, Erase
    <2>3. QED  BY <2>1, <2>2
  <1>2. CASE l \in Tracked(scb)
    BY <1>2 DEF add_st, TypeOK
  <1>3. QED  BY <1>1, <1>2

\* The line add_st is called for: a new or a clean line waits with one more
\* write in flight; a line that waits keeps its state and its transient mark.
LEMMA AddStLine ==
  ASSUME TypeOK, NEW l \in Lines, NEW w \in Words, add_st(l, w)
  PROVE  /\ scb'[l].state = "Uncoherent"
         /\ w \in scb'[l].word_present
         /\ l \in Tracked(scb) => scb'[l].transient = scb[l].transient
         /\ \/ /\ scb[l].state = "Uncoherent"
               /\ writes'[l] = writes[l]
               /\ scb'[l].transient = scb[l].transient
               /\ ~scb'[l].prefetch_line
               /\ ~scb[l].prefetch_line =>
                    scb[l].word_present \subseteq scb'[l].word_present
            \/ /\ scb[l].state # "Uncoherent"
               /\ writes'[l] = writes[l] + 1
               /\ scb'[l].transient => scb[l].transient
               /\ scb'[l].prefetch_line => TRUE \in UninitPrefetch
  <1> USE DEF TypeOK
  <1>0. scb[l] \in StoreBufferLine
    OBVIOUS
  <1>1. CASE l \notin Tracked(scb)
    <2>1. PICK pf \in UninitPrefetch :
            \E ind : scb' = [MakeRoom(scb) EXCEPT ![l] = InitLine(pf, ind, w)]
      BY <1>1 DEF add_st
    <2>2. PICK ind : scb' = [MakeRoom(scb) EXCEPT ![l] = InitLine(pf, ind, w)]
      BY <2>1
    <2>3. scb'[l] = InitLine(pf, ind, w)
      BY <2>2, MapUpdatesTyped
    <2>4. scb[l].state # "Uncoherent" /\ writes'[l] = writes[l] + 1
      BY <1>1 DEF add_st, Tracked
    <2>5. /\ scb'[l].state = "Uncoherent" /\ scb'[l].transient = FALSE
          /\ scb'[l].word_present = {w} /\ scb'[l].prefetch_line = pf
      BY <2>3 DEF InitLine
    <2>6. pf \in BOOLEAN
      BY StoreBufferAssumption
    <2>7. pf => TRUE \in UninitPrefetch
      BY <2>6
    <2>8. QED
      BY <1>1, <2>4, <2>5, <2>7
  <1>2. CASE l \in Tracked(scb) /\ is_waiting_wb(scb[l])
    <2>1. scb'[l] = ConvertAndAdd(scb[l], w) /\ writes'[l] = writes[l]
      BY <1>2 DEF add_st
    <2>2. PICK n : n = ConvertAndAdd(scb[l], w)
      OBVIOUS
    <2>3. /\ n.state = scb[l].state /\ n.transient = scb[l].transient
          /\ n.prefetch_line = FALSE /\ w \in n.word_present
          /\ ~scb[l].prefetch_line => scb[l].word_present \subseteq n.word_present
      BY <1>0, <2>2, NewLinesTyped
    <2>4. scb[l].state = "Uncoherent"
      BY <1>2 DEF is_waiting_wb
    <2>5. QED
      BY <2>1, <2>2, <2>3, <2>4
  <1>3. CASE l \in Tracked(scb) /\ ~is_waiting_wb(scb[l])
    <2> DEFINE c == ConvertAndAdd(scb[l], w)
    <2>1. /\ scb'[l] = [c EXCEPT !.state = "Uncoherent"]
          /\ writes'[l] = writes[l] + 1
      BY <1>3 DEF add_st
    <2>2. /\ c \in StoreBufferLine /\ w \in c.word_present
          /\ c.transient = scb[l].transient /\ c.prefetch_line = FALSE
      BY <1>0, NewLinesTyped
    <2>3. /\ scb'[l].state = "Uncoherent" /\ scb'[l].transient = c.transient
          /\ scb'[l].word_present = c.word_present
          /\ scb'[l].prefetch_line = c.prefetch_line
      BY <2>1, <2>2 DEF StoreBufferLine
    <2>4. QED
      BY <1>3, <2>1, <2>2, <2>3 DEF is_waiting_wb
  <1>4. QED  BY <1>1, <1>2, <1>3

----------------------------------------------------------------------------
(* A line that waits *)

\* The inductive form of OnlyPrefetchesStall: a waiting line without a
\* write in flight came from try_prefetch.
StallInv ==
  \A l \in Lines : is_waiting_wb(scb[l]) =>
     \/ writes[l] > 0
     \/ /\ scb[l].transient
        /\ scb[l].prefetch_line => prefetches[l] > 0 \/ l \in dropped

\* What holds of the lines when the address predictor produces none: no line
\* is transient, so flush_transient removes nothing.
NoTransient == \A l \in Lines : ~scb[l].transient

\* A line outside the map is invalid, unmarked and holds no word.
LEMMA AbsentFields ==
  /\ Absent.state = "Invalid" /\ Absent.transient = FALSE
  /\ Absent.prefetch_line = FALSE
  BY DEF Absent

\* Erasing lines leaves the others as they were.
LEMMA EraseLine ==
  ASSUME NEW s, NEW D, NEW k \in Lines
  PROVE  Erase(s, D)[k] = s[k] \/ Erase(s, D)[k] = Absent
  BY DEF Erase

\* The waiting lines of every step of the buffer (add_st, try_prefetch, the
\* callbacks and the removals).
LEMMA StallStep ==
  TypeOK /\ StallInv /\ [Next]_vars => StallInv'
  <1> SUFFICES ASSUME TypeOK, StallInv, [Next]_vars, NEW k \in Lines,
                      is_waiting_wb(scb'[k])
               PROVE  \/ writes'[k] > 0
                      \/ /\ scb'[k].transient
                         /\ scb'[k].prefetch_line =>
                               prefetches'[k] > 0 \/ k \in dropped'
    BY DEF StallInv
  <1> USE AbsentFields DEF is_waiting_wb
  <1> DEFINE Goal == \/ writes'[k] > 0
                     \/ /\ scb'[k].transient
                        /\ scb'[k].prefetch_line =>
                              prefetches'[k] > 0 \/ k \in dropped'
  <1>0. ASSUME scb'[k] = scb[k], writes'[k] = writes[k],
               prefetches'[k] = prefetches[k], k \in dropped => k \in dropped'
        PROVE  Goal
    BY <1>0 DEF StallInv
  <1>1. ASSUME NEW l \in Lines, NEW w \in Words, add_st(l, w),
               UNCHANGED <<prefetches, dropped>>
        PROVE  Goal
    <2>1. CASE k # l
      <3>1. scb'[k] = scb[k] /\ writes'[k] = writes[k]
        BY <1>1, <2>1, AddStOthers
      <3>2. QED  BY <1>0, <1>1, <3>1
    <2>2. CASE k = l /\ scb[l].state = "Uncoherent"
      <3>1. /\ writes'[l] = writes[l]
            /\ scb'[l].transient = scb[l].transient
            /\ ~scb'[l].prefetch_line
        BY <1>1, <2>2, AddStLine
      <3>2. QED  BY <2>2, <3>1 DEF StallInv
    <2>3. CASE k = l /\ scb[l].state # "Uncoherent"
      <3>1. writes'[l] = writes[l] + 1 /\ writes[l] \in Nat
        BY <1>1, <2>3, AddStLine DEF TypeOK
      <3>2. QED  BY <2>3, <3>1
    <2>4. QED  BY <2>1, <2>2, <2>3
  <1>2. ASSUME NEW l \in Lines, NEW w \in Words, Store(l, w) PROVE Goal
    BY <1>1, <1>2 DEF Store
  <1>3. ASSUME NEW l \in SpecLoadLines, NEW w \in Words, PerformedSpec(l, w)
        PROVE  Goal
    BY <1>1, <1>3, StoreBufferAssumption DEF PerformedSpec
  <1>4. ASSUME NEW l \in SpecLoadLines, NEW present \in BOOLEAN,
               Preretire(l, present)
        PROVE  Goal
    <2>1. scb'[k] = scb[k]
      BY <1>4, EraseLine DEF Preretire
    <2>2. QED  BY <1>0, <1>4, <2>1 DEF Preretire
  <1>5. ASSUME NEW l \in PrefetchLines, NEW ind \in SpecLoadLines,
               try_prefetch(l, ind)
        PROVE  Goal
    <2>1. l \in Lines /\ MakeRoom(scb) \in [Lines -> StoreBufferLine]
      BY StoreBufferAssumption, MapUpdatesTyped DEF TypeOK
    <2>2. CASE k = l
      <3>1. scb'[k] = InitPrefetch(ind)
        BY <1>5, <2>1, <2>2 DEF try_prefetch
      <3>2. prefetches'[k] > 0
        BY <1>5, <2>1, <2>2 DEF try_prefetch, TypeOK
      <3>3. QED  BY <3>1, <3>2 DEF InitPrefetch
    <2>3. CASE k # l
      <3>1. scb'[k] = MakeRoom(scb)[k]
        BY <1>5, <2>1, <2>3 DEF try_prefetch
      <3>2. scb'[k] = scb[k]
        BY <3>1, EraseLine DEF MakeRoom, remove_clean
      <3>3. /\ prefetches'[k] = prefetches[k] /\ writes'[k] = writes[k]
            /\ k \in dropped => k \in dropped'
        BY <1>5, <2>1, <2>3 DEF try_prefetch, TypeOK
      <3>4. QED  BY <1>0, <3>2, <3>3
    <2>4. QED  BY <2>2, <2>3
  <1>6. ASSUME NEW l \in Lines, prefetch_done(l) PROVE Goal
    <2>1. CASE k # l
      BY <1>0, <1>6, <2>1 DEF prefetch_done, TypeOK
    <2>2. CASE k = l
      <3>1. CASE l \in Tracked(scb) /\ scb[l].prefetch_line
        <4>1. scb'[l].state = "Clean"
          BY <1>6, <3>1 DEF prefetch_done, TypeOK, StoreBufferLine
        <4>2. QED  BY <2>2, <4>1
      <3>2. CASE ~(l \in Tracked(scb) /\ scb[l].prefetch_line)
        <4>1. scb' = scb /\ writes' = writes
          BY <1>6, <3>2 DEF prefetch_done
        <4>2. ~scb[l].prefetch_line
          BY <2>2, <3>2, <4>1 DEF Tracked
        <4>3. QED  BY <2>2, <4>1, <4>2 DEF StallInv
      <3>3. QED  BY <3>1, <3>2
    <2>3. QED  BY <2>1, <2>2
  <1>7. ASSUME NEW l \in Lines, ownership_done(l) PROVE Goal
    <2>1. CASE k # l
      BY <1>0, <1>7, <2>1 DEF ownership_done, TypeOK
    <2>2. CASE k = l
      <3>1. scb'[l].state # "Uncoherent"
        BY <1>7 DEF ownership_done, TypeOK, StoreBufferLine, Tracked
      <3>2. QED  BY <2>2, <3>1
    <2>3. QED  BY <2>1, <2>2
  <1>8. CASE flush_transient
    <2>1. scb'[k] = scb[k]
      BY <1>8, EraseLine DEF flush_transient
    <2>2. QED  BY <1>0, <1>8, <2>1 DEF flush_transient
  <1>9. ASSUME NEW l \in Lines, prefetch_dropped(l) PROVE Goal
    <2>1. CASE k # l
      BY <1>0, <1>9, <2>1 DEF prefetch_dropped, TypeOK
    <2>2. CASE k = l
      <3>1. scb' = scb /\ writes' = writes /\ k \in dropped'
        BY <1>9, <2>2 DEF prefetch_dropped
      <3>2. QED  BY <3>1 DEF StallInv
    <2>3. QED  BY <2>1, <2>2
  <1>10. CASE UNCHANGED vars
    BY <1>0, <1>10 DEF vars
  <1>11. QED
    BY <1>2, <1>3, <1>4, <1>5, <1>6, <1>7, <1>8, <1>9, <1>10 DEF Next

\* Whatever the predictor, the loads, the flushes and the uninitialised field
\* do, the only lines that wait for no callback are prefetches: add_st made a
\* store line of them, or the L1 dropped them.
THEOREM StallCorrect == Spec => []OnlyPrefetchesStall
  <1>1. Init => StallInv
    BY DEF Init, StallInv, is_waiting_wb, Absent
  <1>2. StallInv => OnlyPrefetchesStall
    BY DEF StallInv, OnlyPrefetchesStall
  <1>3. QED  BY <1>1, <1>2, StallStep, TypeStep, TypeCorrect, PTL DEF Spec

\* Without prefetches no step marks a line transient.
LEMMA NoTransientStep ==
  ASSUME PrefetchLines = {}
  PROVE  TypeOK /\ NoTransient /\ [Next]_vars => NoTransient'
  <1> SUFFICES ASSUME TypeOK, NoTransient, [Next]_vars, NEW k \in Lines
               PROVE  ~scb'[k].transient
    BY DEF NoTransient
  <1> USE AbsentFields DEF NoTransient
  <1>1. ASSUME NEW l \in Lines, NEW w \in Words, add_st(l, w)
        PROVE  ~scb'[k].transient
    <2>1. CASE k # l
      BY <1>1, <2>1, AddStOthers
    <2>2. CASE k = l
      BY <1>1, <2>2, AddStLine
    <2>3. QED  BY <2>1, <2>2
  <1>2. ASSUME NEW l \in Lines, NEW w \in Words, Store(l, w)
        PROVE  ~scb'[k].transient
    BY <1>1, <1>2 DEF Store
  <1>3. ASSUME NEW l \in SpecLoadLines, NEW w \in Words, PerformedSpec(l, w)
        PROVE  ~scb'[k].transient
    BY <1>1, <1>3, StoreBufferAssumption DEF PerformedSpec
  <1>4. ASSUME NEW l \in SpecLoadLines, NEW present \in BOOLEAN,
               Preretire(l, present)
        PROVE  ~scb'[k].transient
    BY <1>4, EraseLine DEF Preretire
  <1>5. ASSUME NEW l \in Lines, prefetch_done(l) PROVE ~scb'[k].transient
    BY <1>5 DEF prefetch_done, TypeOK, StoreBufferLine
  <1>6. ASSUME NEW l \in Lines, ownership_done(l) PROVE ~scb'[k].transient
    BY <1>6 DEF ownership_done, TypeOK, StoreBufferLine
  <1>7. CASE flush_transient
    BY <1>7, EraseLine DEF flush_transient
  <1>8. ASSUME NEW l \in Lines, prefetch_dropped(l) PROVE ~scb'[k].transient
    BY <1>8 DEF prefetch_dropped
  <1>9. CASE UNCHANGED vars
    BY <1>9 DEF vars
  <1>10. QED
    BY <1>2, <1>3, <1>4, <1>5, <1>6, <1>7, <1>8, <1>9, PrefetchLines = {} DEF Next

\* With the address predictor off, every line add_st left waiting has a write
\* in flight whose ownership_done will clean it.
THEOREM CallbackCorrect ==
  ASSUME PrefetchLines = {}
  PROVE  Spec => []WaitingHasCallback
  <1>1. Init => StallInv /\ NoTransient
    BY DEF Init, StallInv, NoTransient, is_waiting_wb, Absent
  <1>2. StallInv /\ NoTransient => WaitingHasCallback
    BY DEF StallInv, NoTransient, WaitingHasCallback
  <1>3. TypeOK /\ NoTransient /\ [Next]_vars => NoTransient'
    BY PrefetchLines = {}, NoTransientStep
  <1>4. QED
    BY <1>1, <1>2, <1>3, StallStep, TypeCorrect, PTL DEF Spec

----------------------------------------------------------------------------
(* The number of lines *)

\* The lines of the map are finitely many and shrink when lines are erased.
LEMMA TrackedFinite ==
  ASSUME NEW s
  PROVE  /\ IsFiniteSet(Tracked(s)) /\ Cardinality(Tracked(s)) \in Nat
         /\ \A D : /\ Tracked(Erase(s, D)) \subseteq Tracked(s) \ D
                   /\ StoreLines(Erase(s, D)) \subseteq StoreLines(s)
  <1>1. Tracked(s) \subseteq Lines
    BY DEF Tracked
  <1>2. IsFiniteSet(Tracked(s)) /\ Cardinality(Tracked(s)) \in Nat
    BY <1>1, StoreBufferAssumption, FS_Subset, FS_CardinalityType
  <1>3. ASSUME NEW D
        PROVE  Tracked(Erase(s, D)) \subseteq Tracked(s) \ D
    BY AbsentFields DEF Tracked, Erase
  <1>4. ASSUME NEW D
        PROVE  StoreLines(Erase(s, D)) \subseteq StoreLines(s)
    BY AbsentFields DEF StoreLines, Tracked, Erase
  <1>5. QED  BY <1>2, <1>3, <1>4

\* The room add_st makes: after can_accept_st a new line leaves at most
\* scb_size + 1 lines.
LEMMA AddStCapacity ==
  ASSUME TypeOK, CapacityBound, NEW l \in Lines, NEW w \in Words,
         can_accept_st(scb, l), add_st(l, w)
  PROVE  CapacityBound'
  <1> DEFINE T == Tracked(scb)
             C == CleanLines(scb)
             R == Tracked(MakeRoom(scb))
  <1>0. scb_size \in Nat /\ IsFiniteSet(T) /\ Cardinality(T) \in Nat
    BY StoreBufferAssumption, TrackedFinite
  <1>1. CASE l \in T
    <2>1. \A k \in Lines \ {l} : scb'[k] = scb[k]
      BY <1>1, TypeOK DEF add_st, TypeOK
    <2>2. scb'[l].state = "Uncoherent"
      BY AddStLine
    <2>3. scb'[l].transient = scb[l].transient
      BY <1>1, AddStLine
    <2>4. StoreLines(scb') = StoreLines(scb)
      BY <1>1, <2>1, <2>2, <2>3 DEF StoreLines, Tracked
    <2>5. QED  BY <2>4 DEF CapacityBound
  <1>2. CASE l \notin T
    <2>1. Tracked(scb') \subseteq R \cup {l}
      <3>1. \A k \in Lines \ {l} : scb'[k] = MakeRoom(scb)[k]
        BY <1>2, MapUpdatesTyped DEF add_st, TypeOK
      <3>2. QED  BY <3>1 DEF Tracked
    <2>2. IsFiniteSet(R) /\ Cardinality(R) \in Nat
      BY TrackedFinite
    <2>3. Cardinality(R) <= scb_size
      <3>1. CASE Cardinality(T) <= scb_size
        BY <1>0, <3>1 DEF MakeRoom
      <3>2. CASE Cardinality(T) > scb_size
        <4>1. C \subseteq T
          BY DEF CleanLines, Tracked
        <4>2. R \subseteq T \ C
          BY <1>0, <3>2, TrackedFinite DEF MakeRoom, remove_clean, CleanLines
        <4>3. IsFiniteSet(C) /\ Cardinality(C) \in Nat
          BY <1>0, <4>1, FS_Subset, FS_CardinalityType
        <4>4. /\ IsFiniteSet(T \ C)
              /\ Cardinality(T \ C) = Cardinality(T) - Cardinality(T \cap C)
          BY <1>0, FS_Difference
        <4>5. T \cap C = C
          BY <4>1
        <4>6. Cardinality(T \ C) < scb_size
          BY <1>2, <4>4, <4>5 DEF can_accept_st
        <4>7. Cardinality(R) <= Cardinality(T \ C) /\ Cardinality(T \ C) \in Nat
          BY <4>2, <4>4, FS_Subset, FS_CardinalityType
        <4>8. QED  BY <1>0, <2>2, <4>6, <4>7
      <3>3. QED  BY <1>0, <3>1, <3>2
    <2>4. /\ IsFiniteSet(R \cup {l})
          /\ Cardinality(R \cup {l}) <= Cardinality(R) + 1
      <3>1. CASE l \in R
        <4>1. R \cup {l} = R
          BY <3>1
        <4>2. QED  BY <2>2, <4>1
      <3>2. CASE l \notin R
        BY <2>2, <3>2, FS_AddElement, SMTT(40)
      <3>3. QED  BY <3>1, <3>2
    <2>5. /\ Cardinality(StoreLines(scb')) <= Cardinality(R \cup {l})
          /\ Cardinality(StoreLines(scb')) \in Nat
          /\ Cardinality(R \cup {l}) \in Nat
      <3>1. StoreLines(scb') \subseteq R \cup {l}
        BY <2>1 DEF StoreLines
      <3>2. QED  BY <2>4, <3>1, FS_Subset, FS_CardinalityType
    <2>6. QED  BY <1>0, <2>2, <2>3, <2>4, <2>5 DEF CapacityBound
  <1>3. QED  BY <1>1, <1>2

\* A step that adds no line of a store keeps the bound.
LEMMA ShrinkCapacity ==
  ASSUME CapacityBound, StoreLines(scb') \subseteq StoreLines(scb)
  PROVE  CapacityBound'
  <1>1. StoreLines(scb) \subseteq Tracked(scb) /\ IsFiniteSet(Tracked(scb))
    BY TrackedFinite DEF StoreLines
  <1>2. IsFiniteSet(StoreLines(scb)) /\ IsFiniteSet(StoreLines(scb'))
    BY <1>1, FS_Subset
  <1>3. /\ Cardinality(StoreLines(scb')) <= Cardinality(StoreLines(scb))
        /\ Cardinality(StoreLines(scb')) \in Nat /\ Cardinality(StoreLines(scb)) \in Nat
    BY <1>2, FS_Subset, FS_CardinalityType
  <1>4. QED  BY <1>3, StoreBufferAssumption DEF CapacityBound

\* Whatever loads, prefetches and flushes do, the buffer never holds more than
\* scb_size + 1 lines of stores and loads (can_accept_st, add_st).
THEOREM CapacityCorrect == Spec => []CapacityBound
  <1>1. Init => CapacityBound
    <2> SUFFICES ASSUME Init PROVE CapacityBound
      OBVIOUS
    <2>1. StoreLines(scb) = {}
      BY AbsentFields DEF Init, Tracked, StoreLines
    <2>2. QED  BY <2>1, FS_EmptySet, StoreBufferAssumption DEF CapacityBound
  <1>2. TypeOK /\ CapacityBound /\ [Next]_vars => CapacityBound'
    <2> SUFFICES ASSUME TypeOK, CapacityBound, [Next]_vars PROVE CapacityBound'
      OBVIOUS
    <2>1. ASSUME NEW l \in Lines, NEW w \in Words, Store(l, w)
          PROVE  CapacityBound'
      BY <2>1, AddStCapacity DEF Store
    <2>2. ASSUME NEW l \in SpecLoadLines, NEW w \in Words, PerformedSpec(l, w)
          PROVE  CapacityBound'
      BY <2>2, AddStCapacity, StoreBufferAssumption DEF PerformedSpec
    <2>3. ASSUME NEW l \in SpecLoadLines, NEW present \in BOOLEAN,
                 Preretire(l, present)
          PROVE  CapacityBound'
      <3> DEFINE s == IF present THEN Erase(scb, {l}) ELSE scb
      <3>1. StoreLines(s) \subseteq StoreLines(scb)
        BY TrackedFinite
      <3>2. StoreLines(Erase(s, Promoted(s, l))) \subseteq StoreLines(s)
        BY TrackedFinite
      <3>3. scb' = Erase(s, Promoted(s, l))
        BY <2>3 DEF Preretire
      <3>4. QED  BY <3>1, <3>2, <3>3, ShrinkCapacity
    <2>4. ASSUME NEW l \in PrefetchLines, NEW ind \in SpecLoadLines,
                 try_prefetch(l, ind)
          PROVE  CapacityBound'
      <3>1. StoreLines(MakeRoom(scb)) \subseteq StoreLines(scb)
        BY TrackedFinite DEF MakeRoom, remove_clean
      <3>2. \A k \in Lines : scb'[k] = IF k = l THEN InitPrefetch(ind)
                                                ELSE MakeRoom(scb)[k]
        BY <2>4, MapUpdatesTyped DEF try_prefetch, TypeOK
      <3>3. StoreLines(scb') \subseteq StoreLines(MakeRoom(scb))
        BY <3>2 DEF StoreLines, Tracked, InitPrefetch
      <3>4. QED  BY <3>1, <3>3, ShrinkCapacity
    <2>5. ASSUME NEW l \in Lines, prefetch_done(l) PROVE CapacityBound'
      <3>1. StoreLines(scb') \subseteq StoreLines(scb)
        BY <2>5 DEF prefetch_done, TypeOK, Tracked, StoreLines, StoreBufferLine
      <3>2. QED  BY <3>1, ShrinkCapacity
    <2>6. ASSUME NEW l \in Lines, ownership_done(l) PROVE CapacityBound'
      <3>1. StoreLines(scb') \subseteq StoreLines(scb)
        BY <2>6 DEF ownership_done, TypeOK, Tracked, StoreLines, StoreBufferLine
      <3>2. QED  BY <3>1, ShrinkCapacity
    <2>7. CASE flush_transient
      <3>1. StoreLines(scb') \subseteq StoreLines(scb)
        BY <2>7, TrackedFinite DEF flush_transient
      <3>2. QED  BY <3>1, ShrinkCapacity
    <2>8. ASSUME NEW l \in Lines, prefetch_dropped(l) PROVE CapacityBound'
      BY <2>8, ShrinkCapacity DEF prefetch_dropped
    <2>9. CASE UNCHANGED vars
      BY <2>9, ShrinkCapacity DEF vars
    <2>10. QED
      BY <2>1, <2>2, <2>3, <2>4, <2>5, <2>6, <2>7, <2>8, <2>9 DEF Next
  <1>3. QED  BY <1>1, <1>2, TypeCorrect, PTL DEF Spec

----------------------------------------------------------------------------
(* The words of retired stores *)

\* The inductive form of StoresStayForwardable: a line only stores use waits
\* exactly while its one write is in flight, and the words no write covers yet
\* are words of a waiting line.
ForwardInv ==
  \A l \in StoreOnly :
     /\ ~scb[l].transient
     /\ ~scb[l].prefetch_line
     /\ writes[l] = (IF scb[l].state = "Uncoherent" THEN 1 ELSE 0)
     /\ unperformed[l] # {} => scb[l].state = "Uncoherent"
     /\ unperformed[l] \subseteq scb[l].word_present

\* Every step keeps ForwardInv, also the ones that loads and prefetches of
\* other lines cause.
LEMMA ForwardStep ==
  ASSUME UninitPrefetch = {FALSE}
  PROVE  TypeOK /\ ForwardInv /\ [Next]_vars => ForwardInv'
  <1> SUFFICES ASSUME TypeOK, ForwardInv, [Next]_vars, NEW k \in StoreOnly
               PROVE  /\ ~scb'[k].transient
                      /\ ~scb'[k].prefetch_line
                      /\ writes'[k] = (IF scb'[k].state = "Uncoherent" THEN 1 ELSE 0)
                      /\ unperformed'[k] # {} => scb'[k].state = "Uncoherent"
                      /\ unperformed'[k] \subseteq scb'[k].word_present
    BY DEF ForwardInv
  <1> DEFINE Goal ==
        /\ ~scb'[k].transient
        /\ ~scb'[k].prefetch_line
        /\ writes'[k] = (IF scb'[k].state = "Uncoherent" THEN 1 ELSE 0)
        /\ unperformed'[k] # {} => scb'[k].state = "Uncoherent"
        /\ unperformed'[k] \subseteq scb'[k].word_present
  <1>a. k \in Lines /\ k \notin SpecLoadLines /\ k \notin PrefetchLines
    BY DEF StoreOnly
  <1>0. ASSUME scb'[k] = scb[k], writes'[k] = writes[k],
               unperformed'[k] = unperformed[k]
        PROVE  Goal
    BY <1>0 DEF ForwardInv
  <1>b. ASSUME scb'[k] = Absent, scb[k].state = "Clean" \/ scb[k].prefetch_line,
               writes'[k] = writes[k], unperformed'[k] = unperformed[k]
        PROVE  Goal
    <2>1. scb[k].state = "Clean" /\ writes[k] = 0 /\ unperformed[k] = {}
      BY <1>b DEF ForwardInv
    <2>2. QED  BY <1>b, <2>1 DEF Absent
  <1>1. ASSUME NEW l \in Lines, NEW w \in Words, Store(l, w) PROVE Goal
    <2>0. /\ add_st(l, w)
          /\ unperformed' = [unperformed EXCEPT ![l] = @ \cup {w}]
      BY <1>1 DEF Store
    <2>1. CASE k # l /\ scb'[k] = scb[k]
      <3>1. writes'[k] = writes[k] /\ unperformed'[k] = unperformed[k]
        BY <1>a, <2>0, <2>1, AddStOthers DEF TypeOK
      <3>2. QED  BY <1>0, <2>1, <3>1
    <2>2. CASE k # l /\ scb'[k] # scb[k]
      <3>1. /\ scb'[k] = Absent /\ writes'[k] = writes[k]
            /\ scb[k].state = "Clean" \/ scb[k].prefetch_line
        BY <1>a, <2>0, <2>2, AddStOthers
      <3>2. unperformed'[k] = unperformed[k]
        BY <1>a, <2>0, <2>2 DEF TypeOK
      <3>3. QED  BY <1>b, <3>1, <3>2
    <2>3. CASE k = l
      <3>1. unperformed'[l] = unperformed[l] \cup {w}
        BY <2>0 DEF TypeOK
      <3>2. scb'[l].state = "Uncoherent" /\ w \in scb'[l].word_present
        BY <2>0, AddStLine
      <3>3. CASE scb[l].state = "Uncoherent"
        <4>1. /\ writes'[l] = writes[l]
              /\ scb'[l].transient = scb[l].transient
              /\ ~scb'[l].prefetch_line
              /\ ~scb[l].prefetch_line =>
                   scb[l].word_present \subseteq scb'[l].word_present
          BY <2>0, <3>3, AddStLine
        <4>2. /\ ~scb[l].transient /\ ~scb[l].prefetch_line /\ writes[l] = 1
              /\ unperformed[l] \subseteq scb[l].word_present
          BY <2>3, <3>3 DEF ForwardInv
        <4>3. QED  BY <2>3, <3>1, <3>2, <4>1, <4>2
      <3>4. CASE scb[l].state # "Uncoherent"
        <4>1. /\ writes'[l] = writes[l] + 1
              /\ scb'[l].transient => scb[l].transient
              /\ ~scb'[l].prefetch_line
          BY <2>0, <3>4, AddStLine, UninitPrefetch = {FALSE}
        <4>2. ~scb[l].transient /\ writes[l] = 0 /\ unperformed[l] = {}
          BY <2>3, <3>4 DEF ForwardInv
        <4>3. QED  BY <2>3, <3>1, <3>2, <4>1, <4>2
      <3>5. QED  BY <3>3, <3>4
    <2>4. QED  BY <2>1, <2>2, <2>3
  <1>2. ASSUME NEW l \in SpecLoadLines, NEW w \in Words, PerformedSpec(l, w)
        PROVE  Goal
    <2>1. k # l /\ l \in Lines /\ add_st(l, w) /\ unperformed' = unperformed
      BY <1>a, <1>2, StoreBufferAssumption DEF PerformedSpec
    <2>2. /\ writes'[k] = writes[k]
          /\ \/ scb'[k] = scb[k]
             \/ /\ scb'[k] = Absent
                /\ scb[k].state = "Clean" \/ scb[k].prefetch_line
      BY <1>a, <2>1, AddStOthers
    <2>3. QED  BY <1>0, <1>b, <2>1, <2>2
  <1>3. ASSUME NEW l \in SpecLoadLines, NEW present \in BOOLEAN,
               Preretire(l, present)
        PROVE  Goal
    <2> DEFINE s == IF present THEN Erase(scb, {l}) ELSE scb
    <2>1. k # l /\ ~scb[k].prefetch_line
      BY <1>a DEF ForwardInv
    <2>2. s[k] = scb[k]
      BY <1>a, <2>1 DEF Erase
    <2>3. scb'[k] = s[k]
      BY <1>a, <1>3, <2>1, <2>2 DEF Preretire, Erase, Promoted
    <2>4. QED  BY <1>0, <1>3, <2>2, <2>3 DEF Preretire
  <1>4. ASSUME NEW l \in PrefetchLines, NEW ind \in SpecLoadLines,
               try_prefetch(l, ind)
        PROVE  Goal
    <2>1. scb'[k] = MakeRoom(scb)[k]
      BY <1>a, <1>4, MapUpdatesTyped DEF try_prefetch, TypeOK
    <2>2. \/ MakeRoom(scb)[k] = scb[k]
          \/ /\ MakeRoom(scb)[k] = Absent
             /\ scb[k].state = "Clean" \/ scb[k].prefetch_line
      BY <1>a DEF MakeRoom, remove_clean, Erase
    <2>3. writes'[k] = writes[k] /\ unperformed'[k] = unperformed[k]
      BY <1>4 DEF try_prefetch
    <2>4. QED  BY <1>0, <1>b, <2>1, <2>2, <2>3
  <1>5. ASSUME NEW l \in Lines, prefetch_done(l) PROVE Goal
    <2>1. ~scb[k].prefetch_line
      BY DEF ForwardInv
    <2>2. scb'[k] = scb[k]
      BY <1>a, <1>5, <2>1 DEF prefetch_done, TypeOK
    <2>3. QED  BY <1>0, <1>5, <2>2 DEF prefetch_done
  <1>6. ASSUME NEW l \in Lines, ownership_done(l) PROVE Goal
    <2>1. CASE k # l
      BY <1>0, <1>a, <1>6, <2>1 DEF ownership_done, TypeOK
    <2>2. CASE k = l
      <3>1. scb[l].state = "Uncoherent" /\ writes[l] = 1
        BY <1>6, <2>2 DEF ownership_done, ForwardInv
      <3>2. l \in Tracked(scb)
        BY <3>1 DEF Tracked
      <3>3. /\ scb'[l].state = "Clean" /\ scb'[l].transient = scb[l].transient
            /\ scb'[l].prefetch_line = scb[l].prefetch_line
        BY <1>6, <3>2 DEF ownership_done, TypeOK, StoreBufferLine
      <3>4. unperformed'[l] = {} /\ writes'[l] = 0
        BY <1>6, <3>1 DEF ownership_done, TypeOK
      <3>5. QED  BY <2>2, <3>3, <3>4 DEF ForwardInv
    <2>3. QED  BY <2>1, <2>2
  <1>7. CASE flush_transient
    <2>1. scb'[k] = scb[k]
      BY <1>a, <1>7 DEF flush_transient, Erase, ForwardInv
    <2>2. QED  BY <1>0, <1>7, <2>1 DEF flush_transient
  <1>8. ASSUME NEW l \in Lines, prefetch_dropped(l) PROVE Goal
    BY <1>0, <1>8 DEF prefetch_dropped
  <1>9. CASE UNCHANGED vars
    BY <1>0, <1>9 DEF vars
  <1>10. QED
    BY <1>1, <1>2, <1>3, <1>4, <1>5, <1>6, <1>7, <1>8, <1>9 DEF Next

\* With prefetch_line of a new line read as zero, add_st, remove_clean,
\* flush_transient, ownership_done and what loads and prefetches of other lines
\* do never lose a word of a retired store before its write is acknowledged.
THEOREM ForwardCorrect ==
  ASSUME UninitPrefetch = {FALSE}
  PROVE  Spec => []StoresStayForwardable
  <1>1. Init => ForwardInv
    BY DEF Init, ForwardInv, StoreOnly, Absent
  <1>2. ForwardInv => StoresStayForwardable
    <2> SUFFICES ASSUME ForwardInv, NEW l \in StoreOnly, NEW w \in unperformed[l]
                 PROVE  is_ld_forward(scb, l, w)
      BY DEF StoresStayForwardable
    <2>1. /\ scb[l].state = "Uncoherent" /\ ~scb[l].prefetch_line
          /\ w \in scb[l].word_present
      BY DEF ForwardInv
    <2>2. QED  BY <2>1 DEF is_ld_forward, Tracked, StoreOnly
  <1>3. TypeOK /\ ForwardInv /\ [Next]_vars => ForwardInv'
    BY ForwardStep, UninitPrefetch = {FALSE}
  <1>4. QED  BY <1>1, <1>2, <1>3, TypeCorrect, PTL DEF Spec
============================================================================
