-------------------------- MODULE LoadStoreProofs --------------------------
(***************************************************************************)
(* Proofs about LoadStoreUnit, for every program, every set of lines and   *)
(* words and every size of the queues and of the store buffer.             *)
(***************************************************************************)
EXTENDS LoadStoreUnit, FiniteSetTheorems, TLAPS

----------------------------------------------------------------------------
(* The inductive invariant *)

\* The write sent when the load passed the PNR has come back.
Written(i) == i <= pnr /\ "performed_safe_write" \notin callbacks[i]

\* A store: it is performed when it passes the PNR, destroyed when it retires.
StoreLife(i) ==
  /\ callbacks[i] = {}
  /\ dinst[i].executed => dinst[i].executing
  /\ i <= pnr => dinst[i].executed
  /\ dinst[i].performed <=> i <= pnr
  /\ dinst[i].destroyed = IF dinst[i].retired THEN 1 ELSE 0

\* A load's request: executing, then dispatched, then answered.
RequestLife(i) ==
  /\ ~dinst[i].executing =>
       callbacks[i] = {} /\ ~dinst[i].dispatched /\ ~dinst[i].executed
  /\ "cacheDispatched" \in callbacks[i] =>
       ~dinst[i].dispatched /\ ~dinst[i].executed /\ "performed_spec" \notin callbacks[i]
  /\ "performed_spec" \in callbacks[i] => dinst[i].dispatched /\ ~dinst[i].executed
  /\ i <= pnr => dinst[i].dispatched
  /\ "performed_safe_write" \in callbacks[i] => i <= pnr
  /\ dinst[i].speculative <=> pnr < i
  /\ dinst[i].performed => i <= pnr

\* A load's two answers, executed and Written: each leaves its marks unless it
\* is the last one of a load that has retired, which it destroys.
AnswersLife(i) ==
  /\ ~dinst[i].retired =>
       /\ dinst[i].destroyed = 0
       /\ dinst[i].performed_safe_write <=> dinst[i].executed
       /\ dinst[i].retired_spec <=> dinst[i].executed
       /\ dinst[i].performed_spec <=> Written(i)
       /\ dinst[i].retired_safe_write <=> Written(i)
  /\ dinst[i].retired /\ dinst[i].executed /\ Written(i) => dinst[i].destroyed = 1
  /\ dinst[i].retired /\ ~(dinst[i].executed /\ Written(i)) =>
       /\ dinst[i].destroyed = 0
       /\ dinst[i].performed_safe_write <=> dinst[i].executed
       /\ dinst[i].performed_spec <=> Written(i)

\* The life of an instruction.
Life(i) ==
  /\ dinst[i].executing => i <= added
  /\ dinst[i].retired <=> i <= committed
  /\ IsStore(i) => StoreLife(i)
  /\ IsLoad(i)  => RequestLife(i) /\ AnswersLife(i)

LifeInv == \A i \in Insts : Life(i)

\* present_in_scb is set only for a load whose data came before its PNR.
PresentInv ==
  \A i \in Insts : dinst[i].present_in_scb => IsLoad(i) /\ dinst[i].executed /\ pnr < i


----------------------------------------------------------------------------
(* The program and the records *)

\* Every instruction is a load or a store, of one word of one line.
LEMMA ProgramTyped ==
  /\ N \in Nat /\ \A i \in Insts : i \in Nat /\ 1 <= i /\ i <= N
  /\ \A i \in Insts : /\ LineOf(i) \in Lines /\ WordOf(i) \in Words
                      /\ Program[i].op \in {"LD", "ST"}
                      /\ IsLoad(i) <=> ~IsStore(i)
  <1>1. N \in Nat /\ Program \in [Insts -> [op : {"LD", "ST"}, line : Lines, word : Words]]
    BY LoadStoreAssumption
  <1>2. \A i \in Insts : Program[i] \in [op : {"LD", "ST"}, line : Lines, word : Words]
    BY <1>1
  <1>3. \A i \in Insts : /\ LineOf(i) \in Lines /\ WordOf(i) \in Words
                         /\ Program[i].op \in {"LD", "ST"}
                         /\ IsLoad(i) <=> ~IsStore(i)
    BY <1>2 DEF LineOf, WordOf, IsLoad, IsStore
  <1>4. QED  BY <1>1, <1>3 DEF Insts

\* A step that writes one instruction leaves the others alone.
LEMMA WriteOne ==
  ASSUME TypeOK, NEW i \in Insts, NEW d \in Dinst, dinst' = [dinst EXCEPT ![i] = d]
  PROVE  /\ dinst' \in [Insts -> Dinst] /\ dinst'[i] = d
         /\ \A j \in Insts : j # i => dinst'[j] = dinst[j]
  BY DEF TypeOK

\* The same for its callbacks.
LEMMA ScheduleOne ==
  ASSUME TypeOK, NEW i \in Insts, NEW c \in SUBSET Kinds,
         callbacks' = [callbacks EXCEPT ![i] = c]
  PROVE  /\ callbacks' \in [Insts -> SUBSET Kinds] /\ callbacks'[i] = c
         /\ \A j \in Insts : j # i => callbacks'[j] = callbacks[j]
  BY DEF TypeOK

\* What the first answer to a load leaves in it.
LEMMA AfterSpecDoes ==
  ASSUME NEW d \in Dinst, d.destroyed \in 0..1
  PROVE  /\ AfterSpec(d) \in Dinst
         /\ AfterSpec(d).executing = d.executing /\ AfterSpec(d).dispatched = d.dispatched
         /\ AfterSpec(d).executed = d.executed /\ AfterSpec(d).performed = d.performed
         /\ AfterSpec(d).retired = d.retired /\ AfterSpec(d).speculative = d.speculative
         /\ AfterSpec(d).present_in_scb = d.present_in_scb
         /\ AfterSpec(d).performed_spec = d.performed_spec
         /\ AfterSpec(d).retired_safe_write = d.retired_safe_write
         /\ AfterSpec(d).destroyed =
              IF d.retired /\ d.performed_spec THEN d.destroyed + 1 ELSE d.destroyed
         /\ AfterSpec(d).performed_safe_write <=>
              d.performed_safe_write \/ ~(d.retired /\ d.performed_spec)
         /\ AfterSpec(d).retired_spec <=> d.retired_spec \/ ~d.retired
  <1> DEFINE n == IF d.retired /\ d.performed_spec THEN d.destroyed + 1 ELSE d.destroyed
             p == d.performed_safe_write \/ ~(d.retired /\ d.performed_spec)
             r == d.retired_spec \/ ~d.retired
  <1>1. AfterSpec(d) = [d EXCEPT !.destroyed = n, !.performed_safe_write = p,
                                 !.retired_spec = r]
    BY DEF AfterSpec
  <1>2. n \in 0..2 /\ p \in BOOLEAN /\ r \in BOOLEAN
    BY DEF Dinst
  <1> HIDE DEF n, p, r
  <1>3. QED  BY <1>1, <1>2 DEF Dinst, n, p, r

\* What the write of a safe load leaves in it when it comes back.
LEMMA AfterSafeWriteDoes ==
  ASSUME NEW d \in Dinst, d.destroyed \in 0..1
  PROVE  /\ AfterSafeWrite(d) \in Dinst
         /\ AfterSafeWrite(d).executing = d.executing
         /\ AfterSafeWrite(d).dispatched = d.dispatched
         /\ AfterSafeWrite(d).executed = d.executed
         /\ AfterSafeWrite(d).performed = d.performed
         /\ AfterSafeWrite(d).retired = d.retired
         /\ AfterSafeWrite(d).speculative = d.speculative
         /\ AfterSafeWrite(d).present_in_scb = d.present_in_scb
         /\ AfterSafeWrite(d).performed_safe_write = d.performed_safe_write
         /\ AfterSafeWrite(d).retired_spec = d.retired_spec
         /\ AfterSafeWrite(d).destroyed =
              IF d.retired /\ d.performed_safe_write THEN d.destroyed + 1 ELSE d.destroyed
         /\ AfterSafeWrite(d).performed_spec <=>
              d.performed_spec \/ ~(d.retired /\ d.performed_safe_write)
         /\ AfterSafeWrite(d).retired_safe_write <=> d.retired_safe_write \/ ~d.retired
  <1> DEFINE n == IF d.retired /\ d.performed_safe_write THEN d.destroyed + 1 ELSE d.destroyed
             p == d.performed_spec \/ ~(d.retired /\ d.performed_safe_write)
             r == d.retired_safe_write \/ ~d.retired
  <1>1. AfterSafeWrite(d) = [d EXCEPT !.destroyed = n, !.performed_spec = p,
                                      !.retired_safe_write = r]
    BY DEF AfterSafeWrite
  <1>2. n \in 0..2 /\ p \in BOOLEAN /\ r \in BOOLEAN
    BY DEF Dinst
  <1> HIDE DEF n, p, r
  <1>3. QED  BY <1>1, <1>2 DEF Dinst, n, p, r

\* A step on instruction i keeps the lives of the others.
LEMMA OthersLive ==
  ASSUME LifeInv, NEW i \in Insts, Life(i)',
         \A j \in Insts : j # i =>
           /\ dinst'[j] = dinst[j] /\ callbacks'[j] = callbacks[j]
           /\ j <= added => j <= added'
           /\ (j <= pnr' <=> j <= pnr) /\ (pnr' < j <=> pnr < j)
           /\ j <= committed' <=> j <= committed
  PROVE  LifeInv'
  <1> SUFFICES ASSUME NEW j \in Insts, j # i PROVE Life(j)'
    BY DEF LifeInv
  <1>1. Life(j)
    BY DEF LifeInv
  <1>2. Written(j)' <=> Written(j)
    BY DEF Written
  <1>3. (StoreLife(j) => StoreLife(j)') /\ (RequestLife(j) => RequestLife(j)')
    BY DEF StoreLife, RequestLife
  <1>4. AnswersLife(j) => AnswersLife(j)'
    BY <1>2 DEF AnswersLife
  <1>5. QED  BY <1>1, <1>3, <1>4 DEF Life, IsLoad, IsStore

\* An instruction is destroyed once at most.
LEMMA DestroyedOnce ==
  ASSUME TypeOK, LifeInv, NEW i \in Insts
  PROVE  dinst[i] \in Dinst /\ dinst[i].destroyed \in 0..1
  <1>1. dinst[i] \in Dinst /\ dinst[i].retired \in BOOLEAN
    BY DEF TypeOK, Dinst
  <1>2. Life(i)
    BY DEF LifeInv
  <1>3. IsStore(i) => dinst[i].destroyed \in 0..1
    BY <1>1, <1>2 DEF Life, StoreLife
  <1>4. IsLoad(i) => dinst[i].destroyed \in 0..1
    BY <1>1, <1>2 DEF Life, AnswersLife
  <1>5. QED  BY <1>1, <1>3, <1>4, ProgramTyped

----------------------------------------------------------------------------
(* The store buffer as this unit uses it: no line of it is a prefetch *)

NoPrefetchLines == \A l \in Lines : ~scb[l].prefetch_line

\* Erasing lines.
LEMMA EraseDoes ==
  ASSUME TypeOK, NEW D
  PROVE  /\ SB!Erase(scb, D) \in [Lines -> SB!StoreBufferLine]
         /\ NoPrefetchLines => \A l \in Lines : ~SB!Erase(scb, D)[l].prefetch_line
         /\ D = {} => SB!Erase(scb, D) = scb
  <1>1. SB!Absent \in SB!StoreBufferLine /\ ~SB!Absent.prefetch_line
    BY DEF SB!Absent, SB!StoreBufferLine, SB!LineState
  <1>2. scb \in [Lines -> SB!StoreBufferLine]
    BY DEF TypeOK
  <1> HIDE DEF SB!Absent
  <1>3. QED  BY <1>1, <1>2 DEF SB!Erase, NoPrefetchLines

\* Adding a store, or a load that is treated like one.
LEMMA AddStDoes ==
  ASSUME TypeOK, NEW l \in Lines, NEW w \in Words, SB!add_st(l, w)
  PROVE  /\ scb' \in [Lines -> SB!StoreBufferLine] /\ writes' \in [Lines -> Nat]
         /\ NoPrefetchLines => NoPrefetchLines'
         /\ \A k \in Lines : writes'[k] <= writes[k] + 1
  <1>1. scb \in [Lines -> SB!StoreBufferLine] /\ writes \in [Lines -> Nat]
    BY DEF TypeOK
  <1>2. /\ writes' \in [Lines -> Nat]
        /\ \A k \in Lines : writes'[k] <= writes[k] + 1
    <2>1. writes' = writes \/ writes' = [writes EXCEPT ![l] = writes[l] + 1]
      BY DEF SB!add_st
    <2>2. QED  BY <1>1, <2>1
  <1>3. ASSUME NEW s \in [Lines -> SB!StoreBufferLine], NEW e \in SB!StoreBufferLine,
               ~e.prefetch_line, scb' = [s EXCEPT ![l] = e],
               NoPrefetchLines => \A k \in Lines : ~s[k].prefetch_line
        PROVE  /\ scb' \in [Lines -> SB!StoreBufferLine]
               /\ NoPrefetchLines => NoPrefetchLines'
    BY <1>3 DEF NoPrefetchLines
  <1>4. CASE l \notin SB!Tracked(scb)
    <2>1. scb' = [SB!MakeRoom(scb) EXCEPT ![l] = SB!InitLine(FALSE, NoLine, w)]
      BY <1>4 DEF SB!add_st
    <2>2. /\ SB!InitLine(FALSE, NoLine, w) \in SB!StoreBufferLine
          /\ ~SB!InitLine(FALSE, NoLine, w).prefetch_line
      BY DEF SB!InitLine, SB!StoreBufferLine, SB!LineState
    <2>3. /\ SB!MakeRoom(scb) \in [Lines -> SB!StoreBufferLine]
          /\ NoPrefetchLines => \A k \in Lines : ~SB!MakeRoom(scb)[k].prefetch_line
      <3>1. CASE SB!MakeRoom(scb) = scb
        BY <1>1, <3>1 DEF NoPrefetchLines
      <3>2. CASE SB!MakeRoom(scb) = SB!remove_clean(scb)
        BY <3>2, EraseDoes DEF SB!remove_clean
      <3>3. QED  BY <3>1, <3>2 DEF SB!MakeRoom
    <2>4. QED  BY <1>2, <1>3, <2>1, <2>2, <2>3
  <1>5. CASE l \in SB!Tracked(scb)
    <2> DEFINE c == SB!ConvertAndAdd(scb[l], w)
               u == [c EXCEPT !.state = "Uncoherent"]
    <2>1. scb' = [scb EXCEPT ![l] = c] \/ scb' = [scb EXCEPT ![l] = u]
      BY <1>5 DEF SB!add_st
    <2>2. scb[l] \in SB!StoreBufferLine
      BY <1>1
    <2>3. c \in SB!StoreBufferLine /\ ~c.prefetch_line
      BY <2>2 DEF SB!ConvertAndAdd, SB!StoreBufferLine
    <2> HIDE DEF c
    <2>4. u \in SB!StoreBufferLine /\ ~u.prefetch_line
      BY <2>3 DEF SB!StoreBufferLine, SB!LineState
    <2> HIDE DEF u
    <2>5. NoPrefetchLines => \A k \in Lines : ~scb[k].prefetch_line
      BY DEF NoPrefetchLines
    <2>6. CASE scb' = [scb EXCEPT ![l] = c]
      BY <1>1, <1>2, <1>3, <2>3, <2>5, <2>6
    <2>7. CASE scb' = [scb EXCEPT ![l] = u]
      BY <1>1, <1>2, <1>3, <2>4, <2>5, <2>7
    <2>8. QED  BY <2>1, <2>6, <2>7
  <1>6. QED  BY <1>4, <1>5

----------------------------------------------------------------------------
(* The actions, each on the instruction it moves *)

\* add_inst: the next instruction enters the queue.
LEMMA AddLives ==
  ASSUME TypeOK, LifeInv, add_inst
  PROVE  TypeOK' /\ LifeInv'
  <1>1. /\ added + 1 \in Insts /\ added' = added + 1 /\ lsq' = lsq \cup {added + 1}
        /\ unresolved' = unresolved + 1
        /\ UNCHANGED <<dinst, callbacks, pnr, committed, sbVars>>
    BY DEF add_inst
  <1>2. free' \in [{"LD", "ST", "LSQ"} -> Int]
    <2>1. Program[added + 1].op \in {"LD", "ST"}
      BY <1>1, ProgramTyped
    <2> DEFINE op == Program[added + 1].op
               n  == IF IsLoad(added + 1) /\ ldq_late_alloc THEN free[op] ELSE free[op] - 1
    <2>2. free \in [{"LD", "ST", "LSQ"} -> Int] /\ op \in {"LD", "ST"}
      BY <2>1 DEF TypeOK
    <2> HIDE DEF op
    <2>3. n \in Int /\ free["LSQ"] - 1 \in Int
      BY <2>2
    <2>4. free' = [[free EXCEPT !["LSQ"] = free["LSQ"] - 1] EXCEPT ![op] = n]
      BY <2>2 DEF add_inst, op
    <2> HIDE DEF n
    <2>5. QED  BY <2>2, <2>3, <2>4
  <1>3. /\ added' \in 0..N /\ pnr' \in 0..added' /\ committed' \in 0..pnr'
        /\ lsq' \subseteq Insts /\ unresolved' \in Int
    BY <1>1, ProgramTyped DEF TypeOK, Insts
  <1>4. TypeOK'
    BY <1>1, <1>2, <1>3 DEF TypeOK, sbVars
  <1>5. \A i \in Insts : i <= added => i <= added'
    BY <1>1 DEF Insts, TypeOK
  <1>6. LifeInv'
    BY <1>1, <1>5 DEF LifeInv, Life, StoreLife, RequestLife, AnswersLife, Written
  <1>7. QED  BY <1>4, <1>6

\* do_load_execution: the request leaves, or the load is forwarded.
LEMMA LoadExecutes ==
  ASSUME TypeOK, LifeInv, NEW i \in Insts, do_load_execution(i)
  PROVE  /\ TypeOK' /\ LifeInv'
         /\ IsLoad(i) /\ i <= added /\ ~dinst[i].executing /\ dinst'[i].executing
         /\ dinst'[i].executed = dinst[i].executed
         /\ dinst'[i].present_in_scb = dinst[i].present_in_scb
         /\ \A j \in Insts : j # i => dinst'[j] = dinst[j]
  <1> DEFINE fwd == lsq_forwards(i)
             hit == fwd \/ SB!is_ld_forward(scb, LineOf(i), WordOf(i))
             d == [dinst[i] EXCEPT !.executing = TRUE, !.loadForwarded = fwd,
                                   !.dispatched = hit]
             c == {IF hit THEN "performed_spec" ELSE "cacheDispatched"}
  <1>1. /\ IsLoad(i) /\ i <= added /\ ~dinst[i].executing
        /\ free' = [free EXCEPT !["LD"] = IF ldq_late_alloc THEN free["LD"] - 1 ELSE free["LD"]]
        /\ unresolved' = unresolved - 1
        /\ dinst' = [dinst EXCEPT ![i] = d]
        /\ callbacks' = [callbacks EXCEPT ![i] = c]
        /\ UNCHANGED <<added, pnr, committed, lsq, sbVars>>
    BY DEF do_load_execution
  <1>2. fwd \in BOOLEAN /\ hit \in BOOLEAN
    BY DEF lsq_forwards, SB!is_ld_forward
  <1>3. dinst[i] \in Dinst /\ Life(i)
    BY DestroyedOnce DEF LifeInv
  <1> HIDE DEF fwd, hit
  <1>4. /\ d \in Dinst /\ d.executing /\ (d.dispatched <=> hit)
        /\ d.executed = dinst[i].executed /\ d.performed = dinst[i].performed
        /\ d.retired = dinst[i].retired /\ d.destroyed = dinst[i].destroyed
        /\ d.speculative = dinst[i].speculative
        /\ d.present_in_scb = dinst[i].present_in_scb
        /\ d.performed_spec = dinst[i].performed_spec
        /\ d.performed_safe_write = dinst[i].performed_safe_write
        /\ d.retired_spec = dinst[i].retired_spec
        /\ d.retired_safe_write = dinst[i].retired_safe_write
    BY <1>2, <1>3 DEF Dinst
  <1>5. /\ c \in SUBSET Kinds /\ "performed_safe_write" \notin c
        /\ ("performed_spec" \in c <=> hit) /\ ("cacheDispatched" \in c <=> ~hit)
    BY <1>2 DEF Kinds
  <1> HIDE DEF d, c
  <1>6. /\ dinst' \in [Insts -> Dinst] /\ dinst'[i] = d
        /\ callbacks' \in [Insts -> SUBSET Kinds] /\ callbacks'[i] = c
        /\ \A j \in Insts : j # i => dinst'[j] = dinst[j] /\ callbacks'[j] = callbacks[j]
    <2>1. /\ dinst' \in [Insts -> Dinst] /\ dinst'[i] = d
          /\ \A j \in Insts : j # i => dinst'[j] = dinst[j]
      BY <1>1, <1>4, WriteOne
    <2>2. /\ callbacks' \in [Insts -> SUBSET Kinds] /\ callbacks'[i] = c
          /\ \A j \in Insts : j # i => callbacks'[j] = callbacks[j]
      BY <1>1, <1>5, ScheduleOne
    <2>3. QED  BY <2>1, <2>2
  <1>7. TypeOK'
    <2>1. free' \in [{"LD", "ST", "LSQ"} -> Int] /\ unresolved' \in Int
      BY <1>1 DEF TypeOK
    <2>2. QED  BY <1>1, <1>6, <2>1 DEF TypeOK, sbVars
  <1>8. ~(i <= pnr) /\ ~dinst[i].executed /\ ~Written(i)
    BY <1>1, <1>3 DEF Life, RequestLife, Written
  <1>9. RequestLife(i)'
    BY <1>1, <1>3, <1>4, <1>5, <1>6, <1>8 DEF Life, RequestLife
  <1>10. AnswersLife(i)' /\ (dinst[i].retired <=> i <= committed)
    BY <1>1, <1>3, <1>4, <1>5, <1>6, <1>8 DEF Life, AnswersLife, Written
  <1>11. Life(i)'
    BY <1>1, <1>4, <1>6, <1>9, <1>10, ProgramTyped DEF Life, IsLoad, IsStore
  <1>12. LifeInv'
    BY <1>1, <1>6, <1>11, OthersLive
  <1>13. QED  BY <1>1, <1>4, <1>6, <1>7, <1>12

\* cacheDispatched: the request is sent to the L1.
LEMMA RequestDispatched ==
  ASSUME TypeOK, LifeInv, NEW i \in Insts, cacheDispatched(i)
  PROVE  /\ TypeOK' /\ LifeInv'
         /\ \A j \in Insts : /\ dinst'[j].executing = dinst[j].executing
                             /\ dinst'[j].executed = dinst[j].executed
                             /\ dinst'[j].present_in_scb = dinst[j].present_in_scb
  <1> DEFINE d == [dinst[i] EXCEPT !.dispatched = TRUE]
             c == (callbacks[i] \ {"cacheDispatched"}) \cup {"performed_spec"}
  <1>1. /\ "cacheDispatched" \in callbacks[i]
        /\ dinst' = [dinst EXCEPT ![i] = d]
        /\ callbacks' = [callbacks EXCEPT ![i] = c]
        /\ UNCHANGED <<added, pnr, committed, lsq, free, unresolved, sbVars>>
    BY DEF cacheDispatched
  <1>2. dinst[i] \in Dinst /\ Life(i) /\ callbacks[i] \in SUBSET Kinds
    BY DestroyedOnce DEF LifeInv, TypeOK
  <1>3. /\ d \in Dinst /\ d.dispatched
        /\ d.executing = dinst[i].executing
        /\ d.executed = dinst[i].executed
        /\ d.performed = dinst[i].performed
        /\ d.retired = dinst[i].retired
        /\ d.destroyed = dinst[i].destroyed
        /\ d.speculative = dinst[i].speculative
        /\ d.present_in_scb = dinst[i].present_in_scb
        /\ d.performed_spec = dinst[i].performed_spec
        /\ d.performed_safe_write = dinst[i].performed_safe_write
        /\ d.retired_spec = dinst[i].retired_spec
        /\ d.retired_safe_write = dinst[i].retired_safe_write
    BY <1>2 DEF Dinst
  <1>4. /\ c \in SUBSET Kinds /\ "performed_spec" \in c /\ "cacheDispatched" \notin c
        /\ "performed_safe_write" \in c <=> "performed_safe_write" \in callbacks[i]
    BY <1>2 DEF Kinds
  <1> HIDE DEF d, c
  <1>5. /\ dinst' \in [Insts -> Dinst] /\ dinst'[i] = d
        /\ callbacks' \in [Insts -> SUBSET Kinds] /\ callbacks'[i] = c
        /\ \A j \in Insts : j # i => dinst'[j] = dinst[j] /\ callbacks'[j] = callbacks[j]
    BY <1>1, <1>3, <1>4, WriteOne, ScheduleOne
  <1>6. TypeOK'
    BY <1>1, <1>5 DEF TypeOK, sbVars
  <1>7. IsLoad(i) /\ ~IsStore(i)
    BY <1>1, <1>2, ProgramTyped DEF Life, StoreLife
  <1>8. RequestLife(i)'
    BY <1>1, <1>2, <1>3, <1>4, <1>5, <1>7 DEF Life, RequestLife
  <1>9. AnswersLife(i)'
    BY <1>1, <1>2, <1>3, <1>4, <1>5, <1>7 DEF Life, AnswersLife, Written
  <1>10. Life(i)'
    BY <1>1, <1>2, <1>3, <1>5, <1>7, <1>8, <1>9 DEF Life, IsLoad, IsStore
  <1>11. LifeInv'
    BY <1>1, <1>5, <1>10, OthersLive
  <1>12. QED  BY <1>3, <1>5, <1>6, <1>11

\* FUStore::executing and ::executed: the store resolves its address, then has
\* executed.
LEMMA StoreExecutes ==
  ASSUME TypeOK, LifeInv, NEW i \in Insts, executing_store(i) \/ executed_store(i)
  PROVE  /\ TypeOK' /\ LifeInv' /\ IsStore(i) /\ UNCHANGED <<callbacks, pnr, sbVars>>
         /\ executing_store(i) => i <= added /\ ~dinst[i].executing /\ dinst'[i].executing
         /\ executed_store(i) => dinst[i].executing /\ dinst'[i].executing
         /\ dinst'[i].present_in_scb = dinst[i].present_in_scb
         /\ \A j \in Insts : j # i => dinst'[j] = dinst[j]
  <1> DEFINE e == [dinst[i] EXCEPT !.executing = TRUE]
             x == [dinst[i] EXCEPT !.executed = TRUE]
  <1>1. /\ IsStore(i) /\ UNCHANGED <<callbacks, added, pnr, committed, lsq, free, sbVars>>
        /\ unresolved' = unresolved \/ unresolved' = unresolved - 1
        /\ \/ i <= added /\ ~dinst[i].executing /\ dinst' = [dinst EXCEPT ![i] = e]
           \/ dinst[i].executing /\ dinst' = [dinst EXCEPT ![i] = x]
        /\ executing_store(i) => /\ i <= added /\ ~dinst[i].executing
                                 /\ dinst' = [dinst EXCEPT ![i] = e]
        /\ executed_store(i) => dinst[i].executing /\ dinst' = [dinst EXCEPT ![i] = x]
    BY DEF executing_store, executed_store
  <1>2. dinst[i] \in Dinst /\ Life(i)
    BY DestroyedOnce DEF LifeInv
  <1>3. /\ e \in Dinst /\ e.executing
        /\ e.executed = dinst[i].executed
        /\ e.performed = dinst[i].performed
        /\ e.retired = dinst[i].retired
        /\ e.destroyed = dinst[i].destroyed
        /\ e.present_in_scb = dinst[i].present_in_scb
    BY <1>2 DEF Dinst
  <1>4. /\ x \in Dinst /\ x.executed
        /\ x.executing = dinst[i].executing
        /\ x.performed = dinst[i].performed
        /\ x.retired = dinst[i].retired
        /\ x.destroyed = dinst[i].destroyed
        /\ x.present_in_scb = dinst[i].present_in_scb
    BY <1>2 DEF Dinst
  <1> HIDE DEF e, x
  <1>5. /\ dinst' \in [Insts -> Dinst]
        /\ dinst' = [dinst EXCEPT ![i] = e] => dinst'[i] = e
        /\ dinst' = [dinst EXCEPT ![i] = x] => dinst'[i] = x
        /\ \A j \in Insts : j # i => dinst'[j] = dinst[j]
    BY <1>1, <1>3, <1>4, WriteOne
  <1>6. TypeOK'
    BY <1>1, <1>5 DEF TypeOK, sbVars
  <1>7. /\ dinst'[i].executing /\ i <= added
        /\ dinst'[i].present_in_scb = dinst[i].present_in_scb
        /\ dinst'[i].performed = dinst[i].performed /\ dinst'[i].retired = dinst[i].retired
        /\ dinst'[i].destroyed = dinst[i].destroyed
        /\ dinst[i].executed => dinst'[i].executed
    BY <1>1, <1>2, <1>3, <1>4, <1>5 DEF Life
  <1>8. StoreLife(i)'
    BY <1>1, <1>2, <1>7 DEF Life, StoreLife
  <1>9. Life(i)'
    BY <1>1, <1>2, <1>7, <1>8, ProgramTyped DEF Life, IsLoad, IsStore
  <1>10. LifeInv'
    BY <1>1, <1>5, <1>9, OthersLive
  <1>11. QED  BY <1>1, <1>5, <1>6, <1>7, <1>10

\* performed_spec: the data is there, whether the load is safe by now or not.
LEMMA DataArrives ==
  ASSUME TypeOK, LifeInv, NEW i \in Insts, performed_spec(i)
  PROVE  /\ TypeOK' /\ LifeInv' /\ IsLoad(i) /\ ~dinst[i].executed /\ dinst'[i].executed
         /\ UNCHANGED <<added, pnr, committed, lsq, free, unresolved, unperformed>>
         /\ dinst'[i].executing = dinst[i].executing
         /\ \A j \in Insts : j # i => dinst'[j] = dinst[j]
         /\ \/ /\ pnr < i /\ SB!can_accept_st(scb, LineOf(i))
               /\ SB!add_st(LineOf(i), WordOf(i)) /\ dinst'[i].present_in_scb
            \/ /\ UNCHANGED <<scb, writes>>
               /\ dinst'[i].present_in_scb = dinst[i].present_in_scb
  <1> DEFINE a == [dinst[i] EXCEPT !.executed = TRUE, !.present_in_scb = TRUE]
             b == [dinst[i] EXCEPT !.executed = TRUE]
             p == [dinst[i] EXCEPT !.executed = TRUE, !.performed = TRUE]
             c == callbacks[i] \ {"performed_spec"}
  <1>1. /\ "performed_spec" \in callbacks[i]
        /\ callbacks' = [callbacks EXCEPT ![i] = c]
        /\ \/ /\ dinst[i].speculative /\ SB!can_accept_st(scb, LineOf(i))
              /\ SB!add_st(LineOf(i), WordOf(i))
              /\ dinst' = [dinst EXCEPT ![i] = AfterSpec(a)]
           \/ /\ dinst[i].speculative /\ dinst' = [dinst EXCEPT ![i] = AfterSpec(b)]
              /\ UNCHANGED <<scb, writes>>
           \/ /\ ~dinst[i].speculative /\ dinst' = [dinst EXCEPT ![i] = AfterSpec(p)]
              /\ UNCHANGED <<scb, writes>>
        /\ UNCHANGED <<added, pnr, committed, lsq, free, unresolved, unperformed>>
    BY DEF performed_spec
  <1>2. /\ dinst[i] \in Dinst /\ dinst[i].destroyed \in 0..1 /\ Life(i)
        /\ callbacks[i] \in SUBSET Kinds
    BY DestroyedOnce DEF LifeInv, TypeOK
  <1>3. /\ a \in Dinst /\ a.executed /\ a.present_in_scb
        /\ a.executing = dinst[i].executing
        /\ a.dispatched = dinst[i].dispatched
        /\ a.performed = dinst[i].performed
        /\ a.retired = dinst[i].retired
        /\ a.destroyed = dinst[i].destroyed
        /\ a.speculative = dinst[i].speculative
        /\ a.performed_spec = dinst[i].performed_spec
        /\ a.performed_safe_write = dinst[i].performed_safe_write
        /\ a.retired_spec = dinst[i].retired_spec
        /\ a.retired_safe_write = dinst[i].retired_safe_write
    BY <1>2 DEF Dinst
  <1>4. /\ b \in Dinst /\ b.executed
        /\ b.executing = dinst[i].executing
        /\ b.dispatched = dinst[i].dispatched
        /\ b.performed = dinst[i].performed
        /\ b.retired = dinst[i].retired
        /\ b.destroyed = dinst[i].destroyed
        /\ b.speculative = dinst[i].speculative
        /\ b.present_in_scb = dinst[i].present_in_scb
        /\ b.performed_spec = dinst[i].performed_spec
        /\ b.performed_safe_write = dinst[i].performed_safe_write
        /\ b.retired_spec = dinst[i].retired_spec
        /\ b.retired_safe_write = dinst[i].retired_safe_write
    BY <1>2 DEF Dinst
  <1>5. /\ p \in Dinst /\ p.executed /\ p.performed
        /\ p.executing = dinst[i].executing
        /\ p.dispatched = dinst[i].dispatched
        /\ p.retired = dinst[i].retired
        /\ p.destroyed = dinst[i].destroyed
        /\ p.speculative = dinst[i].speculative
        /\ p.present_in_scb = dinst[i].present_in_scb
        /\ p.performed_spec = dinst[i].performed_spec
        /\ p.performed_safe_write = dinst[i].performed_safe_write
        /\ p.retired_spec = dinst[i].retired_spec
        /\ p.retired_safe_write = dinst[i].retired_safe_write
    BY <1>2 DEF Dinst
  <1>6. /\ c \in SUBSET Kinds /\ "performed_spec" \notin c
        /\ "cacheDispatched" \in c <=> "cacheDispatched" \in callbacks[i]
        /\ "performed_safe_write" \in c <=> "performed_safe_write" \in callbacks[i]
    BY <1>2
  <1>7. IsLoad(i) /\ ~IsStore(i) /\ RequestLife(i) /\ AnswersLife(i)
    BY <1>1, <1>2, ProgramTyped DEF Life, StoreLife
  <1> HIDE DEF a, b, p, c
  <1>8. PICK d \in {a, b, p} :
          /\ dinst' = [dinst EXCEPT ![i] = AfterSpec(d)]
          /\ d.performed = dinst[i].performed \/ ~dinst[i].speculative
          /\ \/ /\ dinst[i].speculative /\ SB!can_accept_st(scb, LineOf(i))
                /\ SB!add_st(LineOf(i), WordOf(i)) /\ d.present_in_scb
             \/ /\ UNCHANGED <<scb, writes>>
                /\ d.present_in_scb = dinst[i].present_in_scb
    BY <1>1, <1>3, <1>4, <1>5
  <1>9. /\ d \in Dinst /\ d.executed /\ d.destroyed \in 0..1
        /\ d.executing = dinst[i].executing
        /\ d.dispatched = dinst[i].dispatched
        /\ d.retired = dinst[i].retired
        /\ d.destroyed = dinst[i].destroyed
        /\ d.speculative = dinst[i].speculative
        /\ d.performed_spec = dinst[i].performed_spec
        /\ d.performed_safe_write = dinst[i].performed_safe_write
        /\ d.retired_spec = dinst[i].retired_spec
        /\ d.retired_safe_write = dinst[i].retired_safe_write
    BY <1>2, <1>3, <1>4, <1>5
  <1> DEFINE n == AfterSpec(d)
  <1>10. /\ n \in Dinst /\ n.executed /\ n.performed = d.performed
         /\ n.present_in_scb = d.present_in_scb
         /\ n.executing = dinst[i].executing
         /\ n.dispatched = dinst[i].dispatched
         /\ n.retired = dinst[i].retired
         /\ n.speculative = dinst[i].speculative
         /\ n.performed_spec = dinst[i].performed_spec
         /\ n.retired_safe_write = dinst[i].retired_safe_write
         /\ n.destroyed = IF dinst[i].retired /\ dinst[i].performed_spec
                          THEN dinst[i].destroyed + 1 ELSE dinst[i].destroyed
         /\ n.performed_safe_write <=>
              dinst[i].performed_safe_write \/ ~(dinst[i].retired /\ dinst[i].performed_spec)
         /\ n.retired_spec <=> dinst[i].retired_spec \/ ~dinst[i].retired
    BY <1>9, AfterSpecDoes
  <1> HIDE DEF n
  <1>11. /\ dinst' \in [Insts -> Dinst] /\ dinst'[i] = n
         /\ callbacks' \in [Insts -> SUBSET Kinds] /\ callbacks'[i] = c
         /\ \A j \in Insts : j # i => dinst'[j] = dinst[j] /\ callbacks'[j] = callbacks[j]
    <2>1. dinst' = [dinst EXCEPT ![i] = n]
      BY <1>8 DEF n
    <2>2. QED  BY <1>1, <1>6, <1>10, <2>1, WriteOne, ScheduleOne
  <1>12. scb' \in [Lines -> SB!StoreBufferLine] /\ writes' \in [Lines -> Nat]
    <2>1. CASE UNCHANGED <<scb, writes>>
      BY <2>1 DEF TypeOK
    <2>2. CASE SB!add_st(LineOf(i), WordOf(i))
      BY <2>2, ProgramTyped, AddStDoes
    <2>3. QED  BY <1>8, <2>1, <2>2
  <1>13. TypeOK'
    BY <1>1, <1>11, <1>12 DEF TypeOK
  <1>14. ~dinst[i].executed /\ (dinst[i].speculative <=> pnr < i) /\ i \in Nat /\ pnr \in Nat
    BY <1>1, <1>7, ProgramTyped DEF RequestLife, TypeOK
  <1>15. RequestLife(i)'
    BY <1>1, <1>6, <1>7, <1>8, <1>10, <1>11, <1>14 DEF RequestLife
  <1>16. Written(i)' <=> Written(i)
    BY <1>1, <1>6, <1>11 DEF Written
  <1>17. AnswersLife(i)'
    BY <1>2, <1>7, <1>10, <1>11, <1>14, <1>16 DEF AnswersLife
  <1>18. Life(i)'
    BY <1>1, <1>2, <1>7, <1>10, <1>11, <1>15, <1>17 DEF Life, IsLoad, IsStore
  <1>19. LifeInv'
    BY <1>1, <1>11, <1>18, OthersLive
  <1>20. QED  BY <1>1, <1>7, <1>8, <1>10, <1>11, <1>13, <1>14, <1>19

\* performed_safe_write: the write of a safe load came back.
LEMMA WriteReturns ==
  ASSUME TypeOK, LifeInv, NEW i \in Insts, performed_safe_write(i)
  PROVE  /\ TypeOK' /\ LifeInv' /\ IsLoad(i) /\ i <= pnr
         /\ UNCHANGED <<added, pnr, committed, lsq, free, unresolved, writes, unperformed>>
         /\ dinst'[i].executing = dinst[i].executing
         /\ dinst'[i].executed = dinst[i].executed /\ ~dinst'[i].present_in_scb
         /\ scb' = IF dinst[i].present_in_scb THEN SB!Erase(scb, {LineOf(i)}) ELSE scb
         /\ \A j \in Insts : j # i => dinst'[j] = dinst[j]
  <1> DEFINE d == [dinst[i] EXCEPT !.performed = TRUE, !.present_in_scb = FALSE]
             c == callbacks[i] \ {"performed_safe_write"}
             n == AfterSafeWrite(d)
  <1>1. /\ "performed_safe_write" \in callbacks[i]
        /\ callbacks' = [callbacks EXCEPT ![i] = c]
        /\ dinst' = [dinst EXCEPT ![i] = n]
        /\ scb' = IF dinst[i].present_in_scb THEN SB!Erase(scb, {LineOf(i)}) ELSE scb
        /\ UNCHANGED <<added, pnr, committed, lsq, free, unresolved, writes, unperformed>>
    BY DEF performed_safe_write
  <1>2. /\ dinst[i] \in Dinst /\ dinst[i].destroyed \in 0..1 /\ Life(i)
        /\ callbacks[i] \in SUBSET Kinds
    BY DestroyedOnce DEF LifeInv, TypeOK
  <1>3. /\ d \in Dinst /\ d.performed /\ ~d.present_in_scb
        /\ d.executing = dinst[i].executing
        /\ d.dispatched = dinst[i].dispatched
        /\ d.executed = dinst[i].executed
        /\ d.retired = dinst[i].retired
        /\ d.destroyed = dinst[i].destroyed
        /\ d.speculative = dinst[i].speculative
        /\ d.performed_spec = dinst[i].performed_spec
        /\ d.performed_safe_write = dinst[i].performed_safe_write
        /\ d.retired_spec = dinst[i].retired_spec
        /\ d.retired_safe_write = dinst[i].retired_safe_write
    BY <1>2 DEF Dinst
  <1>4. /\ c \in SUBSET Kinds /\ "performed_safe_write" \notin c /\ c \subseteq callbacks[i]
        /\ "performed_spec" \in c <=> "performed_spec" \in callbacks[i]
    BY <1>2
  <1>5. IsLoad(i) /\ ~IsStore(i) /\ RequestLife(i) /\ AnswersLife(i)
    BY <1>1, <1>2, ProgramTyped DEF Life, StoreLife
  <1> HIDE DEF d, c
  <1>6. /\ n \in Dinst /\ n.performed /\ ~n.present_in_scb
        /\ n.executing = dinst[i].executing
        /\ n.dispatched = dinst[i].dispatched
        /\ n.executed = dinst[i].executed
        /\ n.retired = dinst[i].retired
        /\ n.speculative = dinst[i].speculative
        /\ n.performed_safe_write = dinst[i].performed_safe_write
        /\ n.retired_spec = dinst[i].retired_spec
        /\ n.destroyed = IF dinst[i].retired /\ dinst[i].performed_safe_write
                         THEN dinst[i].destroyed + 1 ELSE dinst[i].destroyed
        /\ n.performed_spec <=>
             dinst[i].performed_spec \/ ~(dinst[i].retired /\ dinst[i].performed_safe_write)
        /\ n.retired_safe_write <=> dinst[i].retired_safe_write \/ ~dinst[i].retired
    BY <1>2, <1>3, AfterSafeWriteDoes
  <1> HIDE DEF n
  <1>7. /\ dinst' \in [Insts -> Dinst] /\ dinst'[i] = n
        /\ callbacks' \in [Insts -> SUBSET Kinds] /\ callbacks'[i] = c
        /\ \A j \in Insts : j # i => dinst'[j] = dinst[j] /\ callbacks'[j] = callbacks[j]
    <2>1. /\ dinst' \in [Insts -> Dinst] /\ dinst'[i] = n
          /\ \A j \in Insts : j # i => dinst'[j] = dinst[j]
      BY <1>1, <1>6, WriteOne
    <2>2. /\ callbacks' \in [Insts -> SUBSET Kinds] /\ callbacks'[i] = c
          /\ \A j \in Insts : j # i => callbacks'[j] = callbacks[j]
      BY <1>1, <1>4, ScheduleOne
    <2>3. QED  BY <2>1, <2>2
  <1>8. scb' \in [Lines -> SB!StoreBufferLine]
    BY <1>1, EraseDoes DEF TypeOK
  <1>9. TypeOK'
    BY <1>1, <1>7, <1>8 DEF TypeOK
  <1>10. i <= pnr /\ ~Written(i) /\ Written(i)'
    BY <1>1, <1>4, <1>5, <1>7 DEF RequestLife, Written
  <1>11. RequestLife(i)'
    BY <1>1, <1>4, <1>5, <1>6, <1>7, <1>10 DEF RequestLife
  <1>12. AnswersLife(i)'
    BY <1>2, <1>5, <1>6, <1>7, <1>10 DEF AnswersLife
  <1>13. Life(i)'
    BY <1>1, <1>2, <1>5, <1>6, <1>7, <1>11, <1>12 DEF Life, IsLoad, IsStore
  <1>14. LifeInv'
    BY <1>1, <1>7, <1>13, OthersLive
  <1>15. QED  BY <1>1, <1>5, <1>6, <1>7, <1>9, <1>10, <1>14

\* Moving the head of ROB past the PNR moves no other instruction.
LEMMA PnrMoves ==
  ASSUME TypeOK, pnr + 1 <= added
  PROVE  /\ pnr + 1 \in Insts /\ pnr + 1 \in 0..added /\ committed \in 0..(pnr + 1)
         /\ ~(pnr + 1 <= pnr) /\ ~(pnr + 1 <= committed) /\ ~(pnr + 1 < pnr + 1)
         /\ \A j \in Insts : j # pnr + 1 =>
              /\ j <= pnr + 1 <=> j <= pnr
              /\ pnr + 1 < j <=> pnr < j
  BY ProgramTyped DEF TypeOK, Insts

\* preretire_load: the load becomes safe and sends its write.
LEMMA LoadPreretires ==
  ASSUME TypeOK, LifeInv, preretire_load
  PROVE  /\ TypeOK' /\ LifeInv' /\ pnr + 1 \in Insts /\ pnr + 1 <= added
         /\ IsLoad(pnr + 1) /\ dinst[pnr + 1].executing /\ pnr' = pnr + 1
         /\ scb' = IF dinst[pnr + 1].present_in_scb
                   THEN SB!Erase(scb, {LineOf(pnr + 1)}) ELSE scb
         /\ free' = [free EXCEPT !["LD"] = free["LD"] + 1]
         /\ UNCHANGED <<added, committed, lsq, unresolved, writes, unperformed>>
         /\ dinst'[pnr + 1].executing = dinst[pnr + 1].executing
         /\ dinst'[pnr + 1].executed = dinst[pnr + 1].executed
         /\ ~dinst'[pnr + 1].present_in_scb
         /\ \A j \in Insts : j # pnr + 1 => dinst'[j] = dinst[j]
  <1>0. PICK i : i = pnr + 1
    OBVIOUS
  <1> DEFINE d == [dinst[i] EXCEPT !.present_in_scb = FALSE, !.speculative = FALSE]
             c == callbacks[i] \cup {"performed_safe_write"}
  <1>1. /\ i <= added /\ IsLoad(i) /\ dinst[i].dispatched
        /\ scb' = IF dinst[i].present_in_scb THEN SB!Erase(scb, {LineOf(i)}) ELSE scb
        /\ dinst' = [dinst EXCEPT ![i] = d]
        /\ callbacks' = [callbacks EXCEPT ![i] = c]
        /\ free' = [free EXCEPT !["LD"] = free["LD"] + 1]
        /\ pnr' = i
        /\ UNCHANGED <<added, committed, lsq, unresolved, writes, unperformed>>
    BY <1>0 DEF preretire_load
  <1>2. /\ i \in Insts /\ i \in 0..added /\ committed \in 0..i
        /\ ~(i <= pnr) /\ ~(i <= committed) /\ ~(i < i) /\ i <= i
        /\ \A j \in Insts : j # i => (j <= i <=> j <= pnr) /\ (i < j <=> pnr < j)
    BY <1>0, <1>1, PnrMoves DEF TypeOK
  <1>3. /\ dinst[i] \in Dinst /\ Life(i) /\ callbacks[i] \in SUBSET Kinds
    BY <1>2, DestroyedOnce DEF LifeInv, TypeOK
  <1>4. /\ d \in Dinst /\ ~d.present_in_scb /\ ~d.speculative
        /\ d.executing = dinst[i].executing
        /\ d.dispatched = dinst[i].dispatched
        /\ d.executed = dinst[i].executed
        /\ d.performed = dinst[i].performed
        /\ d.retired = dinst[i].retired
        /\ d.destroyed = dinst[i].destroyed
        /\ d.performed_spec = dinst[i].performed_spec
        /\ d.performed_safe_write = dinst[i].performed_safe_write
        /\ d.retired_spec = dinst[i].retired_spec
        /\ d.retired_safe_write = dinst[i].retired_safe_write
    BY <1>3 DEF Dinst
  <1>5. /\ c \in SUBSET Kinds /\ "performed_safe_write" \in c
        /\ "performed_spec" \in c <=> "performed_spec" \in callbacks[i]
        /\ "cacheDispatched" \in c <=> "cacheDispatched" \in callbacks[i]
    BY <1>3 DEF Kinds
  <1>6. RequestLife(i) /\ AnswersLife(i) /\ ~IsStore(i) /\ ~dinst[i].retired
    BY <1>1, <1>2, <1>3, ProgramTyped DEF Life
  <1> HIDE DEF d, c
  <1>7. /\ dinst' \in [Insts -> Dinst] /\ dinst'[i] = d
        /\ callbacks' \in [Insts -> SUBSET Kinds] /\ callbacks'[i] = c
        /\ \A j \in Insts : j # i => dinst'[j] = dinst[j] /\ callbacks'[j] = callbacks[j]
    BY <1>1, <1>2, <1>4, <1>5, WriteOne, ScheduleOne
  <1>8. TypeOK'
    <2>1. scb' \in [Lines -> SB!StoreBufferLine]
      BY <1>1, EraseDoes DEF TypeOK
    <2>2. free' \in [{"LD", "ST", "LSQ"} -> Int]
      BY <1>1 DEF TypeOK
    <2>3. QED  BY <1>1, <1>2, <1>7, <2>1, <2>2 DEF TypeOK
  <1>9. dinst[i].executing /\ ~Written(i) /\ ~Written(i)'
    BY <1>1, <1>2, <1>5, <1>6, <1>7 DEF RequestLife, Written
  <1>10. RequestLife(i)'
    BY <1>1, <1>2, <1>4, <1>5, <1>6, <1>7, <1>9 DEF RequestLife
  <1>11. AnswersLife(i)'
    BY <1>4, <1>6, <1>7, <1>9 DEF AnswersLife
  <1>12. Life(i)'
    BY <1>1, <1>2, <1>3, <1>4, <1>6, <1>7, <1>10, <1>11 DEF Life, IsLoad, IsStore
  <1>13. LifeInv'
    BY <1>1, <1>2, <1>7, <1>12, OthersLive
  <1>14. QED  BY <1>0, <1>1, <1>2, <1>4, <1>7, <1>8, <1>9, <1>13

\* preretire_store: the store enters the store buffer and is performed.
LEMMA StorePreretires ==
  ASSUME TypeOK, LifeInv, preretire_store
  PROVE  /\ TypeOK' /\ LifeInv' /\ pnr + 1 \in Insts /\ pnr + 1 <= added
         /\ IsStore(pnr + 1) /\ pnr' = pnr + 1
         /\ SB!can_accept_st(scb, LineOf(pnr + 1))
         /\ SB!add_st(LineOf(pnr + 1), WordOf(pnr + 1))
         /\ unperformed' = [unperformed EXCEPT ![LineOf(pnr + 1)] =
                              unperformed[LineOf(pnr + 1)] \cup {WordOf(pnr + 1)}]
         /\ free' = [free EXCEPT !["ST"] = free["ST"] + 1]
         /\ UNCHANGED <<added, committed, lsq, unresolved>>
         /\ dinst'[pnr + 1].executing = dinst[pnr + 1].executing
         /\ dinst'[pnr + 1].executed = dinst[pnr + 1].executed
         /\ dinst'[pnr + 1].present_in_scb = dinst[pnr + 1].present_in_scb
         /\ \A j \in Insts : j # pnr + 1 => dinst'[j] = dinst[j]
  <1>0. PICK i : i = pnr + 1
    OBVIOUS
  <1> DEFINE d == [dinst[i] EXCEPT !.performed = TRUE]
  <1>1. /\ i <= added /\ IsStore(i) /\ dinst[i].executed
        /\ SB!can_accept_st(scb, LineOf(i)) /\ SB!add_st(LineOf(i), WordOf(i))
        /\ unperformed' = [unperformed EXCEPT ![LineOf(i)] =
                             unperformed[LineOf(i)] \cup {WordOf(i)}]
        /\ dinst' = [dinst EXCEPT ![i] = d]
        /\ free' = [free EXCEPT !["ST"] = free["ST"] + 1]
        /\ pnr' = i
        /\ UNCHANGED <<callbacks, added, committed, lsq, unresolved>>
    BY <1>0 DEF preretire_store
  <1>2. /\ i \in Insts /\ i \in 0..added /\ committed \in 0..i
        /\ ~(i <= pnr) /\ ~(i <= committed) /\ i <= i
        /\ \A j \in Insts : j # i => (j <= i <=> j <= pnr) /\ (i < j <=> pnr < j)
    BY <1>0, <1>1, PnrMoves DEF TypeOK
  <1>3. dinst[i] \in Dinst /\ Life(i) /\ LineOf(i) \in Lines /\ WordOf(i) \in Words
    BY <1>2, DestroyedOnce, ProgramTyped DEF LifeInv
  <1>4. /\ d \in Dinst /\ d.performed
        /\ d.executing = dinst[i].executing
        /\ d.executed = dinst[i].executed
        /\ d.retired = dinst[i].retired
        /\ d.destroyed = dinst[i].destroyed
        /\ d.present_in_scb = dinst[i].present_in_scb
    BY <1>3 DEF Dinst
  <1> HIDE DEF d
  <1>5. /\ dinst' \in [Insts -> Dinst] /\ dinst'[i] = d
        /\ \A j \in Insts : j # i => dinst'[j] = dinst[j] /\ callbacks'[j] = callbacks[j]
    BY <1>1, <1>2, <1>4, WriteOne
  <1>6. TypeOK'
    <2>1. scb' \in [Lines -> SB!StoreBufferLine] /\ writes' \in [Lines -> Nat]
      BY <1>1, <1>3, AddStDoes
    <2>2. free' \in [{"LD", "ST", "LSQ"} -> Int]
      BY <1>1 DEF TypeOK
    <2>3. unperformed' \in [Lines -> SUBSET Words]
      BY <1>1, <1>3 DEF TypeOK
    <2>4. QED  BY <1>1, <1>2, <1>5, <2>1, <2>2, <2>3 DEF TypeOK
  <1>7. StoreLife(i)'
    BY <1>1, <1>2, <1>3, <1>4, <1>5 DEF Life, StoreLife
  <1>8. Life(i)'
    BY <1>1, <1>2, <1>3, <1>4, <1>5, <1>7, ProgramTyped DEF Life, IsLoad, IsStore
  <1>9. LifeInv'
    BY <1>1, <1>2, <1>5, <1>8, OthersLive
  <1>10. QED  BY <1>0, <1>1, <1>2, <1>4, <1>5, <1>6, <1>9

\* retire: the head of rROB leaves the queue; whoever is last destroys it.
LEMMA Retires ==
  ASSUME TypeOK, LifeInv, retire
  PROVE  /\ TypeOK' /\ LifeInv' /\ committed + 1 \in Insts /\ committed + 1 <= pnr
         /\ committed' = committed + 1 /\ lsq' = lsq \ {committed + 1}
         /\ free' = [free EXCEPT !["LSQ"] = free["LSQ"] + 1]
         /\ UNCHANGED <<callbacks, added, pnr, unresolved, sbVars>>
         /\ dinst[committed + 1].executing
         /\ \A j \in Insts : /\ dinst'[j].executing = dinst[j].executing
                             /\ dinst'[j].executed = dinst[j].executed
                             /\ dinst'[j].present_in_scb = dinst[j].present_in_scb
  <1>0. PICK i : i = committed + 1
    OBVIOUS
  <1> DEFINE both == \/ IsStore(i) /\ dinst[i].performed
                     \/ dinst[i].retired_spec /\ dinst[i].retired_safe_write
             n == IF both THEN dinst[i].destroyed + 1 ELSE dinst[i].destroyed
             d == [dinst[i] EXCEPT !.retired = TRUE, !.destroyed = n]
  <1>1. /\ i <= pnr
        /\ free' = [free EXCEPT !["LSQ"] = free["LSQ"] + 1]
        /\ lsq' = lsq \ {i}
        /\ dinst' = [dinst EXCEPT ![i] = d]
        /\ committed' = i
        /\ UNCHANGED <<callbacks, added, pnr, unresolved, sbVars>>
    BY <1>0 DEF retire
  <1>2. /\ i \in Insts /\ i \in 0..pnr /\ i <= added /\ ~(i <= committed) /\ i <= i
        /\ \A j \in Insts : j # i => (j <= i <=> j <= committed)
    BY <1>0, <1>1, ProgramTyped DEF TypeOK, Insts
  <1>3. dinst[i] \in Dinst /\ dinst[i].destroyed \in 0..1 /\ Life(i)
    BY <1>2, DestroyedOnce DEF LifeInv
  <1>4. n \in 0..2
    BY <1>3
  <1> HIDE DEF n
  <1>5. /\ d \in Dinst /\ d.retired /\ d.destroyed = n
        /\ d.executing = dinst[i].executing
        /\ d.dispatched = dinst[i].dispatched
        /\ d.executed = dinst[i].executed
        /\ d.performed = dinst[i].performed
        /\ d.speculative = dinst[i].speculative
        /\ d.present_in_scb = dinst[i].present_in_scb
        /\ d.performed_spec = dinst[i].performed_spec
        /\ d.performed_safe_write = dinst[i].performed_safe_write
        /\ d.retired_spec = dinst[i].retired_spec
        /\ d.retired_safe_write = dinst[i].retired_safe_write
    BY <1>3, <1>4 DEF Dinst
  <1> HIDE DEF d
  <1>6. /\ dinst' \in [Insts -> Dinst] /\ dinst'[i] = d
        /\ \A j \in Insts : j # i => dinst'[j] = dinst[j] /\ callbacks'[j] = callbacks[j]
    BY <1>1, <1>2, <1>5, WriteOne
  <1>7. TypeOK'
    <2>1. free' \in [{"LD", "ST", "LSQ"} -> Int]
      BY <1>1 DEF TypeOK
    <2>2. QED  BY <1>1, <1>2, <1>6, <2>1 DEF TypeOK, sbVars
  <1>8. ~dinst[i].retired /\ dinst[i].executing /\ (Written(i)' <=> Written(i))
    BY <1>1, <1>2, <1>3, ProgramTyped DEF Life, StoreLife, RequestLife, Written
  <1>9. ASSUME IsStore(i) PROVE Life(i)'
    <2>1. n = 1 /\ ~IsLoad(i)
      BY <1>1, <1>2, <1>3, <1>8, <1>9, ProgramTyped DEF Life, StoreLife, n
    <2>2. StoreLife(i)'
      BY <1>1, <1>3, <1>5, <1>6, <1>9, <2>1 DEF Life, StoreLife
    <2>3. QED  BY <1>1, <1>2, <1>5, <1>6, <2>1, <2>2 DEF Life, IsLoad, IsStore
  <1>10. ASSUME IsLoad(i) PROVE Life(i)'
    <2>1. /\ RequestLife(i) /\ AnswersLife(i) /\ ~IsStore(i)
      BY <1>2, <1>3, <1>10, ProgramTyped DEF Life
    <2>2. n = IF dinst[i].executed /\ Written(i) THEN 1 ELSE 0
      BY <1>8, <2>1 DEF AnswersLife, n
    <2>3. RequestLife(i)'
      BY <1>1, <1>5, <1>6, <2>1 DEF RequestLife
    <2>4. AnswersLife(i)'
      BY <1>5, <1>6, <1>8, <2>1, <2>2 DEF AnswersLife
    <2>5. QED  BY <1>1, <1>2, <1>5, <1>6, <2>1, <2>3, <2>4 DEF Life, IsLoad, IsStore
  <1>11. Life(i)'
    BY <1>2, <1>9, <1>10, ProgramTyped
  <1>12. LifeInv'
    BY <1>1, <1>2, <1>6, <1>11, OthersLive
  <1>13. QED  BY <1>0, <1>1, <1>2, <1>5, <1>6, <1>7, <1>8, <1>12

\* ownership_done: only the store buffer changes.
LEMMA OwnershipDone ==
  ASSUME TypeOK, NEW l \in Lines, ownership_done(l)
  PROVE  /\ TypeOK' /\ UNCHANGED coreVars
         /\ NoPrefetchLines => NoPrefetchLines'
         /\ \A k \in Lines : writes'[k] <= writes[k]
  <1>1. /\ UNCHANGED coreVars /\ writes[l] > 0
        /\ writes' = [writes EXCEPT ![l] = writes[l] - 1]
        /\ scb' = [scb EXCEPT ![l] = [scb[l] EXCEPT !.state = "Clean"]] \/ scb' = scb
        /\ unperformed' = [unperformed EXCEPT ![l] =
                             IF writes[l] = 1 THEN {} ELSE unperformed[l]]
    BY DEF ownership_done, SB!ownership_done
  <1>2. scb \in [Lines -> SB!StoreBufferLine] /\ scb[l] \in SB!StoreBufferLine
        /\ writes \in [Lines -> Nat] /\ unperformed \in [Lines -> SUBSET Words]
    BY DEF TypeOK
  <1> DEFINE e == [scb[l] EXCEPT !.state = "Clean"]
  <1>3. e \in SB!StoreBufferLine /\ e.prefetch_line = scb[l].prefetch_line
    BY <1>2 DEF SB!StoreBufferLine, SB!LineState
  <1>4. scb' = [scb EXCEPT ![l] = e] \/ scb' = scb
    BY <1>1
  <1> HIDE DEF e
  <1>5. scb' \in [Lines -> SB!StoreBufferLine] /\ (NoPrefetchLines => NoPrefetchLines')
    BY <1>2, <1>3, <1>4 DEF NoPrefetchLines
  <1>6. writes' \in [Lines -> Nat] /\ \A k \in Lines : writes'[k] <= writes[k]
    BY <1>1, <1>2
  <1>7. unperformed' \in [Lines -> SUBSET Words]
    <2>1. (IF writes[l] = 1 THEN {} ELSE unperformed[l]) \in SUBSET Words
      BY <1>2
    <2>2. QED  BY <1>1, <1>2, <2>1
  <1>8. TypeOK'
    BY <1>1, <1>5, <1>6, <1>7 DEF TypeOK, coreVars
  <1>9. QED  BY <1>1, <1>5, <1>6, <1>8

\* Every step keeps the types and the lives.
LEMMA LifeStep ==
  ASSUME TypeOK, LifeInv, [Next]_vars
  PROVE  TypeOK' /\ LifeInv'
  <1>1. ASSUME UNCHANGED coreVars PROVE LifeInv'
    BY <1>1 DEF coreVars, LifeInv, Life, StoreLife, RequestLife, AnswersLife, Written
  <1>2. CASE UNCHANGED vars
    <2>1. UNCHANGED coreVars /\ UNCHANGED sbVars
      BY <1>2 DEF vars
    <2>2. QED  BY <1>1, <2>1 DEF TypeOK, coreVars, sbVars
  <1>3. CASE \E l \in Lines : ownership_done(l)
    BY <1>1, <1>3, OwnershipDone
  <1>4. QED
    BY <1>2, <1>3, AddLives, LoadExecutes, RequestDispatched, StoreExecutes, DataArrives,
       WriteReturns, LoadPreretires, StorePreretires, Retires DEF Next

\* Every step keeps present_in_scb for loads before their PNR, when the slots
\* of the pool start with the flag clear.
LEMMA PresentStep ==
  ASSUME TypeOK, LifeInv, PresentInv, [Next]_vars
  PROVE  PresentInv'
  <1>1. ASSUME pnr' = pnr,
               \A j \in Insts : /\ dinst'[j].executed = dinst[j].executed
                                /\ dinst'[j].present_in_scb = dinst[j].present_in_scb
        PROVE  PresentInv'
    BY <1>1 DEF PresentInv, IsLoad
  <1>2. ASSUME NEW i \in Insts, \A j \in Insts : j # i => dinst'[j] = dinst[j],
               \A j \in Insts : j # i => (pnr' < j <=> pnr < j),
               dinst'[i].present_in_scb => IsLoad(i) /\ dinst'[i].executed /\ pnr' < i
        PROVE  PresentInv'
    BY <1>2 DEF PresentInv, IsLoad
  <1>3. CASE add_inst \/ (\E l \in Lines : ownership_done(l)) \/ UNCHANGED vars
    <2>1. UNCHANGED <<dinst, pnr>>
      BY <1>3 DEF add_inst, ownership_done, coreVars, vars
    <2>2. QED  BY <1>1, <2>1
  <1>4. ASSUME NEW i \in Insts, do_load_execution(i) \/ cacheDispatched(i)
        PROVE  PresentInv'
    <2>1. pnr' = pnr
      BY <1>4 DEF do_load_execution, cacheDispatched
    <2>2. QED  BY <1>1, <1>4, <2>1, LoadExecutes, RequestDispatched
  <1>5. ASSUME NEW i \in Insts, executing_store(i) \/ executed_store(i)
        PROVE  PresentInv'
    <2>1. /\ IsStore(i) /\ pnr' = pnr /\ dinst'[i].present_in_scb = dinst[i].present_in_scb
          /\ \A j \in Insts : j # i => dinst'[j] = dinst[j]
      BY <1>5, StoreExecutes
    <2>2. ~dinst[i].present_in_scb
      BY <2>1, ProgramTyped DEF PresentInv
    <2>3. QED  BY <1>2, <2>1, <2>2
  <1>6. ASSUME NEW i \in Insts, performed_spec(i)
        PROVE  PresentInv'
    <2>1. /\ IsLoad(i) /\ ~dinst[i].executed /\ dinst'[i].executed /\ pnr' = pnr
          /\ \A j \in Insts : j # i => dinst'[j] = dinst[j]
          /\ pnr < i \/ dinst'[i].present_in_scb = dinst[i].present_in_scb
      BY <1>6, DataArrives
    <2>2. ~dinst[i].present_in_scb
      BY <2>1 DEF PresentInv
    <2>3. QED  BY <1>2, <2>1, <2>2
  <1>7. ASSUME NEW i \in Insts, performed_safe_write(i)
        PROVE  PresentInv'
    <2>1. /\ pnr' = pnr /\ ~dinst'[i].present_in_scb
          /\ \A j \in Insts : j # i => dinst'[j] = dinst[j]
      BY <1>7, WriteReturns
    <2>2. QED  BY <1>2, <2>1
  <1>8. CASE preretire_load
    <2>1. PICK i : i = pnr + 1
      OBVIOUS
    <2>2. /\ i \in Insts /\ pnr' = i /\ i <= added /\ ~dinst'[i].present_in_scb
          /\ \A j \in Insts : j # i => dinst'[j] = dinst[j]
      BY <1>8, <2>1, LoadPreretires
    <2>3. \A j \in Insts : j # i => (pnr' < j <=> pnr < j)
      BY <2>1, <2>2, PnrMoves
    <2>4. QED  BY <1>2, <2>2, <2>3
  <1>9. CASE preretire_store
    <2>1. PICK i : i = pnr + 1
      OBVIOUS
    <2>2. /\ i \in Insts /\ pnr' = i /\ i <= added /\ IsStore(i)
          /\ dinst'[i].present_in_scb = dinst[i].present_in_scb
          /\ \A j \in Insts : j # i => dinst'[j] = dinst[j]
      BY <1>9, <2>1, StorePreretires
    <2>3. \A j \in Insts : j # i => (pnr' < j <=> pnr < j)
      BY <2>1, <2>2, PnrMoves
    <2>4. ~dinst[i].present_in_scb
      BY <2>2, ProgramTyped DEF PresentInv
    <2>5. QED  BY <1>2, <2>2, <2>3, <2>4
  <1>10. CASE retire
    <2>1. pnr' = pnr
      BY <1>10 DEF retire
    <2>2. QED  BY <1>1, <1>10, <2>1, Retires
  <1>11. QED
    BY <1>3, <1>4, <1>5, <1>6, <1>7, <1>8, <1>9, <1>10 DEF Next

----------------------------------------------------------------------------
(* The entries of the units and of the queue *)

\* The loads and the stores that hold an entry of their unit, and the
\* instructions of the queue whose address is not known.
HeldLoads  == {i \in Loads : /\ pnr < i /\ i <= added
                             /\ ldq_late_alloc => dinst[i].executing}
HeldStores == {i \in Stores : pnr < i /\ i <= added}
Unknown    == {i \in lsq : ~dinst[i].executing}

\* EntriesConserved, in terms of these sets.
LEMMA EntriesAre ==
  EntriesConserved <=> /\ free["LD"]  = ldq_size - Cardinality(HeldLoads)
                       /\ free["ST"]  = stq_size - Cardinality(HeldStores)
                       /\ free["LSQ"] = lsq_size - Cardinality(lsq)
                       /\ lsq = committed + 1 .. added
                       /\ unresolved = Cardinality(Unknown)
  BY DEF EntriesConserved, HeldLoads, HeldStores, Unknown

\* Counting sets of instructions when one enters or leaves.
LEMMA CountOne ==
  ASSUME NEW S \in SUBSET Insts
  PROVE  /\ IsFiniteSet(S) /\ Cardinality(S) \in Int /\ Cardinality(S) <= N
         /\ \A i : i \notin S => Cardinality(S \cup {i}) = Cardinality(S) + 1
         /\ \A i \in S : Cardinality(S \ {i}) = Cardinality(S) - 1
  <1>1. IsFiniteSet(Insts) /\ Cardinality(Insts) = N
    <2>1. N \in Nat
      BY ProgramTyped
    <2>2. IsFiniteSet(1..N) /\ Cardinality(1..N) = IF 1 > N THEN 0 ELSE N - 1 + 1
      BY <2>1, FS_Interval
    <2>3. QED  BY <2>1, <2>2 DEF Insts
  <1>2. IsFiniteSet(S) /\ Cardinality(S) \in Nat /\ Cardinality(S) <= N
    BY <1>1, FS_Subset, FS_CardinalityType
  <1>3. QED  BY <1>2, FS_AddElement, FS_RemoveElement

\* Every step takes and gives back the entries it should.
LEMMA EntriesStep ==
  ASSUME TypeOK, LifeInv, EntriesConserved, [Next]_vars
  PROVE  EntriesConserved'
  <1>1. /\ free["LD"] = ldq_size - Cardinality(HeldLoads)
        /\ free["ST"] = stq_size - Cardinality(HeldStores)
        /\ free["LSQ"] = lsq_size - Cardinality(lsq)
        /\ lsq = committed + 1 .. added
        /\ unresolved = Cardinality(Unknown)
    BY EntriesAre
  <1>2. ASSUME /\ free'["LD"]  = ldq_size - Cardinality(HeldLoads')
               /\ free'["ST"]  = stq_size - Cardinality(HeldStores')
               /\ free'["LSQ"] = lsq_size - Cardinality(lsq')
               /\ lsq' = committed' + 1 .. added'
               /\ unresolved' = Cardinality(Unknown')
        PROVE  EntriesConserved'
    BY <1>2 DEF EntriesConserved, HeldLoads, HeldStores, Unknown
  <1>3. /\ HeldLoads \in SUBSET Insts /\ HeldStores \in SUBSET Insts
        /\ lsq \in SUBSET Insts /\ Unknown \in SUBSET Insts
        /\ ldq_size \in Int /\ stq_size \in Int /\ lsq_size \in Int
        /\ added \in Int /\ pnr \in Int /\ committed \in Int
        /\ committed <= pnr /\ pnr <= added
        /\ free \in [{"LD", "ST", "LSQ"} -> Int]
    BY LoadStoreAssumption DEF HeldLoads, HeldStores, Unknown, Loads, Stores, TypeOK
  <1>4. \A S \in SUBSET Insts :
          /\ Cardinality(S) \in Int
          /\ \A i : i \notin S => Cardinality(S \cup {i}) = Cardinality(S) + 1
          /\ \A i \in S : Cardinality(S \ {i}) = Cardinality(S) - 1
    BY CountOne
  <1>5. \A i \in Insts : i \in Int /\ (i \in Loads <=> IsLoad(i)) /\ (i \in Stores <=> IsStore(i))
                         /\ (IsLoad(i) <=> ~IsStore(i))
    BY ProgramTyped DEF Loads, Stores
  <1>6. ASSUME UNCHANGED <<added, pnr, committed, lsq, free, unresolved>>,
               \A j \in Insts : dinst'[j].executing = dinst[j].executing
        PROVE  EntriesConserved'
    <2>1. HeldLoads' = HeldLoads
      BY <1>6 DEF HeldLoads, Loads, IsLoad
    <2>2. HeldStores' = HeldStores
      BY <1>6 DEF HeldStores, Stores, IsStore
    <2>3. Unknown' = Unknown
      BY <1>3, <1>6 DEF Unknown
    <2>4. QED  BY <1>1, <1>2, <1>6, <2>1, <2>2, <2>3
  <1>7. CASE (\E l \in Lines : ownership_done(l)) \/ UNCHANGED vars
    <2>1. UNCHANGED <<dinst, added, pnr, committed, lsq, free, unresolved>>
      BY <1>7 DEF ownership_done, coreVars, vars
    <2>2. QED  BY <1>6, <2>1
  <1>8. ASSUME NEW i \in Insts,
               \/ cacheDispatched(i) \/ executed_store(i)
               \/ performed_spec(i) \/ performed_safe_write(i)
        PROVE  EntriesConserved'
    <2>1. UNCHANGED <<added, pnr, committed, lsq, free, unresolved>>
      BY <1>8 DEF cacheDispatched, executed_store, performed_spec, performed_safe_write
    <2>2. CASE executed_store(i)
      <3>1. dinst[i].executing = dinst'[i].executing
        <4>1. dinst[i].executing /\ dinst'[i].executing
          BY <2>2, StoreExecutes
        <4>2. dinst[i] \in Dinst /\ dinst'[i] \in Dinst
          BY <1>8, LifeStep DEF TypeOK
        <4>3. QED  BY <4>1, <4>2 DEF Dinst
      <3>2. QED  BY <1>6, <2>1, <2>2, <3>1, StoreExecutes
    <2>3. CASE cacheDispatched(i) \/ performed_spec(i) \/ performed_safe_write(i)
      <3>1. \A j \in Insts : dinst'[j].executing = dinst[j].executing
        BY <2>3, RequestDispatched, DataArrives, WriteReturns
      <3>2. QED  BY <1>6, <2>1, <3>1
    <2>4. QED  BY <1>8, <2>2, <2>3
  <1>9. CASE add_inst
    <2>1. PICK i : i = added + 1
      OBVIOUS
    <2>2. /\ i \in Insts /\ added' = i /\ lsq' = lsq \cup {i}
          /\ unresolved' = unresolved + 1 /\ UNCHANGED <<dinst, pnr, committed>>
          /\ free' = [free EXCEPT
                !["LSQ"] = @ - 1,
                ![Program[i].op] = IF IsLoad(i) /\ ldq_late_alloc THEN @ ELSE @ - 1]
      BY <1>9, <2>1 DEF add_inst
    <2>3. /\ i \notin lsq /\ ~dinst[i].executing /\ pnr < i
          /\ lsq' = committed' + 1 .. added'
          /\ i \notin HeldLoads /\ i \notin HeldStores /\ i \notin Unknown
      <3>1. ~(i <= added) /\ i \notin lsq /\ pnr < i
        BY <1>1, <1>3, <2>1
      <3>2. ~dinst[i].executing
        BY <2>2, <3>1 DEF LifeInv, Life
      <3>3. lsq' = committed' + 1 .. added'
        BY <1>1, <1>3, <2>1, <2>2
      <3>4. QED  BY <3>1, <3>2, <3>3 DEF HeldLoads, HeldStores, Unknown
    <2>4. \A j \in Insts : j <= added' <=> j <= added \/ j = i
      <3>1. added \in Int /\ added' = added + 1 /\ i = added + 1
        BY <1>3, <2>1, <2>2
      <3>2. \A j \in Insts : j \in Int
        BY <1>5
      <3>3. QED  BY <3>1, <3>2
    <2>5. Unknown' = Unknown \cup {i}
      BY <1>3, <2>2, <2>3 DEF Unknown
    <2>6. /\ free'["LSQ"] = lsq_size - Cardinality(lsq')
          /\ unresolved' = Cardinality(Unknown')
      <3>1. Program[i].op # "LSQ"
        BY <2>2, ProgramTyped
      <3>2. free'["LSQ"] = free["LSQ"] - 1
        BY <1>3, <2>2, <3>1
      <3>3. /\ Cardinality(lsq') = Cardinality(lsq) + 1
            /\ Cardinality(Unknown') = Cardinality(Unknown) + 1
            /\ Cardinality(lsq) \in Int /\ Cardinality(Unknown) \in Int
        BY <1>3, <1>4, <2>2, <2>3, <2>5
      <3>4. free["LSQ"] \in Int
        BY <1>3
      <3>5. QED  BY <1>1, <1>3, <2>2, <3>2, <3>3, <3>4
    <2>7. CASE IsLoad(i)
      <3>1. HeldStores' = HeldStores
        BY <1>5, <2>2, <2>4, <2>7 DEF HeldStores, Stores, IsStore
      <3>2. Program[i].op = "LD"
        BY <2>7 DEF IsLoad
      <3>3. free'["ST"] = free["ST"]
        BY <1>3, <2>2, <3>2
      <3>4. free'["LD"] = IF ldq_late_alloc THEN free["LD"] ELSE free["LD"] - 1
        BY <1>3, <2>2, <2>7, <3>2
      <3>5. HeldLoads' = IF ldq_late_alloc THEN HeldLoads ELSE HeldLoads \cup {i}
        BY <1>5, <2>2, <2>3, <2>4, <2>7 DEF HeldLoads, Loads, IsLoad
      <3>6. free'["LD"] = ldq_size - Cardinality(HeldLoads')
        <4>1. /\ Cardinality(HeldLoads \cup {i}) = Cardinality(HeldLoads) + 1
              /\ Cardinality(HeldLoads) \in Int
          BY <1>3, <1>4, <2>3
        <4>2. QED  BY <1>1, <1>3, <3>4, <3>5, <4>1
      <3>7. QED  BY <1>1, <1>2, <2>3, <2>6, <3>1, <3>3, <3>6
    <2>8. CASE IsStore(i)
      <3>1. HeldLoads' = HeldLoads
        BY <1>5, <2>2, <2>4, <2>8 DEF HeldLoads, Loads, IsLoad
      <3>2. Program[i].op = "ST" /\ ~IsLoad(i)
        BY <1>5, <2>2, <2>8 DEF IsStore
      <3>3. free'["LD"] = free["LD"]
        BY <1>3, <2>2, <3>2
      <3>4. free'["ST"] = free["ST"] - 1
        BY <1>3, <2>2, <3>2
      <3>5. HeldStores' = HeldStores \cup {i}
        BY <1>5, <2>2, <2>3, <2>4, <2>8 DEF HeldStores, Stores, IsStore
      <3>6. free'["ST"] = stq_size - Cardinality(HeldStores')
        <4>1. /\ Cardinality(HeldStores \cup {i}) = Cardinality(HeldStores) + 1
              /\ Cardinality(HeldStores) \in Int
          BY <1>3, <1>4, <2>3
        <4>2. QED  BY <1>1, <1>3, <3>4, <3>5, <4>1
      <3>7. QED  BY <1>1, <1>2, <2>3, <2>6, <3>1, <3>3, <3>6
    <2>9. QED  BY <1>5, <2>2, <2>7, <2>8
  <1>10. ASSUME NEW i \in Insts, do_load_execution(i)
         PROVE  EntriesConserved'
    <2>1. /\ IsLoad(i) /\ i <= added /\ ~dinst[i].executing /\ dinst'[i].executing
          /\ \A j \in Insts : j # i => dinst'[j] = dinst[j]
      BY <1>10, LoadExecutes
    <2>2. /\ UNCHANGED <<added, pnr, committed, lsq>> /\ unresolved' = unresolved - 1
          /\ free' = [free EXCEPT !["LD"] = IF ldq_late_alloc THEN free["LD"] - 1 ELSE free["LD"]]
      BY <1>10 DEF do_load_execution
    <2>3. pnr < i /\ i \in lsq
      <3>1. ~(i <= pnr)
        BY <2>1 DEF LifeInv, Life, RequestLife
      <3>2. QED  BY <1>1, <1>3, <1>5, <2>1, <3>1
    <2>4. Unknown' = Unknown \ {i} /\ i \in Unknown
      BY <1>3, <2>1, <2>2, <2>3 DEF Unknown
    <2>5. HeldStores' = HeldStores
      BY <2>2 DEF HeldStores, Stores, IsStore
    <2>6. HeldLoads' = IF ldq_late_alloc THEN HeldLoads \cup {i} ELSE HeldLoads
      BY <1>5, <2>1, <2>2, <2>3 DEF HeldLoads, Loads, IsLoad
    <2>7. ldq_late_alloc => i \notin HeldLoads
      BY <2>1 DEF HeldLoads
    <2>8. unresolved' = Cardinality(Unknown')
      BY <1>1, <1>3, <1>4, <2>2, <2>4
    <2>9. /\ free'["LD"] = IF ldq_late_alloc THEN free["LD"] - 1 ELSE free["LD"]
          /\ free'["ST"] = free["ST"] /\ free'["LSQ"] = free["LSQ"]
      BY <1>3, <2>2
    <2>10. free'["LD"] = ldq_size - Cardinality(HeldLoads')
      <3>1. /\ ldq_late_alloc => Cardinality(HeldLoads \cup {i}) = Cardinality(HeldLoads) + 1
            /\ Cardinality(HeldLoads) \in Int
        BY <1>3, <1>4, <2>7
      <3>2. QED  BY <1>1, <1>3, <2>6, <2>9, <3>1
    <2>11. QED  BY <1>1, <1>2, <2>2, <2>5, <2>8, <2>9, <2>10
  <1>11. ASSUME NEW i \in Insts, executing_store(i)
         PROVE  EntriesConserved'
    <2>1. /\ IsStore(i) /\ i <= added /\ ~dinst[i].executing /\ dinst'[i].executing
          /\ \A j \in Insts : j # i => dinst'[j] = dinst[j]
      BY <1>11, StoreExecutes
    <2>2. UNCHANGED <<added, pnr, committed, lsq, free>> /\ unresolved' = unresolved - 1
      BY <1>11 DEF executing_store
    <2>3. i \in lsq
      <3>1. ~(i <= pnr)
        BY <2>1 DEF LifeInv, Life, StoreLife
      <3>2. QED  BY <1>1, <1>3, <1>5, <2>1, <3>1
    <2>4. Unknown' = Unknown \ {i} /\ i \in Unknown
      BY <1>3, <2>1, <2>2, <2>3 DEF Unknown
    <2>5. HeldStores' = HeldStores
      BY <2>2 DEF HeldStores, Stores, IsStore
    <2>6. HeldLoads' = HeldLoads
      BY <1>5, <2>1, <2>2 DEF HeldLoads, Loads, IsLoad
    <2>7. unresolved' = Cardinality(Unknown')
      BY <1>1, <1>3, <1>4, <2>2, <2>4
    <2>8. QED  BY <1>1, <1>2, <2>2, <2>5, <2>6, <2>7
  <1>12. CASE preretire_load
    <2>1. PICK i : i = pnr + 1
      OBVIOUS
    <2>2. /\ i \in Insts /\ i <= added /\ IsLoad(i) /\ dinst[i].executing /\ pnr' = i
          /\ free' = [free EXCEPT !["LD"] = free["LD"] + 1]
          /\ UNCHANGED <<added, committed, lsq, unresolved>>
          /\ \A j \in Insts : dinst'[j].executing = dinst[j].executing
      BY <1>12, <2>1, LoadPreretires
    <2>3. \A j \in Insts : pnr' < j <=> pnr < j /\ j # i
      <3>1. pnr \in Int /\ pnr' = pnr + 1 /\ i = pnr + 1
        BY <1>3, <2>1, <2>2
      <3>2. \A j \in Insts : j \in Int
        BY <1>5
      <3>3. QED  BY <3>1, <3>2
    <2>4. HeldLoads' = HeldLoads \ {i} /\ i \in HeldLoads
      <3>1. pnr < i
        BY <1>3, <2>1
      <3>2. QED  BY <1>5, <2>2, <2>3, <3>1 DEF HeldLoads, Loads, IsLoad
    <2>5. HeldStores' = HeldStores
      BY <1>5, <2>2, <2>3 DEF HeldStores, Stores, IsStore
    <2>6. Unknown' = Unknown
      BY <1>3, <2>2 DEF Unknown
    <2>7. /\ free'["LD"] = free["LD"] + 1 /\ free'["ST"] = free["ST"]
          /\ free'["LSQ"] = free["LSQ"]
      BY <1>3, <2>2
    <2>8. free'["LD"] = ldq_size - Cardinality(HeldLoads')
      <3>1. /\ Cardinality(HeldLoads \ {i}) = Cardinality(HeldLoads) - 1
            /\ Cardinality(HeldLoads) \in Int
        BY <1>3, <1>4, <2>4
      <3>2. QED  BY <1>1, <1>3, <2>4, <2>7, <3>1
    <2>9. QED  BY <1>1, <1>2, <2>2, <2>5, <2>6, <2>7, <2>8
  <1>13. CASE preretire_store
    <2>1. PICK i : i = pnr + 1
      OBVIOUS
    <2>2. /\ i \in Insts /\ i <= added /\ IsStore(i) /\ pnr' = i
          /\ free' = [free EXCEPT !["ST"] = free["ST"] + 1]
          /\ UNCHANGED <<added, committed, lsq, unresolved>>
          /\ \A j \in Insts : dinst'[j].executing = dinst[j].executing
      BY <1>13, <2>1, StorePreretires
    <2>3. \A j \in Insts : pnr' < j <=> pnr < j /\ j # i
      <3>1. pnr \in Int /\ pnr' = pnr + 1 /\ i = pnr + 1
        BY <1>3, <2>1, <2>2
      <3>2. \A j \in Insts : j \in Int
        BY <1>5
      <3>3. QED  BY <3>1, <3>2
    <2>4. HeldStores' = HeldStores \ {i} /\ i \in HeldStores
      <3>1. pnr < i
        BY <1>3, <2>1
      <3>2. QED  BY <1>5, <2>2, <2>3, <3>1 DEF HeldStores, Stores, IsStore
    <2>5. HeldLoads' = HeldLoads
      BY <1>5, <2>2, <2>3 DEF HeldLoads, Loads, IsLoad
    <2>6. Unknown' = Unknown
      BY <1>3, <2>2 DEF Unknown
    <2>7. /\ free'["ST"] = free["ST"] + 1 /\ free'["LD"] = free["LD"]
          /\ free'["LSQ"] = free["LSQ"]
      BY <1>3, <2>2
    <2>8. free'["ST"] = stq_size - Cardinality(HeldStores')
      <3>1. /\ Cardinality(HeldStores \ {i}) = Cardinality(HeldStores) - 1
            /\ Cardinality(HeldStores) \in Int
        BY <1>3, <1>4, <2>4
      <3>2. QED  BY <1>1, <1>3, <2>4, <2>7, <3>1
    <2>9. QED  BY <1>1, <1>2, <2>2, <2>5, <2>6, <2>7, <2>8
  <1>14. CASE retire
    <2>1. PICK i : i = committed + 1
      OBVIOUS
    <2>2. /\ i \in Insts /\ i <= pnr /\ committed' = i /\ lsq' = lsq \ {i}
          /\ free' = [free EXCEPT !["LSQ"] = free["LSQ"] + 1]
          /\ UNCHANGED <<added, pnr, unresolved>> /\ dinst[i].executing
          /\ \A j \in Insts : dinst'[j].executing = dinst[j].executing
      BY <1>14, <2>1, Retires
    <2>3. HeldLoads' = HeldLoads
      BY <2>2 DEF HeldLoads, Loads, IsLoad
    <2>4. HeldStores' = HeldStores
      BY <2>2 DEF HeldStores, Stores, IsStore
    <2>5. Unknown' = Unknown
      BY <1>3, <2>2 DEF Unknown
    <2>6. i \in lsq /\ lsq' = committed' + 1 .. added'
      BY <1>1, <1>3, <1>5, <2>1, <2>2
    <2>7. /\ free'["LSQ"] = free["LSQ"] + 1 /\ free'["LD"] = free["LD"]
          /\ free'["ST"] = free["ST"]
      BY <1>3, <2>2
    <2>8. free'["LSQ"] = lsq_size - Cardinality(lsq')
      <3>1. Cardinality(lsq \ {i}) = Cardinality(lsq) - 1 /\ Cardinality(lsq) \in Int
        BY <1>3, <1>4, <2>6
      <3>2. QED  BY <1>1, <1>3, <2>2, <2>7, <3>1
    <2>9. QED  BY <1>1, <1>2, <2>2, <2>3, <2>4, <2>5, <2>6, <2>7, <2>8
  <1>15. QED
    BY <1>7, <1>8, <1>9, <1>10, <1>11, <1>12, <1>13, <1>14 DEF Next

----------------------------------------------------------------------------
(* The unit implements the store buffer's specification *)

\* The instructions that have called add_st, or been refused by it.
Entered == {i \in Insts : IF IsLoad(i) THEN dinst[i].executed ELSE i <= pnr}

\* Every write in flight was sent for another instruction.
WritesBounded == \A l \in Lines : writes[l] <= Cardinality(Entered)

\* Every step keeps the buffer free of prefetches and its writes bounded.
LEMMA BufferStep ==
  ASSUME TypeOK, LifeInv, NoPrefetchLines, WritesBounded, [Next]_vars
  PROVE  NoPrefetchLines' /\ WritesBounded'
  <1>1. TypeOK'
    BY LifeStep
  <1>2. /\ \A l \in Lines : writes[l] \in Nat /\ writes'[l] \in Nat
        /\ Entered \in SUBSET Insts /\ Entered' \in SUBSET Insts
        /\ Cardinality(Entered) \in Int /\ Cardinality(Entered') \in Int
        /\ IsFiniteSet(Entered')
    <2>1. \A l \in Lines : writes[l] \in Nat /\ writes'[l] \in Nat
      BY <1>1 DEF TypeOK
    <2>2. Entered \in SUBSET Insts /\ Entered' \in SUBSET Insts
      BY DEF Entered
    <2>3. QED  BY <2>1, <2>2, CountOne
  <1>3. ASSUME \A l \in Lines : writes'[l] <= writes[l], Entered \subseteq Entered'
        PROVE  WritesBounded'
    <2>1. Cardinality(Entered) <= Cardinality(Entered')
      BY <1>2, <1>3, FS_Subset
    <2>2. QED  BY <1>2, <1>3, <2>1 DEF WritesBounded
  <1>4. ASSUME NEW i, i \notin Entered, Entered' = Entered \cup {i},
               \A l \in Lines : writes'[l] <= writes[l] + 1
        PROVE  WritesBounded'
    <2>1. Cardinality(Entered') = Cardinality(Entered) + 1
      BY <1>2, <1>4, CountOne
    <2>2. QED  BY <1>2, <1>4, <2>1 DEF WritesBounded
  <1>5. ASSUME UNCHANGED <<scb, writes, pnr>>,
               \A i \in Insts : IsLoad(i) => dinst'[i].executed = dinst[i].executed
        PROVE  NoPrefetchLines' /\ WritesBounded'
    <2>1. Entered' = Entered
      BY <1>5 DEF Entered, IsLoad
    <2>2. \A l \in Lines : writes'[l] <= writes[l]
      BY <1>2, <1>5
    <2>3. WritesBounded'
      BY <1>3, <2>1, <2>2
    <2>4. QED  BY <1>5, <2>3 DEF NoPrefetchLines
  <1>6. CASE add_inst \/ UNCHANGED vars
    <2>1. UNCHANGED <<dinst, scb, writes, pnr>>
      BY <1>6 DEF add_inst, coreVars, sbVars, vars
    <2>2. QED  BY <1>5, <2>1
  <1>7. ASSUME NEW l \in Lines, ownership_done(l)
        PROVE  NoPrefetchLines' /\ WritesBounded'
    <2>1. UNCHANGED <<dinst, pnr>> /\ NoPrefetchLines' /\ \A k \in Lines : writes'[k] <= writes[k]
      BY <1>7, OwnershipDone DEF coreVars
    <2>2. Entered' = Entered
      BY <2>1 DEF Entered, IsLoad
    <2>3. QED  BY <1>3, <2>1, <2>2
  <1>8. ASSUME NEW i \in Insts, do_load_execution(i) \/ cacheDispatched(i)
        PROVE  NoPrefetchLines' /\ WritesBounded'
    <2>1. UNCHANGED <<scb, writes, pnr>>
      BY <1>8 DEF do_load_execution, cacheDispatched, sbVars
    <2>2. \A j \in Insts : dinst'[j].executed = dinst[j].executed
      BY <1>8, LoadExecutes, RequestDispatched
    <2>3. QED  BY <1>5, <2>1, <2>2
  <1>9. ASSUME NEW i \in Insts, executing_store(i) \/ executed_store(i)
        PROVE  NoPrefetchLines' /\ WritesBounded'
    <2>1. /\ IsStore(i) /\ UNCHANGED <<scb, writes, pnr>>
          /\ \A j \in Insts : j # i => dinst'[j] = dinst[j]
      BY <1>9, StoreExecutes DEF sbVars
    <2>2. QED  BY <1>5, <2>1, ProgramTyped
  <1>10. ASSUME NEW i \in Insts, performed_spec(i)
         PROVE  NoPrefetchLines' /\ WritesBounded'
    <2>1. /\ IsLoad(i) /\ ~dinst[i].executed /\ dinst'[i].executed /\ pnr' = pnr
          /\ \A j \in Insts : j # i => dinst'[j] = dinst[j]
          /\ SB!add_st(LineOf(i), WordOf(i)) \/ UNCHANGED <<scb, writes>>
      BY <1>10, DataArrives
    <2>2. i \notin Entered /\ Entered' = Entered \cup {i}
      BY <2>1 DEF Entered, IsLoad
    <2>3. LineOf(i) \in Lines /\ WordOf(i) \in Words
      BY ProgramTyped
    <2>4. NoPrefetchLines' /\ \A l \in Lines : writes'[l] <= writes[l] + 1
      <3>1. CASE SB!add_st(LineOf(i), WordOf(i))
        BY <2>3, <3>1, AddStDoes
      <3>2. CASE UNCHANGED <<scb, writes>>
        BY <1>2, <3>2 DEF NoPrefetchLines
      <3>3. QED  BY <2>1, <3>1, <3>2
    <2>5. QED  BY <1>4, <2>2, <2>4
  <1>11. ASSUME NEW i \in Insts, performed_safe_write(i)
         PROVE  NoPrefetchLines' /\ WritesBounded'
    <2>1. /\ UNCHANGED <<pnr, writes>> /\ dinst'[i].executed = dinst[i].executed
          /\ scb' = IF dinst[i].present_in_scb THEN SB!Erase(scb, {LineOf(i)}) ELSE scb
          /\ \A j \in Insts : j # i => dinst'[j] = dinst[j]
      BY <1>11, WriteReturns
    <2>2. NoPrefetchLines'
      BY <2>1, EraseDoes DEF NoPrefetchLines
    <2>3. Entered' = Entered
      BY <2>1 DEF Entered, IsLoad
    <2>4. \A l \in Lines : writes'[l] <= writes[l]
      BY <1>2, <2>1
    <2>5. QED  BY <1>3, <2>2, <2>3, <2>4
  <1>12. CASE preretire_load
    <2>1. PICK i : i = pnr + 1
      OBVIOUS
    <2>2. /\ i \in Insts /\ i <= added /\ IsLoad(i) /\ pnr' = i /\ writes' = writes
          /\ scb' = IF dinst[i].present_in_scb THEN SB!Erase(scb, {LineOf(i)}) ELSE scb
          /\ \A j \in Insts : dinst'[j].executed = dinst[j].executed
      BY <1>12, <2>1, LoadPreretires
    <2>3. NoPrefetchLines'
      BY <2>2, EraseDoes DEF NoPrefetchLines
    <2>4. \A j \in Insts : j # i => (j <= pnr' <=> j <= pnr)
      BY <2>1, <2>2, PnrMoves
    <2>5. Entered' = Entered
      BY <2>2, <2>4 DEF Entered, IsLoad
    <2>6. \A l \in Lines : writes'[l] <= writes[l]
      BY <1>2, <2>2
    <2>7. QED  BY <1>3, <2>3, <2>5, <2>6
  <1>13. CASE preretire_store
    <2>1. PICK i : i = pnr + 1
      OBVIOUS
    <2>2. /\ i \in Insts /\ i <= added /\ IsStore(i) /\ ~IsLoad(i) /\ pnr' = i
          /\ SB!add_st(LineOf(i), WordOf(i))
          /\ \A j \in Insts : dinst'[j].executed = dinst[j].executed
      BY <1>13, <2>1, StorePreretires, ProgramTyped
    <2>3. ~(i <= pnr) /\ i <= pnr' /\ \A j \in Insts : j # i => (j <= pnr' <=> j <= pnr)
      BY <2>1, <2>2, PnrMoves DEF TypeOK
    <2>4. i \notin Entered /\ Entered' = Entered \cup {i}
      BY <2>2, <2>3 DEF Entered, IsLoad
    <2>5. NoPrefetchLines' /\ \A l \in Lines : writes'[l] <= writes[l] + 1
      BY <2>2, ProgramTyped, AddStDoes
    <2>6. QED  BY <1>4, <2>4, <2>5
  <1>14. CASE retire
    <2>1. UNCHANGED <<scb, writes, pnr>>
      BY <1>14 DEF retire, sbVars
    <2>2. QED  BY <1>5, <1>14, <2>1, Retires
  <1>15. QED
    BY <1>6, <1>7, <1>8, <1>9, <1>10, <1>11, <1>12, <1>13, <1>14 DEF Next

\* The loads the store buffer believes it holds.
Buffered == [l \in Lines |-> Cardinality(InBuffer(l))]

\* The counts follow present_in_scb.
LEMMA BufferedChanges ==
  ASSUME TypeOK, TypeOK'
  PROVE  /\ \A l \in Lines : Buffered[l] \in Nat /\ Buffered[l] <= N
         /\ (\A j \in Insts : dinst'[j].present_in_scb = dinst[j].present_in_scb) =>
              Buffered' = Buffered
         /\ \A i \in Loads :
              (\A j \in Insts : j # i => dinst'[j].present_in_scb = dinst[j].present_in_scb) =>
                /\ ~dinst[i].present_in_scb /\ dinst'[i].present_in_scb =>
                     Buffered' = [Buffered EXCEPT ![LineOf(i)] = Buffered[LineOf(i)] + 1]
                /\ dinst[i].present_in_scb /\ ~dinst'[i].present_in_scb =>
                     /\ Buffered[LineOf(i)] > 0
                     /\ Buffered' = [Buffered EXCEPT ![LineOf(i)] = Buffered[LineOf(i)] - 1]
  <1>1. \A l : InBuffer(l) \in SUBSET Insts /\ InBuffer(l)' \in SUBSET Insts
    BY DEF InBuffer, Loads
  <1>2. \A l \in Lines : /\ IsFiniteSet(InBuffer(l)) /\ Cardinality(InBuffer(l)) \in Nat
                         /\ Cardinality(InBuffer(l)) <= N
    BY <1>1, CountOne, FS_CardinalityType
  <1>3. ASSUME \A j \in Insts : dinst'[j].present_in_scb = dinst[j].present_in_scb
        PROVE  Buffered' = Buffered
    <2>1. \A l \in Lines : InBuffer(l)' = InBuffer(l)
      BY <1>3 DEF InBuffer, Loads, IsLoad, LineOf
    <2>2. QED  BY <2>1 DEF Buffered
  <1>4. ASSUME NEW i \in Loads,
               \A j \in Insts : j # i => dinst'[j].present_in_scb = dinst[j].present_in_scb
        PROVE  /\ ~dinst[i].present_in_scb /\ dinst'[i].present_in_scb =>
                     Buffered' = [Buffered EXCEPT ![LineOf(i)] = Buffered[LineOf(i)] + 1]
               /\ dinst[i].present_in_scb /\ ~dinst'[i].present_in_scb =>
                     /\ Buffered[LineOf(i)] > 0
                     /\ Buffered' = [Buffered EXCEPT ![LineOf(i)] = Buffered[LineOf(i)] - 1]
    <2>1. i \in Insts /\ LineOf(i) \in Lines
      BY ProgramTyped DEF Loads
    <2>2. \A l \in Lines : l # LineOf(i) => InBuffer(l)' = InBuffer(l)
      BY <1>4 DEF InBuffer, Loads, IsLoad, LineOf
    <2>3. ASSUME ~dinst[i].present_in_scb, dinst'[i].present_in_scb
          PROVE  Buffered' = [Buffered EXCEPT ![LineOf(i)] = Buffered[LineOf(i)] + 1]
      <3>1. InBuffer(LineOf(i))' = InBuffer(LineOf(i)) \cup {i} /\ i \notin InBuffer(LineOf(i))
        BY <1>4, <2>1, <2>3 DEF InBuffer, Loads, IsLoad, LineOf
      <3>2. Cardinality(InBuffer(LineOf(i))') = Cardinality(InBuffer(LineOf(i))) + 1
        BY <1>1, <3>1, CountOne
      <3>3. QED  BY <2>1, <2>2, <3>2 DEF Buffered, LineOf
    <2>4. ASSUME dinst[i].present_in_scb, ~dinst'[i].present_in_scb
          PROVE  /\ Buffered[LineOf(i)] > 0
                 /\ Buffered' = [Buffered EXCEPT ![LineOf(i)] = Buffered[LineOf(i)] - 1]
      <3>1. InBuffer(LineOf(i))' = InBuffer(LineOf(i)) \ {i} /\ i \in InBuffer(LineOf(i))
        BY <1>4, <2>1, <2>4 DEF InBuffer, Loads, IsLoad, LineOf
      <3>2. Cardinality(InBuffer(LineOf(i))') = Cardinality(InBuffer(LineOf(i))) - 1
        BY <1>1, <3>1, CountOne
      <3>3. Cardinality(InBuffer(LineOf(i))') \in Nat
        BY <1>1, CountOne, FS_CardinalityType
      <3>4. Cardinality(InBuffer(LineOf(i))) > 0
        BY <1>2, <2>1, <3>2, <3>3
      <3>5. QED  BY <2>1, <2>2, <3>2, <3>4 DEF Buffered, LineOf
    <2>5. QED  BY <2>3, <2>4
  <1>5. QED  BY <1>2, <1>3, <1>4 DEF Buffered

\* Every step of the unit is a step of the store buffer, or none of it.
LEMMA RefineStep ==
  ASSUME TypeOK, LifeInv, PresentInv, NoPrefetchLines, WritesBounded, [Next]_vars
  PROVE  [SB!Next]_(SB!vars)
  <1>1. TypeOK' /\ PresentInv'
    BY LifeStep, PresentStep
  <1>2. ASSUME UNCHANGED <<scb, writes, unperformed>>,
               \A j \in Insts : dinst'[j].present_in_scb = dinst[j].present_in_scb
        PROVE  UNCHANGED SB!vars
    <2>1. Buffered' = Buffered
      BY <1>1, <1>2, BufferedChanges
    <2>2. QED  BY <1>2, <2>1 DEF SB!vars, Buffered
  <1>3. /\ N \in Nat
        /\ \A l \in Lines : writes[l] < N + 1 /\ Buffered[l] < N + 1
    <2>1. N \in Nat
      BY ProgramTyped
    <2>2. Entered \in SUBSET Insts
      BY DEF Entered
    <2>3. Cardinality(Entered) \in Int /\ Cardinality(Entered) <= N
      BY <2>2, CountOne
    <2>4. \A l \in Lines : writes[l] \in Nat /\ writes[l] <= Cardinality(Entered)
      BY DEF TypeOK, WritesBounded
    <2>5. \A l \in Lines : Buffered[l] \in Nat /\ Buffered[l] <= N
      BY <1>1, BufferedChanges
    <2>6. QED  BY <2>1, <2>3, <2>4, <2>5
  <1>4. \A i \in Insts : LineOf(i) \in Lines /\ WordOf(i) \in Words
    BY ProgramTyped
  <1>5. CASE add_inst \/ UNCHANGED vars \/ retire
    <2>1. UNCHANGED <<scb, writes, unperformed>>
      BY <1>5 DEF add_inst, retire, coreVars, sbVars, vars
    <2>2. \A j \in Insts : dinst'[j].present_in_scb = dinst[j].present_in_scb
      <3>1. CASE add_inst \/ UNCHANGED vars
        BY <3>1 DEF add_inst, coreVars, vars
      <3>2. CASE retire
        BY <3>2, Retires
      <3>3. QED  BY <1>5, <3>1, <3>2
    <2>3. QED  BY <1>2, <2>1, <2>2
  <1>6. ASSUME NEW i \in Insts, do_load_execution(i) \/ cacheDispatched(i)
        PROVE  UNCHANGED SB!vars
    <2>1. UNCHANGED <<scb, writes, unperformed>>
      BY <1>6 DEF do_load_execution, cacheDispatched, sbVars
    <2>2. QED  BY <1>2, <1>6, <2>1, LoadExecutes, RequestDispatched
  <1>7. ASSUME NEW i \in Insts, executing_store(i) \/ executed_store(i)
        PROVE  UNCHANGED SB!vars
    <2>1. /\ UNCHANGED <<scb, writes, unperformed>>
          /\ dinst'[i].present_in_scb = dinst[i].present_in_scb
          /\ \A j \in Insts : j # i => dinst'[j] = dinst[j]
      BY <1>7, StoreExecutes DEF sbVars
    <2>2. QED  BY <1>2, <2>1
  <1>8. ASSUME NEW i \in Insts, performed_spec(i)
        PROVE  [SB!Next]_(SB!vars)
    <2>1. /\ IsLoad(i) /\ ~dinst[i].executed /\ unperformed' = unperformed
          /\ \A j \in Insts : j # i => dinst'[j] = dinst[j]
          /\ \/ /\ SB!can_accept_st(scb, LineOf(i))
                /\ SB!add_st(LineOf(i), WordOf(i)) /\ dinst'[i].present_in_scb
             \/ /\ UNCHANGED <<scb, writes>>
                /\ dinst'[i].present_in_scb = dinst[i].present_in_scb
      BY <1>8, DataArrives
    <2>2. CASE /\ SB!can_accept_st(scb, LineOf(i))
               /\ SB!add_st(LineOf(i), WordOf(i)) /\ dinst'[i].present_in_scb
      <3>1. ~dinst[i].present_in_scb /\ i \in Loads
        BY <2>1 DEF PresentInv, Loads
      <3>2. Buffered' = [Buffered EXCEPT ![LineOf(i)] = Buffered[LineOf(i)] + 1]
        BY <1>1, <2>1, <2>2, <3>1, BufferedChanges
      <3>3. writes[LineOf(i)] < N + 1 /\ Buffered[LineOf(i)] < N + 1
        BY <1>3, <1>4
      <3>4. SB!PerformedSpec(LineOf(i), WordOf(i))
        BY <2>1, <2>2, <3>2, <3>3 DEF SB!PerformedSpec, Buffered
      <3>5. SB!Next
        BY <1>4, <3>4 DEF SB!Next
      <3>6. QED  BY <3>5
    <2>3. CASE /\ UNCHANGED <<scb, writes>>
               /\ dinst'[i].present_in_scb = dinst[i].present_in_scb
      BY <1>2, <2>1, <2>3
    <2>4. QED  BY <2>1, <2>2, <2>3
  <1>9. ASSUME NEW i \in Insts, performed_safe_write(i)
        PROVE  UNCHANGED SB!vars
    <2>1. /\ i <= pnr /\ UNCHANGED <<writes, unperformed>> /\ ~dinst'[i].present_in_scb
          /\ scb' = IF dinst[i].present_in_scb THEN SB!Erase(scb, {LineOf(i)}) ELSE scb
          /\ \A j \in Insts : j # i => dinst'[j] = dinst[j]
      BY <1>9, WriteReturns
    <2>2. ~dinst[i].present_in_scb
      BY <2>1, ProgramTyped DEF PresentInv, TypeOK
    <2>3. dinst'[i].present_in_scb = dinst[i].present_in_scb
      <3>1. dinst[i].present_in_scb \in BOOLEAN /\ dinst'[i].present_in_scb \in BOOLEAN
        BY <1>1 DEF TypeOK, Dinst
      <3>2. QED  BY <2>1, <2>2, <3>1
    <2>4. QED  BY <1>2, <2>1, <2>2, <2>3
  <1>10. CASE preretire_load
    <2>1. PICK i : i = pnr + 1
      OBVIOUS
    <2>2. /\ i \in Insts /\ IsLoad(i) /\ UNCHANGED <<writes, unperformed>>
          /\ scb' = IF dinst[i].present_in_scb THEN SB!Erase(scb, {LineOf(i)}) ELSE scb
          /\ ~dinst'[i].present_in_scb
          /\ \A j \in Insts : j # i => dinst'[j] = dinst[j]
      BY <1>10, <2>1, LoadPreretires
    <2>3. i \in Loads /\ dinst[i].present_in_scb \in BOOLEAN
          /\ dinst'[i].present_in_scb \in BOOLEAN
      BY <1>1, <2>2 DEF TypeOK, Dinst, Loads
    <2>4. SB!Erase(scb', {}) = scb' /\ SB!Promoted(scb', LineOf(i)) = {}
      <3>1. NoPrefetchLines' /\ scb' \in [Lines -> SB!StoreBufferLine]
        BY <1>1, BufferStep DEF TypeOK
      <3>2. QED  BY <3>1 DEF SB!Erase, SB!Promoted, SB!Tracked, NoPrefetchLines
    <2>5. scb' = SB!Erase(scb', SB!Promoted(scb', LineOf(i)))
      BY <2>4
    <2>6. CASE dinst[i].present_in_scb
      <3>1. /\ Buffered[LineOf(i)] > 0
            /\ Buffered' = [Buffered EXCEPT ![LineOf(i)] = Buffered[LineOf(i)] - 1]
        BY <1>1, <2>2, <2>3, <2>6, BufferedChanges
      <3>2. scb' = SB!Erase(scb, {LineOf(i)})
        BY <2>2, <2>6
      <3>3. scb' = SB!Erase(SB!Erase(scb, {LineOf(i)}),
                            SB!Promoted(SB!Erase(scb, {LineOf(i)}), LineOf(i)))
        BY <2>5, <3>2
      <3>4. SB!Preretire(LineOf(i), TRUE)
        BY <2>2, <3>1, <3>3 DEF SB!Preretire, Buffered
      <3>5. SB!Next
        BY <1>4, <2>2, <3>4 DEF SB!Next
      <3>6. QED  BY <3>5
    <2>7. CASE ~dinst[i].present_in_scb
      <3>1. scb' = scb /\ dinst'[i].present_in_scb = dinst[i].present_in_scb
        BY <2>2, <2>3, <2>7
      <3>2. QED  BY <1>2, <2>2, <3>1
    <2>8. QED  BY <2>6, <2>7
  <1>11. CASE preretire_store
    <2>1. PICK i : i = pnr + 1
      OBVIOUS
    <2>2. /\ i \in Insts /\ SB!can_accept_st(scb, LineOf(i))
          /\ SB!add_st(LineOf(i), WordOf(i))
          /\ unperformed' = [unperformed EXCEPT ![LineOf(i)] =
                               unperformed[LineOf(i)] \cup {WordOf(i)}]
          /\ dinst'[i].present_in_scb = dinst[i].present_in_scb
          /\ \A j \in Insts : j # i => dinst'[j] = dinst[j]
      BY <1>11, <2>1, StorePreretires
    <2>3. Buffered' = Buffered
      BY <1>1, <2>2, BufferedChanges
    <2>4. writes[LineOf(i)] < N + 1
      BY <1>3, <1>4, <2>2
    <2>5. SB!Store(LineOf(i), WordOf(i))
      BY <2>2, <2>3, <2>4 DEF SB!Store, Buffered
    <2>6. SB!Next
      BY <1>4, <2>2, <2>5 DEF SB!Next
    <2>7. QED  BY <2>6
  <1>12. ASSUME NEW l \in Lines, ownership_done(l)
         PROVE  SB!Next
    BY <1>12 DEF ownership_done, SB!Next
  <1>13. QED
    BY <1>5, <1>6, <1>7, <1>8, <1>9, <1>10, <1>11, <1>12 DEF Next

----------------------------------------------------------------------------
(* The theorems *)

\* The whole inductive invariant, whatever a fresh slot holds in present_in_scb.
IInv == TypeOK /\ LifeInv /\ EntriesConserved /\ NoPrefetchLines /\ WritesBounded

\* An empty core, whose Dinsts have been set up and whose buffer is empty.
LEMMA InitInv ==
  ASSUME Init
  PROVE  IInv
  <1>1. PICK present \in [Insts -> UninitPresent] :
          dinst = [i \in Insts |-> setup(present[i])]
    BY DEF Init
  <1>2. \A i \in Insts : present[i] \in BOOLEAN
    BY <1>1, LoadStoreAssumption
  <1>3. \A i \in Insts : dinst[i] = setup(present[i]) /\ dinst[i] \in Dinst
    BY <1>1, <1>2 DEF setup, Dinst
  <1>4. /\ callbacks = [i \in Insts |-> {}] /\ added = 0 /\ pnr = 0 /\ committed = 0
        /\ lsq = {} /\ unresolved = 0
        /\ scb = [l \in Lines |-> SB!Absent] /\ writes = [l \in Lines |-> 0]
        /\ unperformed = [l \in Lines |-> {}]
    BY DEF Init
  <1>5. N \in Nat /\ {ldq_size, stq_size, lsq_size} \subseteq Nat
    BY LoadStoreAssumption
  <1>6. /\ free \in [{"LD", "ST", "LSQ"} -> Int]
        /\ free["LD"] = ldq_size /\ free["ST"] = stq_size /\ free["LSQ"] = lsq_size
    <2>1. free = [k \in {"LD", "ST", "LSQ"} |->
                    CASE k = "LD" -> ldq_size [] k = "ST" -> stq_size
                      [] k = "LSQ" -> lsq_size]
      BY DEF Init
    <2>2. QED  BY <1>5, <2>1
  <1>7. SB!Absent \in SB!StoreBufferLine /\ ~SB!Absent.prefetch_line
    BY DEF SB!Absent, SB!StoreBufferLine, SB!LineState
  <1>8. TypeOK
    <2>1. dinst \in [Insts -> Dinst]
      BY <1>1, <1>3
    <2>2. scb \in [Lines -> SB!StoreBufferLine]
      BY <1>4, <1>7
    <2>3. QED  BY <1>4, <1>5, <1>6, <2>1, <2>2 DEF TypeOK
  <1>9. LifeInv
    <2> SUFFICES ASSUME NEW i \in Insts PROVE Life(i)
      BY DEF LifeInv
    <2>1. i \in Nat /\ 1 <= i
      BY ProgramTyped
    <2>2. /\ callbacks[i] = {} /\ ~(i <= pnr) /\ ~(i <= committed) /\ pnr < i
          /\ ~Written(i)
      BY <1>4, <2>1 DEF Written
    <2>3. /\ ~dinst[i].executing /\ ~dinst[i].dispatched /\ ~dinst[i].executed
          /\ ~dinst[i].performed /\ ~dinst[i].retired /\ dinst[i].destroyed = 0
          /\ dinst[i].speculative /\ ~dinst[i].retired_spec
          /\ ~dinst[i].retired_safe_write /\ ~dinst[i].performed_spec
          /\ ~dinst[i].performed_safe_write
      <3>1. dinst[i] = setup(present[i])
        BY <1>3
      <3>2. QED  BY <3>1 DEF setup
    <2>4. StoreLife(i) /\ RequestLife(i) /\ AnswersLife(i)
      BY <2>2, <2>3 DEF StoreLife, RequestLife, AnswersLife
    <2>5. QED  BY <2>2, <2>3, <2>4 DEF Life
  <1>10. EntriesConserved
    <2>1. \A i \in Insts : ~(i <= added)
      BY <1>4, ProgramTyped
    <2>2. HeldLoads = {} /\ HeldStores = {} /\ Unknown = {}
      BY <1>4, <2>1 DEF HeldLoads, HeldStores, Unknown, Loads, Stores
    <2>3. Cardinality({}) = 0
      BY FS_EmptySet
    <2>4. lsq = committed + 1 .. added
      BY <1>4
    <2>5. QED  BY <1>4, <1>5, <1>6, <2>2, <2>3, <2>4, EntriesAre
  <1>11. NoPrefetchLines
    BY <1>4, <1>7 DEF NoPrefetchLines
  <1>12. WritesBounded
    <2>1. Entered \in SUBSET Insts
      BY DEF Entered
    <2>2. Cardinality(Entered) \in Nat
      BY <2>1, CountOne, FS_CardinalityType
    <2>3. QED  BY <1>4, <2>2 DEF WritesBounded
  <1>13. QED  BY <1>8, <1>9, <1>10, <1>11, <1>12 DEF IInv

\* The inductive invariant holds of every behaviour.
THEOREM Invariant == Spec => []IInv
  <1>1. Init => IInv
    BY InitInv
  <1>2. IInv /\ [Next]_vars => IInv'
    BY LifeStep, EntriesStep, BufferStep DEF IInv
  <1>3. QED  BY <1>1, <1>2, PTL DEF Spec

\* The flags, the callbacks, the ends of the queues and the store buffer have
\* their types: in particular the PNR never passes rename, nor commit the PNR.
THEOREM TypeCorrect == Spec => []TypeOK
  <1>1. IInv => TypeOK
    BY DEF IInv
  <1>2. QED  BY <1>1, Invariant, PTL

\* A Dinst is destroyed at most once and never while performed_spec,
\* performed_safe_write or cacheDispatched will still use it, whatever the
\* order of FULoad::retire and of the two answers, and whatever present_in_scb
\* held in the slot.
THEOREM DestroyedUnused == Spec => []NoUseAfterDestroy
  <1>1. IInv => NoUseAfterDestroy
    <2> SUFFICES ASSUME IInv, NEW i \in Insts
                 PROVE  dinst[i].destroyed <= 1 /\ (dinst[i].destroyed = 1 => callbacks[i] = {})
      BY DEF NoUseAfterDestroy
    <2>1. TypeOK /\ Life(i) /\ dinst[i].destroyed \in 0..1
      BY DestroyedOnce DEF IInv, LifeInv
    <2>2. ASSUME dinst[i].destroyed = 1 PROVE callbacks[i] = {}
      <3>1. CASE IsStore(i)
        BY <2>1, <3>1 DEF Life, StoreLife
      <3>2. CASE IsLoad(i)
        <4>1. RequestLife(i) /\ AnswersLife(i)
          BY <2>1, <3>2 DEF Life
        <4>2. dinst[i].executed /\ Written(i)
          BY <2>2, <4>1 DEF AnswersLife
        <4>3. callbacks[i] \subseteq Kinds
          BY <2>1 DEF TypeOK
        <4>4. QED  BY <4>1, <4>2, <4>3 DEF RequestLife, Written, Kinds
      <3>3. QED  BY <3>1, <3>2, ProgramTyped
    <2>3. QED  BY <2>1, <2>2
  <1>2. QED  BY <1>1, Invariant, PTL

\* No load or store is performed before it passed the PNR.
THEOREM PerformedSafely == Spec => []PerformedAfterPNR
  <1>1. IInv => PerformedAfterPNR
    BY ProgramTyped DEF IInv, LifeInv, Life, StoreLife, RequestLife, PerformedAfterPNR
  <1>2. QED  BY <1>1, Invariant, PTL

\* The entries of the load unit, the store unit and the load/store queue are
\* neither leaked nor given back twice, with early and with late allocation.
THEOREM EntriesBalance == Spec => []EntriesConserved
  <1>1. IInv => EntriesConserved
    BY DEF IInv
  <1>2. QED  BY <1>1, Invariant, PTL

----------------------------------------------------------------------------
(* What holds when the pool hands out fresh slots with present_in_scb clear *)

\* present_in_scb starts clear.
LEMMA InitPresent ==
  ASSUME UninitPresent = {FALSE}, Init
  PROVE  PresentInv
  <1>1. PICK present \in [Insts -> UninitPresent] :
          dinst = [i \in Insts |-> setup(present[i])]
    BY DEF Init
  <1>2. \A i \in Insts : ~dinst[i].present_in_scb
    BY <1>1 DEF setup
  <1>3. QED  BY <1>2 DEF PresentInv

\* Then a load is in the store buffer only between its data and its PNR.
THEOREM PresentCorrect ==
  ASSUME UninitPresent = {FALSE}
  PROVE  Spec => []PresentInv
  <1>1. Init => PresentInv
    BY InitPresent
  <1>2. IInv /\ PresentInv /\ [Next]_vars => PresentInv'
    BY PresentStep DEF IInv
  <1>3. QED  BY <1>1, <1>2, Invariant, PTL DEF Spec

\* A slot goes back to the pool executed, retired and with present_in_scb
\* clear, so that a slot used again is as good as a fresh one.
THEOREM SlotsClean ==
  ASSUME UninitPresent = {FALSE}
  PROVE  Spec => []SlotReturnsClean
  <1>1. IInv /\ PresentInv => SlotReturnsClean
    <2> SUFFICES ASSUME IInv, PresentInv, NEW i \in Insts, dinst[i].destroyed > 0
                 PROVE  dinst[i].executed /\ dinst[i].retired /\ ~dinst[i].present_in_scb
      BY DEF SlotReturnsClean
    <2>1. TypeOK /\ Life(i) /\ dinst[i].destroyed # 0
      BY DEF IInv, LifeInv
    <2>2. i <= committed => i <= pnr /\ ~(pnr < i)
      BY <2>1, ProgramTyped DEF TypeOK
    <2>3. dinst[i].retired
      BY <2>1, ProgramTyped DEF Life, StoreLife, AnswersLife
    <2>4. i <= pnr /\ ~(pnr < i)
      BY <2>1, <2>2, <2>3 DEF Life
    <2>5. dinst[i].executed
      BY <2>1, <2>3, <2>4, ProgramTyped DEF Life, StoreLife, AnswersLife
    <2>6. QED  BY <2>3, <2>4, <2>5 DEF PresentInv
  <1>2. QED  BY <1>1, Invariant, PresentCorrect, PTL

\* The empty unit has an empty store buffer.
LEMMA InitRefines ==
  ASSUME UninitPresent = {FALSE}, Init
  PROVE  SB!Init
  <1>1. PICK present \in [Insts -> UninitPresent] :
          dinst = [i \in Insts |-> setup(present[i])]
    BY DEF Init
  <1>2. \A i \in Insts : ~dinst[i].present_in_scb
    BY <1>1 DEF setup
  <1>3. \A l \in Lines : InBuffer(l) = {}
    BY <1>2 DEF InBuffer, Loads
  <1>4. \A l \in Lines : Cardinality(InBuffer(l)) = 0
    BY <1>3, FS_EmptySet
  <1>5. QED  BY <1>4 DEF Init, SB!Init

\* What the load and store units do to the store buffer is what StoreBuffer
\* allows, with `loads' the loads that have present_in_scb set.
THEOREM Refinement ==
  ASSUME UninitPresent = {FALSE}
  PROVE  Spec => ImplementsStoreBuffer
  <1>1. Init => SB!Init
    BY InitRefines
  <1>2. IInv /\ PresentInv /\ [Next]_vars => [SB!Next]_(SB!vars)
    BY RefineStep DEF IInv
  <1>3. QED
    BY <1>1, <1>2, Invariant, PresentCorrect, PTL DEF Spec, ImplementsStoreBuffer, SB!Spec

----------------------------------------------------------------------------
(* The theorems of StoreBuffer, carried over to the composed unit *)

\* StoreBufferProofs about the buffer this unit calls: the substitution of SB.
SBP == INSTANCE StoreBufferProofs WITH
        PrefetchLines <- {}, SpecLoadLines <- Lines, PrefetchHits <- FALSE,
        FlushTransients <- FALSE, UninitPrefetch <- {FALSE}, MaxCallbacks <- N + 1,
        prefetches <- [l \in Lines |-> 0], dropped <- {},
        loads <- [l \in Lines |-> Cardinality(InBuffer(l))]

\* The constants of the composed unit satisfy the buffer's assumption.
LEMMA BufferAssumption == SBP!StoreBufferAssumption!:
  <1>1. \A S : SBP!IsFiniteSet(S) <=> IsFiniteSet(S)
    BY DEF SBP!IsFiniteSet, IsFiniteSet
  <1>2. /\ N \in Nat /\ scb_size \in Nat \ {0}
        /\ IsFiniteSet(Lines) /\ NoLine \notin Lines
    BY LoadStoreAssumption
  <1>3. N + 1 \in Nat \ {0}
    BY <1>2
  <1>4. {FALSE} \in (SUBSET BOOLEAN) \ {{}} /\ FALSE \in BOOLEAN
    OBVIOUS
  <1>5. {} \subseteq Lines /\ Lines \subseteq Lines
    OBVIOUS
  <1>6. QED  BY <1>1, <1>2, <1>3, <1>4, <1>5

\* The two instances of StoreBuffer are one specification.
LEMMA SameBuffer ==
  /\ SB!Init => SBP!Init
  /\ [SB!Next]_(SB!vars) => [SBP!Next]_(SBP!vars)
  /\ SBP!CapacityBound => SB!CapacityBound
  /\ SBP!WaitingHasCallback => SB!WaitingHasCallback
  <1>1. \A S : SBP!Cardinality(S) = SB!Cardinality(S)
    BY DEF SBP!Cardinality, SB!Cardinality
  <1>2. \A s : SBP!Tracked(s) = SB!Tracked(s) /\ SBP!CleanLines(s) = SB!CleanLines(s)
    BY DEF SBP!Tracked, SB!Tracked, SBP!CleanLines, SB!CleanLines
  <1>3. \A s : SBP!StoreLines(s) = SB!StoreLines(s)
    BY <1>2 DEF SBP!StoreLines, SB!StoreLines
  <1>4. \A line : SBP!is_waiting_wb(line) <=> SB!is_waiting_wb(line)
    BY DEF SBP!is_waiting_wb, SB!is_waiting_wb
  <1>5. SBP!Absent = SB!Absent
    BY DEF SBP!Absent, SB!Absent
  <1>6. \A s, D : SBP!Erase(s, D) = SB!Erase(s, D)
    BY <1>5 DEF SBP!Erase, SB!Erase
  <1>7. \A s : SBP!MakeRoom(s) = SB!MakeRoom(s)
    BY <1>1, <1>2, <1>6 DEF SBP!MakeRoom, SB!MakeRoom, SBP!remove_clean, SB!remove_clean
  <1>8. /\ \A pf, ind, w : SBP!InitLine(pf, ind, w) = SB!InitLine(pf, ind, w)
        /\ \A line, w : SBP!ConvertAndAdd(line, w) = SB!ConvertAndAdd(line, w)
    BY DEF SBP!InitLine, SB!InitLine, SBP!ConvertAndAdd, SB!ConvertAndAdd
  <1>9. \A s, l : SBP!can_accept_st(s, l) <=> SB!can_accept_st(s, l)
    BY <1>1, <1>2 DEF SBP!can_accept_st, SB!can_accept_st
  <1>10. \A l, w : SB!add_st(l, w) => SBP!add_st(l, w)
    BY <1>2, <1>4, <1>7, <1>8 DEF SBP!add_st, SB!add_st
  <1>11. \A s, l : SBP!Promoted(s, l) = SB!Promoted(s, l)
    BY <1>2 DEF SBP!Promoted, SB!Promoted
  <1>12. /\ \A l, w : SB!Store(l, w) => SBP!Store(l, w)
         /\ \A l, w : SB!PerformedSpec(l, w) => SBP!PerformedSpec(l, w)
    BY <1>9, <1>10 DEF SB!Store, SBP!Store, SB!PerformedSpec, SBP!PerformedSpec
  <1>13. \A l, present : SB!Preretire(l, present) => SBP!Preretire(l, present)
    BY <1>6, <1>11 DEF SB!Preretire, SBP!Preretire
  <1>14. \A l : SB!prefetch_done(l) => SBP!prefetch_done(l)
    BY <1>2 DEF SB!prefetch_done, SBP!prefetch_done
  <1>15. \A l : SB!ownership_done(l) => SBP!ownership_done(l)
    BY <1>2 DEF SB!ownership_done, SBP!ownership_done
  <1>16. ~SB!flush_transient /\ \A l : ~SB!prefetch_dropped(l)
    BY DEF SB!flush_transient, SB!prefetch_dropped
  <1>17. SB!Next => SBP!Next
    BY <1>12, <1>13, <1>14, <1>15, <1>16 DEF SB!Next, SBP!Next
  <1>18. SB!Init => SBP!Init
    BY <1>5 DEF SB!Init, SBP!Init
  <1>19. UNCHANGED SB!vars => UNCHANGED SBP!vars
    BY DEF SB!vars, SBP!vars
  <1>20. SBP!CapacityBound => SB!CapacityBound
    BY <1>1, <1>3 DEF SBP!CapacityBound, SB!CapacityBound
  <1>21. SBP!WaitingHasCallback => SB!WaitingHasCallback
    BY <1>4 DEF SBP!WaitingHasCallback, SB!WaitingHasCallback
  <1>22. QED  BY <1>17, <1>18, <1>19, <1>20, <1>21

\* Driven by the load and store units, whatever the order of executions,
\* answers, preretirements and acknowledgements, the store buffer never holds
\* more than scb_size + 1 lines and every line it waits for has its write on
\* the way to the L1.
THEOREM ComposedBuffer ==
  ASSUME UninitPresent = {FALSE}
  PROVE  Spec => []SB!CapacityBound /\ []SB!WaitingHasCallback
  <1>1. Spec => SB!Init /\ [][SB!Next]_(SB!vars)
    BY Refinement DEF ImplementsStoreBuffer, SB!Spec
  <1>2. SB!Init /\ [][SB!Next]_(SB!vars) => SBP!Spec
    BY SameBuffer, PTL DEF SBP!Spec
  <1>3. SBP!Spec => []SBP!CapacityBound
    BY BufferAssumption, SBP!CapacityCorrect
  <1>4. SBP!Spec => []SBP!WaitingHasCallback
    BY BufferAssumption, SBP!CallbackCorrect
  <1>5. QED  BY <1>1, <1>2, <1>3, <1>4, SameBuffer, PTL
============================================================================
