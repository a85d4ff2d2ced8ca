-------------------------- MODULE PrefetcherProofs --------------------------
(***************************************************************************)
(* Proofs about Prefetcher, for every set of loads, every size of the      *)
(* table, every degree and distance and every bimodal_width the            *)
(* configuration accepts.                                                  *)
(***************************************************************************)
EXTENDS Prefetcher, TLAPS

----------------------------------------------------------------------------
(* Learning a stride *)

\* The entries of the table that BimodalLastEntry::update can reach: the
\* challenger is never trusted more than the first delta.
Levels == 0..max_conf

EntryOK(e) ==
  /\ e \in [addr : Int, delta : Int, delta2 : Int, conf : Levels, conf2 : Levels]
  /\ e.conf2 <= e.conf

\* The updates a challenger of confidence c survives at most.
Decay(c) ==
  IF c > max_conf \div 2 THEN max_conf \div 4 + 2
  ELSE IF c > max_conf \div 4 THEN max_conf \div 4 + 1
  ELSE IF c > 0 THEN c ELSE 1

\* The updates with delta d after which d is the entry's first delta, with the
\* highest confidence: d has it, or challenges it, or waits for its turn.
Left(e, d) ==
  IF e.delta = d THEN max_conf - e.conf
  ELSE IF e.delta2 = d THEN IF e.conf2 < max_conf THEN max_conf - e.conf2 ELSE 1
  ELSE max_conf + Decay(e.conf2)

\* A stride seen n times in a row has that many updates less to wait for: what
\* an int keeps of it is the delta the entry learns.
Learning(i) ==
  /\ EntryOK(table[i])
  /\ steady[i] \in [delta : 0..(2^AddrBits - 1), n : 0..LearnAfter]
  /\ \/ Left(table[i], toInt(steady[i].delta)) = 0
     \/ steady[i].n + Left(table[i], toInt(steady[i].delta)) <= LearnAfter

LearningInv ==
  /\ table = [i \in Entries |-> table[i]] /\ steady = [i \in Entries |-> steady[i]]
  /\ \A i \in Entries : Learning(i)

\* The confidences a configuration can have.
LEMMA MaxConf == max_conf \in Nat /\ max_conf >= 2 /\ LearnAfter = 2 * max_conf
  <1>1. Width \in 1..8
    BY PrefetcherAssumption
  <1>2. Width = 1 => max_conf = 2
    BY DEF max_conf
  <1>3. Width = 2 => max_conf = 4
    BY DEF max_conf
  <1>4. Width = 3 => max_conf = 8
    BY DEF max_conf
  <1>5. Width = 4 => max_conf = 16
    BY DEF max_conf
  <1>6. Width = 5 => max_conf = 32
    BY DEF max_conf
  <1>7. Width = 6 => max_conf = 64
    BY DEF max_conf
  <1>8. Width = 7 => max_conf = 128
    BY DEF max_conf
  <1>9. Width = 8 => max_conf = 256
    BY DEF max_conf
  <1>10. max_conf \in {2, 4, 8, 16, 32, 64, 128, 256}
    BY <1>1, <1>2, <1>3, <1>4, <1>5, <1>6, <1>7, <1>8, <1>9
  <1>11. QED  BY <1>10 DEF LearnAfter

\* A challenger that is not seen loses confidence.
LEMMA ChallengerDecays ==
  ASSUME NEW c \in Levels
  PROVE  /\ halved_or_less(c) \in Levels /\ Decay(c) \in Nat /\ Decay(c) >= 1
         /\ Decay(c) <= max_conf \div 4 + 2
         /\ c > 0 => halved_or_less(c) < c
         /\ c = 0 => halved_or_less(c) = 0
         /\ halved_or_less(c) # 0 => Decay(halved_or_less(c)) <= Decay(c) - 1
  BY MaxConf DEF Levels, halved_or_less, Decay

\* How much can be left at most.
LEMMA LeftBounded ==
  ASSUME NEW e, NEW d \in Int, EntryOK(e)
  PROVE  /\ Left(e, d) \in Nat /\ Left(e, d) <= max_conf + max_conf \div 4 + 2
         /\ Left(e, d) = 0 => e.delta = d /\ e.conf = max_conf
  <1>1. max_conf \in Nat /\ max_conf >= 2 /\ max_conf \div 4 \in Nat
    BY MaxConf
  <1>2. e.conf \in Levels /\ e.conf2 \in Levels
    BY DEF EntryOK
  <1>3. /\ Decay(e.conf2) \in Nat /\ Decay(e.conf2) >= 1
        /\ Decay(e.conf2) <= max_conf \div 4 + 2
    BY <1>2, ChallengerDecays
  <1> HIDE DEF max_conf
  <1>4. QED  BY <1>1, <1>2, <1>3 DEF Left, Levels

\* BimodalLastEntry::update brings the delta it sees one update closer.
LEMMA UpdateLearns ==
  ASSUME NEW e, NEW d \in Int, EntryOK(e)
  PROVE  /\ EntryOK(entry_update(e, d)) /\ entry_update(e, d).addr = e.addr
         /\ Left(e, d) = 0 => Left(entry_update(e, d), d) = 0
         /\ Left(e, d) # 0 => Left(entry_update(e, d), d) <= Left(e, d) - 1
  <1> DEFINE E == [addr : Int, delta : Int, delta2 : Int, conf : Levels, conf2 : Levels]
  <1>1. max_conf \in Nat /\ max_conf >= 2
    BY MaxConf
  <1>2. e \in E /\ e.conf2 <= e.conf
    BY DEF EntryOK
  <1>3. CASE e.delta = d /\ e.conf < max_conf
    <2>1. counted(e, d) = [e EXCEPT !.conf = e.conf + 1]
      BY <1>3 DEF counted
    <2> DEFINE f == [e EXCEPT !.conf = e.conf + 1]
    <2>2. /\ f \in E /\ f.conf = e.conf + 1 /\ f.conf2 = e.conf2 /\ f.delta = d
          /\ f.addr = e.addr
      BY <1>1, <1>2, <1>3 DEF Levels
    <2> HIDE DEF f
    <2>3. entry_update(e, d) = f
      BY <1>2, <2>1, <2>2 DEF entry_update, preferred, Levels, f
    <2>4. QED  BY <1>1, <1>2, <1>3, <2>2, <2>3 DEF EntryOK, Left, Levels
  <1>4. CASE e.delta = d /\ ~(e.conf < max_conf)
    <2> DEFINE h == halved_or_less(e.conf2)
               f == [e EXCEPT !.conf2 = h]
    <2>1. counted(e, d) = f
      BY <1>4 DEF counted
    <2>2. h \in Levels /\ h <= e.conf2
      <3>1. e.conf2 \in Levels
        BY <1>2
      <3>2. QED  BY <3>1, ChallengerDecays DEF Levels
    <2> HIDE DEF h
    <2>3. /\ f \in E /\ f.conf = e.conf /\ f.conf2 = h /\ f.delta = d
          /\ f.addr = e.addr
      BY <1>2, <1>4, <2>2
    <2> HIDE DEF f
    <2>4. f.conf2 <= f.conf
      BY <1>2, <2>2, <2>3 DEF Levels
    <2>5. entry_update(e, d) = f
      BY <2>1, <2>3, <2>4 DEF entry_update, preferred, Levels
    <2>6. QED  BY <1>1, <1>2, <1>4, <2>3, <2>4, <2>5 DEF EntryOK, Left, Levels
  <1>5. CASE e.delta # d
    <2> DEFINE c  == IF e.conf > 0 THEN e.conf - 1 ELSE 0
               c2 == IF e.delta2 # d THEN halved_or_less(e.conf2)
                     ELSE IF e.conf2 < max_conf THEN e.conf2 + 1 ELSE e.conf2
               d2 == IF c2 = 0 THEN d ELSE e.delta2
               f  == [e EXCEPT !.conf = c, !.conf2 = c2, !.delta2 = d2]
               g  == [f EXCEPT !.delta = f.delta2, !.conf = f.conf2,
                               !.delta2 = f.delta, !.conf2 = f.conf]
    <2>1. counted(e, d) = f
      BY <1>5 DEF counted
    <2>2. entry_update(e, d) = IF f.conf < f.conf2 THEN g ELSE f
      BY <2>1 DEF entry_update, preferred
    <2>3. e.conf \in Levels /\ e.conf2 \in Levels
      BY <1>2
    <2>4. c \in Levels /\ c2 \in Levels /\ d2 \in Int
      BY <1>1, <1>2, <2>3, ChallengerDecays DEF Levels
    <2>5. /\ f \in E /\ f.conf = c /\ f.conf2 = c2 /\ f.delta = e.delta /\ f.delta2 = d2
          /\ f.addr = e.addr
      <3> HIDE DEF c, c2, d2
      <3>1. QED  BY <1>2, <2>4
    <2>6. /\ g \in E /\ g.conf = c2 /\ g.conf2 = c /\ g.delta = d2 /\ g.delta2 = e.delta
          /\ g.addr = e.addr
      <3> HIDE DEF f, c, c2, d2
      <3>1. QED  BY <2>4, <2>5, <1>2
    <2> HIDE DEF f, g
    <2>7. EntryOK(entry_update(e, d)) /\ entry_update(e, d).addr = e.addr
      <3> HIDE DEF c, c2, d2
      <3>1. QED  BY <2>2, <2>4, <2>5, <2>6 DEF EntryOK, Levels
    <2>8. CASE e.delta2 = d
      <3>1. /\ d2 = d
            /\ Left(e, d) = IF e.conf2 < max_conf THEN max_conf - e.conf2 ELSE 1
        BY <1>5, <2>8 DEF Left
      <3>2. c2 = IF e.conf2 < max_conf THEN e.conf2 + 1 ELSE e.conf2
        BY <2>8
      <3> HIDE DEF c2, d2
      <3>3. CASE c < c2
        <4>1. Left(entry_update(e, d), d) = max_conf - c2
          <5> HIDE DEF c
          <5>1. QED  BY <2>2, <2>5, <2>6, <3>1, <3>3 DEF Left
        <4>2. QED  BY <1>1, <2>3, <2>7, <3>1, <3>2, <4>1 DEF Levels
      <3>4. CASE ~(c < c2)
        <4>1. c2 < max_conf /\ c2 = e.conf2 + 1 /\ e.conf2 + 1 < max_conf
          BY <1>1, <1>2, <2>3, <3>2, <3>4 DEF Levels
        <4>2. Left(entry_update(e, d), d) = max_conf - c2
          <5> HIDE DEF c
          <5>1. QED  BY <1>5, <2>2, <2>5, <3>1, <3>4, <4>1 DEF Left
        <4>3. QED  BY <1>1, <2>3, <2>7, <3>1, <4>1, <4>2 DEF Levels
      <3>5. QED  BY <2>7, <3>3, <3>4
    <2>9. CASE e.delta2 # d
      <3>1. c2 = halved_or_less(e.conf2)
        BY <2>9
      <3>2. /\ Left(e, d) = max_conf + Decay(e.conf2)
            /\ Decay(e.conf2) \in Nat /\ Decay(e.conf2) >= 1
        BY <1>5, <2>3, <2>9, ChallengerDecays DEF Left
      <3>3. ~(c < c2)
        BY <1>2, <2>3, <3>1, ChallengerDecays DEF Levels
      <3>4. entry_update(e, d) = f
        <4> HIDE DEF c, c2
        <4>1. QED  BY <2>2, <2>5, <3>3
      <3>5. CASE c2 = 0
        <4>1. d2 = d
          BY <3>5
        <4> HIDE DEF c, c2, d2
        <4>2. Left(entry_update(e, d), d) = max_conf
          BY <1>1, <1>5, <2>5, <3>4, <3>5, <4>1 DEF Left
        <4>3. QED  BY <1>1, <2>7, <3>2, <4>2
      <3>6. CASE c2 # 0
        <4>1. d2 = e.delta2 /\ Decay(c2) <= Decay(e.conf2) - 1 /\ Decay(c2) \in Nat
          BY <2>3, <2>4, <3>1, <3>6, ChallengerDecays
        <4> HIDE DEF c, c2, d2
        <4>2. Left(entry_update(e, d), d) = max_conf + Decay(c2)
          BY <1>5, <2>5, <2>9, <3>4, <4>1 DEF Left
        <4>3. QED  BY <1>1, <2>7, <3>2, <4>1, <4>2
      <3>7. QED  BY <3>5, <3>6
    <2>10. QED  BY <2>8, <2>9
  <1>6. QED  BY <1>3, <1>4, <1>5

\* Quotient and remainder of an integer are unique.
LEMMA ModUnique ==
  ASSUME NEW x \in Int, NEW p \in Nat \ {0}, NEW q \in Int, NEW r \in 0..(p - 1),
         x = p * q + r
  PROVE  x % p = r
  <1>1. x = p * (x \div p) + (x % p) /\ x % p \in 0..(p - 1) /\ x \div p \in Int
    OBVIOUS
  <1>2. PICK k \in Int : k = (x \div p) - q
    BY <1>1
  <1>3. p * k = r - (x % p)
    BY <1>1, <1>2
  <1>4. p * k < p /\ p * k > -p
    BY <1>1, <1>3
  <1>5. k < 1 /\ k > -1
    BY <1>4
  <1>6. QED  BY <1>1, <1>3, <1>5

\* A multiple of p changes nothing modulo p.
LEMMA ModShift ==
  ASSUME NEW x \in Int, NEW p \in Nat \ {0}, NEW k \in Int
  PROVE  (x + p * k) % p = x % p
  <1>1. x = p * (x \div p) + (x % p) /\ x % p \in 0..(p - 1) /\ x \div p \in Int
    OBVIOUS
  <1>2. PICK y \in Int : y = x + p * k
    OBVIOUS
  <1>3. PICK q \in Int : q = (x \div p) + k
    BY <1>1
  <1>4. y = p * q + (x % p)
    BY <1>1, <1>2, <1>3
  <1>5. y % p = x % p
    BY <1>1, <1>4, ModUnique
  <1>6. QED  BY <1>2, <1>5

\* Numbers that agree modulo p are a multiple of p apart.
LEMMA ModClose ==
  ASSUME NEW x \in Int, NEW y \in Int, NEW p \in Nat \ {0}, x % p = y % p
  PROVE  \E k \in Int : x = y + p * k
  <1>1. PICK u \in Int : u = x \div p
    OBVIOUS
  <1>2. PICK v \in Int : v = y \div p
    OBVIOUS
  <1>3. x = p * u + (x % p) /\ y = p * v + (y % p) /\ x % p \in Int
    BY <1>1, <1>2
  <1>4. PICK k \in Int : k = u - v
    OBVIOUS
  <1>5. p * k = p * u - p * v
    BY <1>4
  <1>6. x = y + p * k
    BY <1>3, <1>5
  <1>7. QED  BY <1>6

\* The two widths: the numbers of an int divide the addresses evenly.
LEMMA Widths ==
  /\ 2^AddrBits \in Nat \ {0} /\ 2^IntBits \in Nat \ {0}
  /\ \E q \in Nat : 2^AddrBits = 2^IntBits * q
  <1>1. PICK m \in Nat \ {0}, p \in Nat \ {0} : m = 2^AddrBits /\ p = 2^IntBits /\ m % p = 0
    BY PrefetcherAssumption
  <1>2. m = p * (m \div p) /\ m \div p \in Nat
    BY <1>1
  <1>3. QED  BY <1>1, <1>2

\* What an int keeps of a number, and that it keeps the same of the difference
\* of two addresses as Addr_t holds it.
LEMMA ToInt ==
  ASSUME NEW x \in Int
  PROVE  /\ toInt(x) \in Int
         /\ toInt(x) >= -(2^IntBits \div 2) /\ toInt(x) < 2^IntBits \div 2
         /\ \E k \in Int : x = toInt(x) + 2^IntBits * k
         /\ toInt(x % 2^AddrBits) = toInt(x)
         /\ x % 2^AddrBits \in 0..(2^AddrBits - 1)
  <1>1. PICK p \in Nat \ {0} : p = 2^IntBits
    BY Widths
  <1>2. PICK m \in Nat \ {0} : m = 2^AddrBits
    BY Widths
  <1>3. PICK q \in Nat : m = p * q
    BY <1>1, <1>2, Widths
  <1>4. \A y : toInt(y) = IF y % p < p \div 2 THEN y % p ELSE (y % p) - p
    BY <1>1, Zenon DEF toInt
  <1>5. x % p \in 0..(p - 1) /\ x = p * (x \div p) + (x % p) /\ x \div p \in Int
    OBVIOUS
  <1>6. x % m \in 0..(m - 1) /\ x = m * (x \div m) + (x % m) /\ x \div m \in Int
    OBVIOUS
  <1>7. p \div 2 \in Nat /\ p = 2 * (p \div 2)
    <2>1. p % 2 = 0
      BY <1>1, PrefetcherAssumption
    <2>2. QED  BY <2>1
  <1>8. /\ toInt(x) \in Int /\ toInt(x) >= -(p \div 2) /\ toInt(x) < p \div 2
    <2>1. PICK t : t = toInt(x)
      OBVIOUS
    <2>2. PICK r \in 0..(p - 1) : r = x % p
      BY <1>5
    <2>3. PICK h \in Nat : h = p \div 2
      BY <1>7
    <2>4. t = IF r < h THEN r ELSE r - p
      BY <1>4, <2>1, <2>2, <2>3
    <2>5. p = 2 * h
      BY <1>7, <2>3
    <2>6. t \in Int /\ t >= -h /\ t < h
      BY <2>4, <2>5
    <2>7. QED  BY <2>1, <2>3, <2>6
  <1>9. \E k \in Int : x = toInt(x) + p * k
    <2>1. CASE x % p < p \div 2
      <3>1. toInt(x) = x % p
        BY <1>4, <2>1
      <3>2. PICK k \in Int : k = x \div p
        BY <1>5
      <3>3. x = toInt(x) + p * k
        BY <1>5, <3>1, <3>2
      <3>4. QED  BY <3>3
    <2>2. CASE ~(x % p < p \div 2)
      <3>1. toInt(x) = (x % p) - p
        BY <1>4, <2>2
      <3>2. PICK k \in Int : k = (x \div p) + 1
        BY <1>5
      <3>3. p * k = p * (x \div p) + p
        BY <1>5, <3>2
      <3>4. x = toInt(x) + p * k
        BY <1>5, <3>1, <3>3
      <3>5. QED  BY <3>4
    <2>3. QED  BY <2>1, <2>2
  <1>10. (x % m) % p = x % p
    <2>1. PICK d \in Int : d = x % m
      BY <1>6
    <2>2. PICK z \in Int : z = x \div m
      BY <1>6
    <2>3. PICK k \in Int : k = q * z
      BY <1>3
    <2>4. m * z = p * k
      BY <1>3, <2>3
    <2>5. x = d + p * k
      BY <1>6, <2>1, <2>2, <2>4
    <2>6. (d + p * k) % p = d % p
      BY ModShift
    <2>7. QED  BY <2>1, <2>5, <2>6
  <1>11. toInt(x % m) = toInt(x)
    BY <1>4, <1>10, Zenon
  <1>12. QED  BY <1>1, <1>2, <1>6, <1>8, <1>9, <1>11

\* A number that is an int already is kept.
LEMMA ToIntTwice ==
  ASSUME NEW x \in Int
  PROVE  toInt(toInt(x) * 1) = toInt(x)
  <1>1. PICK t \in Int : t = toInt(x)
    BY ToInt
  <1>2. PICK p \in Nat \ {0} : p = 2^IntBits
    BY Widths
  <1>3. PICK k \in Int : x = t + p * k
    BY <1>1, <1>2, ToInt
  <1>4. x % p = t % p
    BY <1>3, ModShift
  <1>5. \A y : toInt(y) = IF y % p < p \div 2 THEN y % p ELSE (y % p) - p
    BY <1>2, Zenon DEF toInt
  <1>6. toInt(t) = toInt(x)
    BY <1>4, <1>5, Zenon
  <1>7. t * 1 = t
    OBVIOUS
  <1>8. QED  BY <1>1, <1>6, <1>7

\* A stride of the address space that fits an int, and no other, is reached
\* from every address by adding the int it is narrowed to.
LEMMA FitsReached ==
  ASSUME NEW a \in Int, NEW d \in 0..(2^AddrBits - 1)
  PROVE  fitsInt(d) <=> (a + toInt(d)) % 2^AddrBits = (a + d) % 2^AddrBits
  <1>1. PICK p \in Nat \ {0} : p = 2^IntBits
    BY Widths
  <1>2. PICK m \in Nat \ {0} : m = 2^AddrBits
    BY Widths
  <1>3. PICK q \in Nat : m = p * q
    BY <1>1, <1>2, Widths
  <1>4. PICK h \in Nat : h = p \div 2 /\ p = 2 * h
    <2>1. p % 2 = 0
      BY <1>1, PrefetcherAssumption
    <2>2. QED  BY <2>1
  <1>5. d \in Int /\ d >= 0 /\ d < m
    BY <1>2
  <1>6. PICK t \in Int : t = toInt(d) /\ t >= -h /\ t < h
    BY <1>1, <1>4, <1>5, ToInt
  <1>7. PICK k \in Int : d = t + p * k
    BY <1>1, <1>5, <1>6, ToInt
  <1>8. fitsInt(d) <=> d < h \/ d >= m - h
    BY <1>1, <1>2, <1>4 DEF fitsInt
  <1>9. CASE d < h
    <2>1. p * k < p /\ p * k > -p
      BY <1>4, <1>5, <1>6, <1>7, <1>9
    <2>2. k < 1 /\ k > -1
      BY <2>1
    <2>3. d = t
      BY <1>7, <2>2
    <2>4. QED  BY <1>2, <1>6, <1>8, <1>9, <2>3
  <1>10. CASE d >= m - h
    <2>1. PICK j \in Int : j = k - q
      BY <1>3
    <2>2. p * j = p * k - m
      BY <1>3, <2>1
    <2>3. p * j < p /\ p * j > -p
      BY <1>4, <1>5, <1>6, <1>7, <1>10, <2>2
    <2>4. j < 1 /\ j > -1
      BY <2>3
    <2>5. d = t + m
      BY <1>7, <2>2, <2>4
    <2>6. PICK x \in Int : x = a + t
      OBVIOUS
    <2>7. PICK one \in Int : one = 1
      OBVIOUS
    <2>8. (x + m * one) % m = x % m
      BY ModShift
    <2>9. a + d = x + m * one
      BY <2>5, <2>6, <2>7
    <2>10. QED  BY <1>2, <1>6, <1>8, <1>10, <2>6, <2>8, <2>9
  <1>11. CASE ~(d < h \/ d >= m - h)
    <2>1. ASSUME (a + t) % m = (a + d) % m PROVE FALSE
      <3>1. PICK y \in Int : y = a + t
        OBVIOUS
      <3>2. PICK z \in Int : z = a + d
        BY <1>5
      <3>3. PICK j \in Int : y = z + m * j
        <4>1. y % m = z % m
          BY <2>1, <3>1, <3>2
        <4>2. QED  BY <4>1, ModClose
      <3>4. PICK mj \in Int : mj = m * j /\ t = d + mj
        BY <1>5, <3>1, <3>2, <3>3
      <3>5. mj < 0 /\ mj > -m
        BY <1>4, <1>5, <1>6, <1>11, <3>4
      <3>6. j < 0
        BY <3>4, <3>5
      <3>7. j > -1
        BY <3>4, <3>5
      <3>8. QED  BY <3>6, <3>7
    <2>2. QED  BY <1>2, <1>6, <1>8, <1>11, <2>1
  <1>12. QED  BY <1>9, <1>10, <1>11

\* Stride_address_predictor::exe_update, on the entry of the load.
LEMMA ExeLearns ==
  ASSUME LearningInv, NEW pc \in PCs, NEW naddr \in Loads,
         table' = bimodal_update(pc, naddr), observe(pc, naddr)
  PROVE  LearningInv'
  <1>1. PICK i \in Entries : i = get_index[pc]
    BY DEF Entries
  <1>2. PICK s : s = (naddr - table[i].addr) % 2^AddrBits
    OBVIOUS
  <1>3. PICK d : d = toInt(naddr - table[i].addr)
    OBVIOUS
  <1>4. PICK e : e = [table[i] EXCEPT !.addr = naddr]
    OBVIOUS
  <1>5. PICK k : k = IF s = steady[i].delta THEN steady[i].n + 1 ELSE 1
    OBVIOUS
  <1>6. PICK m : m = IF k < LearnAfter THEN k ELSE LearnAfter
    OBVIOUS
  <1>7. /\ table' = [table EXCEPT ![i] = entry_update(e, d)]
        /\ steady' = [steady EXCEPT ![i] = [delta |-> s, n |-> m]]
    BY <1>1, <1>2, <1>3, <1>4, <1>5, <1>6 DEF bimodal_update, observe
  <1>8. /\ table = [j \in Entries |-> table[j]] /\ steady = [j \in Entries |-> steady[j]]
        /\ Learning(i)
    BY DEF LearningInv
  <1>9. /\ table' = [j \in Entries |-> table'[j]] /\ steady' = [j \in Entries |-> steady'[j]]
        /\ table'[i] = entry_update(e, d) /\ steady'[i] = [delta |-> s, n |-> m]
        /\ \A j \in Entries : j # i => table'[j] = table[j] /\ steady'[j] = steady[j]
    BY <1>7, <1>8
  <1>10. max_conf \in Nat /\ max_conf >= 2 /\ LearnAfter = 2 * max_conf
    BY MaxConf
  <1>11. EntryOK(table[i]) /\ steady[i].n \in 0..LearnAfter
    BY <1>8 DEF Learning
  <1>12. naddr \in Int
    BY PrefetcherAssumption
  <1>13. d \in Int /\ s \in 0..(2^AddrBits - 1) /\ d = toInt(s)
    <2>1. table[i].addr \in Int
      BY <1>11 DEF EntryOK
    <2>2. naddr - table[i].addr \in Int
      BY <1>12, <2>1
    <2>3. QED  BY <1>2, <1>3, <2>2, ToInt
  <1>14. EntryOK(e) /\ \A x : Left(e, x) = Left(table[i], x)
    <2>1. /\ e \in [addr : Int, delta : Int, delta2 : Int, conf : Levels, conf2 : Levels]
          /\ e.delta = table[i].delta /\ e.delta2 = table[i].delta2
          /\ e.conf = table[i].conf /\ e.conf2 = table[i].conf2
      BY <1>4, <1>11, <1>12 DEF EntryOK
    <2>2. QED  BY <1>11, <2>1 DEF EntryOK, Left
  <1>15. /\ EntryOK(entry_update(e, d))
         /\ Left(e, d) = 0 => Left(entry_update(e, d), d) = 0
         /\ Left(e, d) # 0 => Left(entry_update(e, d), d) <= Left(e, d) - 1
    BY <1>13, <1>14, UpdateLearns
  <1>16. /\ Left(e, d) \in Nat /\ Left(e, d) <= max_conf + max_conf \div 4 + 2
         /\ Left(entry_update(e, d), d) \in Nat
    BY <1>13, <1>14, <1>15, LeftBounded
  <1>17. m \in 0..LearnAfter /\ m <= k /\ k \in Nat
    BY <1>5, <1>6, <1>10, <1>11
  <1>18. Left(entry_update(e, d), d) = 0 \/ m + Left(entry_update(e, d), d) <= LearnAfter
    <2> DEFINE l == Left(e, d)
               n == Left(entry_update(e, d), d)
    <2>1. /\ l \in Nat /\ n \in Nat /\ l <= max_conf + max_conf \div 4 + 2
          /\ l = 0 => n = 0
          /\ l # 0 => n <= l - 1
      BY <1>15, <1>16
    <2>2. s = steady[i].delta => l = 0 \/ steady[i].n + l <= LearnAfter
      BY <1>8, <1>13, <1>14 DEF Learning
    <2> HIDE DEF l, n
    <2>3. CASE s = steady[i].delta
      BY <1>5, <1>10, <1>11, <1>17, <2>1, <2>2, <2>3 DEF l, n
    <2>4. CASE s # steady[i].delta
      <3>1. k = 1
        BY <1>5, <2>4
      <3>2. n = 0 \/ m + n <= LearnAfter
        BY <1>10, <1>17, <2>1, <3>1
      <3>3. QED  BY <3>2 DEF n
    <2>5. QED  BY <2>3, <2>4
  <1>19. Learning(i)'
    <2>1. /\ steady'[i] \in [delta : 0..(2^AddrBits - 1), n : 0..LearnAfter]
          /\ toInt(steady'[i].delta) = d /\ steady'[i].n = m
      BY <1>9, <1>13, <1>17
    <2>2. QED  BY <1>9, <1>15, <1>18, <2>1 DEF Learning, EntryOK, Left, Decay, Levels, max_conf, LearnAfter, toInt
  <1>20. \A j \in Entries : j # i => Learning(j)'
    BY <1>9 DEF LearningInv, Learning, EntryOK, Left, Decay, Levels, max_conf, LearnAfter, toInt
  <1>21. QED  BY <1>9, <1>19, <1>20 DEF LearningInv

----------------------------------------------------------------------------
(* Owning the chain *)

\* While a chain is pending its fields are those of the load that armed it
\* last, and what was handed out belongs to that load.
Belongs ==
  out # None =>
    /\ out.pc = armed.pc
    /\ out.to = (IF armed.spec THEN "scb" ELSE "DL1")
    /\ out.to = "scb" => out.load = armed.addr

ChainInv ==
  /\ pending_prefetch \in BOOLEAN
  /\ scheduled = (IF pending_prefetch THEN 1 ELSE 0)
  /\ pending_prefetch =>
       /\ pending_preq_pc = armed.pc
       /\ inducing_spec_load = armed.spec
       /\ inducing_spec_load_addr = armed.addr
  /\ Belongs

\* A load that executes leaves a chain alone or arms one of its own.
LEMMA ExeOwns ==
  ASSUME ChainInv, NEW pc \in PCs, NEW addr \in Loads, NEW spec \in BOOLEAN,
         exe(pc, addr, spec)
  PROVE  ChainInv'
  <1>1. out' = None /\ Belongs'
    BY DEF exe, Belongs
  <1>2. CASE UNCHANGED <<pending, inducing, scheduled, armed>>
    BY <1>1, <1>2 DEF ChainInv, pending, inducing
  <1>3. CASE /\ pending_preq_pc' = pc /\ inducing_spec_load' = spec
             /\ inducing_spec_load_addr' = addr /\ pending_prefetch' = TRUE
             /\ schedule_next /\ armed' = [pc |-> pc, addr |-> addr, spec |-> spec]
    <2>1. scheduled' = 1
      BY <1>3 DEF ChainInv, schedule_next
    <2>2. armed'.pc = pc /\ armed'.addr = addr /\ armed'.spec = spec
      BY <1>3
    <2>3. QED  BY <1>1, <1>3, <2>1, <2>2 DEF ChainInv
  <1>4. QED  BY <1>2, <1>3 DEF exe

\* The callback ends the chain, and may hand out a prefetch before.
LEMMA CallbackOwns ==
  ASSUME ChainInv, nextPrefetch_spent \/ nextPrefetch_lost \/ nextPrefetch
  PROVE  ChainInv'
  <1>1. pending_prefetch /\ UNCHANGED inducing /\ armed' = armed
    <2>1. CASE nextPrefetch_spent
      BY <2>1 DEF nextPrefetch_spent
    <2>2. CASE nextPrefetch_lost
      BY <2>2 DEF nextPrefetch_lost
    <2>3. CASE nextPrefetch
      BY <2>3 DEF nextPrefetch
    <2>4. QED  BY <2>1, <2>2, <2>3
  <1>2. /\ scheduled = 1 /\ pending_preq_pc = armed.pc
        /\ inducing_spec_load = armed.spec /\ inducing_spec_load_addr = armed.addr
    BY <1>1, Zenon DEF ChainInv
  <1>3. scheduled - 1 = 0
    BY <1>2
  <1>4. ASSUME pending_prefetch' = FALSE, scheduled' = scheduled - 1, Belongs'
        PROVE  ChainInv'
    BY <1>3, <1>4, Zenon DEF ChainInv
  <1>5. CASE nextPrefetch_spent \/ nextPrefetch_lost
    <2>1. out' = None /\ pending_prefetch' = FALSE /\ scheduled' = scheduled - 1
      <3>1. CASE nextPrefetch_spent
        BY <3>1 DEF nextPrefetch_spent, stop
      <3>2. CASE nextPrefetch_lost
        BY <3>2 DEF nextPrefetch_lost, stop
      <3>3. QED  BY <1>5, <3>1, <3>2
    <2>2. Belongs'
      BY <2>1, Zenon DEF Belongs, None
    <2>3. QED  BY <1>4, <2>1, <2>2
  <1>6. CASE nextPrefetch
    <2>1. PICK paddr : paddr = predict(table, pending_preq_pc, distance_ahead, TRUE)
      OBVIOUS
    <2>2. out' = handed(paddr) /\ stop /\ scheduled' = scheduled - 1
      BY <1>6, <2>1 DEF nextPrefetch
    <2>3. Belongs'
      <3>1. CASE inducing_spec_load
        <4>1. out' = [to |-> "scb", addr |-> paddr, pc |-> pending_preq_pc,
                      load |-> inducing_spec_load_addr]
          BY <2>2, <3>1, Zenon DEF handed
        <4>2. out'.pc = pending_preq_pc /\ out'.to = "scb" /\ out'.load = inducing_spec_load_addr
          BY <4>1
        <4>3. QED  BY <1>1, <1>2, <3>1, <4>2, Zenon DEF Belongs
      <3>2. CASE ~inducing_spec_load
        <4>1. out' = [to |-> "DL1", addr |-> paddr, pc |-> pending_preq_pc]
          BY <2>2, <3>2, Zenon DEF handed
        <4>2. out'.pc = pending_preq_pc /\ out'.to = "DL1" /\ out'.to # "scb"
          BY <4>1
        <4>3. QED  BY <1>1, <1>2, <3>2, <4>2, Zenon DEF Belongs
      <3>3. QED  BY <3>1, <3>2
    <2>4. pending_prefetch' = FALSE
      BY <2>2 DEF stop
    <2>5. QED  BY <1>4, <2>2, <2>3, <2>4
  <1>7. QED  BY <1>5, <1>6

----------------------------------------------------------------------------
(* The theorems *)

\* However loads and callbacks interleave, one nextPrefetchCB is queued while
\* a chain is pending and none otherwise, and every prefetch handed out belongs
\* to the load that armed the chain last.
THEOREM ChainCorrect == Spec => []ChainOwned
  <1>1. Init => ChainInv
    BY DEF Init, ChainInv, Belongs
  <1>2. ChainInv /\ [Next]_vars => ChainInv'
    <2> SUFFICES ASSUME ChainInv, [Next]_vars PROVE ChainInv'
      OBVIOUS
    <2>1. CASE UNCHANGED vars
      BY <2>1 DEF vars, pending, inducing, ChainInv, Belongs
    <2>2. QED  BY <2>1, ExeOwns, CallbackOwns DEF Next
  <1>3. ChainInv => ChainOwned
    BY DEF ChainInv, ChainOwned, Belongs
  <1>4. QED  BY <1>1, <1>2, <1>3, PTL DEF Spec

\* For every bimodal_width and every width of Addr_t and of int, a stride seen
\* 2 * max_conf times in a row is predicted with high confidence, whatever the
\* entry held before and whichever PCs share it, and the prediction is right
\* exactly when the stride fits an int.
THEOREM StrideCorrect == Spec => []StrideLearned
  <1>1. Init => LearningInv
    <2> SUFFICES ASSUME Init PROVE LearningInv
      OBVIOUS
    <2>1. table = [i \in Entries |-> Entry] /\ steady = [i \in Entries |-> [delta |-> 0, n |-> 0]]
      BY DEF Init
    <2>2. max_conf \in Nat /\ max_conf >= 2 /\ LearnAfter = 2 * max_conf
      BY MaxConf
    <2>3. /\ EntryOK(Entry) /\ Left(Entry, 0) = max_conf
          /\ [delta |-> 0, n |-> 0] \in [delta : 0..(2^AddrBits - 1), n : 0..LearnAfter]
      BY <2>2, Widths DEF Entry, EntryOK, Left, Levels
    <2>6. toInt(0) = 0
      <3>1. PICK p \in Nat \ {0} : p = 2^IntBits
        BY Widths
      <3>2. p % 2 = 0
        BY <3>1, PrefetcherAssumption
      <3>3. 0 % p = 0 /\ p \div 2 > 0
        BY <3>2
      <3>4. QED  BY <3>1, <3>3, Zenon DEF toInt
    <2>4. \A i \in Entries : Learning(i)
      <3> SUFFICES ASSUME NEW i \in Entries PROVE Learning(i)
        OBVIOUS
      <3>1. table[i] = Entry /\ steady[i] = [delta |-> 0, n |-> 0]
        BY <2>1
      <3>2. steady[i].delta = 0 /\ steady[i].n = 0
        BY <3>1
      <3> HIDE DEF Entry
      <3>3. QED  BY <2>2, <2>3, <2>6, <3>1, <3>2 DEF Learning
    <2>5. QED  BY <2>1, <2>4 DEF LearningInv
  <1>2. LearningInv /\ [Next]_vars => LearningInv'
    <2> SUFFICES ASSUME LearningInv, [Next]_vars PROVE LearningInv'
      OBVIOUS
    <2>1. ASSUME NEW pc \in PCs, NEW addr \in Loads, NEW spec \in BOOLEAN, exe(pc, addr, spec)
          PROVE  LearningInv'
      BY <2>1, ExeLearns DEF exe
    <2>2. CASE UNCHANGED <<table, steady>>
      BY <2>2 DEF LearningInv, Learning, EntryOK, Left, Decay, Levels, max_conf, LearnAfter, toInt
    <2>3. nextPrefetch_spent => UNCHANGED <<table, steady>>
      BY DEF nextPrefetch_spent
    <2>4. nextPrefetch_lost => UNCHANGED <<table, steady>>
      BY DEF nextPrefetch_lost
    <2>5. nextPrefetch => UNCHANGED <<table, steady>>
      BY DEF nextPrefetch
    <2>6. UNCHANGED vars => UNCHANGED <<table, steady>>
      BY DEF vars
    <2>7. QED  BY <2>1, <2>2, <2>3, <2>4, <2>5, <2>6 DEF Next
  <1>3. LearningInv => StrideLearned
    <2> SUFFICES ASSUME LearningInv, NEW pc \in PCs, NEW i, i = get_index[pc],
                        steady[i].n = LearnAfter
                 PROVE  /\ has_conf(table, pc) = 3
                        /\ fitsInt(steady[i].delta) <=>
                             predict(table, pc, 1, FALSE) =
                               (table[i].addr + steady[i].delta) % 2^AddrBits
      BY DEF StrideLearned
    <2>1. i \in Entries
      BY DEF Entries
    <2>2. Learning(i)
      BY <2>1 DEF LearningInv
    <2>3. max_conf \in Nat /\ max_conf >= 2 /\ LearnAfter = 2 * max_conf
      BY MaxConf
    <2>4. EntryOK(table[i]) /\ steady[i].delta \in 0..(2^AddrBits - 1)
      BY <2>2 DEF Learning
    <2>5. PICK d \in Int : d = steady[i].delta
      BY <2>4, Widths
    <2>6. toInt(d) \in Int
      BY <2>5, ToInt
    <2>7. Left(table[i], toInt(d)) = 0
      <3>1. Left(table[i], toInt(d)) \in Nat
        BY <2>4, <2>6, LeftBounded
      <3>2. QED  BY <2>2, <2>3, <2>5, <3>1 DEF Learning
    <2>8. table[i].delta = toInt(d) /\ table[i].conf = max_conf
      BY <2>4, <2>6, <2>7, LeftBounded
    <2>9. has_conf(table, pc) = 3
      BY <2>3, <2>8 DEF has_conf
    <2>10. toInt(toInt(d) * 1) = toInt(d)
      BY <2>6, ToIntTwice
    <2>11. predict(table, pc, 1, FALSE) = (table[i].addr + toInt(d)) % 2^AddrBits
      BY <2>8, <2>9, <2>10 DEF predict
    <2>12. table[i].addr \in Int
      BY <2>4 DEF EntryOK
    <2>13. QED  BY <2>4, <2>5, <2>9, <2>11, <2>12, FitsReached
  <1>4. QED  BY <1>1, <1>2, <1>3, PTL DEF Spec
=============================================================================
