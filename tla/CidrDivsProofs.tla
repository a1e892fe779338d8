--------------------------- MODULE CidrDivsProofs ---------------------------
(***************************************************************************)
(* What the operators of CidrDivs keep and what they drop, for a LAN of    *)
(* any size.  The divisions stay in order and apart from one another, so   *)
(* that at most one holds an address and the ones a range meets are        *)
(* neighbours: that is why dropping the first division found, or the slice *)
(* from the first to the last, drops every division in use.                *)
(***************************************************************************)
EXTENDS CidrDivs, TLAPS, WellFoundedInduction

(* The divisions left are in order and do not overlap.                      *)
Ordered(divs) ==
    /\ divs \in Seq(Block)
    /\ \A i \in 1..Len(divs) : divs[i].first <= divs[i].last
    /\ \A i, j \in 1..Len(divs) : i < j => divs[i].last < divs[j].first

(* Every division of r is one of divs.                                      *)
Among(r, divs) == \A k \in 1..Len(r) : \E i \in 1..Len(divs) : r[k] = divs[i]

(* A set of natural numbers has a smallest element.                         *)
LEMMA SmallestOf ==
  ASSUME NEW T \in SUBSET Nat, T # {}
  PROVE  \E m \in T : \A k \in T : m <= k
  <1> DEFINE R == OpToRel(<, Nat)
  <1>1. \E m \in T : \A k \in T : ~(<<k, m>> \in R)
    <2>1. IsWellFoundedOn(R, Nat)
      BY NatLessThanWellFounded
    <2> HIDE DEF R
    <2> QED BY <2>1, WFMin
  <1>2. R = {ss \in Nat \X Nat : ss[1] < ss[2]}
    BY DEF OpToRel
  <1>3. \A k, m \in Nat : <<k, m>> \in {ss \in Nat \X Nat : ss[1] < ss[2]} <=> k < m
    OBVIOUS
  <1> HIDE DEF R
  <1>4. \A k, m \in T : ~(<<k, m>> \in R) => m <= k
    BY <1>2, <1>3
  <1> QED BY <1>1, <1>4

(* A set of indices has a largest element.                                  *)
LEMMA LargestOf ==
  ASSUME NEW n \in Nat, NEW T \in SUBSET (1..n), T # {}
  PROVE  \E m \in T : \A k \in T : m >= k
  <1> DEFINE U == {n - k : k \in T}
  <1>0. \A k \in T : n - k \in Nat
    OBVIOUS
  <1>1. U \in SUBSET Nat /\ U # {}
    BY <1>0
  <1>2. PICK u \in U : \A w \in U : u <= w
    BY <1>1, SmallestOf
  <1>3. PICK m \in T : u = n - m
    BY <1>2
  <1>4. \A k \in T : n - m <= n - k
    BY <1>2, <1>3
  <1> QED BY <1>4

(* Cutting a slice out keeps the others, in order.                          *)
LEMMA CutKeeps ==
  ASSUME NEW divs, Ordered(divs), NEW from \in 1..Len(divs), NEW to \in 1..Len(divs),
         from <= to
  PROVE  LET r == Cut(divs, from, to)
         IN  /\ Ordered(r)
             /\ \A k \in 1..Len(r) :
                   \E i \in 1..Len(divs) : r[k] = divs[i] /\ (i < from \/ to < i)
  <1> DEFINE r == Cut(divs, from, to)
             n == Len(divs) - (to - from + 1)
             at(k) == IF k < from THEN k ELSE k + (to - from + 1)
  <1>1. n \in Nat /\ Len(divs) \in Nat
    BY DEF Ordered
  <1>2. \A k \in 1..n : at(k) \in 1..Len(divs) /\ (at(k) < from \/ to < at(k))
    BY <1>1
  <1>3. r = [k \in 1..n |-> divs[at(k)]]
    BY <1>1 DEF Cut
  <1>4. \A k \in 1..n : r[k] = divs[at(k)] /\ divs[at(k)] \in Block
    BY <1>2, <1>3 DEF Ordered
  <1>5. r \in Seq(Block) /\ Len(r) = n
    <2> HIDE DEF r, n, at
    <2>1. r \in [1..n -> Block]
      BY <1>3, <1>4
    <2> QED BY <1>1, <2>1
  <1>6. \A k, l \in 1..n : k < l => at(k) < at(l)
    BY <1>1
  <1> HIDE DEF r, n, at
  <1>7. Ordered(r)
    BY <1>2, <1>4, <1>5, <1>6 DEF Ordered
  <1>8. \A k \in 1..Len(r) : \E i \in 1..Len(divs) : r[k] = divs[i] /\ (i < from \/ to < i)
    BY <1>2, <1>4, <1>5
  <1> QED BY <1>7, <1>8 DEF r

-----------------------------------------------------------------------------

(* dropWithIP leaves no division that holds the address.                    *)
LEMMA DropAddressDrops ==
  ASSUME NEW divs, Ordered(divs), NEW a \in Int
  PROVE  LET r == dropWithIP(divs, a)
         IN  /\ Ordered(r) /\ Among(r, divs)
             /\ \A k \in 1..Len(r) : ~Contains(r[k], a)
  <1> DEFINE r == dropWithIP(divs, a)
             holds == {i \in 1..Len(divs) : Contains(divs[i], a)}
  <1>1. CASE holds = {}
    <2>1. r = divs
      BY <1>1 DEF dropWithIP
    <2> QED BY <1>1, <2>1 DEF Among
  <1>2. CASE holds # {}
    <2> DEFINE index == CHOOSE i \in holds : \A j \in holds : i <= j
    <2>1. Len(divs) \in Nat
      BY DEF Ordered
    <2>2. holds \in SUBSET Nat
      BY <2>1
    <2>3. index \in holds
      <3> HIDE DEF holds
      <3>1. \E i \in holds : \A j \in holds : i <= j
        BY <1>2, <2>2, SmallestOf
      <3> QED BY <3>1
    <2>4. r = Cut(divs, index, index)
      BY <1>2 DEF dropWithIP
    <2> HIDE DEF index, r
    <2>5. \A i \in 1..Len(divs) : Contains(divs[i], a) => i = index
      <3> SUFFICES ASSUME NEW i \in 1..Len(divs), Contains(divs[i], a), i # index
                   PROVE  FALSE
        OBVIOUS
      <3>1. index \in 1..Len(divs) /\ Contains(divs[index], a)
        BY <2>3
      <3>2. divs[i] \in Block /\ divs[index] \in Block
        BY <3>1 DEF Ordered
      <3>3. divs[i].last < divs[index].first \/ divs[index].last < divs[i].first
        BY <2>1, <3>1 DEF Ordered
      <3> QED BY <3>1, <3>2, <3>3 DEF Contains, Block
    <2>6. /\ Ordered(r)
          /\ \A k \in 1..Len(r) :
                \E i \in 1..Len(divs) : r[k] = divs[i] /\ (i < index \/ index < i)
      BY <2>1, <2>3, <2>4, CutKeeps
    <2>7. \A k \in 1..Len(r) : \E i \in 1..Len(divs) : r[k] = divs[i] /\ i # index
      BY <2>1, <2>3, <2>6
    <2>8. Among(r, divs) /\ \A k \in 1..Len(r) : ~Contains(r[k], a)
      BY <2>5, <2>7 DEF Among
    <2> QED BY <2>6, <2>8 DEF r
  <1> QED BY <1>1, <1>2

(* A division that isDevInRange does not find is beside the range.          *)
LEMMA OutOfRange ==
  ASSUME NEW from \in Int, NEW to \in Int, from <= to, NEW div \in Block,
         div.first <= div.last
  PROVE  ~isDevInRange(from, to, div) <=> (to < div.first \/ div.last < from)
  BY DEF isDevInRange, Contains, Block

(* dropWithIPRange leaves no division that meets the range.                 *)
LEMMA DropPoolDrops ==
  ASSUME NEW divs, Ordered(divs), NEW from \in Int, NEW to \in Int, from <= to
  PROVE  LET r == dropWithIPRange(divs, from, to)
         IN  /\ Ordered(r) /\ Among(r, divs)
             /\ \A k \in 1..Len(r) : to < r[k].first \/ r[k].last < from
  <1> DEFINE r == dropWithIPRange(divs, from, to)
             meets == {i \in 1..Len(divs) : isDevInRange(from, to, divs[i])}
  <1>0. Len(divs) \in Nat /\ \A i \in 1..Len(divs) : divs[i] \in Block
    BY DEF Ordered
  <1>1. CASE meets = {}
    <2>1. r = divs
      BY <1>1 DEF dropWithIPRange
    <2>2. \A i \in 1..Len(divs) : ~isDevInRange(from, to, divs[i])
      BY <1>1
    <2>3. \A i \in 1..Len(divs) : to < divs[i].first \/ divs[i].last < from
      BY <1>0, <2>2, OutOfRange DEF Ordered
    <2> QED BY <2>1, <2>3 DEF Among
  <1>2. CASE meets # {}
    <2> DEFINE divFrom == CHOOSE i \in meets : \A j \in meets : i <= j
               divTo   == CHOOSE i \in meets : \A j \in meets : i >= j
    <2>1. meets \in SUBSET (1..Len(divs)) /\ meets \in SUBSET Nat
      BY <1>0
    <2>2. r = Cut(divs, divFrom, divTo)
      BY <1>2 DEF dropWithIPRange
    <2>3. /\ divFrom \in meets /\ \A j \in meets : divFrom <= j
          /\ divTo \in meets /\ \A j \in meets : divTo >= j
      <3> HIDE DEF meets
      <3>1. \E i \in meets : \A j \in meets : i <= j
        BY <1>2, <2>1, SmallestOf
      <3>2. \E i \in meets : \A j \in meets : i >= j
        BY <1>0, <1>2, <2>1, LargestOf
      <3> QED BY <3>1, <3>2
    <2> HIDE DEF divFrom, divTo, r, meets
    <2>4. divFrom \in 1..Len(divs) /\ divTo \in 1..Len(divs) /\ divFrom <= divTo
      BY <2>1, <2>3
    <2>5. /\ Ordered(r)
          /\ \A k \in 1..Len(r) :
                \E i \in 1..Len(divs) : r[k] = divs[i] /\ (i < divFrom \/ divTo < i)
      BY <2>2, <2>4, CutKeeps
    <2>6. \A i \in 1..Len(divs) : i < divFrom \/ divTo < i => i \notin meets
      BY <1>0, <2>3, <2>4
    <2>7. \A i \in 1..Len(divs) : i \notin meets => to < divs[i].first \/ divs[i].last < from
      BY <1>0, OutOfRange DEF Ordered, meets
    <2>8. Among(r, divs) /\ \A k \in 1..Len(r) : to < r[k].first \/ r[k].last < from
      BY <2>5, <2>6, <2>7 DEF Among
    <2> QED BY <2>5, <2>8 DEF r
  <1> QED BY <1>1, <1>2

-----------------------------------------------------------------------------

(* Divisions of one size follow one another.                                *)
LEMMA DivisionsOrdered ==
  ASSUME NEW count \in Nat, NEW size \in Nat \ {0}
  PROVE  Ordered(Divisions(count, size)) /\ Len(Divisions(count, size)) = count
  <1> DEFINE d == Divisions(count, size)
  <1>1. \A i \in 1..count : (i - 1) * size \in Int /\ i * size - 1 \in Int
    OBVIOUS
  <1>2. \A i \in 1..count : d[i] \in Block
    BY <1>1 DEF Divisions, Block
  <1>3. d \in [1..count -> Block]
    BY <1>2 DEF Divisions
  <1>4. \A i \in 1..count : d[i].first = (i - 1) * size /\ d[i].last = i * size - 1
    BY DEF Divisions
  <1> HIDE DEF d
  <1>5. d \in Seq(Block) /\ Len(d) = count
    BY <1>3
  <1>6. \A i \in 1..count : (i - 1) * size <= i * size - 1
    OBVIOUS
  <1>7. ASSUME NEW i \in 1..count, NEW j \in 1..count, i < j
        PROVE  i * size - 1 < (j - 1) * size
    <2>1. PICK k \in Nat : j - 1 = i + k
      BY <1>7
    <2>2. (i + k) * size = i * size + k * size /\ k * size \in Nat
      OBVIOUS
    <2> QED BY <2>1, <2>2
  <1>8. Ordered(d)
    BY <1>4, <1>5, <1>6, <1>7 DEF Ordered
  <1> QED BY <1>5, <1>8 DEF d

(* newCidrDivs gives divisions of the LAN, in order.                        *)
THEOREM newCidrDivsOrdered ==
  ASSUME NEW bits \in 0..MaxBits, Divisible(bits)
  PROVE  /\ Ordered(newCidrDivs(bits))
         /\ Among(newCidrDivs(bits), divideNet(bits, MaskOffset(bits)))
         /\ Len(divideNet(bits, MaskOffset(bits))) = 2 ^ MaskOffset(bits)
  <1> DEFINE offset == MaskOffset(bits)
             divs   == divideNet(bits, offset)
             r      == dropHeadAndTail(divs)
             n      == Len(divs) - 2
  <1>1. offset \in 1..4 /\ bits - offset \in 0..MaxBits /\ offset \in 0..MaxBits
    BY DEF Divisible, MaskOffset, MinBits, MaxOffset, MaxBits
  <1>2. 2 ^ offset \in Nat \ {0} /\ 2 ^ (bits - offset) \in Nat \ {0}
    BY <1>1, PowersAssumption
  <1>3. Ordered(divs) /\ Len(divs) = 2 ^ offset
    BY <1>2, DivisionsOrdered DEF divideNet
  <1>4. CASE offset < 3
    BY <1>1, <1>3, <1>4 DEF newCidrDivs, Among
  <1>5. CASE offset >= 3
    <2>1. newCidrDivs(bits) = r
      BY <1>1, <1>5 DEF newCidrDivs
    <2>2. offset = 3 \/ offset = 4
      BY <1>1, <1>5
    <2>3. Len(divs) \in {8, 16}
      <3>1. 2 ^ 3 = 8 /\ 2 ^ 4 = 16
        OBVIOUS
      <3>2. 2 ^ offset = 2 ^ 3 \/ 2 ^ offset = 2 ^ 4
        BY <2>2, Zenon
      <3> QED BY <1>3, <3>1, <3>2, Zenon
    <2>4. n \in Nat /\ Len(divs) = n + 2
      BY <2>3
    <2>5. r = [i \in 1..n |-> divs[i + 1]]
      BY DEF dropHeadAndTail
    <2> HIDE DEF r, n, divs
    <2>6. \A i \in 1..n : i + 1 \in 1..Len(divs)
      BY <2>4
    <2>7. r \in [1..n -> Block]
      BY <1>3, <2>5, <2>6 DEF Ordered
    <2>8. r \in Seq(Block) /\ Len(r) = n
      BY <2>4, <2>7
    <2>9. Ordered(r)
      BY <1>3, <2>4, <2>5, <2>6, <2>8 DEF Ordered
    <2>10. Among(r, divs)
      BY <2>5, <2>6, <2>8 DEF Among
    <2> QED BY <1>3, <2>1, <2>9, <2>10 DEF divs
  <1> QED BY <1>1, <1>4, <1>5
=============================================================================
