----------------------------- MODULE PbcProofs -----------------------------
(***************************************************************************)
(* pbc: what the encodings of numbers keep, for every word of 64 bits      *)
(* (varint, fixed) and every width (zigzag); that the array, the string    *)
(* pool and the heap keep apart what is stored in them; that map_sp is a   *)
(* dictionary and the three hash tables answer for exactly what was put in *)
(* them, whatever collides; that the files of a descriptor set are         *)
(* registered in any order; and that the registry is closed.               *)
(***************************************************************************)
EXTENDS PbcWire, PbcStore, PbcMap, PbcRegistry, FiniteSetTheorems, WellFoundedInduction, TLAPS

-----------------------------------------------------------------------------
(* Zigzag *)

(* A word of w bits doubled and exclusive-or'ed with its sign begins with the *)
(* sign and goes on with the lower bits, inverted in a negative number.       *)
LEMMA ZigZagBits ==
  ASSUME NEW w \in Nat \ {0}, NEW v \in SUBSET (0 .. w - 1), NEW b \in Nat
  PROVE  b \in ZigZag(v, w) <=>
           /\ b < w
           /\ IF b = 0 THEN w - 1 \in v ELSE (b - 1 \in v) # (w - 1 \in v)
<1>1. b \in Twice(v, w) <=> b # 0 /\ b - 1 \in v /\ b < w
  BY DEF Twice
<1>2. b \in Sign(v, w) <=> w - 1 \in v /\ b < w
  BY DEF Sign
<1>3. b \in ZigZag(v, w) <=> (b \in Twice(v, w)) # (b \in Sign(v, w))
  BY DEF ZigZag, Xor
<1> QED BY <1>1, <1>2, <1>3

LEMMA ZigZagWord ==
  ASSUME NEW w \in Nat \ {0}, NEW v \in SUBSET (0 .. w - 1)
  PROVE  ZigZag(v, w) \in SUBSET (0 .. w - 1)
  BY DEF ZigZag, Xor, Twice, Sign

(* What _pbcV_zigzag and _pbcV_zigzag32 encode, _pbcV_dezigzag reads back    *)
(* (varint.c): every signed number, the smallest included, at any width.     *)
THEOREM ZigZagComesBack ==
  \A w \in Nat \ {0} : \A v \in SUBSET (0 .. w - 1) : DeZigZag(ZigZag(v, w), w) = v
<1> SUFFICES ASSUME NEW w \in Nat \ {0}, NEW v \in SUBSET (0 .. w - 1)
             PROVE  DeZigZag(ZigZag(v, w), w) = v
  OBVIOUS
<1> DEFINE z == ZigZag(v, w)
           half == {b - 1 : b \in z \ {0}}
           all == IF 0 \in z THEN 0 .. w - 1 ELSE {}
<1>1. z \in SUBSET (0 .. w - 1)
  BY ZigZagWord
<1>2. 0 \in z <=> w - 1 \in v
  BY ZigZagBits
<1>3. ASSUME NEW b \in 0 .. w - 1
      PROVE  b \in half <=> b + 1 < w /\ ((b \in v) # (w - 1 \in v))
  <2>1. b \in half <=> b + 1 \in z
    BY <1>1
  <2>2. b + 1 \in z <=> b + 1 < w /\ ((b \in v) # (w - 1 \in v))
    BY ZigZagBits
  <2> HIDE DEF half, z
  <2> QED BY <2>1, <2>2
<1>4. half \in SUBSET (0 .. w - 1) /\ all \in SUBSET (0 .. w - 1)
  BY <1>1
<1>5. ASSUME NEW b \in 0 .. w - 1
      PROVE  b \in Xor(half, all) <=> b \in v
  <2>1. b \in Xor(half, all) <=> (b \in half) # (b \in all)
    BY DEF Xor
  <2>2. b \in all <=> w - 1 \in v
    BY <1>2
  <2>3. b + 1 < w \/ b = w - 1
    OBVIOUS
  <2> HIDE DEF half, z, all
  <2>4. CASE b + 1 < w
    BY <1>3, <2>1, <2>2, <2>4
  <2>5. CASE b = w - 1
    <3>1. b \notin half
      BY <1>3, <2>5
    <3> QED BY <2>1, <2>2, <2>5, <3>1
  <2> QED BY <2>3, <2>4, <2>5
<1>6. Xor(half, all) \in SUBSET (0 .. w - 1)
  BY <1>4 DEF Xor
<1>7. Xor(half, all) = v
  BY <1>5, <1>6
<1> QED BY <1>7 DEF DeZigZag

-----------------------------------------------------------------------------
LEMMA ShiftedBack ==
  ASSUME NEW S \in SUBSET Nat, NEW c \in Nat
  PROVE  {b + c : b \in {x - c : x \in S}} = S
<1> DEFINE down == {x - c : x \in S}
<1>1. ASSUME NEW x \in S PROVE x \in {b + c : b \in down}
  <2>1. x - c \in down /\ (x - c) + c = x
    OBVIOUS
  <2> HIDE DEF down
  <2> QED BY <2>1
<1>2. ASSUME NEW b \in down PROVE b + c \in S
  OBVIOUS
<1> QED BY <1>1, <1>2

(* Varints *)

Septet(v, i) == Cut(v, 7 * (i - 1), 7)

LEMMA SmallestUpTo10 ==
  ASSUME NEW S \in SUBSET (1 .. 10), 10 \in S
  PROVE  \E n \in S : n = 1 \/ n - 1 \notin S
<1> SUFFICES ASSUME \A n \in S : n # 1 /\ n - 1 \in S PROVE FALSE
  OBVIOUS
<1>1. 9 \in S /\ 8 \in S /\ 7 \in S /\ 6 \in S
  OBVIOUS
<1>2. 5 \in S /\ 4 \in S /\ 3 \in S /\ 2 \in S
  BY <1>1
<1> QED BY <1>2

(* A 64-bit number has a length of at most ten groups of seven bits. *)
LEMMA VarintLenFits ==
  ASSUME NEW v \in Word64
  PROVE  /\ VarintLen(v) \in 1 .. 10
         /\ \A b \in v : b < 7 * VarintLen(v)
<1> DEFINE S == {n \in 1 .. 10 : \A b \in v : b < 7 * n}
<1>1. 10 \in S
  BY DEF Word64
<1>2. PICK n \in S : n = 1 \/ n - 1 \notin S
  BY <1>1, SmallestUpTo10
<1>3. /\ n \in 1 .. 10
      /\ \A b \in v : b < 7 * n
      /\ n = 1 \/ \E b \in v : b >= 7 * (n - 1)
  BY <1>2 DEF Word64
<1> QED BY <1>3 DEF VarintLen

(* What _pbcV_encode writes of a 64-bit number is read back by _pbcV_decode, *)
(* which also finds where it ends, whatever bytes come behind it: no number  *)
(* is taken for another and none swallows its neighbour (varint.c).          *)
THEOREM VarintComesBack ==
  \A v \in Word64 : \A bytes \in [1 .. 10 -> Byte] :
    (\A i \in 1 .. Len(Encode(v)) : bytes[i] = Encode(v)[i])
      => DecodeLen(bytes) = Len(Encode(v)) /\ Decode(bytes) = v
<1> SUFFICES ASSUME NEW v \in Word64, NEW bytes \in [1 .. 10 -> Byte],
                    \A i \in 1 .. Len(Encode(v)) : bytes[i] = Encode(v)[i]
             PROVE  DecodeLen(bytes) = Len(Encode(v)) /\ Decode(bytes) = v
  OBVIOUS
<1> DEFINE n == VarintLen(v)
<1>0. v \subseteq Nat
  BY DEF Word64
<1>1. n \in 1 .. 10 /\ \A b \in v : b < 7 * n
  BY VarintLenFits
<1> HIDE DEF n
<1>2. Encode(v) = [i \in 1 .. n |-> Septet(v, i) \cup (IF i < n THEN {7} ELSE {})]
  BY DEF Encode, n, Septet
<1>3. Len(Encode(v)) = n
  BY <1>1, <1>2
<1>4. \A i \in 1 .. n : bytes[i] = Septet(v, i) \cup (IF i < n THEN {7} ELSE {})
  BY <1>2, <1>3
<1>5. \A i \in 1 .. n : \A b \in Septet(v, i) : b \in 0 .. 6
  BY <1>1 DEF Septet, Cut, Word64
<1>6. 7 \notin bytes[n] /\ \A j \in 1 .. n - 1 : 7 \in bytes[j]
  BY <1>1, <1>4, <1>5
<1>7. DecodeLen(bytes) = n
  <2>1. \E i \in 1 .. 10 : 7 \notin bytes[i]
    BY <1>1, <1>6
  <2>2. \A i \in 1 .. 10 :
          (7 \notin bytes[i] /\ \A j \in 1 .. i - 1 : 7 \in bytes[j]) => i = n
    BY <1>1, <1>6
  <2>3. (CHOOSE i \in 1 .. 10 : 7 \notin bytes[i] /\ \A j \in 1 .. i - 1 : 7 \in bytes[j]) = n
    BY <1>1, <1>6, <2>2
  <2> QED BY <2>1, <2>3 DEF DecodeLen
<1>8. Decode(bytes) = (UNION {{b + 7 * (i - 1) : b \in bytes[i] \ {7}} : i \in 1 .. n}) \cap (0 .. 63)
  BY <1>6, <1>7 DEF Decode
<1>9. ASSUME NEW i \in 1 .. n
      PROVE  {b + 7 * (i - 1) : b \in bytes[i] \ {7}} = {b \in v : b \div 7 = i - 1}
  <2>1. bytes[i] \ {7} = Septet(v, i)
    BY <1>4, <1>5
  <2>2. Septet(v, i) = {b - 7 * (i - 1) : b \in {x \in v : 7 * (i - 1) <= x /\ x < 7 * (i - 1) + 7}}
    BY DEF Septet, Cut
  <2>3. {b + 7 * (i - 1) : b \in Septet(v, i)}
          = {x \in v : 7 * (i - 1) <= x /\ x < 7 * (i - 1) + 7}
    <3> DEFINE mine == {x \in v : 7 * (i - 1) <= x /\ x < 7 * (i - 1) + 7}
    <3>1. mine \in SUBSET Nat
      BY <1>0, Zenon
    <3>2. 7 * (i - 1) \in Nat
      BY <1>1
    <3>3. Septet(v, i) = {x - 7 * (i - 1) : x \in mine}
      BY <2>2
    <3> HIDE DEF mine
    <3>4. {b + 7 * (i - 1) : b \in Septet(v, i)} = mine
      BY <3>1, <3>2, <3>3, ShiftedBack
    <3> QED BY <3>4 DEF mine
  <2>4. \A b \in v : b \div 7 = i - 1 <=> 7 * (i - 1) <= b /\ b < 7 * (i - 1) + 7
    BY <1>1 DEF Word64
  <2> QED BY <2>1, <2>3, <2>4
<1>10. \A b \in v : b \div 7 + 1 \in 1 .. n /\ b \in 0 .. 63
  BY <1>1 DEF Word64
<1>11. UNION {{b + 7 * (i - 1) : b \in bytes[i] \ {7}} : i \in 1 .. n} = v
  <2> DEFINE Part(i) == {b + 7 * (i - 1) : b \in bytes[i] \ {7}}
  <2>1. \A i \in 1 .. n : Part(i) = {b \in v : b \div 7 = i - 1}
    BY <1>9
  <2> HIDE DEF Part
  <2>2. \A i \in 1 .. n : Part(i) \subseteq v
    BY <2>1
  <2>3. \A b \in v : b \in Part(b \div 7 + 1)
    <3> TAKE b \in v
    <3>1. b \div 7 + 1 \in 1 .. n
      BY <1>10
    <3>2. b \div 7 = (b \div 7 + 1) - 1
      BY <1>0
    <3> QED BY <2>1, <3>1, <3>2
  <2>4. UNION {Part(i) : i \in 1 .. n} = v
    BY <2>2, <2>3, <1>10
  <2> QED BY <2>4 DEF Part
<1>12. Decode(bytes) = v \cap (0 .. 63)
  BY <1>8, <1>11, Zenon
<1>13. v \cap (0 .. 63) = v
  BY <1>10
<1> QED BY <1>3, <1>7, <1>12, <1>13

-----------------------------------------------------------------------------
(* What is written as a fixed number of n bytes is read back from where it   *)
(* lies in a buffer (wmessage.c, context.c): least byte first, every bit of  *)
(* it and none of its neighbours'.                                           *)
THEOREM FixedComesBack ==
  \A n \in Nat : \A v \in SUBSET (0 .. 8 * n - 1) : \A at \in Nat \ {0} : \A buf :
    (\A i \in 1 .. n : buf[at + i - 1] = FixedBytes(v, n)[i])
      => FixedValue(buf, at, n) = v
<1> SUFFICES ASSUME NEW n \in Nat, NEW v \in SUBSET (0 .. 8 * n - 1), NEW at \in Nat \ {0},
                    NEW buf, \A i \in 1 .. n : buf[at + i - 1] = FixedBytes(v, n)[i]
             PROVE  FixedValue(buf, at, n) = v
  OBVIOUS
<1>0. v \subseteq Nat
  OBVIOUS
<1>1. ASSUME NEW i \in 1 .. n
      PROVE  {b + 8 * (i - 1) : b \in buf[at + i - 1]} = {b \in v : b \div 8 = i - 1}
  <2>1. buf[at + i - 1] = {b - 8 * (i - 1) : b \in {x \in v : 8 * (i - 1) <= x /\ x < 8 * (i - 1) + 8}}
    BY DEF FixedBytes, Cut
  <2>2. {b + 8 * (i - 1) : b \in buf[at + i - 1]}
          = {x \in v : 8 * (i - 1) <= x /\ x < 8 * (i - 1) + 8}
    <3> DEFINE mine == {x \in v : 8 * (i - 1) <= x /\ x < 8 * (i - 1) + 8}
    <3>1. mine \in SUBSET Nat
      BY <1>0, Zenon
    <3>2. 8 * (i - 1) \in Nat
      OBVIOUS
    <3>3. buf[at + i - 1] = {x - 8 * (i - 1) : x \in mine}
      BY <2>1
    <3> HIDE DEF mine
    <3>4. {b + 8 * (i - 1) : b \in buf[at + i - 1]} = mine
      BY <3>1, <3>2, <3>3, ShiftedBack
    <3> QED BY <3>4 DEF mine
  <2>3. \A b \in v : b \div 8 = i - 1 <=> 8 * (i - 1) <= b /\ b < 8 * (i - 1) + 8
    OBVIOUS
  <2> QED BY <2>2, <2>3
<1>2. \A b \in v : b \div 8 + 1 \in 1 .. n
  OBVIOUS
<1>3. UNION {{b + 8 * (i - 1) : b \in buf[at + i - 1]} : i \in 1 .. n} = v
  <2> DEFINE Part(i) == {b + 8 * (i - 1) : b \in buf[at + i - 1]}
  <2>1. \A i \in 1 .. n : Part(i) = {b \in v : b \div 8 = i - 1}
    BY <1>1
  <2> HIDE DEF Part
  <2>2. \A i \in 1 .. n : Part(i) \subseteq v
    BY <2>1
  <2>3. \A b \in v : b \in Part(b \div 8 + 1)
    BY <2>1, <1>2
  <2>4. UNION {Part(i) : i \in 1 .. n} = v
    BY <2>2, <2>3, <1>2
  <2> QED BY <2>4 DEF Part
<1> QED BY <1>3 DEF FixedValue

-----------------------------------------------------------------------------
(* Induction over the numbers up to n, from the least one that fails.      *)
LEMMA LeastNatural ==
  ASSUME NEW S \in SUBSET Nat, S # {}
  PROVE  \E i \in S : \A j \in S : i <= j
  <1> DEFINE R == {p \in Nat \X Nat : p[1] < p[2]}
  <1>1. IsWellFoundedOn(R, Nat)
    BY NatLessThanWellFounded DEF OpToRel
  <1>2. PICK i \in S : \A j \in S : ~ (<<j, i>> \in R)
    <2> HIDE DEF R
    <2> QED BY <1>1, WFMin, Zenon
  <1>3. ASSUME NEW j \in S, j < i PROVE <<j, i>> \in R
    BY <1>3
  <1>4. \A j \in S : ~(j < i)
    <2> HIDE DEF R
    <2> QED BY <1>2, <1>3
  <1> QED BY <1>4

LEMMA UpTo ==
  ASSUME NEW n \in Nat, NEW G, 0 \in G, \A i \in 1..n : i - 1 \in G => i \in G
  PROVE  \A i \in 0..n : i \in G
  <1> SUFFICES ASSUME NEW k \in 0..n, k \notin G PROVE FALSE
    OBVIOUS
  <1> DEFINE B == {i \in 0..n : i \notin G}
  <1>1. B \in SUBSET Nat /\ k \in B
    OBVIOUS
  <1>2. PICK m \in B : \A j \in B : m <= j
    BY <1>1, LeastNatural
  <1>3. m \in 1..n
    BY <1>2
  <1>4. m - 1 \in 0..n /\ ~(m <= m - 1)
    BY <1>3
  <1>5. m - 1 \in G
    BY <1>2, <1>4
  <1> QED BY <1>2, <1>3, <1>5

-----------------------------------------------------------------------------
(***************************************************************************)
(* The string pool and the heap: intervals that are handed out one after   *)
(* the other from a current page.                                          *)
(***************************************************************************)
Place == [page : Nat, from : Nat, to : Nat]

(* Nothing that is stored overlaps or lies beyond its page, and on the     *)
(* current page it ends where the free part begins.                        *)
Packed(places, pages, current, used) ==
  /\ pages \in Seq(Nat) /\ current \in DOMAIN pages /\ used \in Nat
  /\ places \in Seq(Place)
  /\ \A i \in DOMAIN places : places[i].page = current => places[i].to <= used
  /\ Disjoint(places, pages)

(* The next place is on the current page. *)
LEMMA PackHere ==
  ASSUME NEW places, NEW pages, NEW cur, NEW used, Packed(places, pages, cur, used),
         NEW n \in Nat, used + n <= pages[cur]
  PROVE  Packed(Append(places, Interval(cur, used, used + n)), pages, cur, used + n)
  <1> DEFINE x == Interval(cur, used, used + n)
             q == Append(places, x)
             m == Len(places)
  <1>1. /\ pages \in Seq(Nat) /\ cur \in DOMAIN pages /\ used \in Nat /\ places \in Seq(Place)
        /\ m \in Nat /\ DOMAIN places = 1..m
    BY DEF Packed
  <1>2. x \in Place /\ x.page = cur /\ x.from = used /\ x.to = used + n
    BY <1>1 DEF Interval, Place
  <1> HIDE DEF x
  <1>3. q \in Seq(Place) /\ DOMAIN q = 1..m+1 /\ q[m + 1] = x /\ \A i \in 1..m : q[i] = places[i]
    BY <1>1, <1>2
  <1>4. \A i \in 1..m : places[i] \in Place
    BY <1>1
  <1>5. \A i \in 1..m : /\ places[i].page \in DOMAIN pages /\ places[i].to <= pages[places[i].page]
                        /\ places[i].page = cur => places[i].to <= used
    BY <1>1 DEF Packed, Disjoint
  <1> HIDE DEF q, m
  <1>6. \A i \in 1..m+1 : i # m + 1 => i \in 1..m
    BY <1>1
  <1>7. \A i \in DOMAIN q : /\ q[i].page \in DOMAIN pages /\ q[i].to <= pages[q[i].page]
                            /\ q[i].page = cur => q[i].to <= used + n
    <2> SUFFICES ASSUME NEW i \in 1..m+1
                 PROVE  /\ q[i].page \in DOMAIN pages /\ q[i].to <= pages[q[i].page]
                        /\ q[i].page = cur => q[i].to <= used + n
      BY <1>3
    <2>1. CASE i = m + 1
      BY <1>1, <1>2, <1>3, <2>1
    <2>2. CASE i # m + 1
      <3>1. i \in 1..m /\ q[i] = places[i] /\ places[i].to \in Nat
        BY <1>3, <1>4, <1>6, <2>2 DEF Place
      <3> QED BY <1>1, <1>5, <3>1
    <2> QED BY <2>1, <2>2
  <1>8. ASSUME NEW i \in DOMAIN q, NEW j \in DOMAIN q, i # j, q[i].page = q[j].page
        PROVE  q[i].to <= q[j].from \/ q[j].to <= q[i].from
    <2>1. i \in 1..m+1 /\ j \in 1..m+1
      BY <1>3
    <2>2. CASE i = m + 1
      <3>1. j \in 1..m /\ q[j] = places[j] /\ q[i] = x
        BY <1>3, <1>6, <1>8, <2>1, <2>2
      <3> QED BY <1>2, <1>5, <1>8, <3>1
    <2>3. CASE j = m + 1
      <3>1. i \in 1..m /\ q[i] = places[i] /\ q[j] = x
        BY <1>3, <1>6, <1>8, <2>1, <2>3
      <3> QED BY <1>2, <1>5, <1>8, <3>1
    <2>4. CASE i # m + 1 /\ j # m + 1
      <3>1. i \in 1..m /\ j \in 1..m /\ q[i] = places[i] /\ q[j] = places[j]
        BY <1>3, <1>6, <2>1, <2>4
      <3>2. 1..m = DOMAIN places
        BY <1>1
      <3> QED BY <1>8, <3>1, <3>2 DEF Packed, Disjoint
    <2> QED BY <2>2, <2>3, <2>4
  <1>9. Disjoint(q, pages)
    BY <1>7, <1>8 DEF Disjoint
  <1> QED BY <1>1, <1>3, <1>7, <1>9 DEF Packed, q, x

(* A page is added, which says nothing of the places. *)
LEMMA PageAdded ==
  ASSUME NEW places, NEW pages, NEW cur, NEW used, Packed(places, pages, cur, used), NEW c \in Nat
  PROVE  /\ Packed(places, Append(pages, c), cur, used)
         /\ Packed(places, Append(pages, c), Len(pages) + 1, 0)
         /\ Append(pages, c)[Len(pages) + 1] = c
         /\ Append(pages, c)[cur] = pages[cur]
         /\ Len(pages) + 1 \in Nat
  <1> DEFINE k == Len(pages)
             q == Append(pages, c)
  <1>1. /\ pages \in Seq(Nat) /\ cur \in 1..k /\ k \in Nat /\ used \in Nat
        /\ places \in Seq(Place) /\ DOMAIN pages = 1..k
    BY DEF Packed
  <1>2. q \in Seq(Nat) /\ DOMAIN q = 1..k+1 /\ q[k + 1] = c /\ \A i \in 1..k : q[i] = pages[i]
    BY <1>1
  <1> HIDE DEF k, q
  <1>3. k + 1 \in 1..k+1 /\ k + 1 \notin 1..k /\ \A i \in 1..k : i \in 1..k+1
    BY <1>1
  <1>4. \A i \in DOMAIN places : /\ places[i].page \in 1..k /\ places[i].to <= pages[places[i].page]
    BY <1>1 DEF Packed, Disjoint
  <1>5. \A i \in DOMAIN places : /\ places[i].page \in DOMAIN q /\ places[i].to <= q[places[i].page]
    BY <1>2, <1>3, <1>4
  <1>6. Disjoint(places, q)
    BY <1>5 DEF Packed, Disjoint
  <1>7. Packed(places, q, cur, used)
    BY <1>1, <1>2, <1>3, <1>6 DEF Packed
  <1>8. Packed(places, q, k + 1, 0)
    BY <1>1, <1>2, <1>3, <1>4, <1>6 DEF Packed
  <1> QED BY <1>1, <1>2, <1>7, <1>8 DEF k, q

(* The next place begins a page, and that page becomes the current one. *)
LEMMA PackNew ==
  ASSUME NEW places, NEW pages, NEW cur, NEW used, Packed(places, pages, cur, used),
         NEW c \in Nat, NEW n \in Nat, n <= c
  PROVE  Packed(Append(places, Interval(Len(pages) + 1, 0, n)), Append(pages, c), Len(pages) + 1, n)
  <1> DEFINE q == Append(pages, c)
             k == Len(pages) + 1
  <1>1. Packed(places, q, k, 0) /\ q[k] = c
    BY PageAdded
  <1>2. PICK z \in Nat : z = 0
    OBVIOUS
  <1> HIDE DEF q, k
  <1>3. z + n <= q[k] /\ z + n = n
    BY <1>1, <1>2
  <1>4. Packed(places, q, k, z)
    BY <1>1, <1>2
  <1>5. Packed(Append(places, Interval(k, z, z + n)), q, k, z + n)
    BY <1>3, <1>4, PackHere
  <1> QED BY <1>2, <1>3, <1>5 DEF q, k

(* The next place is a page of its own, and the current one stays. *)
LEMMA PackApart ==
  ASSUME NEW places, NEW pages, NEW cur, NEW used, Packed(places, pages, cur, used), NEW n \in Nat
  PROVE  Packed(Append(places, Interval(Len(pages) + 1, 0, n)), Append(pages, n), cur, used)
  <1> DEFINE q == Append(pages, n)
             k == Len(pages) + 1
             r == Append(places, Interval(k, 0, n))
  <1>1. Packed(r, q, k, n)
    BY PackNew
  <1>2. Packed(places, q, cur, used)
    BY PageAdded
  <1>3. cur # k
    BY DEF Packed
  <1> DEFINE m == Len(places)
             x == Interval(k, 0, n)
  <1>4. places \in Seq(Place) /\ m \in Nat /\ DOMAIN places = 1..m
    BY <1>2 DEF Packed
  <1>5. x.page = k /\ x \in Place
    <2>1. Len(pages) \in Nat
      BY DEF Packed
    <2> QED BY <2>1 DEF Interval, Place
  <1>6. r = Append(places, x)
    OBVIOUS
  <1> HIDE DEF q, k, x, r
  <1>9. /\ DOMAIN r = 1..m+1 /\ r[m + 1] = x /\ \A i \in 1..m : r[i] = places[i]
    BY <1>4, <1>5, <1>6
  <1> HIDE DEF m
  <1>7. ASSUME NEW i \in DOMAIN r, r[i].page = cur PROVE r[i].to <= used
    <2>1. i # m + 1
      BY <1>3, <1>5, <1>9, <1>7
    <2>2. i \in 1..m
      BY <1>4, <1>9, <2>1
    <2> QED BY <1>2, <1>4, <1>9, <1>7, <2>2 DEF Packed
  <1>8. Packed(r, q, cur, used)
    BY <1>1, <1>2, <1>7 DEF Packed
  <1> QED BY <1>8 DEF r, q, k, x

-----------------------------------------------------------------------------
(***************************************************************************)
(* The array: capacities outside of the array itself are powers of two.    *)
(***************************************************************************)
(* g is the function that PowerOfTwo computes. *)
Doubling(n, g) == g = [k \in 0..n |-> IF k = 0 THEN 1 ELSE 2 * g[k - 1]]

LEMMA DoublingExists ==
  ASSUME NEW n \in Nat
  PROVE  \E g : Doubling(n, g)
  <1> DEFINE G == {i \in 0..n : \E g : Doubling(i, g)}
  <1>1. 0 \in G
    <2>1. Doubling(0, [k \in 0..0 |-> 1])
      BY DEF Doubling
    <2> QED BY <2>1
  <1>2. ASSUME NEW i \in 1..n, i - 1 \in G PROVE i \in G
    <2>1. PICK g : Doubling(i - 1, g)
      BY <1>2
    <2> DEFINE h == [k \in 0..i |-> IF k = i THEN 2 * g[i - 1] ELSE g[k]]
    <2>2. \A k \in 0..i : h[k] = IF k = 0 THEN 1 ELSE 2 * h[k - 1]
      <3>1. h[0] = 1
        BY <2>1 DEF Doubling
      <3>2. ASSUME NEW k \in 1..i PROVE h[k] = 2 * h[k - 1]
        <4>1. k \in 0..i /\ k - 1 \in 0..i /\ k - 1 # i /\ k # 0 /\ i \in Nat
          OBVIOUS
        <4>2. h[k - 1] = g[k - 1]
          BY <4>1
        <4>3. CASE k = i
          BY <4>1, <4>2, <4>3
        <4>4. CASE k # i
          <5>1. k \in 0..i-1 /\ h[k] = g[k]
            BY <4>1, <4>4
          <5>2. g[k] = 2 * g[k - 1]
            BY <2>1, <4>1, <5>1 DEF Doubling
          <5> QED BY <4>2, <5>1, <5>2
        <4> QED BY <4>3, <4>4
      <3> HIDE DEF h
      <3>3. \A k \in 0..i : k = 0 \/ k \in 1..i
        OBVIOUS
      <3> QED BY <3>1, <3>2, <3>3
    <2>3. h = [k \in 0..i |-> h[k]]
      OBVIOUS
    <2> HIDE DEF h
    <2>4. Doubling(i, h)
      BY <2>2, <2>3 DEF Doubling
    <2> QED BY <2>4
  <1>3. \A i \in 0..n : i \in G
    <2> HIDE DEF G
    <2> QED BY <1>1, <1>2, UpTo
  <1>4. n \in 0..n
    OBVIOUS
  <1> QED BY <1>3, <1>4

LEMMA PowerIs ==
  ASSUME NEW n \in Nat
  PROVE  \E g : Doubling(n, g) /\ (PowerOfTwo(n) <=> \E k \in 0..n : g[k] = n)
  <1> DEFINE Is(g) == g = [k \in 0..n |-> IF k = 0 THEN 1 ELSE 2 * g[k - 1]]
             F == CHOOSE g : Is(g)
  <1>1. PowerOfTwo(n) <=> \E k \in 0..n : F[k] = n
    BY DEF PowerOfTwo
  <1>2. \A g : Is(g) <=> Doubling(n, g)
    BY DEF Doubling
  <1> HIDE DEF Is
  <1>3. Is(F)
    BY <1>2, DoublingExists
  <1> HIDE DEF F
  <1> QED BY <1>1, <1>2, <1>3

LEMMA DoublingValues ==
  ASSUME NEW n \in Nat, NEW g, Doubling(n, g)
  PROVE  g[0] = 1 /\ \A k \in 1..n : k - 1 \in 0..n /\ g[k] = 2 * g[k - 1]
  BY DEF Doubling

LEMMA OneIsPower == PowerOfTwo(1)
  <1>1. PICK g : Doubling(1, g) /\ (PowerOfTwo(1) <=> \E k \in 0..1 : g[k] = 1)
    BY PowerIs
  <1>2. g[0] = 1
    BY <1>1, DoublingValues
  <1> QED BY <1>1, <1>2

LEMMA TwicePower ==
  ASSUME NEW n \in Nat, n > 0, PowerOfTwo(n)
  PROVE  PowerOfTwo(2 * n)
  <1>1. PICK g : Doubling(n, g) /\ (PowerOfTwo(n) <=> \E k \in 0..n : g[k] = n)
    BY PowerIs
  <1>2. PICK m \in Nat : m = 2 * n
    OBVIOUS
  <1>3. PICK h : Doubling(m, h) /\ (PowerOfTwo(m) <=> \E k \in 0..m : h[k] = m)
    BY PowerIs
  <1>4. PICK k \in 0..n : g[k] = n
    BY <1>1
  <1>5. g[0] = 1 /\ \A i \in 1..n : g[i] = 2 * g[i - 1]
    BY <1>1, DoublingValues
  <1>6. h[0] = 1 /\ \A i \in 1..m : h[i] = 2 * h[i - 1]
    BY <1>3, DoublingValues
  <1> DEFINE G == {i \in 0..n : g[i] = h[i]}
  <1>7. 0 \in G
    BY <1>5, <1>6
  <1>8. ASSUME NEW i \in 1..n, i - 1 \in G PROVE i \in G
    <2>1. i \in 1..m
      BY <1>2
    <2> QED BY <1>5, <1>6, <1>8, <2>1
  <1>9. k \in G
    <2> HIDE DEF G
    <2> QED BY <1>7, <1>8, UpTo
  <1>10. k + 1 \in 1..m /\ k + 1 \in 0..m /\ (k + 1) - 1 = k
    BY <1>2
  <1>11. h[k + 1] = m
    BY <1>2, <1>4, <1>6, <1>9, <1>10
  <1> QED BY <1>2, <1>3, <1>10, <1>11

(* Each round of the loop leaves a power of two, above the number or above *)
(* the rounds so far.                                                      *)
LEMMA OuterCapIs ==
  ASSUME NEW number \in Nat
  PROVE  /\ FirstOuterCap(number) \in Nat /\ FirstOuterCap(number) > number + 1
         /\ PowerOfTwo(FirstOuterCap(number))
  <1> DEFINE n == number + 2
             Next1(c) == IF c <= number + 1 THEN 2 * c ELSE c
             Is(g) == g = [i \in 0..n |-> IF i = 0 THEN 1 ELSE Next1(g[i - 1])]
             F == CHOOSE g : Is(g)
  <1>1. FirstOuterCap(number) = F[n]
    BY DEF FirstOuterCap
  <1> DEFINE E == {i \in 0..n : \E g : g = [k \in 0..i |-> IF k = 0 THEN 1 ELSE Next1(g[k - 1])]}
  <1>2. 0 \in E
    <2> DEFINE z == [k \in 0..0 |-> 1]
    <2>1. z = [k \in 0..0 |-> IF k = 0 THEN 1 ELSE Next1(z[k - 1])]
      OBVIOUS
    <2> HIDE DEF z
    <2> QED BY <2>1
  <1>3. ASSUME NEW i \in 1..n, i - 1 \in E PROVE i \in E
    <2> HIDE DEF Next1
    <2>1. PICK g : g = [k \in 0..i-1 |-> IF k = 0 THEN 1 ELSE Next1(g[k - 1])]
      BY <1>3
    <2>2. g[0] = 1 /\ \A k \in 1..i-1 : g[k] = Next1(g[k - 1])
      BY <2>1
    <2> DEFINE last == Next1(g[i - 1])
               h == [k \in 0..i |-> IF k = i THEN last ELSE g[k]]
    <2>3. h = [k \in 0..i |-> h[k]]
      OBVIOUS
    <2> HIDE DEF last
    <2>4. h[i] = last /\ \A k \in 0..i-1 : h[k] = g[k]
      OBVIOUS
    <2> HIDE DEF h
    <2>5. \A k \in 0..i : h[k] = IF k = 0 THEN 1 ELSE Next1(h[k - 1])
      <3>1. h[0] = 1
        BY <2>2, <2>4
      <3>2. ASSUME NEW k \in 1..i PROVE h[k] = Next1(h[k - 1])
        <4>1. k - 1 \in 0..i-1 /\ h[k - 1] = g[k - 1]
          BY <2>4
        <4>2. CASE k = i
          BY <2>4, <4>1, <4>2 DEF last
        <4>3. CASE k # i
          <5>1. k \in 1..i-1 /\ k \in 0..i-1
            BY <4>3
          <5> QED BY <2>2, <2>4, <4>1, <5>1
        <4> QED BY <4>2, <4>3
      <3>3. \A k \in 0..i : k = 0 \/ k \in 1..i
        OBVIOUS
      <3> QED BY <3>1, <3>2, <3>3
    <2>6. h = [k \in 0..i |-> IF k = 0 THEN 1 ELSE Next1(h[k - 1])]
      BY <2>3, <2>5
    <2>7. i \in 0..n
      OBVIOUS
    <2> QED BY <2>6, <2>7
  <1>4. n \in 0..n /\ n \in Nat
    OBVIOUS
  <1>5. \A i \in 0..n : i \in E
    <2> HIDE DEF E
    <2> QED BY <1>2, <1>3, <1>4, UpTo
  <1>6. \E g : Is(g)
    BY <1>4, <1>5
  <1>7. Is(F)
    <2> HIDE DEF Is
    <2> QED BY <1>6
  <1> HIDE DEF F, E
  <1>8. F[0] = 1 /\ \A i \in 1..n : F[i] = Next1(F[i - 1])
    <2> HIDE DEF Next1, n
    <2> QED BY <1>4, <1>7
  <1> DEFINE G == {i \in 0..n : /\ F[i] \in Nat /\ F[i] > 0 /\ PowerOfTwo(F[i])
                                /\ F[i] > i \/ F[i] > number + 1}
  <1>9. 0 \in G
    BY <1>8, OneIsPower
  <1>10. ASSUME NEW i \in 1..n, i - 1 \in G PROVE i \in G
    <2>1. PICK c \in Nat : c = F[i - 1]
      BY <1>10
    <2>2. c > 0 /\ PowerOfTwo(c) /\ (c > i - 1 \/ c > number + 1) /\ F[i] = Next1(c)
      BY <1>8, <1>10, <2>1
    <2>3. CASE c <= number + 1
      <3>1. F[i] = 2 * c /\ PowerOfTwo(2 * c)
        BY <2>2, <2>3, TwicePower
      <3>2. 2 * c \in Nat /\ 2 * c > i
        BY <2>2, <2>3
      <3> QED BY <3>1, <3>2
    <2>4. CASE c > number + 1
      BY <2>2, <2>4
    <2> QED BY <2>3, <2>4
  <1>11. n \in G
    <2> HIDE DEF G, n
    <2> QED BY <1>4, <1>9, <1>10, UpTo
  <1> QED BY <1>1, <1>11

(* What holds of the array: its block is the inner field or a power of two *)
(* above the number of elements.                                           *)
ArrayInv ==
  /\ arr.number \in Nat /\ arr.cap \in Nat
  /\ arr.number <= inner => arr.cap = inner
  /\ arr.number > inner => arr.cap > arr.number /\ PowerOfTwo(arr.cap)
  /\ \A i \in 0 .. arr.number - 1 : arr.cell[i] = i

StoreInv ==
  /\ inner \in InnerFields
  /\ ArrayInv
  /\ Packed(pool.strings, pool.pages, pool.buffer, pool.len)
  /\ pool.pages[pool.buffer] = POOL_PAGE /\ pool.len <= POOL_PAGE
  /\ Packed(heap.blocks, heap.pages, heap.current, heap.used)
  /\ heap.size = HEAP_PAGE /\ heap.pages[heap.current] >= heap.size

(* The fields that the steps write. *)
PoolType == pool \in [pages : Seq(Nat), strings : Seq(Place), buffer : Nat, len : Nat]
HeapType == heap \in [pages : Seq(Nat), blocks : Seq(Place), current : Nat, size : Nat, used : Nat]

LEMMA EmptyPacked ==
  ASSUME NEW c \in Nat
  PROVE  Packed(<<>>, <<c>>, 1, 0)
  <1>1. <<c>> \in Seq(Nat) /\ 1 \in DOMAIN <<c>> /\ DOMAIN <<>> = {}
    OBVIOUS
  <1>2. <<>> \in Seq(Place)
    OBVIOUS
  <1>3. Disjoint(<<>>, <<c>>)
    BY <1>1 DEF Disjoint
  <1> QED BY <1>1, <1>2, <1>3 DEF Packed

LEMMA StoreInitInv == StoreInit => StoreInv /\ PoolType /\ HeapType
  <1> SUFFICES ASSUME StoreInit PROVE StoreInv /\ PoolType /\ HeapType
    OBVIOUS
  <1>1. inner \in Nat \ {0} /\ POOL_PAGE \in Nat \ {0} /\ HEAP_PAGE \in Nat \ {0}
    BY StoreAssumption DEF StoreInit
  <1>2. ArrayInv
    BY <1>1 DEF StoreInit, EmptyArray, ArrayInv
  <1>3. Packed(<<>>, <<POOL_PAGE>>, 1, 0) /\ Packed(<<>>, <<HEAP_PAGE>>, 1, 0)
    BY <1>1, EmptyPacked
  <1>4. <<POOL_PAGE>> \in Seq(Nat) /\ <<HEAP_PAGE>> \in Seq(Nat) /\ <<>> \in Seq(Place)
    BY <1>1
  <1>5. PoolType /\ HeapType
    BY <1>1, <1>4 DEF StoreInit, EmptyPool, EmptyHeap, PoolType, HeapType
  <1>6. StoreInv
    BY <1>1, <1>2, <1>3 DEF StoreInv, StoreInit, EmptyPool, EmptyHeap
  <1> QED BY <1>5, <1>6

LEMMA PushKeeps ==
  ASSUME inner \in InnerFields, ArrayInv, Push
  PROVE  ArrayInv'
  <1>1. PICK n \in Nat : n = arr.number
    BY DEF ArrayInv
  <1>2. PICK f \in Nat : f = inner
    BY StoreAssumption
  <1>3. PICK c \in Nat : c = arr.cap
    BY DEF ArrayInv
  <1>4. PICK cell : cell = arr.cell
    OBVIOUS
  <1>5. PICK r : r = Regrow(arr)
    OBVIOUS
  <1>6. arr' = [number |-> n + 1, cap |-> r, cell |-> [i \in 0 .. n |-> IF i < n THEN cell[i] ELSE n]]
    <2>1. (IF n = f THEN f ELSE n) = n
      OBVIOUS
    <2> QED BY <1>1, <1>2, <1>4, <1>5, <2>1 DEF Push
  <1>7. inner' = f
    BY <1>2 DEF Push
  <1>8. \A i \in 0 .. n - 1 : cell[i] = i
    BY <1>1, <1>4 DEF ArrayInv
  <1>9. \A i \in 0 .. (n + 1) - 1 : arr'.cell[i] = i
    BY <1>6, <1>8
  <1>10. CASE n < f
    <2>1. r = f
      BY <1>1, <1>2, <1>5, <1>10 DEF Regrow
    <2> QED BY <1>6, <1>7, <1>9, <1>10, <2>1 DEF ArrayInv
  <1>11. CASE n = f
    <2>1. r = FirstOuterCap(n)
      BY <1>1, <1>2, <1>5, <1>11 DEF Regrow
    <2>2. r \in Nat /\ r > n + 1 /\ PowerOfTwo(r)
      BY <2>1, OuterCapIs
    <2> QED BY <1>6, <1>7, <1>9, <1>11, <2>2 DEF ArrayInv
  <1>12. CASE n > f
    <2>1. c > n /\ PowerOfTwo(c)
      BY <1>1, <1>2, <1>3, <1>12 DEF ArrayInv
    <2>2. r = IF CarryOut(n) THEN 2 * (n + 1) ELSE c
      BY <1>1, <1>2, <1>3, <1>5, <1>12 DEF Regrow
    <2>3. r \in Nat /\ r > n + 1 /\ PowerOfTwo(r)
      <3>1. PICK m \in Nat : m = n + 1
        OBVIOUS
      <3>2. CASE PowerOfTwo(m)
        <4>1. PowerOfTwo(2 * m) /\ r = 2 * m
          BY <2>2, <3>1, <3>2, TwicePower DEF CarryOut
        <4> QED BY <3>1, <4>1
      <3>3. CASE ~PowerOfTwo(m)
        <4>1. r = c /\ c # m
          BY <2>1, <2>2, <3>1, <3>3 DEF CarryOut
        <4> QED BY <2>1, <3>1, <4>1
      <3> QED BY <3>2, <3>3
    <2> QED BY <1>6, <1>7, <1>9, <1>12, <2>3 DEF ArrayInv
  <1> QED BY <1>10, <1>11, <1>12

LEMMA BuildKeeps ==
  ASSUME StoreInv, PoolType, NEW sz \in StringSizes, Build(sz)
  PROVE  /\ Packed(pool.strings, pool.pages, pool.buffer, pool.len)'
         /\ (pool.pages[pool.buffer] = POOL_PAGE /\ pool.len <= POOL_PAGE)'
         /\ PoolType'
  <1>1. PICK s \in Nat : s = sz + 1
    BY StoreAssumption
  <1>2. PICK pages \in Seq(Nat), strings \in Seq(Place), buffer \in Nat, len \in Nat :
           pool = [pages |-> pages, strings |-> strings, buffer |-> buffer, len |-> len]
    BY DEF PoolType
  <1>3. Packed(strings, pages, buffer, len) /\ pages[buffer] = POOL_PAGE /\ len <= POOL_PAGE
    BY <1>2 DEF StoreInv
  <1>4. POOL_PAGE \in Nat
    BY StoreAssumption
  <1>5. PICK new \in Nat : new = Len(pages) + 1
    OBVIOUS
  <1>6. SUFFICES
          \E strings1, pages1, buffer1, len1 :
            /\ pool' = [pages |-> pages1, strings |-> strings1, buffer |-> buffer1, len |-> len1]
            /\ Packed(strings1, pages1, buffer1, len1)
            /\ pages1[buffer1] = POOL_PAGE /\ len1 <= POOL_PAGE
    <2>1. PICK strings1, pages1, buffer1, len1 :
            /\ pool' = [pages |-> pages1, strings |-> strings1, buffer |-> buffer1, len |-> len1]
            /\ Packed(strings1, pages1, buffer1, len1)
            /\ pages1[buffer1] = POOL_PAGE /\ len1 <= POOL_PAGE
      BY <1>6
    <2>2. pages1 \in Seq(Nat) /\ strings1 \in Seq(Place) /\ buffer1 \in Nat /\ len1 \in Nat
      BY <2>1 DEF Packed
    <2> QED BY <2>1, <2>2 DEF PoolType, Packed, Disjoint
  <1>7. CASE s < POOL_PAGE - len
    <2>1. Packed(Append(strings, Interval(buffer, len, len + s)), pages, buffer, len + s)
      <3>1. len + s <= pages[buffer]
        <4>1. len \in Nat /\ len + s < POOL_PAGE
          BY <1>4, <1>7
        <4> QED BY <1>3, <1>4, <4>1
      <3> QED BY <1>3, <3>1, PackHere
    <2>2. pool' = [pages |-> pages, strings |-> Append(strings, Interval(buffer, len, len + s)),
                   buffer |-> buffer, len |-> len + s]
      <3>1. pool' = [pool EXCEPT
                       !.strings = Append(@, Interval(pool.buffer, pool.len, pool.len + s)),
                       !.len = @ + s]
        <4>1. s < POOL_PAGE - pool.len /\ ~(s >= POOL_PAGE - pool.len)
          BY <1>2, <1>4, <1>7
        <4> QED BY <1>1, <4>1 DEF Build
      <3> QED BY <1>2, <3>1
    <2>3. len + s <= POOL_PAGE
      BY <1>4, <1>7
    <2> QED BY <1>3, <2>1, <2>2, <2>3
  <1>8. CASE s >= POOL_PAGE - len /\ s > POOL_PAGE
    <2>1. Packed(Append(strings, Interval(new, 0, s)), Append(pages, s), buffer, len)
      <3>1. Packed(Append(strings, Interval(Len(pages) + 1, 0, s)), Append(pages, s), buffer, len)
        BY <1>3, PackApart
      <3> QED BY <1>5, <3>1
    <2>2. Append(pages, s)[buffer] = pages[buffer]
      <3>1. buffer \in 1..Len(pages)
        BY <1>3 DEF Packed
      <3> QED BY <3>1
    <2>3. pool' = [pages |-> Append(pages, s), strings |-> Append(strings, Interval(new, 0, s)),
                   buffer |-> buffer, len |-> len]
      <3>1. pool' = [pool EXCEPT
                       !.pages = Append(@, s),
                       !.strings = Append(@, Interval(Len(pool.pages) + 1, 0, s))]
        <4>1. ~(s < POOL_PAGE - pool.len) /\ ~(s <= POOL_PAGE)
          BY <1>2, <1>4, <1>8
        <4> QED BY <1>1, <4>1 DEF Build
      <3> QED BY <1>2, <1>5, <3>1
    <2> QED BY <1>3, <2>1, <2>2, <2>3
  <1>9. CASE s >= POOL_PAGE - len /\ s <= POOL_PAGE
    <2>1. Packed(Append(strings, Interval(new, 0, s)), Append(pages, POOL_PAGE), new, s)
      BY <1>3, <1>4, <1>5, <1>9, PackNew
    <2>2. Append(pages, POOL_PAGE)[new] = POOL_PAGE
      BY <1>3, <1>4, <1>5, PageAdded
    <2>3. pool' = [pages |-> Append(pages, POOL_PAGE), strings |-> Append(strings, Interval(new, 0, s)),
                   buffer |-> new, len |-> s]
      <3>1. pool' = [pool EXCEPT
                       !.pages = Append(@, POOL_PAGE),
                       !.strings = Append(@, Interval(Len(pool.pages) + 1, 0, s)),
                       !.buffer = Len(pool.pages) + 1,
                       !.len = s]
        <4>1. ~(s < POOL_PAGE - pool.len) /\ ~(s > POOL_PAGE)
          BY <1>2, <1>4, <1>9
        <4> QED BY <1>1, <4>1 DEF Build
      <3> QED BY <1>2, <1>5, <3>1
    <2> QED BY <1>9, <2>1, <2>2, <2>3
  <1> QED BY <1>4, <1>7, <1>8, <1>9

LEMMA AllocKeeps ==
  ASSUME StoreInv, HeapType, NEW sz \in BlockSizes, Alloc(sz)
  PROVE  /\ Packed(heap.blocks, heap.pages, heap.current, heap.used)'
         /\ (heap.size = HEAP_PAGE /\ heap.pages[heap.current] >= heap.size)'
         /\ HeapType'
  <1>1. PICK n \in Nat : n = RoundUp(sz)
    BY StoreAssumption DEF RoundUp
  <1>2. PICK pages \in Seq(Nat), blocks \in Seq(Place), current \in Nat, size \in Nat, used \in Nat :
           heap = [pages |-> pages, blocks |-> blocks, current |-> current, size |-> size, used |-> used]
    BY DEF HeapType
  <1>3. Packed(blocks, pages, current, used) /\ size = HEAP_PAGE /\ pages[current] >= size
    BY <1>2 DEF StoreInv
  <1>4. PICK new \in Nat : new = Len(pages) + 1
    OBVIOUS
  <1>5. SUFFICES
          \E blocks1, pages1, current1, used1 :
            /\ heap' = [pages |-> pages1, blocks |-> blocks1, current |-> current1, size |-> size,
                        used |-> used1]
            /\ Packed(blocks1, pages1, current1, used1)
            /\ pages1[current1] >= size
    <2>1. PICK blocks1, pages1, current1, used1 :
            /\ heap' = [pages |-> pages1, blocks |-> blocks1, current |-> current1, size |-> size,
                        used |-> used1]
            /\ Packed(blocks1, pages1, current1, used1)
            /\ pages1[current1] >= size
      BY <1>5
    <2>2. pages1 \in Seq(Nat) /\ blocks1 \in Seq(Place) /\ current1 \in Nat /\ used1 \in Nat
      BY <2>1 DEF Packed
    <2> QED BY <1>3, <2>1, <2>2 DEF HeapType, Packed, Disjoint
  <1>6. CASE used + n <= size
    <2>1. pages[current] \in Nat
      BY <1>3 DEF Packed
    <2>2. Packed(Append(blocks, Interval(current, used, used + n)), pages, current, used + n)
      <3>1. used + n <= pages[current]
        BY <1>3, <1>6, <2>1
      <3> QED BY <1>3, <3>1, PackHere
    <2>3. heap' = [pages |-> pages, blocks |-> Append(blocks, Interval(current, used, used + n)),
                   current |-> current, size |-> size, used |-> used + n]
      BY <1>1, <1>2, <1>6 DEF Alloc
    <2> QED BY <1>3, <2>2, <2>3
  <1>7. CASE ~(used + n <= size)
    <2>1. PICK c \in Nat : c = IF n < size THEN size ELSE n
      OBVIOUS
    <2>2. Packed(Append(blocks, Interval(new, 0, n)), Append(pages, c), new, n)
      <3>1. n <= c
        BY <2>1
      <3> QED BY <1>3, <1>4, <3>1, PackNew
    <2>3. Append(pages, c)[new] = c
      BY <1>3, <1>4, PageAdded
    <2>4. heap' = [pages |-> Append(pages, c), blocks |-> Append(blocks, Interval(new, 0, n)),
                   current |-> new, size |-> size, used |-> n]
      BY <1>1, <1>2, <1>4, <1>7, <2>1 DEF Alloc
    <2>5. c >= size
      BY <2>1
    <2> QED BY <2>2, <2>3, <2>4, <2>5
  <1> QED BY <1>6, <1>7

LEMMA StoreStep ==
  ASSUME StoreInv, PoolType, HeapType, [StoreNext]_storeVars
  PROVE  StoreInv' /\ PoolType' /\ HeapType'
  <1>1. CASE Push
    <2>1. UNCHANGED <<inner, pool, heap>>
      BY <1>1 DEF Push
    <2>2. ArrayInv'
      BY <1>1, PushKeeps DEF StoreInv
    <2> QED BY <2>1, <2>2 DEF StoreInv, PoolType, HeapType, Packed, Disjoint
  <1>2. ASSUME NEW sz \in StringSizes, Build(sz) PROVE StoreInv' /\ PoolType' /\ HeapType'
    <2>1. UNCHANGED <<inner, arr, heap>>
      BY <1>2 DEF Build
    <2>2. /\ Packed(pool.strings, pool.pages, pool.buffer, pool.len)'
          /\ (pool.pages[pool.buffer] = POOL_PAGE /\ pool.len <= POOL_PAGE)' /\ PoolType'
      BY <1>2, BuildKeeps
    <2> QED BY <2>1, <2>2 DEF StoreInv, ArrayInv, HeapType, Packed, Disjoint
  <1>3. ASSUME NEW sz \in BlockSizes, Alloc(sz) PROVE StoreInv' /\ PoolType' /\ HeapType'
    <2>1. UNCHANGED <<inner, arr, pool>>
      BY <1>3 DEF Alloc
    <2>2. /\ Packed(heap.blocks, heap.pages, heap.current, heap.used)'
          /\ (heap.size = HEAP_PAGE /\ heap.pages[heap.current] >= heap.size)' /\ HeapType'
      BY <1>3, AllocKeeps
    <2> QED BY <2>1, <2>2 DEF StoreInv, ArrayInv, PoolType, Packed, Disjoint
  <1>4. CASE UNCHANGED storeVars
    BY <1>4 DEF storeVars, StoreInv, ArrayInv, PoolType, HeapType, Packed, Disjoint
  <1> QED BY <1>1, <1>2, <1>3, <1>4 DEF StoreNext

(* StoredApart: whatever the sizes and their order, nothing that is stored *)
(* overlaps, and the array never writes beyond its block (_pbcA_push,      *)
(* _pbcS_build, _pbcH_alloc).                                              *)
THEOREM StoredStaysApart == StoreSpec => []StoredApart
  <1>1. StoreInv => StoredApart
    <2> SUFFICES ASSUME StoreInv PROVE StoredApart
      OBVIOUS
    <2>1. inner \in Nat
      BY StoreAssumption DEF StoreInv
    <2>2. arr.number <= arr.cap
      BY <2>1 DEF StoreInv, ArrayInv
    <2> QED BY <2>2 DEF StoreInv, ArrayInv, StoredApart, Packed
  <1> QED BY <1>1, StoreInitInv, StoreStep, PTL DEF StoreSpec

(* What a recursive function of the code computes is there.                *)
Iterates(n, S, z, step) ==
  \E g \in [0..n -> S] : g[0] = z /\ \A i \in 1..n : g[i] = step[g[i - 1]]

LEMMA Recursion ==
  ASSUME NEW n \in Nat, NEW S, NEW z \in S, NEW step, \A x \in S : step[x] \in S
  PROVE  Iterates(n, S, z, step)
  <1> DEFINE Is(i, g) == /\ g \in [0..i -> S]
                         /\ g[0] = z /\ \A j \in 1..i : g[j] = step[g[j - 1]]
             G == {i \in 0..n : \E g : Is(i, g)}
  <1>1. 0 \in G
    <2>1. Is(0, [j \in 0..0 |-> z])
      OBVIOUS
    <2>2. 0 \in 0..n
      OBVIOUS
    <2> HIDE DEF Is
    <2> QED BY <2>1, <2>2
  <1>2. ASSUME NEW i \in 1..n, i - 1 \in G PROVE i \in G
    <2>1. PICK g : Is(i - 1, g)
      BY <1>2
    <2> DEFINE last == step[g[i - 1]]
               h == [j \in 0..i |-> IF j = i THEN last ELSE g[j]]
    <2>2. i \in Nat /\ i - 1 \in 0..i-1 /\ 0 \in 0..i-1
      OBVIOUS
    <2>3. last \in S
      BY <2>1, <2>2 DEF last
    <2>4. h \in [0..i -> S]
      <3>1. \A j \in 0..i : j # i => j \in 0..i-1
        OBVIOUS
      <3> HIDE DEF last
      <3> QED BY <2>1, <2>3, <3>1
    <2> HIDE DEF last
    <2>5. h[i] = last /\ \A j \in 0..i-1 : h[j] = g[j]
      OBVIOUS
    <2> HIDE DEF h
    <2>6. ASSUME NEW j \in 1..i PROVE h[j] = step[h[j - 1]]
      <3>1. j - 1 \in 0..i-1 /\ h[j - 1] = g[j - 1]
        BY <2>5
      <3>2. CASE j = i
        BY <2>5, <3>1, <3>2 DEF last
      <3>3. CASE j # i
        <4>1. j \in 1..i-1 /\ j \in 0..i-1
          BY <3>3
        <4> QED BY <2>1, <2>5, <3>1, <4>1
      <3> QED BY <3>2, <3>3
    <2>7. h[0] = z
      BY <2>1, <2>2, <2>5
    <2>8. Is(i, h)
      BY <2>4, <2>6, <2>7
    <2> QED BY <2>8
  <1>3. n \in 0..n
    OBVIOUS
  <1>4. \A i \in 0..n : i \in G
    <2> HIDE DEF G
    <2> QED BY <1>1, <1>2, UpTo
  <1>5. PICK g : Is(n, g)
    BY <1>3, <1>4
  <1> QED BY <1>5 DEF Iterates

-----------------------------------------------------------------------------
(***************************************************************************)
(* The chains of map_sp, map_ip and map_si.  A slot is found from the main *)
(* position of a hash along next; a chain is a way through used slots that *)
(* meets none twice, and is so shorter than the number of them.            *)
(***************************************************************************)
(* From slot a to slot b by n times next, through slots of U. *)
Way(slot, U, a, b, n, g) ==
  /\ g \in [0..n -> U]
  /\ g[0] = a /\ g[n] = b
  /\ \A i, j \in 0..n : g[i] = g[j] => i = j
  /\ \A i \in 1..n : slot[g[i - 1]].next = g[i] + 1

Reached(slot, U, s, a, b) == \E n \in 0 .. s - 1 : \E g : Way(slot, U, a, b, n, g)

(* Where next leads from a place in a chain, a slot plus one or 0.         *)
After(slot, p) == IF p = 0 THEN 0 ELSE slot[p - 1].next

(* What next leads to is in the table, which has c slots. *)
Linked(c, slot) == \A i \in 0 .. c - 1 : slot[i].next \in 0..c

LEMMA AfterType ==
  ASSUME NEW c \in Nat, NEW f, Linked(c, f), NEW p \in 0..c
  PROVE  After(f, p) \in 0..c
  <1>1. CASE p = 0
    BY <1>1 DEF After
  <1>2. CASE p # 0
    <2>1. p - 1 \in 0 .. c - 1
      BY <1>2
    <2>2. f[p - 1].next \in 0..c
      BY <2>1 DEF Linked
    <2> QED BY <1>2, <2>2 DEF After
  <1> QED BY <1>1, <1>2

(* The function of Chain. *)
LEMMA ChainIs ==
  ASSUME NEW c \in Nat \ {0}, NEW f, Linked(c, f), NEW h \in 0 .. c - 1
  PROVE  /\ Chain(f, c, h) \in [0..c -> 0..c]
         /\ Chain(f, c, h)[0] = h + 1
         /\ \A n \in 1..c : Chain(f, c, h)[n] = After(f, Chain(f, c, h)[n - 1])
  <1> DEFINE z == h + 1
             step == [p \in 0..c |-> After(f, p)]
             Is(g) == g = [n \in 0..c |-> IF n = 0 THEN z ELSE After(f, g[n - 1])]
             F == CHOOSE g : Is(g)
  <1>3. Chain(f, c, h) = F
    BY DEF Chain, After
  <1>4. z \in 0..c
    OBVIOUS
  <1>5. \A p \in 0..c : After(f, p) \in 0..c
    BY AfterType
  <1>6. \A x \in 0..c : step[x] \in 0..c
    BY <1>5
  <1> HIDE DEF z
  <1>7. PICK g \in [0..c -> 0..c] :
          g[0] = z /\ \A n \in 1..c : g[n] = step[g[n - 1]]
    <2> HIDE DEF step
    <2>1. c \in Nat
      OBVIOUS
    <2>2. Iterates(c, 0..c, z, step)
      BY <1>4, <1>6, <2>1, Recursion
    <2> QED BY <2>2 DEF Iterates
  <1>8. \A n \in 1..c : step[g[n - 1]] = After(f, g[n - 1])
    <2> TAKE n \in 1..c
    <2>1. n - 1 \in 0..c
      OBVIOUS
    <2>2. g[n - 1] \in 0..c
      BY <2>1
    <2> QED BY <2>2
  <1> HIDE DEF step
  <1>9. Is(g)
    <2>1. \A n \in 0..c : g[n] = IF n = 0 THEN z ELSE After(f, g[n - 1])
      <3>1. \A n \in 0..c : n = 0 \/ n \in 1..c
        OBVIOUS
      <3> QED BY <1>7, <1>8, <3>1
    <2>2. g = [n \in 0..c |-> g[n]]
      OBVIOUS
    <2> QED BY <2>1, <2>2
  <1>10. Is(F)
    <2> HIDE DEF Is
    <2> QED BY <1>9
  <1>11. F = [n \in 0..c |-> IF n = 0 THEN z ELSE After(f, F[n - 1])]
    BY <1>10
  <1> HIDE DEF F, Is
  <1>12. 0 \in 0..c /\ \A n \in 1..c : n \in 0..c /\ n # 0 /\ n - 1 \in 0..c
    OBVIOUS
  <1>13. F[0] = z /\ \A n \in 1..c : F[n] = After(f, F[n - 1])
    BY <1>11, <1>12
  <1>14. F \in [0..c -> 0..c]
    <2> DEFINE G == {n \in 0..c : F[n] \in 0..c}
    <2>1. 0 \in G
      BY <1>4, <1>12, <1>13
    <2>2. ASSUME NEW n \in 1..c, n - 1 \in G PROVE n \in G
      <3>1. F[n - 1] \in 0..c
        BY <2>2
      <3>2. F[n] \in 0..c
        BY <1>5, <1>13, <3>1
      <3> QED BY <1>12, <3>2
    <2>3. \A n \in 0..c : n \in G
      <3> HIDE DEF G
      <3> QED BY <2>1, <2>2, UpTo
    <2>4. \A n \in 0..c : F[n] \in 0..c
      BY <2>3
    <2>5. F = [n \in 0..c |-> F[n]]
      BY <1>11
    <2> QED BY <2>4, <2>5
  <1> QED BY <1>3, <1>13, <1>14 DEF z

LEMMA Below ==
  ASSUME NEW c \in Nat, NEW u \in 0..c, u # 0
  PROVE  u - 1 \in 0 .. c - 1
  OBVIOUS

LEMMA LeastIs ==
  ASSUME NEW S \in SUBSET Nat, S # {}
  PROVE  Min(S) \in S /\ \A x \in S : Min(S) <= x
  <1>1. \E i \in S : \A j \in S : i <= j
    BY LeastNatural
  <1> QED BY <1>1 DEF Min

(* A loop along next finds the one slot wanted if it can be reached, and   *)
(* nothing if none is wanted.                                              *)
LEMMA FoundIs ==
  ASSUME NEW c \in Nat \ {0}, NEW f, Linked(c, f), NEW h \in 0 .. c - 1, NEW W
  PROVE  /\ \A i \in 0 .. c - 1 : \A U : \A s \in 0..c :
              U \subseteq 0 .. c - 1 /\ Reached(f, U, s, h, i) /\ i \in W
                /\ (\A j \in 0 .. c - 1 : j \in W => j = i)
              => Found(f, c, h, W) = i
         /\ (\A j \in 0 .. c - 1 : j \notin W) => Found(f, c, h, W) = -1
  <1>2. PICK at \in [0..c -> 0..c] :
          /\ at = Chain(f, c, h)
          /\ at[0] = h + 1
          /\ \A n \in 1..c : at[n] = After(f, at[n - 1])
    BY ChainIs
  <1> DEFINE hits == {n \in 0..c : at[n] # 0 /\ at[n] - 1 \in W}
  <1>3. Found(f, c, h, W) = IF hits = {} THEN -1 ELSE at[Min(hits)] - 1
    BY <1>2 DEF Found
  <1>6. ASSUME NEW n \in hits PROVE at[n] - 1 \in 0 .. c - 1 /\ at[n] - 1 \in W
    <2>1. at[n] \in 0..c /\ at[n] # 0 /\ at[n] - 1 \in W
      OBVIOUS
    <2>2. PICK u \in 0..c : u = at[n] /\ u # 0
      BY <2>1
    <2>3. u - 1 \in 0 .. c - 1
      BY <2>2, Below
    <2> HIDE DEF hits
    <2> QED BY <2>1, <2>2, <2>3
  <1>7. hits \in SUBSET Nat
    OBVIOUS
  <1>8. ASSUME NEW i \in 0 .. c - 1, NEW U, NEW s \in 0..c,
               U \subseteq 0 .. c - 1, Reached(f, U, s, h, i), i \in W,
               \A j \in 0 .. c - 1 : j \in W => j = i
        PROVE  Found(f, c, h, W) = i
    <2>0. PICK n \in 0 .. s - 1 : \E g : Way(f, U, h, i, n, g)
      BY <1>8 DEF Reached
    <2>2. PICK g : Way(f, U, h, i, n, g)
      BY <2>0
    <2>3. n \in 0..c /\ n \in Nat
      OBVIOUS
    <2> DEFINE G == {j \in 0..n : at[j] = g[j] + 1}
    <2>4. \A j \in 0..n : g[j] \in Nat
      <3>1. g \in [0..n -> U]
        BY <2>2 DEF Way
      <3>2. \A i1 \in U : i1 \in Nat
        BY <1>8
      <3> QED BY <3>1, <3>2
    <2>5. 0 \in G
      BY <1>2, <2>2, <2>3 DEF Way
    <2>6. ASSUME NEW j \in 1..n, j - 1 \in G PROVE j \in G
      <3>1. j \in 1..c /\ j - 1 \in 0..n /\ j \in 0..n
        BY <2>3
      <3>2. f[g[j - 1]].next = g[j] + 1
        BY <2>2 DEF Way
      <3>3. at[j - 1] = g[j - 1] + 1 /\ g[j - 1] \in Nat
        BY <2>4, <2>6, <3>1
      <3>4. PICK u \in Nat : u = g[j - 1]
        BY <3>3
      <3>5. u + 1 # 0 /\ (u + 1) - 1 = u
        OBVIOUS
      <3>6. After(f, u + 1) = f[u].next
        BY <3>5 DEF After
      <3> QED BY <1>2, <3>1, <3>2, <3>3, <3>4, <3>6
    <2>7. n \in G
      <3>1. n \in 0..n
        BY <2>3
      <3> HIDE DEF G
      <3> QED BY <2>3, <2>5, <2>6, <3>1, UpTo
    <2>8. at[n] = i + 1 /\ i \in Nat
      BY <2>2, <2>7 DEF Way
    <2>9. n \in hits
      BY <1>8, <2>3, <2>8
    <2> HIDE DEF hits
    <2>10. Min(hits) \in hits
      BY <1>7, <2>9, LeastIs
    <2>11. at[Min(hits)] - 1 \in 0 .. c - 1 /\ at[Min(hits)] - 1 \in W
      BY <1>6, <2>10
    <2> QED BY <1>3, <1>8, <2>9, <2>11
  <1>9. ASSUME \A j \in 0 .. c - 1 : j \notin W PROVE Found(f, c, h, W) = -1
    <2>1. hits = {}
      BY <1>6, <1>9
    <2> QED BY <1>3, <2>1
  <1> QED BY <1>8, <1>9

(* A way that does not go through the place where next has changed stays.  *)
LEMMA WayStays ==
  ASSUME NEW f, NEW f1, NEW U, NEW U1, NEW a, NEW b, NEW n \in Nat, NEW g, Way(f, U, a, b, n, g),
         U \subseteq U1,
         \A i \in 1..n : f1[g[i - 1]].next = f[g[i - 1]].next
  PROVE  Way(f1, U1, a, b, n, g)
  BY DEF Way

(* Slot e, not one of U, is linked in right after slot x. *)
LinkedIn(f, f1, U, e, x) ==
  /\ f1[x].next = e + 1 /\ f1[e].next = f[x].next
  /\ \A i \in U : i # x => f1[i].next = f[i].next

(* One that does is longer by the new slot e. *)
LEMMA WayGrows ==
  ASSUME NEW f, NEW f1, NEW U, NEW U1, NEW a, NEW b, NEW n \in Nat, NEW g, Way(f, U, a, b, n, g),
         NEW p \in 0 .. n - 1, NEW e, e \in U1, e \notin U, U \subseteq U1,
         LinkedIn(f, f1, U, e, g[p])
  PROVE  \E g1 : Way(f1, U1, a, b, n + 1, g1)
  <1>3. g \in [0..n -> U] /\ U \subseteq U1 /\ e \in U1 /\ e \notin U
    BY DEF Way
  <1> DEFINE g1 == [j \in 0 .. n + 1 |-> IF j <= p THEN g[j] ELSE IF j = p + 1 THEN e ELSE g[j - 1]]
  <1>4. /\ \A j \in 0 .. n + 1 : j <= p => j \in 0..n
        /\ \A j \in 0 .. n + 1 : ~(j <= p) => j - 1 \in 0..n
    OBVIOUS
  <1>5. g1 \in [0 .. n + 1 -> U1]
    BY <1>3, <1>4
  <1>6. /\ \A j \in 0 .. n + 1 : j <= p => j \in 0..n /\ g1[j] = g[j]
        /\ g1[p + 1] = e
        /\ \A j \in 0 .. n + 1 : j > p + 1 => j - 1 \in 0..n /\ g1[j] = g[j - 1]
    OBVIOUS
  <1> HIDE DEF g1
  <1>7. g1[0] = a /\ g1[n + 1] = b
    <2>1. 0 \in 0 .. n + 1 /\ n + 1 \in 0 .. n + 1 /\ 0 <= p /\ n + 1 > p + 1 /\ n + 1 - 1 = n
      OBVIOUS
    <2>2. g[0] = a /\ g[n] = b
      BY DEF Way
    <2> QED BY <1>6, <2>1, <2>2
  <1>8. ASSUME NEW i \in 0 .. n + 1, NEW j \in 0 .. n + 1, g1[i] = g1[j] PROVE i = j
    <2>1. \A x, y \in 0..n : g[x] = g[y] => x = y
      BY DEF Way
    <2>2. \A x \in 0..n : g[x] # e
      BY <1>3
    <2>3. /\ i <= p \/ i = p + 1 \/ i > p + 1
          /\ j <= p \/ j = p + 1 \/ j > p + 1
      OBVIOUS
    <2>4. CASE i <= p
      <3>1. i \in 0..n /\ g1[i] = g[i]
        BY <1>6, <2>4
      <3>2. ~(j = p + 1)
        BY <1>6, <1>8, <2>2, <3>1
      <3>3. CASE j <= p
        BY <1>6, <1>8, <2>1, <3>1, <3>3
      <3>4. CASE j > p + 1
        <4>1. j - 1 \in 0..n /\ g1[j] = g[j - 1]
          BY <1>6, <3>4
        <4>2. i = j - 1
          BY <1>8, <2>1, <3>1, <4>1
        <4> QED BY <2>4, <3>4, <4>2
      <3> QED BY <2>3, <3>2, <3>3, <3>4
    <2>5. CASE i = p + 1
      <3>1. ~(j <= p) /\ ~(j > p + 1)
        BY <1>6, <1>8, <2>2, <2>5
      <3> QED BY <2>3, <2>5, <3>1
    <2>6. CASE i > p + 1
      <3>1. i - 1 \in 0..n /\ g1[i] = g[i - 1]
        BY <1>6, <2>6
      <3>2. ~(j = p + 1)
        BY <1>6, <1>8, <2>2, <3>1
      <3>3. CASE j <= p
        <4>1. j \in 0..n /\ g1[j] = g[j]
          BY <1>6, <3>3
        <4>2. j = i - 1
          BY <1>8, <2>1, <3>1, <4>1
        <4> QED BY <2>6, <3>3, <4>2
      <3>4. CASE j > p + 1
        <4>1. j - 1 \in 0..n /\ g1[j] = g[j - 1]
          BY <1>6, <3>4
        <4>2. i - 1 = j - 1
          BY <1>8, <2>1, <3>1, <4>1
        <4> QED BY <4>2
      <3> QED BY <2>3, <3>2, <3>3, <3>4
    <2> QED BY <2>3, <2>4, <2>5, <2>6
  <1>9. ASSUME NEW i \in 1 .. n + 1 PROVE f1[g1[i - 1]].next = g1[i] + 1
    <2>1. \A x \in 1..n : f[g[x - 1]].next = g[x] + 1
      BY DEF Way
    <2>2. \A x, y \in 0..n : g[x] = g[y] => x = y
      BY DEF Way
    <2>3. \A x \in 0..n : x # p => f1[g[x]].next = f[g[x]].next
      <3>1. \A x \in 0..n : g[x] \in U
        BY <1>3
      <3> QED BY <2>2, <3>1 DEF LinkedIn
    <2>4. i - 1 \in 0 .. n + 1 /\ i \in 0 .. n + 1 /\ p \in 0..n /\ p + 1 \in 1..n
      OBVIOUS
    <2>5. CASE i <= p
      <3>1. i - 1 <= p /\ i - 1 # p /\ i \in 1..n /\ i - 1 \in 0..n
        BY <2>5
      <3>2. g1[i - 1] = g[i - 1] /\ g1[i] = g[i]
        BY <1>6, <2>4, <2>5, <3>1
      <3> QED BY <2>1, <2>3, <3>1, <3>2
    <2>6. CASE i = p + 1
      <3>1. i - 1 = p
        BY <2>6
      <3>2. g1[i - 1] = g[p] /\ g1[i] = e
        BY <1>6, <2>4, <2>6, <3>1
      <3> QED BY <3>2 DEF LinkedIn
    <2>7. CASE i = p + 2
      <3>1. i - 1 = p + 1 /\ i > p + 1
        BY <2>7
      <3>2. g1[i - 1] = e /\ g1[i] = g[p + 1]
        BY <1>6, <2>4, <3>1
      <3>3. f[g[p]].next = g[p + 1] + 1
        <4>1. p + 1 - 1 = p
          OBVIOUS
        <4> QED BY <2>1, <2>4, <4>1
      <3> QED BY <3>2, <3>3 DEF LinkedIn
    <2>8. CASE i > p + 2
      <3>1. i - 1 > p + 1 /\ i > p + 1 /\ i - 1 \in 1..n /\ (i - 1) - 1 \in 0..n /\ (i - 1) - 1 # p
        BY <2>8
      <3>2. g1[i - 1] = g[(i - 1) - 1] /\ g1[i] = g[i - 1]
        BY <1>6, <2>4, <3>1
      <3> QED BY <2>1, <2>3, <3>1, <3>2
    <2> QED BY <2>5, <2>6, <2>7, <2>8
  <1> HIDE DEF g1
  <1>10. Way(f1, U1, a, b, n + 1, g1)
    BY <1>5, <1>7, <1>8, <1>9 DEF Way
  <1> QED BY <1>10

(* A new entry in slot e, the main position h or linked in right after it, *)
(* keeps every chain: nothing that could be found gets lost.               *)
LEMMA LinkKeeps ==
  ASSUME NEW f, NEW f1, NEW U, NEW e, e \notin U, NEW s \in Nat, NEW h,
         \/ e = h /\ \A i \in U : f1[i].next = f[i].next
         \/ /\ h \in U /\ s > 0
            /\ f1[h].next = e + 1 /\ f1[e].next = f[h].next
            /\ \A i \in U : i # h => f1[i].next = f[i].next
  PROVE  /\ Reached(f1, U \cup {e}, s + 1, h, e)
         /\ \A a, i : Reached(f, U, s, a, i) => Reached(f1, U \cup {e}, s + 1, a, i)
  <1>1. PICK U1 : U1 = U \cup {e}
    OBVIOUS
  <1>2. e \in U1 /\ U \subseteq U1
    BY <1>1
  <1>3. CASE e = h /\ \A i \in U : f1[i].next = f[i].next
    <2>1. Reached(f1, U1, s + 1, h, e)
      <3> DEFINE g == [j \in 0..0 |-> e]
      <3>1. g \in [0..0 -> U1] /\ g[0] = h /\ g[0] = e
        BY <1>2, <1>3
      <3>2. (\A i, j \in 0..0 : g[i] = g[j] => i = j) /\ \A i \in 1..0 : FALSE
        OBVIOUS
      <3> HIDE DEF g
      <3>3. Way(f1, U1, h, e, 0, g)
        BY <3>1, <3>2 DEF Way
      <3>4. 0 \in 0 .. (s + 1) - 1
        OBVIOUS
      <3> QED BY <3>3, <3>4 DEF Reached
    <2>2. ASSUME NEW a, NEW i, Reached(f, U, s, a, i) PROVE Reached(f1, U1, s + 1, a, i)
      <3>1. PICK n \in 0 .. s - 1 : \E g : Way(f, U, a, i, n, g)
        BY <2>2 DEF Reached
      <3>2. PICK g : Way(f, U, a, i, n, g)
        BY <3>1
      <3>3. \A j \in 1..n : f1[g[j - 1]].next = f[g[j - 1]].next
        <4>1. g \in [0..n -> U]
          BY <3>2 DEF Way
        <4>2. \A j \in 1..n : j - 1 \in 0..n
          OBVIOUS
        <4> QED BY <1>3, <4>1, <4>2
      <3>4. n \in Nat /\ n \in 0 .. (s + 1) - 1
        OBVIOUS
      <3>5. Way(f1, U1, a, i, n, g)
        BY <1>2, <3>2, <3>3, <3>4, WayStays
      <3> QED BY <3>4, <3>5 DEF Reached
    <2> QED BY <1>1, <2>1, <2>2
  <1>4. CASE /\ h \in U /\ s > 0
             /\ f1[h].next = e + 1 /\ f1[e].next = f[h].next
             /\ \A i \in U : i # h => f1[i].next = f[i].next
    <2>1. Reached(f1, U1, s + 1, h, e)
      <3> DEFINE g == [j \in 0..1 |-> IF j = 0 THEN h ELSE e]
      <3>1. g \in [0..1 -> U1] /\ g[0] = h /\ g[1] = e
        BY <1>2, <1>4
      <3>2. \A j \in 0..1 : j = 0 \/ j = 1
        OBVIOUS
      <3>3. (\A j \in 1..1 : j = 1) /\ 1 - 1 = 0
        OBVIOUS
      <3> HIDE DEF g
      <3>4. \A i, j \in 0..1 : g[i] = g[j] => i = j
        BY <1>4, <3>1, <3>2
      <3>5. \A i \in 1..1 : f1[g[i - 1]].next = g[i] + 1
        BY <1>4, <3>1, <3>3
      <3>6. Way(f1, U1, h, e, 1, g)
        BY <3>1, <3>4, <3>5 DEF Way
      <3>7. 1 \in 0 .. (s + 1) - 1
        BY <1>4
      <3> QED BY <3>6, <3>7 DEF Reached
    <2>2. ASSUME NEW a, NEW i, Reached(f, U, s, a, i) PROVE Reached(f1, U1, s + 1, a, i)
      <3>1. PICK n \in 0 .. s - 1 : \E g : Way(f, U, a, i, n, g)
        BY <2>2 DEF Reached
      <3>2. PICK g : Way(f, U, a, i, n, g)
        BY <3>1
      <3>3. g \in [0..n -> U] /\ n \in Nat
        BY <3>2 DEF Way
      <3>4. CASE \E p \in 0 .. n - 1 : g[p] = h
        <4>1. PICK p \in 0 .. n - 1 : g[p] = h
          BY <3>4
        <4>2. LinkedIn(f, f1, U, e, g[p])
          BY <1>4, <4>1 DEF LinkedIn
        <4>3. PICK g1 : Way(f1, U1, a, i, n + 1, g1)
          <5>1. n \in Nat /\ e \in U1 /\ e \notin U /\ U \subseteq U1
            BY <1>2, <3>3
          <5> QED BY <3>2, <4>2, <5>1, WayGrows
        <4>4. n + 1 \in 0 .. (s + 1) - 1
          OBVIOUS
        <4> QED BY <4>3, <4>4 DEF Reached
      <3>5. CASE ~\E p \in 0 .. n - 1 : g[p] = h
        <4>1. \A j \in 1..n : f1[g[j - 1]].next = f[g[j - 1]].next
          <5>1. \A j \in 1..n : j - 1 \in 0..n /\ j - 1 \in 0 .. n - 1
            OBVIOUS
          <5> QED BY <1>4, <3>3, <3>5, <5>1
        <4>2. Way(f1, U1, a, i, n, g)
          BY <1>2, <3>2, <3>3, <4>1, WayStays
        <4>3. n \in 0 .. (s + 1) - 1
          OBVIOUS
        <4> QED BY <4>2, <4>3 DEF Reached
      <3> QED BY <3>4, <3>5
    <2> QED BY <1>1, <2>1, <2>2
  <1> QED BY <1>3, <1>4

-----------------------------------------------------------------------------
(***************************************************************************)
(* map_sp.                                                                 *)
(***************************************************************************)
Slots(m) == 0 .. m.cap - 1
Used(m) == {i \in Slots(m) : m.slot[i].key # NULL}
SlotType(c) == [key : Keys \cup {NULL}, pointer : Values \cup {NULL}, next : 0..c]

(* A key is in one slot, size counts the slots used.                       *)
Shape(m) ==
  /\ m \in [cap : Nat \ {0}, size : Nat, slot : [Slots(m) -> SlotType(m.cap)]]
  /\ \A i \in Slots(m) : IF m.slot[i].key = NULL THEN m.slot[i] = FreeSpSlot
                                                 ELSE m.slot[i].pointer \in Values
  /\ \A i, j \in Used(m) : m.slot[i].key = m.slot[j].key => i = j
  /\ IsFiniteSet(Used(m)) /\ Cardinality(Used(m)) = m.size

(* Every key can be reached from the main position of its hash. *)
Table(hf, m) ==
  /\ Shape(m)
  /\ \A i \in Used(m) : Reached(m.slot, Used(m), m.size, hf[m.slot[i].key] % m.cap, i)

Holds(m, k, v) == \E i \in Slots(m) : m.slot[i].key = k /\ m.slot[i].pointer = v

LEMMA SlotsAreFinite ==
  ASSUME NEW m, Shape(m)
  PROVE  /\ IsFiniteSet(Slots(m)) /\ Cardinality(Slots(m)) = m.cap
         /\ m.size <= m.cap /\ m.size \in Nat /\ m.cap \in Nat \ {0}
         /\ (m.size = m.cap => Used(m) = Slots(m))
  <1>1. PICK c \in Nat \ {0} : c = m.cap
    BY DEF Shape
  <1>2. IsFiniteSet(0 .. c - 1) /\ Cardinality(0 .. c - 1) = c
    <2>1. c - 1 \in Int /\ 0 \in Int /\ (0 > c - 1) = FALSE
      BY <1>1
    <2>2. Cardinality(0 .. c - 1) = (c - 1) - 0 + 1
      BY <2>1, FS_Interval
    <2>3. IsFiniteSet(0 .. c - 1)
      BY <2>1, FS_Interval
    <2> QED BY <2>2, <2>3
  <1>3. Slots(m) = 0 .. c - 1
    BY <1>1 DEF Slots
  <1>4. Used(m) \in SUBSET Slots(m)
    BY DEF Used
  <1>5. PICK S : S = Slots(m)
    OBVIOUS
  <1>6. PICK U : U = Used(m)
    OBVIOUS
  <1>7. IsFiniteSet(S) /\ Cardinality(S) = c /\ U \in SUBSET S
    BY <1>2, <1>3, <1>4, <1>5, <1>6
  <1>8. Cardinality(U) <= Cardinality(S) /\ (Cardinality(U) = Cardinality(S) => U = S)
    BY <1>7, FS_Subset
  <1>9. Cardinality(U) = m.size /\ m.size \in Nat
    BY <1>6 DEF Shape
  <1> QED BY <1>1, <1>5, <1>6, <1>7, <1>8, <1>9

(* _pbcM_sp_query: a key that is there is found where it is.               *)
LEMMA FindIs ==
  ASSUME NEW m, Table(hash, m), hash \in [Keys -> Nat], NEW k \in Keys
  PROVE  /\ \A i \in Slots(m) : m.slot[i].key = k => SpFind(m, k) = i
         /\ (\A i \in Slots(m) : m.slot[i].key # k) => SpFind(m, k) = -1
  <1>1. PICK c \in Nat \ {0} : c = m.cap
    BY DEF Table, Shape
  <1>2. Slots(m) = 0 .. c - 1
    BY <1>1 DEF Slots
  <1>3. PICK f \in [0 .. c - 1 -> SlotType(c)] : f = m.slot
    BY <1>1, <1>2 DEF Table, Shape
  <1>4. Linked(c, f)
    BY DEF Linked, SlotType
  <1>5. PICK h \in 0 .. c - 1 : h = hash[k] % c
    <2>1. PICK x \in Nat : x = hash[k]
      OBVIOUS
    <2>2. x % c \in 0 .. c - 1
      OBVIOUS
    <2> QED BY <2>1, <2>2
  <1>6. PICK W : W = {i \in 0 .. c - 1 : f[i].key = k}
    OBVIOUS
  <1>7. SpFind(m, k) = Found(f, c, h, W)
    BY <1>1, <1>3, <1>5, <1>6 DEF SpFind
  <1>8. ASSUME NEW i \in Slots(m), m.slot[i].key = k PROVE SpFind(m, k) = i
    <2>1. k # NULL
      BY MapAssumption
    <2>2. i \in Used(m)
      BY <1>8, <2>1 DEF Used
    <2>3. PICK U : U = Used(m)
      OBVIOUS
    <2>4. PICK s \in 0..c : s = m.size
      BY <1>1, SlotsAreFinite DEF Table
    <2>5. Reached(f, U, s, h, i)
      BY <1>1, <1>3, <1>5, <1>8, <2>2, <2>3, <2>4 DEF Table
    <2>6. U \subseteq 0 .. c - 1 /\ i \in 0 .. c - 1 /\ i \in W
      BY <1>2, <1>3, <1>6, <1>8, <2>3 DEF Used
    <2>7. \A j \in 0 .. c - 1 : j \in W => j = i
      BY <1>2, <1>3, <1>6, <1>8, <2>1 DEF Table, Shape, Used
    <2>8. Found(f, c, h, W) = i
      BY <1>4, <2>5, <2>6, <2>7, FoundIs
    <2> QED BY <1>7, <2>8
  <1>9. ASSUME \A i \in Slots(m) : m.slot[i].key # k PROVE SpFind(m, k) = -1
    <2>1. \A j \in 0 .. c - 1 : j \notin W
      BY <1>2, <1>3, <1>6, <1>9
    <2> QED BY <1>4, <1>7, <2>1, FoundIs
  <1> QED BY <1>8, <1>9

(* The loop of _pbcM_sp_insert_hash ends at a free slot unless all are used. *)
LEMMA NextFreeIs ==
  ASSUME NEW m, Shape(m), m.size < m.cap, NEW i \in Slots(m)
  PROVE  NextFree(m, i) \in Slots(m) /\ m.slot[NextFree(m, i)].key = NULL
  <1>1. PICK c \in Nat \ {0} : c = m.cap
    BY DEF Shape
  <1>2. Slots(m) = 0 .. c - 1
    BY <1>1 DEF Slots
  <1>3. PICK j \in 0 .. c - 1 : m.slot[j].key = NULL
    <2>1. Used(m) # Slots(m)
      <3>1. SUFFICES ASSUME Used(m) = Slots(m) PROVE FALSE
        OBVIOUS
      <3>2. m.size = Cardinality(Used(m)) /\ Cardinality(Slots(m)) = m.cap
        BY SlotsAreFinite DEF Shape
      <3>3. m.size = m.cap
        BY <3>1, <3>2
      <3> QED BY <1>1, <3>3
    <2> QED BY <1>2, <2>1 DEF Used
  <1> DEFINE free == {d \in 0 .. c - 1 : m.slot[(i + d) % c].key = NULL}
             d0 == IF j >= i THEN j - i ELSE j - i + c
  <1>4. i \in 0 .. c - 1 /\ d0 \in 0 .. c - 1 /\ (i + d0) % c = j
    <2>1. i \in 0 .. c - 1
      BY <1>2
    <2>2. CASE j >= i
      <3>1. d0 = j - i /\ i + d0 = j
        BY <2>1, <2>2
      <3>2. j % c = j
        OBVIOUS
      <3> QED BY <2>1, <2>2, <3>1, <3>2
    <2>3. CASE ~(j >= i)
      <3>1. d0 = j - i + c /\ i + d0 = j + c
        BY <2>1, <2>3
      <3>2. (j + c) % c = j
        OBVIOUS
      <3> QED BY <2>1, <2>3, <3>1, <3>2
    <2> QED BY <2>2, <2>3
  <1>5. free \in SUBSET Nat /\ d0 \in free
    BY <1>3, <1>4
  <1>6. Min(free) \in free
    <2> HIDE DEF free
    <2> QED BY <1>5, LeastIs
  <1>7. PICK d \in 0 .. c - 1 : d = Min(free) /\ m.slot[(i + d) % c].key = NULL
    BY <1>6
  <1>8. (i + d) % c \in 0 .. c - 1
    BY <1>4
  <1>9. NextFree(m, i) = (i + d) % c
    BY <1>1, <1>7 DEF NextFree
  <1> QED BY <1>2, <1>7, <1>8, <1>9

(* The entry is in slot e: the main position h, or linked in right after it. *)
Placed(m, m1, h, e, k, v) ==
  /\ h \in Slots(m) /\ e \in Slots(m) /\ m.slot[e].key = NULL
  /\ m1 \in [cap : Nat \ {0}, size : Nat, slot : [Slots(m) -> SlotType(m.cap)]]
  /\ m1.cap = m.cap /\ m1.size = m.size + 1
  /\ m1.slot[e].key = k /\ m1.slot[e].pointer = v
  /\ \A i \in Slots(m) \ {e} : /\ m1.slot[i].key = m.slot[i].key
                               /\ m1.slot[i].pointer = m.slot[i].pointer
  /\ \/ e = h /\ \A i \in Slots(m) : m1.slot[i].next = m.slot[i].next
     \/ /\ m.slot[h].key # NULL /\ e # h
        /\ m1.slot[h].next = e + 1 /\ m1.slot[e].next = m.slot[h].next
        /\ \A i \in Slots(m) \ {e, h} : m1.slot[i].next = m.slot[i].next

LEMMA SpPlaceIs ==
  ASSUME NEW m, Shape(m), m.size < m.cap, hash \in [Keys -> Nat],
         NEW k \in Keys, NEW v \in Values
  PROVE  \E e \in Slots(m) : Placed(m, SpPlace(m, k, v), hash[k] % m.cap, e, k, v)
  <1>1. PICK c \in Nat \ {0} : c = m.cap
    BY DEF Shape
  <1>2. Slots(m) = 0 .. c - 1
    BY <1>1 DEF Slots
  <1>3. PICK h \in 0 .. c - 1 : h = hash[k] % c
    <2>1. PICK x \in Nat : x = hash[k]
      OBVIOUS
    <2>2. x % c \in 0 .. c - 1
      OBVIOUS
    <2> QED BY <2>1, <2>2
  <1>4. (h + 1) % c \in 0 .. c - 1
    OBVIOUS
  <1>5. PICK e \in 0 .. c - 1 : e = NextFree(m, (h + 1) % c) /\ m.slot[e].key = NULL
    <2>1. PICK i \in Slots(m) : i = (h + 1) % c
      BY <1>2, <1>4
    <2>2. NextFree(m, i) \in Slots(m) /\ m.slot[NextFree(m, i)].key = NULL
      BY NextFreeIs
    <2> QED BY <1>2, <2>1, <2>2
  <1>6. PICK f \in [0 .. c - 1 -> SlotType(c)] : f = m.slot
    BY <1>1, <1>2 DEF Shape
  <1>7. m \in [cap : Nat \ {0}, size : Nat, slot : [0 .. c - 1 -> SlotType(c)]]
    BY <1>1, <1>2 DEF Shape
  <1>8. v \in Values \cup {NULL} /\ k \in Keys \cup {NULL} /\ e + 1 \in 0..c
    OBVIOUS
  <1>9. CASE f[h].key = NULL
    <2> DEFINE f1 == [f EXCEPT ![h].key = k, ![h].pointer = v]
               m1 == [cap |-> c, size |-> m.size + 1, slot |-> f1]
    <2>1. SpPlace(m, k, v) = m1
      BY <1>1, <1>3, <1>6, <1>9 DEF SpPlace
    <2>2. /\ f1 \in [0 .. c - 1 -> SlotType(c)]
          /\ f1[h].key = k /\ f1[h].pointer = v
          /\ \A i \in 0 .. c - 1 : f1[i].next = f[i].next /\ (i # h => f1[i] = f[i])
      BY <1>8 DEF SlotType
    <2> HIDE DEF f1
    <2>3. /\ m1 \in [cap : Nat \ {0}, size : Nat, slot : [0 .. c - 1 -> SlotType(c)]]
          /\ m1.cap = c /\ m1.size = m.size + 1 /\ m1.slot = f1
      BY <1>7, <2>2
    <2> HIDE DEF m1
    <2>4. Placed(m, m1, h, h, k, v)
      BY <1>1, <1>2, <1>6, <1>9, <2>2, <2>3 DEF Placed
    <2> QED BY <1>1, <1>2, <1>3, <2>1, <2>4
  <1>10. CASE f[h].key # NULL
    <2> DEFINE r == [key |-> k, pointer |-> v, next |-> f[h].next]
               f1 == [f EXCEPT ![e] = r, ![h].next = e + 1]
               m1 == [cap |-> c, size |-> m.size + 1, slot |-> f1]
    <2>1. SpPlace(m, k, v) = m1
      BY <1>1, <1>3, <1>5, <1>6, <1>10 DEF SpPlace
    <2>2. e # h
      BY <1>5, <1>6, <1>10
    <2>3. r \in SlotType(c)
      BY <1>8 DEF SlotType
    <2>4. /\ f1 \in [0 .. c - 1 -> SlotType(c)]
          /\ f1[e] = r /\ f1[h].next = e + 1 /\ f1[h].key = f[h].key /\ f1[h].pointer = f[h].pointer
          /\ \A i \in 0 .. c - 1 : i # e /\ i # h => f1[i] = f[i]
      <3> HIDE DEF r
      <3> QED BY <1>8, <2>2, <2>3 DEF SlotType
    <2>5. f1[e].key = k /\ f1[e].pointer = v /\ f1[e].next = f[h].next
      BY <2>4
    <2> HIDE DEF f1, r
    <2>6. /\ m1 \in [cap : Nat \ {0}, size : Nat, slot : [0 .. c - 1 -> SlotType(c)]]
          /\ m1.cap = c /\ m1.size = m.size + 1 /\ m1.slot = f1
      BY <1>7, <2>4
    <2> HIDE DEF m1
    <2>7. Placed(m, m1, h, e, k, v)
      BY <1>1, <1>2, <1>5, <1>6, <1>10, <2>2, <2>4, <2>5, <2>6 DEF Placed
    <2> QED BY <1>1, <1>2, <1>3, <2>1, <2>7
  <1> QED BY <1>9, <1>10

LEMMA PlacedShape ==
  ASSUME NEW m, NEW m1, Shape(m), NEW k \in Keys, NEW v \in Values, NEW h, NEW e,
         Placed(m, m1, h, e, k, v), \A i \in Slots(m) : m.slot[i].key # k
  PROVE  /\ Shape(m1)
         /\ Slots(m1) = Slots(m)
         /\ Used(m1) = Used(m) \cup {e}
  <1>1. PICK c \in Nat \ {0} : c = m.cap /\ c = m1.cap
    BY DEF Shape, Placed
  <1>2. Slots(m1) = 0 .. c - 1 /\ Slots(m) = 0 .. c - 1
    BY <1>1 DEF Slots
  <1>3. PICK f \in [0 .. c - 1 -> SlotType(c)] : f = m.slot
    BY <1>1, <1>2 DEF Shape
  <1>4. PICK f1 \in [0 .. c - 1 -> SlotType(c)] : f1 = m1.slot
    BY <1>1, <1>2 DEF Placed
  <1>5. /\ e \in 0 .. c - 1 /\ f[e].key = NULL /\ f1[e].key = k /\ f1[e].pointer = v
        /\ \A i \in 0 .. c - 1 : i # e => f1[i].key = f[i].key /\ f1[i].pointer = f[i].pointer
    BY <1>2, <1>3, <1>4 DEF Placed
  <1>6. k # NULL
    BY MapAssumption
  <1>7. /\ Used(m) = {i \in 0 .. c - 1 : f[i].key # NULL}
        /\ Used(m1) = {i \in 0 .. c - 1 : f1[i].key # NULL}
    BY <1>2, <1>3, <1>4 DEF Used
  <1>8. Used(m1) = Used(m) \cup {e} /\ e \notin Used(m)
    BY <1>5, <1>6, <1>7
  <1>9. m1 \in [cap : Nat \ {0}, size : Nat, slot : [Slots(m1) -> SlotType(m1.cap)]]
    BY <1>1, <1>2 DEF Placed
  <1>10. ASSUME NEW i \in 0 .. c - 1
         PROVE  IF f1[i].key = NULL THEN f1[i] = FreeSpSlot ELSE f1[i].pointer \in Values
    <2>1. CASE i = e
      BY <1>5, <1>6, <2>1
    <2>2. CASE i # e
      <3>1. f1[i].key = f[i].key /\ f1[i].pointer = f[i].pointer
        BY <1>5, <2>2
      <3>2. IF f[i].key = NULL THEN f[i] = FreeSpSlot ELSE f[i].pointer \in Values
        BY <1>2, <1>3 DEF Shape
      <3>3. CASE f[i].key # NULL
        BY <3>1, <3>2, <3>3
      <3>4. CASE f[i].key = NULL
        <4>1. f1[i].next = f[i].next
          BY <1>2, <1>3, <1>4, <2>2, <3>4 DEF Placed
        <4>2. f[i] \in SlotType(c) /\ f1[i] \in SlotType(c)
          OBVIOUS
        <4>3. f1[i] = f[i]
          BY <3>1, <4>1, <4>2 DEF SlotType
        <4> QED BY <3>2, <3>4, <4>3
      <3> QED BY <3>3, <3>4
    <2> QED BY <2>1, <2>2
  <1>11. ASSUME NEW i \in Used(m1), NEW j \in Used(m1), f1[i].key = f1[j].key PROVE i = j
    <2>1. \A x \in Used(m) : x \in 0 .. c - 1 /\ x # e /\ f1[x].key = f[x].key /\ f[x].key # k
      <3>1. \A x \in 0 .. c - 1 : f[x].key # k
        BY <1>2, <1>3
      <3> QED BY <1>5, <1>7, <1>8, <3>1
    <2>2. \A x, y \in Used(m) : f[x].key = f[y].key => x = y
      BY <1>3 DEF Shape
    <2> QED BY <1>5, <1>8, <1>11, <2>1, <2>2
  <1>12. IsFiniteSet(Used(m1)) /\ Cardinality(Used(m1)) = m1.size
    <2>1. PICK U : U = Used(m)
      OBVIOUS
    <2>2. IsFiniteSet(U) /\ Cardinality(U) = m.size
      BY <2>1 DEF Shape
    <2>3. IsFiniteSet(U \cup {e}) /\ Cardinality(U \cup {e}) = Cardinality(U) + 1
      BY <1>8, <2>1, <2>2, FS_AddElement
    <2>4. m1.size = m.size + 1
      BY DEF Placed
    <2> QED BY <1>8, <2>1, <2>2, <2>3, <2>4
  <1>13. Shape(m1)
    BY <1>2, <1>4, <1>9, <1>10, <1>11, <1>12 DEF Shape
  <1> QED BY <1>2, <1>8, <1>13

LEMMA PlacedTable ==
  ASSUME NEW hf \in [Keys -> Nat], NEW m, NEW m1, Table(hf, m), NEW k \in Keys, NEW v \in Values,
         NEW e, Placed(m, m1, hf[k] % m.cap, e, k, v), \A i \in Slots(m) : m.slot[i].key # k
  PROVE  Table(hf, m1)
  <1>1. PICK h : h = hf[k] % m.cap
    OBVIOUS
  <1>2. Placed(m, m1, h, e, k, v) /\ Shape(m)
    BY <1>1 DEF Table
  <1>3. Shape(m1) /\ Slots(m1) = Slots(m) /\ Used(m1) = Used(m) \cup {e}
    BY <1>2, PlacedShape
  <1>4. m1.cap = m.cap /\ m1.size = m.size + 1 /\ m.size \in Nat /\ e \notin Used(m)
    BY <1>2 DEF Placed, Shape, Used
  <1>5. PICK s \in Nat : s = m.size
    BY <1>4
  <1>6. PICK U : U = Used(m)
    OBVIOUS
  <1>7. e \in Slots(m) /\ h \in Slots(m) /\ m1.slot[e].key = k
    BY <1>2 DEF Placed
  <1>8. \/ e = h /\ \A i \in U : m1.slot[i].next = m.slot[i].next
        \/ /\ h \in U /\ s > 0
           /\ m1.slot[h].next = e + 1 /\ m1.slot[e].next = m.slot[h].next
           /\ \A i \in U : i # h => m1.slot[i].next = m.slot[i].next
    <2>1. CASE e = h /\ \A i \in Slots(m) : m1.slot[i].next = m.slot[i].next
      BY <1>6, <2>1 DEF Used
    <2>2. CASE /\ m.slot[h].key # NULL /\ e # h
               /\ m1.slot[h].next = e + 1 /\ m1.slot[e].next = m.slot[h].next
               /\ \A i \in Slots(m) \ {e, h} : m1.slot[i].next = m.slot[i].next
      <3>1. h \in U
        BY <1>6, <1>7, <2>2 DEF Used
      <3>2. \E n \in 0 .. s - 1 : TRUE
        BY <1>5, <1>6, <3>1 DEF Table, Reached
      <3>3. s > 0
        BY <3>2
      <3> QED BY <1>4, <1>6, <2>2, <3>1, <3>3 DEF Used
    <2> QED BY <1>2, <2>1, <2>2 DEF Placed
  <1>9. /\ Reached(m1.slot, U \cup {e}, s + 1, h, e)
        /\ \A a, i : Reached(m.slot, U, s, a, i) => Reached(m1.slot, U \cup {e}, s + 1, a, i)
    BY <1>4, <1>6, <1>8, LinkKeeps
  <1>10. ASSUME NEW i \in Used(m1)
         PROVE  Reached(m1.slot, Used(m1), m1.size, hf[m1.slot[i].key] % m1.cap, i)
    <2>1. CASE i = e
      BY <1>1, <1>3, <1>4, <1>5, <1>6, <1>7, <1>9, <2>1
    <2>2. CASE i # e
      <3>1. i \in U /\ i \in Slots(m)
        BY <1>3, <1>6, <2>2 DEF Used
      <3>2. m1.slot[i].key = m.slot[i].key
        BY <1>2, <2>2, <3>1 DEF Placed
      <3>3. Reached(m.slot, U, s, hf[m.slot[i].key] % m.cap, i)
        BY <1>5, <1>6, <3>1 DEF Table
      <3> QED BY <1>3, <1>4, <1>5, <1>6, <1>9, <3>2, <3>3
    <2> QED BY <2>1, <2>2
  <1> QED BY <1>3, <1>10 DEF Table

LEMMA PlacedHolds ==
  ASSUME NEW m, NEW m1, Shape(m), NEW k \in Keys, NEW v \in Values, NEW h, NEW e,
         Placed(m, m1, h, e, k, v), \A i \in Slots(m) : m.slot[i].key # k
  PROVE  \A x \in Keys : \A u : Holds(m1, x, u) <=> (Holds(m, x, u) \/ (x = k /\ u = v))
  <1>1. Slots(m1) = Slots(m)
    BY PlacedShape
  <1>2. \A x \in Keys : x # NULL
    BY MapAssumption
  <1> QED BY <1>1, <1>2 DEF Placed, Holds

LEMMA EmptyTable ==
  ASSUME NEW hf, NEW n \in Nat \ {0}
  PROVE  /\ Table(hf, FreeMap(n)) /\ FreeMap(n).cap = n /\ FreeMap(n).size = 0
         /\ \A i \in Slots(FreeMap(n)) : FreeMap(n).slot[i].key = NULL
  <1>0. PICK m : m = FreeMap(n)
    OBVIOUS
  <1>1. m.cap = n /\ m.size = 0 /\ m.slot = [i \in 0 .. n - 1 |-> FreeSpSlot]
    BY <1>0 DEF FreeMap
  <1>2. Slots(m) = 0 .. n - 1
    BY <1>1 DEF Slots
  <1>3. FreeSpSlot \in SlotType(n) /\ FreeSpSlot.key = NULL
    BY DEF FreeSpSlot, SlotType
  <1>4. \A i \in 0 .. n - 1 : m.slot[i] = FreeSpSlot
    BY <1>1
  <1>5. Used(m) = {}
    BY <1>2, <1>3, <1>4 DEF Used
  <1>6. IsFiniteSet({}) /\ Cardinality({}) = 0
    BY FS_EmptySet
  <1>7. m \in [cap : Nat \ {0}, size : Nat, slot : [0 .. n - 1 -> SlotType(n)]]
    <2>1. PICK f : f = [i \in 0 .. n - 1 |-> FreeSpSlot]
      OBVIOUS
    <2>2. f \in [0 .. n - 1 -> SlotType(n)]
      BY <1>3, <2>1
    <2>3. m = [cap |-> n, size |-> 0, slot |-> f]
      BY <1>0, <2>1 DEF FreeMap
    <2> QED BY <2>2, <2>3
  <1>8. Shape(m)
    BY <1>1, <1>2, <1>3, <1>4, <1>5, <1>6, <1>7 DEF Shape
  <1> QED BY <1>0, <1>1, <1>2, <1>3, <1>4, <1>5, <1>8 DEF Table

LEMMA SpPlaceKeeps ==
  ASSUME NEW m, Table(hash, m), hash \in [Keys -> Nat], m.size < m.cap,
         NEW k \in Keys, NEW v \in Values, \A i \in Slots(m) : m.slot[i].key # k
  PROVE  /\ Table(hash, SpPlace(m, k, v))
         /\ SpPlace(m, k, v).cap = m.cap /\ SpPlace(m, k, v).size = m.size + 1
         /\ \A x \in Keys : \A u : Holds(SpPlace(m, k, v), x, u) <=> (Holds(m, x, u) \/ (x = k /\ u = v))
  <1>1. PICK e \in Slots(m) : Placed(m, SpPlace(m, k, v), hash[k] % m.cap, e, k, v)
    BY SpPlaceIs DEF Table
  <1>2. Table(hash, SpPlace(m, k, v))
    BY <1>1, PlacedTable
  <1>3. \A x \in Keys : \A u : Holds(SpPlace(m, k, v), x, u) <=> (Holds(m, x, u) \/ (x = k /\ u = v))
    BY <1>1, PlacedHolds DEF Table
  <1> QED BY <1>1, <1>2, <1>3 DEF Placed

(* _pbcM_sp_rehash: the entries of a full table in one of twice the slots. *)
LEMMA RehashKeeps ==
  ASSUME NEW m, Table(hash, m), hash \in [Keys -> Nat], m.size = m.cap
  PROVE  /\ Table(hash, SpRehash(m))
         /\ SpRehash(m).size < SpRehash(m).cap
         /\ \A x \in Keys : \A u : Holds(SpRehash(m), x, u) <=> Holds(m, x, u)
  <1>1. PICK c \in Nat \ {0} : c = m.cap /\ c = m.size
    BY DEF Table, Shape
  <1>2. Slots(m) = 0 .. c - 1
    BY <1>1 DEF Slots
  <1>3. PICK f \in [0 .. c - 1 -> SlotType(c)] : f = m.slot
    BY <1>1, <1>2 DEF Table, Shape
  <1>4. \A i \in 0 .. c - 1 : f[i].key \in Keys /\ f[i].pointer \in Values
    <2>1. Used(m) = Slots(m)
      BY SlotsAreFinite DEF Table
    <2> TAKE i \in 0 .. c - 1
    <2>2. f[i].key # NULL
      BY <1>2, <1>3, <2>1 DEF Used
    <2>3. f[i].key \in Keys \cup {NULL}
      BY DEF SlotType
    <2> QED BY <1>2, <1>3, <2>2, <2>3 DEF Table, Shape
  <1>5. \A i, j \in 0 .. c - 1 : f[i].key = f[j].key => i = j
    <2>1. Used(m) = 0 .. c - 1
      BY <1>2, SlotsAreFinite DEF Table
    <2> QED BY <1>3, <2>1 DEF Table, Shape
  <1> DEFINE empty == FreeMap(2 * c)
             From(g, j) == SpPlace(g[j - 1], f[j - 1].key, f[j - 1].pointer)
             Is(i, g) == g = [j \in 0..i |-> IF j = 0 THEN empty ELSE From(g, j)]
             put == CHOOSE g : Is(c, g)
  <1>6. SpRehash(m) = put[c]
    BY <1>1, <1>3 DEF SpRehash
  <1>7. PICK z : z = empty
    OBVIOUS
  <1> HIDE DEF empty
  <1>8. \E g : Is(c, g)
    <2> DEFINE G == {i \in 0..c : \E g : Is(i, g)}
    <2>1. 0 \in G
      <3>1. Is(0, [j \in 0..0 |-> empty])
        OBVIOUS
      <3>2. 0 \in 0..c
        OBVIOUS
      <3> HIDE DEF Is
      <3> QED BY <3>1, <3>2
    <2>2. ASSUME NEW i \in 1..c, i - 1 \in G PROVE i \in G
      <3>1. PICK g : Is(i - 1, g)
        BY <2>2
      <3>2. PICK last : last = From(g, i)
        OBVIOUS
      <3> DEFINE h == [j \in 0..i |-> IF j = i THEN last ELSE g[j]]
      <3>3. h[i] = last /\ (\A j \in 0..i-1 : h[j] = g[j]) /\ i # 0
        OBVIOUS
      <3>4. DOMAIN h = 0..i /\ h = [j \in 0..i |-> h[j]]
        OBVIOUS
      <3> HIDE DEF h
      <3>5. \A j \in 0..i : h[j] = IF j = 0 THEN empty ELSE From(h, j)
        <4> TAKE j \in 0..i
        <4>1. \A y \in 0..i-1 : g[y] = IF y = 0 THEN empty ELSE From(g, y)
          BY <3>1
        <4>2. CASE j = i
          <5>1. i - 1 \in 0..i-1
            OBVIOUS
          <5>2. From(h, i) = From(g, i)
            BY <3>3, <5>1
          <5> QED BY <3>2, <3>3, <4>2, <5>2
        <4>3. CASE j = 0
          <5>1. 0 \in 0..i-1
            OBVIOUS
          <5> QED BY <3>3, <4>1, <4>3, <5>1
        <4>4. CASE j # i /\ j # 0
          <5>1. j \in 0..i-1 /\ j - 1 \in 0..i-1
            BY <4>4
          <5>2. From(h, j) = From(g, j)
            BY <3>3, <5>1
          <5> HIDE DEF From
          <5> QED BY <3>3, <4>1, <4>4, <5>1, <5>2
        <4> QED BY <4>2, <4>3, <4>4
      <3>6. Is(i, h)
        <4> HIDE DEF From
        <4> QED BY <3>4, <3>5
      <3> HIDE DEF Is
      <3> QED BY <3>6
    <2>3. \A i \in 0..c : i \in G
      <3> HIDE DEF G
      <3> QED BY <2>1, <2>2, UpTo
    <2>4. c \in 0..c
      OBVIOUS
    <2> HIDE DEF Is
    <2> QED BY <2>3, <2>4
  <1>9. Is(c, put)
    <2> HIDE DEF Is
    <2> QED BY <1>8
  <1> HIDE DEF put
  <1>10. put[0] = empty /\ \A j \in 1..c : put[j] = From(put, j)
    <2>1. \A j \in 0..c : put[j] = IF j = 0 THEN empty ELSE From(put, j)
      <3> HIDE DEF From
      <3> QED BY <1>9
    <2>2. 0 \in 0..c /\ \A j \in 1..c : j \in 0..c /\ j # 0
      OBVIOUS
    <2> HIDE DEF From
    <2> QED BY <2>1, <2>2
  <1> HIDE DEF Is
  <1> DEFINE Good(i, r) ==
               /\ Table(hash, r) /\ r.cap = 2 * c /\ r.size = i
               /\ \A x \in Keys : \A u : Holds(r, x, u) <=>
                                       (\E j \in 0 .. i - 1 : f[j].key = x /\ f[j].pointer = u)
             G == {i \in 0..c : Good(i, put[i])}
  <1>11. 0 \in G
    <2>1. PICK r : r = empty
      OBVIOUS
    <2>2. PICK n \in Nat \ {0} : n = 2 * c
      OBVIOUS
    <2>3. Table(hash, r) /\ r.cap = 2 * c /\ r.size = 0 /\ \A i \in Slots(r) : r.slot[i].key = NULL
      <3>1. r = FreeMap(n)
        BY <2>1, <2>2 DEF empty
      <3>2. /\ Table(hash, FreeMap(n)) /\ FreeMap(n).cap = n /\ FreeMap(n).size = 0
            /\ \A i \in Slots(FreeMap(n)) : FreeMap(n).slot[i].key = NULL
        BY EmptyTable
      <3> QED BY <2>2, <3>1, <3>2
    <2>4. \A x \in Keys : \A u : ~Holds(r, x, u)
      BY <2>3, MapAssumption DEF Holds
    <2>5. Good(0, r) /\ 0 \in 0..c
      BY <2>3, <2>4
    <2> HIDE DEF Good
    <2> QED BY <1>10, <2>1, <2>5
  <1>12. ASSUME NEW i \in 1..c, i - 1 \in G PROVE i \in G
    <2>1. PICK r : r = put[i - 1]
      OBVIOUS
    <2>2. PICK d \in 0 .. c - 1 : d = i - 1
      OBVIOUS
    <2>3. Good(d, r)
      BY <1>12, <2>1, <2>2
    <2> HIDE DEF G
    <2>4. PICK k \in Keys : k = f[d].key
      BY <1>4
    <2>5. PICK v \in Values : v = f[d].pointer
      BY <1>4
    <2>6. put[i] = SpPlace(r, k, v)
      BY <1>10, <2>1, <2>2, <2>4, <2>5
    <2>7. Table(hash, r) /\ r.size < r.cap
      BY <2>3
    <2>8. ASSUME NEW s \in Slots(r), r.slot[s].key = k PROVE FALSE
      <3>1. Holds(r, k, r.slot[s].pointer)
        BY <2>8 DEF Holds
      <3>2. PICK j \in 0 .. d - 1 : f[j].key = k
        BY <2>3, <3>1
      <3>3. j \in 0 .. c - 1 /\ j # d
        BY <3>2
      <3> QED BY <1>5, <2>4, <3>2, <3>3
    <2>9. /\ Table(hash, SpPlace(r, k, v))
          /\ SpPlace(r, k, v).cap = r.cap /\ SpPlace(r, k, v).size = r.size + 1
          /\ \A x \in Keys : \A u : Holds(SpPlace(r, k, v), x, u) <=> (Holds(r, x, u) \/ (x = k /\ u = v))
      BY <2>7, <2>8, SpPlaceKeeps
    <2>10. PICK r1 : r1 = SpPlace(r, k, v)
      OBVIOUS
    <2>11. Good(i, r1)
      <3>1. Table(hash, r1) /\ r1.cap = 2 * c /\ r1.size = i
        <4>1. r.cap = 2 * c /\ r.size = d
          BY <2>3
        <4>2. d + 1 = i
          BY <2>2
        <4> QED BY <2>9, <2>10, <4>1, <4>2
      <3>2. \A j : j \in 0 .. i - 1 <=> (j \in 0 .. d - 1 \/ j = d)
        BY <2>2
      <3>3. ASSUME NEW x \in Keys, NEW u
            PROVE  Holds(r1, x, u) <=> (\E j \in 0 .. i - 1 : f[j].key = x /\ f[j].pointer = u)
        <4>1. Holds(r1, x, u) <=> (Holds(r, x, u) \/ (x = k /\ u = v))
          BY <2>9, <2>10
        <4>2. Holds(r, x, u) <=> (\E j \in 0 .. d - 1 : f[j].key = x /\ f[j].pointer = u)
          BY <2>3
        <4> QED BY <2>4, <2>5, <3>2, <4>1, <4>2
      <3> QED BY <3>1, <3>3
    <2>12. i \in 0..c
      OBVIOUS
    <2> HIDE DEF Good
    <2> QED BY <2>6, <2>10, <2>11, <2>12 DEF G
  <1>13. c \in G
    <2>1. c \in 0..c
      OBVIOUS
    <2>2. \A i \in 0..c : i \in G
      <3> HIDE DEF G
      <3> QED BY <1>11, <1>12, UpTo
    <2> QED BY <2>1, <2>2
  <1>14. Good(c, SpRehash(m))
    <2> HIDE DEF Good
    <2> QED BY <1>6, <1>13
  <1>15. PICK r : r = SpRehash(m)
    OBVIOUS
  <1>16. Good(c, r)
    BY <1>14, <1>15
  <1>17. r.size < r.cap
    <2>1. r.size = c /\ r.cap = 2 * c
      BY <1>16
    <2> QED BY <2>1
  <1>18. ASSUME NEW x \in Keys, NEW u PROVE Holds(r, x, u) <=> Holds(m, x, u)
    <2>1. Holds(r, x, u) <=> (\E j \in 0 .. c - 1 : f[j].key = x /\ f[j].pointer = u)
      BY <1>16
    <2> HIDE DEF Good
    <2> QED BY <1>2, <1>3, <2>1 DEF Holds
  <1> QED BY <1>15, <1>16, <1>17, <1>18

LEMMA InsertKeeps ==
  ASSUME NEW m, Table(hash, m), hash \in [Keys -> Nat],
         NEW k \in Keys, NEW v \in Values, \A i \in Slots(m) : m.slot[i].key # k
  PROVE  /\ Table(hash, SpInsert(m, k, v))
         /\ \A x \in Keys : \A u : Holds(SpInsert(m, k, v), x, u) <=> (Holds(m, x, u) \/ (x = k /\ u = v))
  <1>1. m.size <= m.cap /\ m.size \in Nat /\ m.cap \in Nat
    BY SlotsAreFinite DEF Table
  <1>2. CASE m.cap > m.size
    <2>1. SpInsert(m, k, v) = SpPlace(m, k, v) /\ m.size < m.cap
      BY <1>1, <1>2 DEF SpInsert
    <2> QED BY <2>1, SpPlaceKeeps
  <1>3. CASE ~(m.cap > m.size)
    <2>1. m.size = m.cap
      BY <1>1, <1>3
    <2>2. PICK r : r = SpRehash(m)
      OBVIOUS
    <2>3. /\ Table(hash, r) /\ r.size < r.cap
          /\ \A x \in Keys : \A u : Holds(r, x, u) <=> Holds(m, x, u)
      BY <2>1, <2>2, RehashKeeps
    <2>4. \A i \in Slots(r) : r.slot[i].key # k
      <3>1. \A u : ~Holds(m, k, u)
        BY DEF Holds
      <3> QED BY <2>3, <3>1 DEF Holds
    <2>5. SpInsert(m, k, v) = SpPlace(r, k, v)
      BY <1>3, <2>2 DEF SpInsert
    <2>6. /\ Table(hash, SpPlace(r, k, v))
          /\ \A x \in Keys : \A u : Holds(SpPlace(r, k, v), x, u) <=> (Holds(r, x, u) \/ (x = k /\ u = v))
      BY <2>3, <2>4, SpPlaceKeeps
    <2> QED BY <2>3, <2>5, <2>6
  <1> QED BY <1>2, <1>3

LEMMA NewIs ==
  ASSUME NEW max \in Nat, NEW hf
  PROVE  Table(hf, SpNew(max)) /\ \A i \in Slots(SpNew(max)) : SpNew(max).slot[i].key = NULL
  <1> DEFINE step == [c \in Nat \ {0} |-> IF c < max THEN 2 * c ELSE c]
             Is(g) == g = [i \in 0 .. max |->
                             IF i = 0 THEN 1 ELSE LET c == g[i - 1] IN IF c < max THEN 2 * c ELSE c]
             F == CHOOSE g : Is(g)
  <1>1. SpNew(max) = FreeMap(F[max])
    BY DEF SpNew
  <1>2. \A c \in Nat \ {0} : step[c] \in Nat \ {0}
    OBVIOUS
  <1>3. PICK g \in [0..max -> Nat \ {0}] : g[0] = 1 /\ \A i \in 1..max : g[i] = step[g[i - 1]]
    <2> HIDE DEF step
    <2>1. 1 \in Nat \ {0}
      OBVIOUS
    <2>2. Iterates(max, Nat \ {0}, 1, step)
      BY <1>2, <2>1, Recursion
    <2> QED BY <2>2 DEF Iterates
  <1>4. Is(g)
    <2>1. \A i \in 0..max : g[i] = IF i = 0 THEN 1
                                   ELSE LET c == g[i - 1] IN IF c < max THEN 2 * c ELSE c
      <3> TAKE i \in 0..max
      <3>1. CASE i = 0
        BY <1>3, <3>1
      <3>2. CASE i # 0
        <4>1. i \in 1..max /\ i - 1 \in 0..max
          BY <3>2
        <4>2. PICK c \in Nat \ {0} : c = g[i - 1]
          BY <4>1
        <4>3. step[c] = IF c < max THEN 2 * c ELSE c
          OBVIOUS
        <4> QED BY <1>3, <3>2, <4>1, <4>2, <4>3
      <3> QED BY <3>1, <3>2
    <2>2. g = [i \in 0..max |-> g[i]]
      OBVIOUS
    <2> QED BY <2>1, <2>2
  <1>5. Is(F)
    <2> HIDE DEF Is
    <2> QED BY <1>4
  <1>6. F[max] \in Nat \ {0}
    <2> DEFINE G == {i \in 0..max : F[i] \in Nat \ {0}}
    <2>1. F = [i \in 0 .. max |->
                 IF i = 0 THEN 1 ELSE LET c == F[i - 1] IN IF c < max THEN 2 * c ELSE c]
      BY <1>5
    <2> HIDE DEF F, Is
    <2>2. \A i \in 0..max : F[i] = IF i = 0 THEN 1 ELSE IF F[i - 1] < max THEN 2 * F[i - 1] ELSE F[i - 1]
      BY <2>1
    <2>3. 0 \in G
      BY <2>2
    <2>4. ASSUME NEW i \in 1..max, i - 1 \in G PROVE i \in G
      <3>1. PICK c \in Nat \ {0} : c = F[i - 1]
        BY <2>4
      <3>2. i \in 0..max /\ i # 0
        OBVIOUS
      <3>3. F[i] = IF c < max THEN 2 * c ELSE c
        BY <2>2, <3>1, <3>2
      <3>4. F[i] \in Nat \ {0}
        BY <3>3
      <3> QED BY <3>2, <3>4
    <2>5. \A i \in 0..max : i \in G
      <3> HIDE DEF G
      <3> QED BY <2>3, <2>4, UpTo
    <2>6. max \in 0..max
      OBVIOUS
    <2> QED BY <2>5, <2>6
  <1>7. PICK n \in Nat \ {0} : n = F[max]
    BY <1>6
  <1> HIDE DEF F
  <1>8. Table(hf, FreeMap(n)) /\ \A i \in Slots(FreeMap(n)) : FreeMap(n).slot[i].key = NULL
    BY EmptyTable
  <1> QED BY <1>1, <1>7, <1>8

(* What _pbcM_sp_query answers in a table. *)
LEMMA QueryIs ==
  ASSUME NEW m, Table(hash, m), hash \in [Keys -> Nat], NEW k \in Keys
  PROVE  /\ SpFind(m, k) # -1 <=> \E v : Holds(m, k, v)
         /\ \A v : Holds(m, k, v) => SpQuery(m, k) = v /\ v \in Values
         /\ (SpQuery(m, k) = NULL \/ SpFind(m, k) = -1) => \A i \in Slots(m) : m.slot[i].key # k
  <1>1. \A i \in Slots(m) : i # -1
    BY DEF Slots
  <1>2. ASSUME NEW i \in Slots(m), m.slot[i].key = k
        PROVE  SpFind(m, k) = i /\ SpQuery(m, k) = m.slot[i].pointer /\ m.slot[i].pointer \in Values
    <2>1. SpFind(m, k) = i
      BY <1>2, FindIs
    <2>2. k # NULL
      BY MapAssumption
    <2> QED BY <1>1, <1>2, <2>1, <2>2 DEF SpQuery, Table, Shape
  <1>3. (\A i \in Slots(m) : m.slot[i].key # k) => SpFind(m, k) = -1
    BY FindIs
  <1>4. NULL \notin Values
    BY MapAssumption
  <1> QED BY <1>1, <1>2, <1>3, <1>4 DEF Holds

(* Writing the value that is there changes nothing. *)
LEMMA SameValue ==
  ASSUME NEW m, Table(hash, m), hash \in [Keys -> Nat], NEW k \in Keys, SpFind(m, k) # -1
  PROVE  SpQueryInsert(m, k, SpQuery(m, k)) = m
  <1>1. PICK i \in Slots(m) : i = SpFind(m, k)
    <2>1. PICK i \in Slots(m) : m.slot[i].key = k
      BY QueryIs DEF Holds
    <2> QED BY <2>1, FindIs
  <1>2. PICK c : c = m.cap
    OBVIOUS
  <1>3. PICK f \in [Slots(m) -> SlotType(c)] : f = m.slot
    BY <1>2 DEF Table, Shape
  <1>4. SpQuery(m, k) = f[i].pointer
    BY <1>1, <1>3 DEF SpQuery
  <1>5. m \in [cap : Nat \ {0}, size : Nat, slot : [Slots(m) -> SlotType(c)]]
    BY <1>2 DEF Table, Shape
  <1>6. [f EXCEPT ![i].pointer = f[i].pointer] = f
    <2>1. f[i] \in SlotType(c)
      OBVIOUS
    <2>2. [f[i] EXCEPT !.pointer = f[i].pointer] = f[i]
      BY <2>1 DEF SlotType
    <2> QED BY <2>2
  <1>7. [m EXCEPT !.slot = f] = m
    BY <1>3, <1>5
  <1>8. [m EXCEPT !.slot[i].pointer = f[i].pointer] = [m EXCEPT !.slot = [f EXCEPT ![i].pointer = f[i].pointer]]
    BY <1>3
  <1> QED BY <1>1, <1>4, <1>6, <1>7, <1>8 DEF SpQueryInsert

MapInv ==
  /\ hash \in [Keys -> Nat]
  /\ sp # NoMap => Table(hash, sp)

Has(k, v) == sp # NoMap /\ Holds(sp, k, v)

(* The dictionary that PbcMap shows. *)
Shown == [k \in Present |-> SpQuery(sp, k)]

(* It shows what the slots hold. *)
Reading ==
  /\ DOMAIN Shown = Present /\ Present \subseteq Keys
  /\ Shown = [k \in DOMAIN Shown |-> Shown[k]]
  /\ \A k \in Keys : k \in Present <=> \E v : Has(k, v)
  /\ \A k \in Keys : \A v : Has(k, v) => Shown[k] = v

LEMMA ReadingHolds == MapInv => Reading
  <1> SUFFICES ASSUME MapInv PROVE Reading
    OBVIOUS
  <1>1. DOMAIN Shown = Present /\ Shown = [k \in DOMAIN Shown |-> Shown[k]]
    BY DEF Shown
  <1>2. Present \subseteq Keys
    BY DEF Present
  <1>3. CASE sp = NoMap
    BY <1>1, <1>2, <1>3 DEF Reading, Present, Has
  <1>4. CASE sp # NoMap
    <2>1. Table(hash, sp) /\ hash \in [Keys -> Nat]
      BY <1>4 DEF MapInv
    <2>2. ASSUME NEW k \in Keys PROVE k \in Present <=> \E v : Has(k, v)
      BY <1>4, <2>1, QueryIs DEF Present, Has
    <2>3. ASSUME NEW k \in Keys, NEW v, Has(k, v) PROVE Shown[k] = v
      <3>1. k \in Present
        BY <2>2, <2>3
      <3>2. SpQuery(sp, k) = v
        BY <2>1, <2>3, QueryIs DEF Has
      <3> QED BY <3>1, <3>2 DEF Shown
    <2> QED BY <1>1, <1>2, <2>2, <2>3 DEF Reading
  <1> QED BY <1>3, <1>4

(* What an insertion makes of the dictionary. *)
LEMMA EntryAdded ==
  ASSUME MapInv, MapInv', Reading, Reading', NEW k \in Keys, NEW v \in Values,
         \A u : ~Has(k, u),
         \A x \in Keys : \A u : Has(x, u)' <=> (Has(x, u) \/ (x = k /\ u = v))
  PROVE  Dict!Add(k, v)
  <1>1. k \notin DOMAIN Shown
    BY DEF Reading
  <1>2. Present' = Present \cup {k}
    BY DEF Reading
  <1>3. Shown'[k] = v
    BY DEF Reading
  <1>4. ASSUME NEW x \in Present PROVE Shown'[x] = Shown[x]
    <2>1. x \in Keys
      BY <1>4 DEF Reading
    <2>2. PICK u : Has(x, u)
      BY <2>1 DEF Reading
    <2>3. Has(x, u)'
      BY <2>1, <2>2
    <2> QED BY <2>1, <2>2, <2>3 DEF Reading
  <1>5. \A x \in Present : x # k
    BY <1>1 DEF Reading
  <1>6. Shown' = [x \in DOMAIN Shown' |-> Shown'[x]] /\ DOMAIN Shown' = Present' /\ DOMAIN Shown = Present
    BY DEF Reading
  <1>7. Shown' = [x \in DOMAIN Shown \cup {k} |-> IF x = k THEN v ELSE Shown[x]]
    <2>1. \A x \in Present \cup {k} : Shown'[x] = IF x = k THEN v ELSE Shown[x]
      BY <1>3, <1>4, <1>5
    <2> QED BY <1>2, <1>6, <2>1
  <1> QED BY <1>1, <1>7 DEF Dict!Add, Shown

(* Keys that were and stay absent, or a table as it was, show no change.   *)
LEMMA NothingAdded ==
  ASSUME Reading, Reading', \A x \in Keys : \A u : Has(x, u)' <=> Has(x, u)
  PROVE  Shown' = Shown
  <1>1. Present' = Present
    BY DEF Reading
  <1>2. ASSUME NEW x \in Present PROVE Shown'[x] = Shown[x]
    <2>1. x \in Keys
      BY <1>2 DEF Reading
    <2>2. PICK u : Has(x, u)
      BY <2>1 DEF Reading
    <2>3. Has(x, u)'
      BY <2>1, <2>2
    <2> QED BY <2>1, <2>2, <2>3 DEF Reading
  <1>3. Shown' = [x \in DOMAIN Shown' |-> Shown'[x]] /\ Shown = [x \in DOMAIN Shown |-> Shown[x]]
        /\ DOMAIN Shown' = Present' /\ DOMAIN Shown = Present
    BY DEF Reading
  <1> QED BY <1>1, <1>2, <1>3

(* What a step writes, in terms of the entries. *)
LEMMA MapStep ==
  ASSUME MapInv, [MapNext]_mapVars
  PROVE  /\ MapInv'
         /\ \/ \A x \in Keys : \A u : Has(x, u)' <=> Has(x, u)
            \/ \E k \in Keys, v \in Values :
                 /\ \A u : ~Has(k, u)
                 /\ \A x \in Keys : \A u : Has(x, u)' <=> (Has(x, u) \/ (x = k /\ u = v))
  <1>1. NoMap.cap = 0 /\ \A m : Table(hash, m) => m # NoMap
    <2>1. NoMap.cap = 0
      BY DEF NoMap
    <2>2. \A m : Table(hash, m) => m.cap # 0
      BY DEF Table, Shape
    <2> QED BY <2>1, <2>2
  <1>2. CASE sp' = sp /\ hash' = hash
    <2>1. MapInv'
      BY <1>2 DEF MapInv
    <2>2. \A x \in Keys : \A u : Has(x, u)' <=> Has(x, u)
      BY <1>2 DEF Has
    <2> QED BY <2>1, <2>2
  <1>3. CASE SpOpen
    <2>1. PICK max \in Caps : sp' = SpNew(max)
      BY <1>3 DEF SpOpen
    <2>2. max \in Nat
      BY <2>1, MapAssumption
    <2>3. sp = NoMap /\ hash' = hash /\ hash \in [Keys -> Nat]
      BY <1>3 DEF SpOpen, MapInv
    <2>4. Table(hash, sp') /\ \A i \in Slots(sp') : sp'.slot[i].key = NULL
      BY <2>1, <2>2, NewIs
    <2>5. MapInv'
      BY <2>3, <2>4 DEF MapInv
    <2>6. \A x \in Keys : \A u : Has(x, u)' <=> Has(x, u)
      BY <2>3, <2>4, MapAssumption DEF Has, Holds
    <2> QED BY <2>5, <2>6
  <1>4. ASSUME NEW k \in Keys, NEW v \in Values, sp # NoMap, hash' = hash,
               SpQuery(sp, k) = NULL \/ SpFind(sp, k) = -1, sp' = SpInsert(sp, k, v)
        PROVE  /\ MapInv'
               /\ \A u : ~Has(k, u)
               /\ \A x \in Keys : \A u : Has(x, u)' <=> (Has(x, u) \/ (x = k /\ u = v))
    <2>1. Table(hash, sp) /\ hash \in [Keys -> Nat]
      BY <1>4 DEF MapInv
    <2>2. \A i \in Slots(sp) : sp.slot[i].key # k
      BY <1>4, <2>1, QueryIs
    <2>3. /\ Table(hash, sp')
          /\ \A x \in Keys : \A u : Holds(sp', x, u) <=> (Holds(sp, x, u) \/ (x = k /\ u = v))
      BY <1>4, <2>1, <2>2, InsertKeeps
    <2>4. MapInv'
      BY <1>4, <2>1, <2>3 DEF MapInv
    <2>5. sp' # NoMap
      BY <1>1, <2>3
    <2> QED BY <1>4, <2>2, <2>3, <2>4, <2>5 DEF Has, Holds
  <1>5. ASSUME NEW k \in Keys, NEW v \in Values, SpAdd(k, v)
        PROVE  /\ MapInv'
               /\ \A u : ~Has(k, u)
               /\ \A x \in Keys : \A u : Has(x, u)' <=> (Has(x, u) \/ (x = k /\ u = v))
    <2>1. sp # NoMap /\ hash' = hash /\ SpQuery(sp, k) = NULL /\ sp' = SpInsert(sp, k, v)
      BY <1>5 DEF SpAdd
    <2> QED BY <1>4, <2>1
  <1>6. ASSUME NEW k \in Keys, NEW v \in Values, SpEnsure(k, v)
        PROVE  \/ sp' = sp /\ hash' = hash
               \/ /\ MapInv'
                  /\ \A u : ~Has(k, u)
                  /\ \A x \in Keys : \A u : Has(x, u)' <=> (Has(x, u) \/ (x = k /\ u = v))
    <2> DEFINE w == IF SpQuery(sp, k) = NULL THEN v ELSE SpQuery(sp, k)
    <2>1. sp # NoMap /\ hash' = hash /\ sp' = SpQueryInsert(sp, k, w)
      BY <1>6 DEF SpEnsure
    <2>2. Table(hash, sp) /\ hash \in [Keys -> Nat]
      BY <2>1 DEF MapInv
    <2>3. SpFind(sp, k) = -1 => SpQuery(sp, k) = NULL
      BY DEF SpQuery
    <2>4. CASE SpFind(sp, k) = -1
      <3>1. w = v
        BY <2>3, <2>4
      <3> HIDE DEF w
      <3>2. sp' = SpInsert(sp, k, v)
        BY <2>1, <2>4, <3>1 DEF SpQueryInsert, SpInsert
      <3> QED BY <1>4, <2>1, <2>4, <3>2
    <2>5. CASE SpFind(sp, k) # -1
      <3>1. PICK u : Holds(sp, k, u)
        BY <2>2, <2>5, QueryIs
      <3>2. SpQuery(sp, k) \in Values
        BY <2>2, <3>1, QueryIs
      <3>3. w = SpQuery(sp, k)
        BY <3>2, MapAssumption
      <3> HIDE DEF w
      <3> QED BY <2>1, <2>2, <2>5, <3>3, SameValue
    <2> QED BY <2>4, <2>5
  <1>7. IpOpen \/ IpMerge \/ SiOpen \/ UNCHANGED mapVars => sp' = sp /\ hash' = hash
    BY DEF IpOpen, IpMerge, SiOpen, mapVars
  <1>8. \/ SpOpen
        \/ \E k \in Keys, v \in Values : SpAdd(k, v) \/ SpEnsure(k, v)
        \/ IpOpen \/ IpMerge \/ SiOpen \/ UNCHANGED mapVars
    BY DEF MapNext
  <1>9. CASE \E k \in Keys, v \in Values : SpAdd(k, v) \/ SpEnsure(k, v)
    <2>1. PICK k \in Keys, v \in Values : SpAdd(k, v) \/ SpEnsure(k, v)
      BY <1>9
    <2>2. \/ sp' = sp /\ hash' = hash
          \/ /\ MapInv'
             /\ \A u : ~Has(k, u)
             /\ \A x \in Keys : \A u : Has(x, u)' <=> (Has(x, u) \/ (x = k /\ u = v))
      BY <1>5, <1>6, <2>1
    <2> QED BY <1>2, <2>2
  <1> QED BY <1>2, <1>3, <1>7, <1>8, <1>9

LEMMA MapRefines ==
  ASSUME MapInv, MapInv', Reading, Reading', [MapNext]_mapVars
  PROVE  [Dict!DictNext]_Shown
  <1>1. CASE \A x \in Keys : \A u : Has(x, u)' <=> Has(x, u)
    BY <1>1, NothingAdded
  <1>2. CASE \E k \in Keys, v \in Values :
               /\ \A u : ~Has(k, u)
               /\ \A x \in Keys : \A u : Has(x, u)' <=> (Has(x, u) \/ (x = k /\ u = v))
    <2>1. PICK k \in Keys, v \in Values :
            /\ \A u : ~Has(k, u)
            /\ \A x \in Keys : \A u : Has(x, u)' <=> (Has(x, u) \/ (x = k /\ u = v))
      BY <1>2
    <2>2. Dict!Add(k, v)
      BY <2>1, EntryAdded
    <2> QED BY <2>2 DEF Dict!DictNext
  <1> QED BY <1>1, <1>2, MapStep

(* map_sp implements a dictionary: whatever collides and however often the *)
(* table doubles, an insertion makes one key findable and keeps every      *)
(* other with its value (_pbcM_sp_insert, query_insert, rehash, query).    *)
THEOREM MapIsADictionary == MapSpec => SpIsADictionary
  <1>1. MapInit => MapInv /\ Dict!DictInit
    <2> SUFFICES ASSUME MapInit PROVE MapInv /\ Dict!DictInit
      OBVIOUS
    <2>1. sp = NoMap /\ hash \in [Keys -> Nat]
      BY MapAssumption DEF MapInit
    <2>2. MapInv
      BY <2>1 DEF MapInv
    <2>3. Present = {}
      BY <2>1 DEF Present
    <2> QED BY <2>2, <2>3 DEF Dict!DictInit
  <1>2. MapInv /\ [MapNext]_mapVars => MapInv'
    BY MapStep
  <1>3. MapInv /\ MapInv' /\ Reading /\ Reading' /\ [MapNext]_mapVars => [Dict!DictNext]_Shown
    BY MapRefines
  <1> QED BY <1>1, <1>2, <1>3, ReadingHolds, PTL DEF MapSpec, SpIsADictionary, Dict!DictSpec, Shown

(***************************************************************************)
(* The walk of _pbcM_sp_next.                                              *)
(***************************************************************************)
(* After the slots below b come the key of the first used one, or none.    *)
NextFrom(m, b, k) ==
  \/ k = NULL /\ \A i \in Used(m) : i < b
  \/ \E u \in Used(m) : /\ u >= b /\ k = m.slot[u].key
                        /\ \A i \in Used(m) : i >= b => u <= i

LEMMA NextIs ==
  ASSUME NEW m, Table(hash, m), hash \in [Keys -> Nat]
  PROVE  /\ NextFrom(m, 0, SpNext(m, NULL))
         /\ \A u \in Used(m) : NextFrom(m, u + 1, SpNext(m, m.slot[u].key))
         /\ \A k \in Keys : SpFind(m, k) = -1 => SpNext(m, k) = NULL
  <1>1. PICK c \in Nat \ {0} : c = m.cap
    BY DEF Table, Shape
  <1>2. Slots(m) = 0 .. c - 1
    BY <1>1 DEF Slots
  <1>3. PICK f \in [0 .. c - 1 -> SlotType(c)] : f = m.slot
    BY <1>1, <1>2 DEF Table, Shape
  <1>4. \A i \in 0 .. c - 1 : f[i].pointer # NULL <=> i \in Used(m)
    <2> TAKE i \in 0 .. c - 1
    <2>1. IF f[i].key = NULL THEN f[i] = FreeSpSlot ELSE f[i].pointer \in Values
      BY <1>2, <1>3 DEF Table, Shape
    <2>2. i \in Used(m) <=> f[i].key # NULL
      BY <1>2, <1>3 DEF Used
    <2>3. FreeSpSlot.pointer = NULL
      BY DEF FreeSpSlot
    <2> QED BY <2>1, <2>2, <2>3, MapAssumption
  <1>5. Used(m) \subseteq 0 .. c - 1
    BY <1>2 DEF Used
  <1>6. ASSUME NEW b \in 0..c, NEW k, NEW x,
               x = LET later == {i \in b .. c - 1 : f[i].pointer # NULL}
                   IN  IF later = {} THEN NULL ELSE f[Min(later)].key
        PROVE  NextFrom(m, b, x)
    <2> DEFINE later == {i \in b .. c - 1 : f[i].pointer # NULL}
    <2>1. \A i : i \in later <=> (i \in Used(m) /\ i >= b)
      BY <1>4, <1>5
    <2>2. later \in SUBSET Nat
      OBVIOUS
    <2>3. x = IF later = {} THEN NULL ELSE f[Min(later)].key
      BY <1>6
    <2> HIDE DEF later
    <2>4. CASE later = {}
      <3>1. \A i \in Used(m) : i < b
        BY <1>5, <2>1, <2>4
      <3> QED BY <2>3, <2>4, <3>1 DEF NextFrom
    <2>5. CASE later # {}
      <3>1. Min(later) \in later /\ \A i \in later : Min(later) <= i
        BY <2>2, <2>5, LeastIs
      <3>2. PICK u : u = Min(later)
        OBVIOUS
      <3> QED BY <1>3, <2>1, <2>3, <2>5, <3>1, <3>2 DEF NextFrom
    <2> QED BY <2>4, <2>5
  <1>7. NextFrom(m, 0, SpNext(m, NULL))
    <2>1. SpNext(m, NULL) = LET later == {i \in 0 .. c - 1 : f[i].pointer # NULL}
                            IN  IF later = {} THEN NULL ELSE f[Min(later)].key
      BY <1>1, <1>3 DEF SpNext
    <2>2. 0 \in 0..c
      OBVIOUS
    <2> QED BY <1>6, <2>1, <2>2
  <1>8. ASSUME NEW u \in Used(m) PROVE NextFrom(m, u + 1, SpNext(m, m.slot[u].key))
    <2>1. PICK w \in 0 .. c - 1 : w = u
      BY <1>5
    <2>2. PICK k \in Keys : k = m.slot[u].key
      <3>1. f[w].key \in Keys \cup {NULL}
        BY DEF SlotType
      <3> QED BY <1>3, <2>1, <3>1 DEF Used
    <2>3. SpFind(m, k) = w /\ k # NULL
      BY <1>2, <2>1, <2>2, FindIs, MapAssumption
    <2>4. SpNext(m, k) = LET later == {i \in w + 1 .. c - 1 : f[i].pointer # NULL}
                         IN  IF later = {} THEN NULL ELSE f[Min(later)].key
      <3>1. w + 1 # 0
        OBVIOUS
      <3> QED BY <1>1, <1>3, <2>3, <3>1 DEF SpNext
    <2>5. w + 1 \in 0..c
      OBVIOUS
    <2>6. NextFrom(m, w + 1, SpNext(m, k))
      BY <1>6, <2>4, <2>5
    <2> QED BY <2>1, <2>2, <2>6
  <1>9. ASSUME NEW k \in Keys, SpFind(m, k) = -1 PROVE SpNext(m, k) = NULL
    <2>1. k # NULL /\ -1 + 1 = 0
      BY MapAssumption
    <2> QED BY <1>9, <2>1 DEF SpNext
  <1> QED BY <1>7, <1>8, <1>9

(* The keys present are those in the slots, and size counts them. *)
LEMMA PresentIs ==
  ASSUME sp # NoMap, Table(hash, sp), hash \in [Keys -> Nat]
  PROVE  /\ Present = {sp.slot[i].key : i \in Used(sp)}
         /\ Cardinality(Present) = sp.size /\ sp.size \in Nat
  <1>1. Slots(sp) = 0 .. sp.cap - 1 /\ \A i \in Slots(sp) : i # -1
    BY DEF Slots
  <1>2. \A i \in Used(sp) : i \in Slots(sp) /\ sp.slot[i].key \in Keys
    <2>1. \A i \in Slots(sp) : sp.slot[i].key \in Keys \cup {NULL}
      BY DEF Table, Shape, SlotType
    <2> QED BY <2>1 DEF Used
  <1>3. ASSUME NEW k \in Keys
        PROVE  k \in Present <=> \E i \in Used(sp) : sp.slot[i].key = k
    <2>1. k # NULL
      BY MapAssumption
    <2>2. CASE \E i \in Used(sp) : sp.slot[i].key = k
      BY <1>1, <1>2, <2>2, FindIs DEF Present
    <2>3. CASE ~\E i \in Used(sp) : sp.slot[i].key = k
      <3>1. \A i \in Slots(sp) : sp.slot[i].key # k
        BY <2>1, <2>3 DEF Used
      <3> QED BY <2>3, <3>1, FindIs DEF Present
    <2> QED BY <2>2, <2>3
  <1>4. Present = {sp.slot[i].key : i \in Used(sp)}
    <2>1. Present \subseteq Keys
      BY DEF Present
    <2> QED BY <1>2, <1>3, <2>1
  <1>5. PICK U : U = Used(sp)
    OBVIOUS
  <1>6. IsFiniteSet(U) /\ Cardinality(U) = sp.size /\ sp.size \in Nat
    BY <1>5 DEF Table, Shape
  <1> DEFINE g == [i \in U |-> sp.slot[i].key]
  <1>7. g \in [U -> Present] /\ \A i \in U : g[i] = sp.slot[i].key
    BY <1>4, <1>5
  <1> HIDE DEF g
  <1>8. \A i, j \in U : g[i] = g[j] => i = j
    BY <1>5, <1>7 DEF Table, Shape
  <1>9. \A k \in Present : \E i \in U : g[i] = k
    BY <1>4, <1>5, <1>7
  <1>10. g \in Injection(U, Present)
    BY <1>7, <1>8 DEF Injection, IsInjective
  <1>11. g \in Surjection(U, Present)
    BY <1>7, <1>9 DEF Surjection
  <1>12. ExistsBijection(U, Present)
    BY <1>10, <1>11 DEF ExistsBijection, Bijection
  <1>13. Cardinality(Present) = Cardinality(U)
    BY <1>6, <1>12, FS_Bijection
  <1> QED BY <1>4, <1>6, <1>13

(* The walk after i rounds: the keys below b are met, they are i.          *)
Walked(m, at, i, b) ==
  /\ b \in 0 .. m.cap
  /\ Cardinality({u \in Used(m) : u < b}) = i
  /\ {at[j] : j \in 0 .. i - 1} = {m.slot[u].key : u \in {w \in Used(m) : w < b}}
  /\ NextFrom(m, b, at[i])

LEMMA WalkStarts ==
  ASSUME NEW m, Table(hash, m), hash \in [Keys -> Nat], NEW at, at[0] = SpNext(m, NULL)
  PROVE  Walked(m, at, 0, 0)
  <1>1. PICK c \in Nat \ {0} : c = m.cap
    BY DEF Table, Shape
  <1>2. \A u \in Used(m) : u \in 0 .. c - 1
    BY <1>1 DEF Used, Slots
  <1>3. {u \in Used(m) : u < 0} = {} /\ 0 \in 0..c
    BY <1>2
  <1>4. \A j \in 0 .. 0 - 1 : FALSE
    OBVIOUS
  <1>5. {at[j] : j \in 0 .. 0 - 1} = {}
    BY <1>4
  <1>6. Cardinality({}) = 0
    BY FS_EmptySet
  <1>7. NextFrom(m, 0, at[0])
    BY NextIs
  <1> QED BY <1>1, <1>3, <1>5, <1>6, <1>7 DEF Walked

LEMMA WalkGoesOn ==
  ASSUME NEW m, Table(hash, m), hash \in [Keys -> Nat], NEW at, NEW i \in Nat, i < m.size,
         NEW b, Walked(m, at, i, b), at[i + 1] = SpNext(m, at[i])
  PROVE  \E d : Walked(m, at, i + 1, d)
  <1>1. PICK c \in Nat \ {0} : c = m.cap
    BY DEF Table, Shape
  <1>2. PICK U : U = Used(m)
    OBVIOUS
  <1>3. U \subseteq 0 .. c - 1 /\ IsFiniteSet(U) /\ Cardinality(U) = m.size /\ m.size \in Nat
    BY <1>1, <1>2 DEF Table, Shape, Used, Slots
  <1>4. PICK V : V = {u \in U : u < b}
    OBVIOUS
  <1>5. /\ b \in 0..c /\ Cardinality(V) = i
        /\ {at[j] : j \in 0 .. i - 1} = {m.slot[u].key : u \in V}
        /\ NextFrom(m, b, at[i])
    BY <1>1, <1>2, <1>4 DEF Walked
  <1>6. V # U
    BY <1>3, <1>5
  <1>7. PICK u \in U : /\ u >= b /\ at[i] = m.slot[u].key
                       /\ \A w \in U : w >= b => u <= w
    <2>1. ~\A w \in U : w < b
      BY <1>4, <1>6
    <2> QED BY <1>2, <1>5, <2>1 DEF NextFrom
  <1>8. u \in 0 .. c - 1 /\ u + 1 \in 0..c
    BY <1>3
  <1>9. {w \in U : w < u + 1} = V \cup {u}
    <2>1. ASSUME NEW w \in U PROVE w < u + 1 <=> w < b \/ w = u
      <3>1. w \in 0 .. c - 1 /\ (w >= b => u <= w) /\ u >= b
        BY <1>3, <1>7
      <3> QED BY <1>5, <1>8, <3>1
    <2> QED BY <1>4, <1>7, <2>1
  <1>10. IsFiniteSet(V) /\ u \notin V
    <2>1. V \in SUBSET U
      BY <1>4
    <2>2. IsFiniteSet(V)
      BY <1>3, <2>1, FS_Subset
    <2>3. ~(u < b)
      BY <1>5, <1>7, <1>8
    <2> QED BY <1>4, <2>2, <2>3
  <1>11. Cardinality(V \cup {u}) = i + 1
    BY <1>5, <1>10, FS_AddElement
  <1>12. {at[j] : j \in 0 .. (i + 1) - 1} = {m.slot[w].key : w \in V \cup {u}}
    <2>1. 0 .. (i + 1) - 1 = (0 .. i - 1) \cup {i}
      OBVIOUS
    <2>2. PICK J : J = 0 .. i - 1
      OBVIOUS
    <2>3. {at[j] : j \in J \cup {i}} = {at[j] : j \in J} \cup {at[i]}
      OBVIOUS
    <2>4. {m.slot[w].key : w \in V \cup {u}} = {m.slot[w].key : w \in V} \cup {m.slot[u].key}
      OBVIOUS
    <2> QED BY <1>5, <1>7, <2>1, <2>2, <2>3, <2>4
  <1>13. NextFrom(m, u + 1, at[i + 1])
    BY <1>2, <1>7, NextIs
  <1>14. Walked(m, at, i + 1, u + 1)
    BY <1>1, <1>2, <1>8, <1>9, <1>11, <1>12, <1>13 DEF Walked
  <1> QED BY <1>14

LEMMA NextType ==
  ASSUME NEW m, Table(hash, m), hash \in [Keys -> Nat], NEW k \in Keys \cup {NULL}
  PROVE  SpNext(m, k) \in Keys \cup {NULL}
  <1>1. \A i \in Used(m) : m.slot[i].key \in Keys \cup {NULL}
    <2>1. \A i \in Slots(m) : m.slot[i].key \in Keys \cup {NULL}
      BY DEF Table, Shape, SlotType
    <2> QED BY <2>1 DEF Used
  <1>2. \A b, x : NextFrom(m, b, x) => x \in Keys \cup {NULL}
    BY <1>1 DEF NextFrom
  <1>3. CASE k = NULL
    BY <1>2, <1>3, NextIs
  <1>4. CASE k \in Keys /\ SpFind(m, k) = -1
    BY <1>4, NextIs
  <1>5. CASE k \in Keys /\ SpFind(m, k) # -1
    <2>1. PICK i \in Slots(m) : m.slot[i].key = k
      BY <1>5, FindIs
    <2>2. i \in Used(m)
      BY <1>5, <2>1, MapAssumption DEF Used
    <2> QED BY <1>2, <2>1, <2>2, NextIs
  <1> QED BY <1>3, <1>4, <1>5

LEMMA WalkIsComplete ==
  ASSUME hash \in [Keys -> Nat], sp # NoMap => Table(hash, sp)
  PROVE  WalkMeetsAll
  <1> SUFFICES ASSUME sp # NoMap, Table(hash, sp) PROVE WalkMeetsAll
    BY DEF WalkMeetsAll
  <1>1. PICK n \in Nat : n = sp.size /\ n = Cardinality(Present)
    BY PresentIs
  <1> DEFINE Is(g) == g = [i \in 0..n |-> IF i = 0 THEN SpNext(sp, NULL) ELSE SpNext(sp, g[i - 1])]
             at == CHOOSE g : Is(g)
             S == Keys \cup {NULL}
             step == [x \in S |-> SpNext(sp, x)]
             z == SpNext(sp, NULL)
  <1>2. z \in S /\ \A x \in S : step[x] \in S
    BY NextType
  <1>3. PICK g \in [0..n -> S] : g[0] = z /\ \A i \in 1..n : g[i] = step[g[i - 1]]
    <2> HIDE DEF S, step, z
    <2>1. Iterates(n, S, z, step)
      BY <1>2, Recursion
    <2> QED BY <2>1 DEF Iterates
  <1>4. Is(g)
    <2>1. \A i \in 0..n : g[i] = IF i = 0 THEN SpNext(sp, NULL) ELSE SpNext(sp, g[i - 1])
      <3> TAKE i \in 0..n
      <3>1. CASE i = 0
        BY <1>3, <3>1
      <3>2. CASE i # 0
        <4>1. i \in 1..n /\ i - 1 \in 0..n
          BY <3>2
        <4>2. g[i - 1] \in S
          BY <4>1
        <4> QED BY <1>3, <3>2, <4>1, <4>2
      <3> QED BY <3>1, <3>2
    <2>2. g = [i \in 0..n |-> g[i]]
      OBVIOUS
    <2> QED BY <2>1, <2>2
  <1>5. Is(at)
    <2> HIDE DEF Is
    <2> QED BY <1>4
  <1>6. at[0] = SpNext(sp, NULL) /\ \A i \in 1..n : at[i] = SpNext(sp, at[i - 1])
    <2>1. at = [i \in 0..n |-> IF i = 0 THEN SpNext(sp, NULL) ELSE SpNext(sp, at[i - 1])]
      BY <1>5
    <2> HIDE DEF at, Is
    <2>2. 0 \in 0..n /\ \A i \in 1..n : i \in 0..n /\ i # 0
      OBVIOUS
    <2> QED BY <2>1, <2>2
  <1>7. WalkMeetsAll <=> /\ {at[i] : i \in 0 .. n - 1} = Present
                         /\ at[n] = NULL
                         /\ sp.size = n
    BY <1>1 DEF WalkMeetsAll
  <1> HIDE DEF at, Is
  <1> DEFINE G == {i \in 0..n : \E b : Walked(sp, at, i, b)}
  <1>8. 0 \in G
    <2>1. Walked(sp, at, 0, 0)
      BY <1>6, WalkStarts
    <2>2. 0 \in 0..n
      OBVIOUS
    <2> QED BY <2>1, <2>2
  <1>9. ASSUME NEW i \in 1..n, i - 1 \in G PROVE i \in G
    <2>1. PICK b : Walked(sp, at, i - 1, b)
      BY <1>9
    <2>2. PICK j \in Nat : j = i - 1 /\ j + 1 = i /\ j < n
      OBVIOUS
    <2>3. at[j + 1] = SpNext(sp, at[j])
      BY <1>6, <2>2
    <2>4. \E d : Walked(sp, at, j + 1, d)
      BY <1>1, <2>1, <2>2, <2>3, WalkGoesOn
    <2> QED BY <2>2, <2>4
  <1>10. n \in G
    <2>1. n \in 0..n
      OBVIOUS
    <2> HIDE DEF G
    <2> QED BY <1>8, <1>9, <2>1, UpTo
  <1>11. PICK b : Walked(sp, at, n, b)
    BY <1>10
  <1>12. PICK U : U = Used(sp)
    OBVIOUS
  <1>13. IsFiniteSet(U) /\ Cardinality(U) = n
    BY <1>1, <1>12 DEF Table, Shape
  <1>14. {u \in U : u < b} = U
    <2>1. {u \in U : u < b} \in SUBSET U
      OBVIOUS
    <2>2. Cardinality({u \in U : u < b}) = n
      BY <1>11, <1>12 DEF Walked
    <2> QED BY <1>13, <2>1, <2>2, FS_Subset
  <1>15. {at[j] : j \in 0 .. n - 1} = Present
    BY <1>11, <1>12, <1>14, PresentIs DEF Walked
  <1>16. at[n] = NULL
    <2>1. \A u \in U : u < b /\ u \in Nat
      BY <1>12, <1>14 DEF Used, Slots
    <2>2. b \in Nat
      <3>1. sp.cap \in Nat
        BY DEF Table, Shape
      <3> QED BY <1>11, <3>1 DEF Walked
    <2> QED BY <1>11, <1>12, <2>1, <2>2 DEF Walked, NextFrom
  <1> QED BY <1>1, <1>7, <1>15, <1>16

-----------------------------------------------------------------------------
(***************************************************************************)
(* The closed tables of map_ip and map_si, whatever their ids I and        *)
(* pointers P are: a slot for each row, found from its main position.      *)
(***************************************************************************)
ClosedType(I, P, c) == [id : I \cup {0}, pointer : P \cup {NULL}, next : 0..c]

Taken(n, f) == {x \in 0 .. n - 1 : f[x].pointer # NULL}

(* The first i rows are in the slots taken: row r at pos[r]. *)
Stands(n, rows, home, i, f, pos) ==
  /\ pos \in [1..i -> 0 .. n - 1]
  /\ \A x \in Taken(n, f) : \E r \in 1..i : pos[r] = x
  /\ \A r \in 1..i : /\ f[pos[r]].id = rows[r].id /\ f[pos[r]].pointer = rows[r].pointer
                     /\ Reached(f, Taken(n, f), i, home[r], pos[r])

Filled(I, P, n, rows, home, i, f) ==
  /\ f \in [0 .. n - 1 -> ClosedType(I, P, n)]
  /\ IsFiniteSet(Taken(n, f)) /\ Cardinality(Taken(n, f)) = i
  /\ \E pos : Stands(n, rows, home, i, f, pos)

(* The row is in slot e: the main position h, or linked in right after it. *)
Put(I, P, n, f, f1, h, e, row) ==
  /\ e \in 0 .. n - 1 /\ f[e].pointer = NULL
  /\ f1 \in [0 .. n - 1 -> ClosedType(I, P, n)]
  /\ f1[e].id = row.id /\ f1[e].pointer = row.pointer
  /\ \A x \in 0 .. n - 1 : x # e => f1[x].id = f[x].id /\ f1[x].pointer = f[x].pointer
  /\ \/ e = h /\ \A x \in 0 .. n - 1 : f1[x].next = f[x].next
     \/ /\ f[h].pointer # NULL
        /\ f1[h].next = e + 1 /\ f1[e].next = f[h].next
        /\ \A x \in 0 .. n - 1 : x # e /\ x # h => f1[x].next = f[x].next

LEMMA FreeSlotLeft ==
  ASSUME NEW n \in Nat \ {0}, NEW f, IsFiniteSet(Taken(n, f)), Cardinality(Taken(n, f)) < n
  PROVE  \E x \in 0 .. n - 1 : f[x].pointer = NULL
  <1>1. SUFFICES ASSUME \A x \in 0 .. n - 1 : f[x].pointer # NULL PROVE FALSE
    OBVIOUS
  <1>2. Taken(n, f) = 0 .. n - 1
    BY <1>1 DEF Taken
  <1>3. n - 1 \in Int /\ 0 \in Int /\ ~(0 > n - 1) /\ (n - 1) - 0 + 1 = n
    OBVIOUS
  <1>4. Cardinality(0 .. n - 1) = n
    BY <1>3, FS_Interval
  <1> QED BY <1>2, <1>4

LEMMA PutIs ==
  ASSUME NEW I, NEW P, NULL \notin P, NEW n \in Nat \ {0},
         NEW f \in [0 .. n - 1 -> ClosedType(I, P, n)],
         IsFiniteSet(Taken(n, f)), Cardinality(Taken(n, f)) < n,
         NEW h \in 0 .. n - 1, NEW row \in [id : I, pointer : P]
  PROVE  \E e \in 0 .. n - 1 : Put(I, P, n, f, ClosedInsert(f, h, row), h, e, row)
  <1>1. row.id \in I \cup {0} /\ row.pointer \in P \cup {NULL}
    OBVIOUS
  <1>2. CASE f[h].pointer = NULL
    <2> DEFINE f1 == [f EXCEPT ![h].id = row.id, ![h].pointer = row.pointer]
    <2>1. ClosedInsert(f, h, row) = f1
      BY <1>2 DEF ClosedInsert
    <2>2. /\ f1 \in [0 .. n - 1 -> ClosedType(I, P, n)]
          /\ f1[h].id = row.id /\ f1[h].pointer = row.pointer
          /\ \A x \in 0 .. n - 1 : f1[x].next = f[x].next /\ (x # h => f1[x] = f[x])
      BY <1>1 DEF ClosedType
    <2> HIDE DEF f1
    <2>3. Put(I, P, n, f, f1, h, h, row)
      BY <1>2, <2>2 DEF Put
    <2> QED BY <2>1, <2>3
  <1>3. CASE f[h].pointer # NULL
    <2> DEFINE free == {x \in DOMAIN f : f[x].pointer = NULL}
    <2>1. free \in SUBSET Nat /\ free # {}
      <3>1. \E x \in 0 .. n - 1 : f[x].pointer = NULL
        BY FreeSlotLeft
      <3> QED BY <3>1
    <2>2. Min(free) \in free
      <3> HIDE DEF free
      <3> QED BY <2>1, LeastIs
    <2>3. PICK e \in 0 .. n - 1 : e = Min(free) /\ f[e].pointer = NULL
      BY <2>2
    <2> DEFINE q == [id |-> row.id, pointer |-> row.pointer, next |-> f[h].next]
               f1 == [f EXCEPT ![e] = q, ![h].next = e + 1]
    <2>4. ClosedInsert(f, h, row) = f1
      BY <1>3, <2>3 DEF ClosedInsert
    <2>5. e # h /\ e + 1 \in 0..n
      BY <1>3, <2>3
    <2>6. q \in ClosedType(I, P, n)
      BY <1>1 DEF ClosedType
    <2>7. /\ f1 \in [0 .. n - 1 -> ClosedType(I, P, n)]
          /\ f1[e] = q /\ f1[h].next = e + 1 /\ f1[h].id = f[h].id /\ f1[h].pointer = f[h].pointer
          /\ \A x \in 0 .. n - 1 : x # e /\ x # h => f1[x] = f[x]
      <3> HIDE DEF q
      <3> QED BY <2>5, <2>6 DEF ClosedType
    <2>8. f1[e].id = row.id /\ f1[e].pointer = row.pointer /\ f1[e].next = f[h].next
      BY <2>7
    <2> HIDE DEF f1, q
    <2>9. Put(I, P, n, f, f1, h, e, row)
      BY <1>3, <2>3, <2>5, <2>7, <2>8 DEF Put
    <2> QED BY <2>4, <2>9
  <1> QED BY <1>2, <1>3

LEMMA PutFills ==
  ASSUME NEW I, NEW P, NULL \notin P, NEW n \in Nat \ {0},
         NEW rows, NEW home, NEW i \in 1..n, rows[i] \in [id : I, pointer : P],
         NEW f, Filled(I, P, n, rows, home, i - 1, f),
         NEW f1, NEW e, Put(I, P, n, f, f1, home[i], e, rows[i]), home[i] \in 0 .. n - 1
  PROVE  Filled(I, P, n, rows, home, i, f1)
  <1>1. PICK s \in Nat : s = i - 1 /\ s + 1 = i
    OBVIOUS
  <1>2. PICK U : U = Taken(n, f)
    OBVIOUS
  <1>3. PICK h \in 0 .. n - 1 : h = home[i]
    OBVIOUS
  <1>4. PICK pos : Stands(n, rows, home, s, f, pos)
    BY <1>1 DEF Filled
  <1>5. /\ e \in 0 .. n - 1 /\ f[e].pointer = NULL
        /\ f1 \in [0 .. n - 1 -> ClosedType(I, P, n)]
        /\ f1[e].id = rows[i].id /\ f1[e].pointer = rows[i].pointer
        /\ \A x \in 0 .. n - 1 : x # e => f1[x].id = f[x].id /\ f1[x].pointer = f[x].pointer
    BY DEF Put
  <1>6. rows[i].pointer # NULL
    OBVIOUS
  <1>7. Taken(n, f1) = U \cup {e} /\ e \notin U /\ U \subseteq 0 .. n - 1
    BY <1>2, <1>5, <1>6 DEF Taken
  <1>8. IsFiniteSet(Taken(n, f1)) /\ Cardinality(Taken(n, f1)) = i
    <2>1. IsFiniteSet(U) /\ Cardinality(U) = s
      BY <1>1, <1>2 DEF Filled
    <2> QED BY <1>1, <1>7, <2>1, FS_AddElement
  <1>9. \/ e = h /\ \A x \in U : f1[x].next = f[x].next
        \/ /\ h \in U /\ s > 0
           /\ f1[h].next = e + 1 /\ f1[e].next = f[h].next
           /\ \A x \in U : x # h => f1[x].next = f[x].next
    <2>1. CASE e = h /\ \A x \in 0 .. n - 1 : f1[x].next = f[x].next
      BY <1>7, <2>1
    <2>2. CASE /\ f[h].pointer # NULL
               /\ f1[h].next = e + 1 /\ f1[e].next = f[h].next
               /\ \A x \in 0 .. n - 1 : x # e /\ x # h => f1[x].next = f[x].next
      <3>1. h \in U
        BY <1>2, <1>3, <2>2 DEF Taken
      <3>2. \E r \in 1..s : pos[r] = h
        BY <1>2, <1>4, <3>1 DEF Stands
      <3>3. s > 0
        BY <3>2
      <3> QED BY <1>7, <2>2, <3>1, <3>3
    <2> QED BY <1>3, <2>1, <2>2 DEF Put
  <1>10. /\ Reached(f1, U \cup {e}, s + 1, h, e)
         /\ \A a, x : Reached(f, U, s, a, x) => Reached(f1, U \cup {e}, s + 1, a, x)
    BY <1>7, <1>9, LinkKeeps
  <1> DEFINE pos1 == [r \in 1..i |-> IF r = i THEN e ELSE pos[r]]
  <1>11. pos \in [1..s -> 0 .. n - 1]
    BY <1>4 DEF Stands
  <1>12. /\ \A r \in 1..s : r \in 1..i /\ r # i
         /\ \A r \in 1..i : r = i \/ r \in 1..s
         /\ i \in 1..i
    BY <1>1
  <1>13. /\ pos1 \in [1..i -> 0 .. n - 1]
         /\ pos1[i] = e /\ \A r \in 1..s : pos1[r] = pos[r]
    BY <1>5, <1>11, <1>12
  <1> HIDE DEF pos1
  <1>14. \A x \in Taken(n, f1) : \E r \in 1..i : pos1[r] = x
    <2>1. \A x \in U : \E r \in 1..s : pos[r] = x
      BY <1>2, <1>4 DEF Stands
    <2> QED BY <1>7, <1>12, <1>13, <2>1
  <1>15. ASSUME NEW r \in 1..i
         PROVE  /\ f1[pos1[r]].id = rows[r].id /\ f1[pos1[r]].pointer = rows[r].pointer
                /\ Reached(f1, Taken(n, f1), i, home[r], pos1[r])
    <2>1. CASE r = i
      BY <1>1, <1>3, <1>5, <1>7, <1>10, <1>13, <2>1
    <2>2. CASE r \in 1..s
      <3>1. /\ f[pos[r]].id = rows[r].id /\ f[pos[r]].pointer = rows[r].pointer
            /\ Reached(f, U, s, home[r], pos[r])
        BY <1>2, <1>4, <2>2 DEF Stands
      <3>2. pos[r] \in 0 .. n - 1 /\ pos1[r] = pos[r]
        BY <1>11, <1>13, <2>2
      <3>3. PICK x \in 0 .. n - 1 : x = pos[r] /\ pos1[r] = x
        BY <3>2
      <3>4. pos[r] # e
        <4>1. \E m \in 0 .. s - 1 : \E g : Way(f, U, home[r], pos[r], m, g)
          BY <3>1 DEF Reached
        <4>2. pos[r] \in U
          <5>1. PICK m \in 0 .. s - 1 : \E g : Way(f, U, home[r], pos[r], m, g)
            BY <4>1
          <5>2. PICK g : Way(f, U, home[r], pos[r], m, g)
            BY <5>1
          <5>3. m \in 0..m
            OBVIOUS
          <5> QED BY <5>2, <5>3 DEF Way
        <4> QED BY <1>7, <4>2
      <3>5. f1[x].id = f[x].id /\ f1[x].pointer = f[x].pointer
        BY <1>5, <3>3, <3>4
      <3>6. Reached(f1, U \cup {e}, s + 1, home[r], x)
        BY <1>10, <3>1, <3>3
      <3>7. Reached(f1, Taken(n, f1), i, home[r], x)
        BY <1>1, <1>7, <3>6
      <3> QED BY <3>1, <3>3, <3>5, <3>7
    <2> QED BY <1>12, <2>1, <2>2
  <1>16. Stands(n, rows, home, i, f1, pos1)
    BY <1>13, <1>14, <1>15 DEF Stands
  <1> QED BY <1>5, <1>8, <1>16 DEF Filled

LEMMA EmptyFilled ==
  ASSUME NEW I, NEW P, NEW n \in Nat \ {0}, NEW rows, NEW home
  PROVE  Filled(I, P, n, rows, home, 0, [i \in 0 .. n - 1 |-> [id |-> 0, pointer |-> NULL, next |-> 0]])
  <1>1. PICK f : f = [i \in 0 .. n - 1 |-> [id |-> 0, pointer |-> NULL, next |-> 0]]
    OBVIOUS
  <1>2. f \in [0 .. n - 1 -> ClosedType(I, P, n)] /\ \A x \in 0 .. n - 1 : f[x].pointer = NULL
    BY <1>1 DEF ClosedType
  <1>3. Taken(n, f) = {}
    BY <1>2 DEF Taken
  <1>4. IsFiniteSet({}) /\ Cardinality({}) = 0
    BY FS_EmptySet
  <1>5. \A r \in 1..0 : FALSE
    OBVIOUS
  <1>6. [r \in 1..0 |-> 0] \in [1..0 -> 0 .. n - 1]
    BY <1>5
  <1>7. Stands(n, rows, home, 0, f, [r \in 1..0 |-> 0])
    BY <1>3, <1>5, <1>6 DEF Stands
  <1>8. Filled(I, P, n, rows, home, 0, f)
    BY <1>2, <1>3, <1>4, <1>7 DEF Filled
  <1> QED BY <1>1, <1>8

(* All rows in a table of as many slots. *)
LEMMA TableFilled ==
  ASSUME NEW I, NEW P, NULL \notin P, NEW n \in Nat \ {0},
         NEW rows, Len(rows) = n, \A i \in 1..n : rows[i] \in [id : I, pointer : P],
         NEW home, \A i \in 1..n : home[i] \in 0 .. n - 1
  PROVE  Filled(I, P, n, rows, home, n, ClosedTable(rows, home))
  <1> DEFINE empty == [i \in 0 .. n - 1 |-> [id |-> 0, pointer |-> NULL, next |-> 0]]
             From(g, j) == ClosedInsert(g[j - 1], home[j], rows[j])
             Is(i, g) == g = [j \in 0..i |-> IF j = 0 THEN empty ELSE From(g, j)]
             put == CHOOSE g : Is(n, g)
  <1>1. ClosedTable(rows, home) = put[n]
    BY DEF ClosedTable
  <1>2. Filled(I, P, n, rows, home, 0, empty)
    BY EmptyFilled
  <1> HIDE DEF empty
  <1>8. \E g : Is(n, g)
    <2> DEFINE G == {i \in 0..n : \E g : Is(i, g)}
    <2>1. 0 \in G
      <3>1. Is(0, [j \in 0..0 |-> empty])
        OBVIOUS
      <3>2. 0 \in 0..n
        OBVIOUS
      <3> HIDE DEF Is
      <3> QED BY <3>1, <3>2
    <2>2. ASSUME NEW i \in 1..n, i - 1 \in G PROVE i \in G
      <3>1. PICK g : Is(i - 1, g)
        BY <2>2
      <3>2. PICK last : last = From(g, i)
        OBVIOUS
      <3> DEFINE h == [j \in 0..i |-> IF j = i THEN last ELSE g[j]]
      <3>3. h[i] = last /\ (\A j \in 0..i-1 : h[j] = g[j]) /\ i # 0
        OBVIOUS
      <3>4. DOMAIN h = 0..i /\ h = [j \in 0..i |-> h[j]]
        OBVIOUS
      <3> HIDE DEF h
      <3>5. \A j \in 0..i : h[j] = IF j = 0 THEN empty ELSE From(h, j)
        <4> TAKE j \in 0..i
        <4>1. \A y \in 0..i-1 : g[y] = IF y = 0 THEN empty ELSE From(g, y)
          BY <3>1
        <4>2. CASE j = i
          <5>1. i - 1 \in 0..i-1
            OBVIOUS
          <5>2. From(h, i) = From(g, i)
            BY <3>3, <5>1
          <5> QED BY <3>2, <3>3, <4>2, <5>2
        <4>3. CASE j = 0
          <5>1. 0 \in 0..i-1
            OBVIOUS
          <5> QED BY <3>3, <4>1, <4>3, <5>1
        <4>4. CASE j # i /\ j # 0
          <5>1. j \in 0..i-1 /\ j - 1 \in 0..i-1
            BY <4>4
          <5>2. From(h, j) = From(g, j)
            BY <3>3, <5>1
          <5> HIDE DEF From
          <5> QED BY <3>3, <4>1, <4>4, <5>1, <5>2
        <4> QED BY <4>2, <4>3, <4>4
      <3>6. Is(i, h)
        <4> HIDE DEF From
        <4> QED BY <3>4, <3>5
      <3> HIDE DEF Is
      <3> QED BY <3>6
    <2>3. \A i \in 0..n : i \in G
      <3> HIDE DEF G
      <3> QED BY <2>1, <2>2, UpTo
    <2>4. n \in 0..n
      OBVIOUS
    <2> HIDE DEF Is
    <2> QED BY <2>3, <2>4
  <1>9. Is(n, put)
    <2> HIDE DEF Is
    <2> QED BY <1>8
  <1> HIDE DEF put
  <1>10. put[0] = empty /\ \A j \in 1..n : put[j] = From(put, j)
    <2>1. \A j \in 0..n : put[j] = IF j = 0 THEN empty ELSE From(put, j)
      <3> HIDE DEF From
      <3> QED BY <1>9
    <2>2. 0 \in 0..n /\ \A j \in 1..n : j \in 0..n /\ j # 0
      OBVIOUS
    <2> HIDE DEF From
    <2> QED BY <2>1, <2>2
  <1> HIDE DEF Is
  <1> DEFINE G == {i \in 0..n : Filled(I, P, n, rows, home, i, put[i])}
  <1>11. 0 \in G
    <2>1. 0 \in 0..n
      OBVIOUS
    <2> QED BY <1>2, <1>10, <2>1
  <1>12. ASSUME NEW i \in 1..n, i - 1 \in G PROVE i \in G
    <2>1. PICK f : f = put[i - 1]
      OBVIOUS
    <2>2. Filled(I, P, n, rows, home, i - 1, f)
      BY <1>12, <2>1
    <2>3. f \in [0 .. n - 1 -> ClosedType(I, P, n)] /\ IsFiniteSet(Taken(n, f))
          /\ Cardinality(Taken(n, f)) < n
      BY <2>2 DEF Filled
    <2>4. PICK h \in 0 .. n - 1 : h = home[i]
      OBVIOUS
    <2>5. PICK row \in [id : I, pointer : P] : row = rows[i]
      OBVIOUS
    <2>6. \E e \in 0 .. n - 1 : Put(I, P, n, f, ClosedInsert(f, h, row), h, e, row)
      BY <2>3, PutIs
    <2>7. PICK e : Put(I, P, n, f, put[i], home[i], e, rows[i])
      BY <1>10, <2>1, <2>4, <2>5, <2>6
    <2>8. Filled(I, P, n, rows, home, i, put[i])
      BY <2>2, <2>4, <2>5, <2>7, PutFills
    <2>9. i \in 0..n
      OBVIOUS
    <2> QED BY <2>8, <2>9
  <1>13. n \in G
    <2>1. n \in 0..n
      OBVIOUS
    <2> HIDE DEF G
    <2> QED BY <1>11, <1>12, <2>1, UpTo
  <1> QED BY <1>1, <1>13

(* A full table: every slot is some row's, and every row is reached.       *)
Full(n, rows, home, f, pos) ==
  /\ pos \in [1..n -> 0 .. n - 1]
  /\ \A x \in 0 .. n - 1 : \E r \in 1..n : pos[r] = x
  /\ \A r \in 1..n : /\ f[pos[r]].id = rows[r].id /\ f[pos[r]].pointer = rows[r].pointer
                     /\ Reached(f, 0 .. n - 1, n, home[r], pos[r])

LEMMA FilledFull ==
  ASSUME NEW I, NEW P, NEW n \in Nat \ {0}, NEW rows, NEW home, NEW f,
         Filled(I, P, n, rows, home, n, f)
  PROVE  /\ Linked(n, f) /\ DOMAIN f = 0 .. n - 1 /\ Cardinality(DOMAIN f) = n
         /\ \E pos : Full(n, rows, home, f, pos)
  <1>1. f \in [0 .. n - 1 -> ClosedType(I, P, n)]
    BY DEF Filled
  <1>2. Linked(n, f) /\ DOMAIN f = 0 .. n - 1
    BY <1>1 DEF Linked, ClosedType
  <1>3. Cardinality(0 .. n - 1) = n /\ IsFiniteSet(0 .. n - 1)
    <2>1. n - 1 \in Int /\ 0 \in Int /\ ~(0 > n - 1) /\ (n - 1) - 0 + 1 = n
      OBVIOUS
    <2>2. Cardinality(0 .. n - 1) = n
      BY <2>1, FS_Interval
    <2>3. IsFiniteSet(0 .. n - 1)
      BY <2>1, FS_Interval
    <2> QED BY <2>2, <2>3
  <1>4. Taken(n, f) = 0 .. n - 1
    <2>1. PICK S : S = 0 .. n - 1
      OBVIOUS
    <2>2. PICK T : T = Taken(n, f)
      OBVIOUS
    <2>3. T \in SUBSET S /\ IsFiniteSet(S) /\ Cardinality(S) = Cardinality(T)
      BY <1>3, <2>1, <2>2 DEF Taken, Filled
    <2>4. S = T
      BY <2>3, FS_Subset
    <2> QED BY <2>1, <2>2, <2>4
  <1>5. PICK pos : Stands(n, rows, home, n, f, pos)
    BY DEF Filled
  <1>6. Full(n, rows, home, f, pos)
    BY <1>4, <1>5 DEF Full, Stands
  <1> QED BY <1>2, <1>3, <1>6

(* The slots W are those of the rows R: one row at most, and at home in h.  *)
Wanted(n, rows, home, f, h, W, R) ==
  /\ \A x \in 0 .. n - 1 : \A r \in 1..n :
       f[x].id = rows[r].id /\ f[x].pointer = rows[r].pointer => (x \in W <=> r \in R)
  /\ \A r, t \in R : r = t
  /\ \A r \in R : home[r] = h

(* What a loop that looks for one row only answers: its slot. *)
Hit(n, rows, f, R, i) ==
  /\ R = {} => i = -1
  /\ \A r \in R : \E x \in 0 .. n - 1 :
       i = x /\ f[x].id = rows[r].id /\ f[x].pointer = rows[r].pointer

LEMMA FullFound ==
  ASSUME NEW n \in Nat \ {0}, NEW rows, NEW home, NEW f, NEW pos, Full(n, rows, home, f, pos),
         Linked(n, f), NEW h \in 0 .. n - 1, NEW W, NEW R \in SUBSET (1..n),
         Wanted(n, rows, home, f, h, W, R)
  PROVE  Hit(n, rows, f, R, Found(f, n, h, W))
  <1>1. /\ \A x \in 0 .. n - 1 : \A r \in 1..n :
             f[x].id = rows[r].id /\ f[x].pointer = rows[r].pointer => (x \in W <=> r \in R)
        /\ \A r, t \in R : r = t
        /\ \A r \in R : home[r] = h
    BY DEF Wanted
  <1>2. ASSUME NEW x \in 0 .. n - 1 PROVE \E r \in 1..n : pos[r] = x /\ (x \in W <=> r \in R)
    <2>1. PICK r \in 1..n : pos[r] = x
      BY DEF Full
    <2>2. f[x].id = rows[r].id /\ f[x].pointer = rows[r].pointer
      BY <2>1 DEF Full
    <2> QED BY <1>1, <2>1, <2>2
  <1>3. ASSUME R = {} PROVE Found(f, n, h, W) = -1
    <2>1. \A x \in 0 .. n - 1 : x \notin W
      BY <1>2, <1>3
    <2> QED BY <2>1, FoundIs
  <1>4. ASSUME NEW r \in R
        PROVE  /\ pos[r] \in 0 .. n - 1 /\ Found(f, n, h, W) = pos[r]
               /\ f[pos[r]].id = rows[r].id /\ f[pos[r]].pointer = rows[r].pointer
    <2>1. PICK x \in 0 .. n - 1 : x = pos[r]
      BY DEF Full
    <2>2. /\ f[x].id = rows[r].id /\ f[x].pointer = rows[r].pointer
          /\ Reached(f, 0 .. n - 1, n, h, x)
      BY <1>1, <2>1 DEF Full
    <2>3. x \in W
      BY <1>1, <2>2
    <2>4. \A y \in 0 .. n - 1 : y \in W => y = x
      BY <1>1, <1>2, <2>1
    <2>5. n \in 0..n /\ 0 .. n - 1 \subseteq 0 .. n - 1
      OBVIOUS
    <2>6. Found(f, n, h, W) = x
      BY <2>2, <2>3, <2>4, <2>5, FoundIs
    <2> QED BY <2>1, <2>2, <2>6
  <1> QED BY <1>3, <1>4 DEF Hit

-----------------------------------------------------------------------------
(***************************************************************************)
(* map_ip.                                                                 *)
(***************************************************************************)
IsRows(rows) ==
  /\ rows \in Seq([id : Ids, pointer : Values]) /\ Len(rows) # 0
  /\ \A i, j \in 1 .. Len(rows) : rows[i].id = rows[j].id => i = j

Entries(rows) == {rows[i] : i \in 1 .. Len(rows)}

(* A map answers for the rows, and _inject gets them back. *)
Answers(m, rows) ==
  \A id \in Ids :
    /\ \A r \in 1 .. Len(rows) : rows[r].id = id => IpQuery(m, id) = rows[r].pointer
    /\ (\A r \in 1 .. Len(rows) : rows[r].id # id) => IpQuery(m, id) = NULL

Injected(m, rows) == IsRows(Inject(m)) /\ Entries(Inject(m)) = Entries(rows)

LEMMA UnsignedModType ==
  ASSUME NEW id \in Int, NEW n \in Nat \ {0}
  PROVE  UnsignedMod(id, n) \in 0 .. n - 1
  <1>1. PICK a \in Nat : a = id % n /\ a \in 0 .. n - 1
    OBVIOUS
  <1>2. PICK b \in Nat : b = 65536 % n
    OBVIOUS
  <1>3. PICK d \in Nat : d = b * b
    OBVIOUS
  <1>4. (a + d) % n \in 0 .. n - 1
    OBVIOUS
  <1> QED BY <1>1, <1>2, <1>3, <1>4 DEF UnsignedMod

LEMMA RowsAre ==
  ASSUME NEW rows, IsRows(rows)
  PROVE  /\ Len(rows) \in Nat \ {0}
         /\ \A i \in 1 .. Len(rows) : rows[i] \in [id : Ids, pointer : Values]
         /\ NULL \notin Values /\ Ids \subseteq Int
  <1>1. PICK S : S = [id : Ids, pointer : Values]
    OBVIOUS
  <1>2. rows \in Seq(S) /\ Len(rows) # 0
    BY <1>1 DEF IsRows
  <1>3. Len(rows) \in Nat \ {0} /\ \A i \in 1 .. Len(rows) : rows[i] \in S
    BY <1>2
  <1> QED BY <1>1, <1>3, MapAssumption

LEMMA FunctionIsSeq ==
  ASSUME NEW S, NEW n \in Nat, NEW q \in [1..n -> S]
  PROVE  q \in Seq(S) /\ Len(q) = n
  OBVIOUS

LEMMA SameEntries ==
  ASSUME NEW a, NEW b,
         \A i \in 1 .. Len(a) : \E j \in 1 .. Len(b) : a[i] = b[j],
         \A j \in 1 .. Len(b) : \E i \in 1 .. Len(a) : a[i] = b[j]
  PROVE  Entries(a) = Entries(b)
  <1>1. \A x : x \in Entries(a) <=> \E i \in 1 .. Len(a) : x = a[i]
    BY DEF Entries
  <1>2. \A x : x \in Entries(b) <=> \E j \in 1 .. Len(b) : x = b[j]
    BY DEF Entries
  <1>3. \A x : x \in Entries(a) <=> x \in Entries(b)
    BY <1>1, <1>2
  <1> QED BY <1>3

LEMMA HashAnswers ==
  ASSUME NEW rows, IsRows(rows)
  PROVE  Answers(IpNewHash(rows), rows) /\ Injected(IpNewHash(rows), rows)
  <1>1. PICK n \in Nat \ {0} : n = Len(rows)
    BY RowsAre
  <1>2. /\ \A i \in 1..n : rows[i] \in [id : Ids, pointer : Values]
        /\ NULL \notin Values /\ Ids \subseteq Int
    BY <1>1, RowsAre
  <1>3. PICK home : home = [i \in 1..n |-> UnsignedMod(rows[i].id, n)]
    OBVIOUS
  <1>4. \A i \in 1..n : home[i] = UnsignedMod(rows[i].id, n) /\ home[i] \in 0 .. n - 1
    <2> TAKE i \in 1..n
    <2>1. rows[i].id \in Int
      BY <1>2
    <2>2. UnsignedMod(rows[i].id, n) \in 0 .. n - 1
      BY <2>1, UnsignedModType
    <2> QED BY <1>3, <2>2
  <1>5. PICK f : f = ClosedTable(rows, home)
    OBVIOUS
  <1>6. Filled(Ids, Values, n, rows, home, n, f)
    BY <1>1, <1>2, <1>4, <1>5, TableFilled
  <1>7. Linked(n, f) /\ DOMAIN f = 0 .. n - 1
    BY <1>6, FilledFull
  <1>8. PICK pos : Full(n, rows, home, f, pos)
    BY <1>6, FilledFull
  <1>9. PICK m : m = IpNewHash(rows)
    OBVIOUS
  <1>10. m = [array |-> <<>>, hash_size |-> n, slot |-> f]
    BY <1>1, <1>3, <1>5, <1>9 DEF IpNewHash
  <1>11. m.array = <<>> /\ m.hash_size = n /\ m.slot = f
    BY <1>10
  <1>12. ASSUME NEW id \in Ids
         PROVE  /\ \A r \in 1..n : rows[r].id = id => IpQuery(m, id) = rows[r].pointer
                /\ (\A r \in 1..n : rows[r].id # id) => IpQuery(m, id) = NULL
    <2>1. PICK h \in 0 .. n - 1 : h = UnsignedMod(id, n)
      BY <1>2, UnsignedModType
    <2>2. PICK W : W = {j \in 0 .. n - 1 : f[j].id = id}
      OBVIOUS
    <2>3. PICK R \in SUBSET (1..n) : R = {r \in 1..n : rows[r].id = id}
      OBVIOUS
    <2>4. PICK i : i = Found(f, n, h, W)
      OBVIOUS
    <2>5. IpQuery(m, id) = IF i = -1 THEN NULL ELSE f[i].pointer
      BY <1>7, <1>11, <2>1, <2>2, <2>4 DEF IpQuery
    <2>6. \A x \in 0 .. n - 1 : \A r \in 1..n :
            f[x].id = rows[r].id /\ f[x].pointer = rows[r].pointer => (x \in W <=> r \in R)
      BY <2>2, <2>3
    <2>7. (\A r, t \in R : r = t) /\ \A r \in R : home[r] = h
      BY <1>1, <1>4, <2>1, <2>3 DEF IsRows
    <2>8. Wanted(n, rows, home, f, h, W, R)
      BY <2>6, <2>7 DEF Wanted
    <2>9. /\ R = {} => i = -1
          /\ \A r \in R : \E x \in 0 .. n - 1 :
               i = x /\ f[x].id = rows[r].id /\ f[x].pointer = rows[r].pointer
      <3>1. Hit(n, rows, f, R, i)
        BY <1>7, <1>8, <2>4, <2>8, FullFound
      <3> QED BY <3>1 DEF Hit
    <2>10. ASSUME NEW r \in 1..n, rows[r].id = id PROVE IpQuery(m, id) = rows[r].pointer
      <3>1. r \in R
        BY <2>3, <2>10
      <3>2. PICK x \in 0 .. n - 1 : i = x /\ f[x].pointer = rows[r].pointer
        BY <2>9, <3>1
      <3>3. x # -1
        OBVIOUS
      <3> QED BY <2>5, <3>2, <3>3
    <2>11. ASSUME \A r \in 1..n : rows[r].id # id PROVE IpQuery(m, id) = NULL
      BY <2>3, <2>5, <2>9, <2>11
    <2> QED BY <2>10, <2>11
  <1>13. Answers(m, rows)
    BY <1>1, <1>12 DEF Answers
  <1>14. PICK q : q = [k \in 1..n |-> [id |-> f[k - 1].id, pointer |-> f[k - 1].pointer]]
    OBVIOUS
  <1>15. Inject(m) = q
    BY <1>11, <1>14 DEF Inject
  <1>16. ASSUME NEW x \in 0 .. n - 1
         PROVE  \E r \in 1..n : pos[r] = x /\ [id |-> f[x].id, pointer |-> f[x].pointer] = rows[r]
    <2>1. PICK r \in 1..n : pos[r] = x
      BY <1>8 DEF Full
    <2>2. f[x].id = rows[r].id /\ f[x].pointer = rows[r].pointer
      BY <1>8, <2>1 DEF Full
    <2>3. rows[r] = [id |-> rows[r].id, pointer |-> rows[r].pointer]
      BY <1>2
    <2> QED BY <2>1, <2>2, <2>3
  <1>17. \A k \in 1..n : k - 1 \in 0 .. n - 1 /\ q[k] = [id |-> f[k - 1].id, pointer |-> f[k - 1].pointer]
    BY <1>14
  <1>18. \A k \in 1..n : \E r \in 1..n : pos[r] = k - 1 /\ q[k] = rows[r]
    <2> TAKE k \in 1..n
    <2>1. PICK x \in 0 .. n - 1 : x = k - 1 /\ q[k] = [id |-> f[x].id, pointer |-> f[x].pointer]
      BY <1>17
    <2>2. PICK r \in 1..n : pos[r] = x /\ [id |-> f[x].id, pointer |-> f[x].pointer] = rows[r]
      BY <1>16
    <2> QED BY <2>1, <2>2
  <1>19. q \in Seq([id : Ids, pointer : Values]) /\ Len(q) = n
    <2>1. \A k \in 1..n : q[k] \in [id : Ids, pointer : Values]
      BY <1>2, <1>18
    <2>2. q = [k \in 1..n |-> q[k]]
      BY <1>14
    <2>3. q \in [1..n -> [id : Ids, pointer : Values]]
      BY <2>1, <2>2
    <2> QED BY <2>3, FunctionIsSeq
  <1>20. ASSUME NEW j \in 1..n, NEW k \in 1..n, q[j].id = q[k].id PROVE j = k
    <2>1. PICK r \in 1..n : pos[r] = j - 1 /\ q[j] = rows[r]
      BY <1>18
    <2>2. PICK t \in 1..n : pos[t] = k - 1 /\ q[k] = rows[t]
      BY <1>18
    <2>3. r = t
      BY <1>1, <1>20, <2>1, <2>2 DEF IsRows
    <2> QED BY <2>1, <2>2, <2>3
  <1>21. IsRows(q)
    BY <1>19, <1>20 DEF IsRows
  <1>22. Entries(q) = Entries(rows)
    <2>1. ASSUME NEW r \in 1..n PROVE \E k \in 1..n : q[k] = rows[r]
      <3>1. PICK x \in 0 .. n - 1 : x = pos[r]
        BY <1>8 DEF Full
      <3>2. x + 1 \in 1..n /\ (x + 1) - 1 = x
        OBVIOUS
      <3>3. PICK k \in 1..n : k = x + 1 /\ k - 1 = x
        BY <3>2
      <3>4. q[k] = [id |-> f[x].id, pointer |-> f[x].pointer]
        BY <1>17, <3>3
      <3>5. f[x].id = rows[r].id /\ f[x].pointer = rows[r].pointer
        BY <1>8, <3>1 DEF Full
      <3>6. rows[r] = [id |-> rows[r].id, pointer |-> rows[r].pointer]
        BY <1>2
      <3> QED BY <3>4, <3>5, <3>6
    <2>2. \A k \in 1..n : \E r \in 1..n : q[k] = rows[r]
      BY <1>18
    <2>3. Len(q) = n /\ Len(rows) = n
      BY <1>1, <1>19
    <2>4. /\ \A i \in 1 .. Len(q) : \E j \in 1 .. Len(rows) : q[i] = rows[j]
          /\ \A j \in 1 .. Len(rows) : \E i \in 1 .. Len(q) : q[i] = rows[j]
      BY <2>1, <2>2, <2>3
    <2> QED BY <2>4, SameEntries
  <1> QED BY <1>9, <1>13, <1>15, <1>21, <1>22 DEF Injected

LEMMA MaxIs ==
  ASSUME NEW S \in SUBSET Int, NEW x \in S, \A y \in S : y <= x
  PROVE  Max(S) = x
  <1>1. \A y \in S : (\A z \in S : y >= z) => y = x
    OBVIOUS
  <1>2. \A z \in S : x >= z
    OBVIOUS
  <1> QED BY <1>1, <1>2 DEF Max

LEMMA ExtremesExist ==
  ASSUME NEW n \in Nat \ {0}, NEW x \in [1..n -> Int]
  PROVE  \E a, b \in 1..n : \A i \in 1..n : x[a] <= x[i] /\ x[i] <= x[b]
  <1> DEFINE G == {k \in 0..n : k = 0 \/ \E a, b \in 1..k : \A i \in 1..k : x[a] <= x[i] /\ x[i] <= x[b]}
  <1>1. 0 \in G
    OBVIOUS
  <1>2. ASSUME NEW k \in 1..n, k - 1 \in G PROVE k \in G
    <2>1. x[k] \in Int /\ k \in 1..k /\ \A i \in 1..k : i = k \/ i \in 1 .. k - 1
      OBVIOUS
    <2>2. CASE k = 1
      <3>1. \A i \in 1..1 : i = 1
        OBVIOUS
      <3> QED BY <2>1, <2>2, <3>1
    <2>3. CASE k # 1
      <3>1. PICK a \in 1 .. k - 1, b \in 1 .. k - 1 : \A i \in 1 .. k - 1 : x[a] <= x[i] /\ x[i] <= x[b]
        BY <1>2, <2>3
      <3>2. x[a] \in Int /\ x[b] \in Int /\ a \in 1..k /\ b \in 1..k
        OBVIOUS
      <3>3. PICK a1 \in 1..k : x[a1] <= x[a] /\ x[a1] <= x[k] /\ x[a1] \in Int
        BY <2>1, <3>2
      <3>4. PICK b1 \in 1..k : x[b] <= x[b1] /\ x[k] <= x[b1] /\ x[b1] \in Int
        BY <2>1, <3>2
      <3>5. ASSUME NEW i \in 1..k PROVE x[a1] <= x[i] /\ x[i] <= x[b1]
        <4>1. CASE i = k
          BY <3>3, <3>4, <4>1
        <4>2. CASE i \in 1 .. k - 1
          <5>1. x[a] <= x[i] /\ x[i] <= x[b] /\ x[i] \in Int
            BY <3>1, <4>2
          <5> QED BY <3>2, <3>3, <3>4, <5>1
        <4> QED BY <2>1, <4>1, <4>2
      <3> QED BY <3>5
    <2> QED BY <2>2, <2>3
  <1>3. n \in G
    <2>1. n \in 0..n
      OBVIOUS
    <2> HIDE DEF G
    <2> QED BY <1>1, <1>2, <2>1, UpTo
  <1> QED BY <1>3

(* In a finite set of numbers there is one with k - 1 below it. *)
LEMMA NthExists ==
  ASSUME NEW S \in SUBSET Nat, IsFiniteSet(S), NEW k \in 1 .. Cardinality(S)
  PROVE  \E i \in S : Cardinality({j \in S : j < i}) = k - 1
  <1>1. PICK c \in Nat : c = Cardinality(S)
    BY FS_CardinalityType
  <1> DEFINE rank == [i \in S |-> Cardinality({j \in S : j < i})]
  <1>2. ASSUME NEW i \in S
        PROVE  IsFiniteSet({j \in S : j < i}) /\ rank[i] \in 0 .. c - 1
    <2>1. PICK T : T = {j \in S : j < i}
      OBVIOUS
    <2>2. T \in SUBSET S /\ T # S
      BY <2>1
    <2>3. IsFiniteSet(T) /\ Cardinality(T) <= c /\ Cardinality(T) # c
      BY <1>1, <2>2, FS_Subset
    <2>4. Cardinality(T) \in Nat
      BY <2>3, FS_CardinalityType
    <2> QED BY <2>1, <2>3, <2>4
  <1>3. ASSUME NEW i \in S, NEW u \in S, i < u PROVE rank[i] < rank[u]
    <2>1. PICK T : T = {j \in S : j < i}
      OBVIOUS
    <2>2. PICK V : V = {j \in S : j < u}
      OBVIOUS
    <2>3. IsFiniteSet(T) /\ IsFiniteSet(V) /\ rank[i] = Cardinality(T) /\ rank[u] = Cardinality(V)
      BY <1>2, <2>1, <2>2
    <2>4. i \notin T /\ T \cup {i} \in SUBSET V
      <3>1. i \in Nat /\ u \in Nat /\ \A j \in S : j \in Nat
        OBVIOUS
      <3>2. i \notin T /\ i \in V
        BY <1>3, <2>1, <2>2, <3>1
      <3>3. \A j \in T : j \in V
        BY <1>3, <2>1, <2>2, <3>1
      <3> QED BY <3>2, <3>3
    <2>5. Cardinality(T \cup {i}) = Cardinality(T) + 1
      BY <2>3, <2>4, FS_AddElement
    <2>6. Cardinality(T \cup {i}) <= Cardinality(V)
      BY <2>3, <2>4, FS_Subset
    <2>7. Cardinality(T) \in Nat /\ Cardinality(V) \in Nat
      BY <2>3, FS_CardinalityType
    <2> QED BY <2>3, <2>5, <2>6, <2>7
  <1>4. rank \in [S -> 0 .. c - 1]
    BY <1>2
  <1>5. \A i \in S : rank[i] = Cardinality({j \in S : j < i})
    OBVIOUS
  <1> HIDE DEF rank
  <1>6. \A i, u \in S : rank[i] = rank[u] => i = u
    <2> SUFFICES ASSUME NEW i \in S, NEW u \in S, i # u PROVE rank[i] # rank[u]
      OBVIOUS
    <2>1. i < u \/ u < i
      OBVIOUS
    <2>2. rank[i] \in Nat /\ rank[u] \in Nat
      BY <1>4
    <2> QED BY <1>3, <2>1, <2>2
  <1>7. rank \in Injection(S, 0 .. c - 1)
    BY <1>4, <1>6 DEF Injection, IsInjective
  <1>8. c \in Nat \ {0}
    BY <1>1
  <1>9. IsFiniteSet(0 .. c - 1) /\ Cardinality(0 .. c - 1) = c
    <2>1. c - 1 \in Int /\ 0 \in Int /\ ~(0 > c - 1) /\ (c - 1) - 0 + 1 = c
      BY <1>8
    <2>2. Cardinality(0 .. c - 1) = c
      BY <2>1, FS_Interval
    <2>3. IsFiniteSet(0 .. c - 1)
      BY <2>1, FS_Interval
    <2> QED BY <2>2, <2>3
  <1>10. PICK D : D = 0 .. c - 1
    OBVIOUS
  <1>11. rank \in Surjection(S, D)
    BY <1>1, <1>7, <1>9, <1>10, FS_Injection
  <1>12. k - 1 \in D
    BY <1>1, <1>10
  <1>13. \E i \in S : rank[i] = k - 1
    BY <1>11, <1>12 DEF Surjection
  <1> QED BY <1>5, <1>13

(* The array has a place for every number up to max, the largest id.       *)
IsArray(m, rows, n, max, arr1) ==
  /\ m.array = arr1 /\ arr1 # <<>> /\ m.hash_size = n /\ DOMAIN arr1 = 0..max
  /\ \A r \in 1..n : rows[r].id \in 0..max /\ arr1[rows[r].id] = rows[r].pointer
  /\ \A i \in 0..max : (\A r \in 1..n : rows[r].id # i) => arr1[i] = NULL

LEMMA ArrayAnswers ==
  ASSUME NEW rows, IsRows(rows), NEW n \in Nat \ {0}, n = Len(rows),
         NEW max \in Nat, NEW arr1, NEW m, IsArray(m, rows, n, max, arr1)
  PROVE  Answers(m, rows) /\ Injected(m, rows)
  <1> USE DEF IsArray
  <1>1. /\ \A i \in 1..n : rows[i] \in [id : Ids, pointer : Values]
        /\ NULL \notin Values /\ Ids \subseteq Int
    BY RowsAre
  <1>2. \A id \in Ids : IpQuery(m, id) = IF id \in 0..max THEN arr1[id] ELSE NULL
    BY DEF IpQuery
  <1>3. Answers(m, rows)
    BY <1>2 DEF Answers
  <1>4. PICK S : S = {rows[r].id : r \in 1..n}
    OBVIOUS
  <1>5. S \in SUBSET Nat /\ S \subseteq 0..max /\ \A r \in 1..n : rows[r].id \in S
    BY <1>4
  <1>6. {i \in DOMAIN arr1 : arr1[i] # NULL} = S
    <2>1. \A r \in 1..n : arr1[rows[r].id] # NULL
      BY <1>1
    <2>2. \A i \in 0..max : i \notin S => arr1[i] = NULL
      BY <1>4
    <2> QED BY <1>4, <1>5, <2>1, <2>2
  <1>7. IsFiniteSet(S) /\ Cardinality(S) = n
    <2> DEFINE g == [r \in 1..n |-> rows[r].id]
    <2>1. g \in [1..n -> S] /\ (\A r, t \in 1..n : g[r] = g[t] => r = t) /\ \A x \in S : \E r \in 1..n : g[r] = x
      BY <1>4 DEF IsRows
    <2> HIDE DEF g
    <2>2. g \in Injection(1..n, S) /\ g \in Surjection(1..n, S)
      BY <2>1 DEF Injection, Surjection, IsInjective
    <2>3. ExistsBijection(1..n, S)
      BY <2>2 DEF ExistsBijection, Bijection
    <2>4. n \in Nat
      OBVIOUS
    <2>5. Cardinality(S) = n
      BY <2>3, <2>4, FS_CountingElements
    <2>6. IsFiniteSet(S)
      BY <2>3, <2>4, FS_NatBijection
    <2> QED BY <2>5, <2>6
  <1> DEFINE below(i) == Cardinality({j \in S : j < i})
             nth(k) == CHOOSE i \in S : below(i) = k - 1
  <1>8. ASSUME NEW k \in 1..n PROVE nth(k) \in S /\ below(nth(k)) = k - 1
    <2>1. \E i \in S : below(i) = k - 1
      BY <1>5, <1>7, NthExists
    <2> QED BY <2>1
  <1>9. PICK at : at = [k \in 1..n |-> nth(k)]
    OBVIOUS
  <1> HIDE DEF nth, below
  <1>10. at \in [1..n -> S] /\ \A k \in 1..n : at[k] = nth(k)
    BY <1>8, <1>9
  <1>11. \A j, k \in 1..n : at[j] = at[k] => j = k
    <2> SUFFICES ASSUME NEW j \in 1..n, NEW k \in 1..n, at[j] = at[k] PROVE j = k
      OBVIOUS
    <2>1. j - 1 = k - 1
      BY <1>8, <1>10
    <2> QED BY <2>1
  <1>12. \A x \in S : \E k \in 1..n : at[k] = x
    <2>1. at \in Injection(1..n, S)
      BY <1>10, <1>11 DEF Injection, IsInjective
    <2>2. PICK D : D = 1..n
      OBVIOUS
    <2>3. Cardinality(D) = n
      <3>1. ~(1 > n) /\ n - 1 + 1 = n /\ 1 \in Int /\ n \in Int
        OBVIOUS
      <3>2. Cardinality(1..n) = n
        BY <3>1, FS_Interval
      <3> QED BY <2>2, <3>2
    <2>4. at \in Surjection(D, S)
      BY <1>7, <2>1, <2>2, <2>3, FS_Injection
    <2> QED BY <2>2, <2>4 DEF Surjection
  <1>13. PICK q : q = [k \in 1..n |-> [id |-> at[k], pointer |-> arr1[at[k]]]]
    OBVIOUS
  <1>14. Inject(m) = q
    <2>1. Inject(m) = [k \in 1..n |-> IF k <= Cardinality(S) THEN [id |-> nth(k), pointer |-> arr1[nth(k)]]
                                       ELSE [id |-> 0, pointer |-> NULL]]
      BY <1>6 DEF Inject, nth, below
    <2>2. \A k \in 1..n : k <= Cardinality(S)
      BY <1>7
    <2> QED BY <1>10, <1>13, <2>1, <2>2
  <1>15. ASSUME NEW x \in S PROVE \E r \in 1..n : rows[r].id = x /\ [id |-> x, pointer |-> arr1[x]] = rows[r]
    <2>1. PICK r \in 1..n : rows[r].id = x
      BY <1>4
    <2>2. arr1[x] = rows[r].pointer
      BY <2>1
    <2>3. rows[r] = [id |-> rows[r].id, pointer |-> rows[r].pointer]
      BY <1>1
    <2> QED BY <2>1, <2>2, <2>3
  <1>16. \A k \in 1..n : q[k] = [id |-> at[k], pointer |-> arr1[at[k]]]
    BY <1>13
  <1>17. \A k \in 1..n : \E r \in 1..n : q[k] = rows[r]
    <2> TAKE k \in 1..n
    <2>1. PICK x \in S : x = at[k]
      BY <1>10
    <2>2. PICK r \in 1..n : [id |-> x, pointer |-> arr1[x]] = rows[r]
      BY <1>15
    <2> QED BY <1>16, <2>1, <2>2
  <1>18. q \in Seq([id : Ids, pointer : Values]) /\ Len(q) = n
    <2>1. \A k \in 1..n : q[k] \in [id : Ids, pointer : Values]
      BY <1>1, <1>17
    <2>2. q = [k \in 1..n |-> q[k]]
      BY <1>13
    <2>3. q \in [1..n -> [id : Ids, pointer : Values]]
      BY <2>1, <2>2
    <2> QED BY <2>3, FunctionIsSeq
  <1>19. \A j, k \in 1..n : q[j].id = q[k].id => j = k
    <2>1. ASSUME NEW k \in 1..n PROVE q[k].id = at[k]
      <3>1. PICK a : a = at[k]
        OBVIOUS
      <3>2. PICK b : b = arr1[at[k]]
        OBVIOUS
      <3>3. q[k] = [id |-> a, pointer |-> b]
        BY <1>16, <3>1, <3>2
      <3>4. q[k].id = a
        BY <3>3
      <3> QED BY <3>1, <3>4
    <2> QED BY <1>11, <2>1
  <1>20. IsRows(q)
    BY <1>18, <1>19 DEF IsRows
  <1>21. \A r \in 1..n : \E k \in 1..n : q[k] = rows[r]
    <2> TAKE r \in 1..n
    <2>1. PICK k \in 1..n : at[k] = rows[r].id
      BY <1>5, <1>12
    <2>2. arr1[at[k]] = rows[r].pointer
      BY <2>1
    <2>3. rows[r] = [id |-> rows[r].id, pointer |-> rows[r].pointer]
      BY <1>1
    <2> QED BY <1>16, <2>1, <2>2, <2>3
  <1>22. Entries(q) = Entries(rows)
    <2>1. /\ \A i \in 1 .. Len(q) : \E j \in 1 .. Len(rows) : q[i] = rows[j]
          /\ \A j \in 1 .. Len(rows) : \E i \in 1 .. Len(q) : q[i] = rows[j]
      BY <1>17, <1>18, <1>21
    <2> QED BY <2>1, SameEntries
  <1> QED BY <1>3, <1>14, <1>20, <1>22 DEF Injected

LEMMA NewAnswers ==
  ASSUME NEW rows, IsRows(rows)
  PROVE  Answers(IpNew(rows), rows) /\ Injected(IpNew(rows), rows)
  <1>1. PICK n \in Nat \ {0} : n = Len(rows)
    BY RowsAre
  <1>2. /\ \A i \in 1..n : rows[i] \in [id : Ids, pointer : Values]
        /\ NULL \notin Values /\ Ids \subseteq Int
    BY <1>1, RowsAre
  <1>3. PICK S : S = {rows[i].id : i \in 1..n}
    OBVIOUS
  <1>4. S \in SUBSET Int /\ \A i \in 1..n : rows[i].id \in S
    BY <1>2, <1>3
  <1>5. CASE Max(S) > n * 2 \/ Min(S) < 0
    <2>1. IpNew(rows) = IpNewHash(rows)
      BY <1>1, <1>3, <1>5 DEF IpNew
    <2> QED BY <2>1, HashAnswers
  <1>6. CASE ~(Max(S) > n * 2 \/ Min(S) < 0)
    <2>1. PICK x \in [1..n -> Int] : \A i \in 1..n : x[i] = rows[i].id
      <3>1. [i \in 1..n |-> rows[i].id] \in [1..n -> Int]
        BY <1>2
      <3> QED BY <3>1
    <2>2. PICK a \in 1..n, b \in 1..n : \A i \in 1..n : x[a] <= x[i] /\ x[i] <= x[b]
      BY ExtremesExist
    <2>3. x[a] \in S /\ x[b] \in S /\ \A y \in S : x[a] <= y /\ y <= x[b]
      BY <1>3, <2>1, <2>2
    <2>4. Max(S) = x[b]
      BY <1>4, <2>3, MaxIs
    <2>5. Min(S) \in S
      BY <1>4, <2>3 DEF Min
    <2>6. \A y \in S : 0 <= y
      <3>1. Min(S) \in Int /\ \A y \in S : Min(S) <= y
        <4>1. \E z \in S : \A y \in S : z <= y
          BY <2>3
        <4> QED BY <1>4, <4>1 DEF Min
      <3> QED BY <1>4, <1>6, <3>1
    <2>7. PICK max \in Nat : max = Max(S)
      <3>1. x[b] \in Nat
        BY <1>4, <2>3, <2>6
      <3> QED BY <2>4, <3>1
    <2>8. \A i \in 1..n : rows[i].id \in 0..max
      <3>1. \A y \in S : y \in Int /\ 0 <= y /\ y <= max
        BY <1>4, <2>3, <2>4, <2>6, <2>7
      <3>2. \A y \in S : y \in 0..max
        BY <3>1
      <3> QED BY <1>4, <3>2
    <2> DEFINE last(i) == Max({j \in 1..n : rows[j].id = i})
               arr1 == [i \in 0..max |-> IF i \in S THEN rows[last(i)].pointer ELSE NULL]
    <2>9. IpNew(rows) = [array |-> arr1, hash_size |-> n, slot |-> <<>>]
      BY <1>1, <1>3, <1>6, <2>7 DEF IpNew
    <2>10. ASSUME NEW r \in 1..n PROVE last(rows[r].id) = r
      <3>1. PICK J : J = {j \in 1..n : rows[j].id = rows[r].id}
        OBVIOUS
      <3>2. J \in SUBSET Int /\ r \in J /\ \A j \in J : j = r
        BY <1>1, <3>1 DEF IsRows
      <3>3. \A j \in J : j <= r
        BY <3>2
      <3>4. Max(J) = r
        BY <3>2, <3>3, MaxIs
      <3> QED BY <3>1, <3>4
    <2> HIDE DEF last
    <2>11. /\ DOMAIN arr1 = 0..max
           /\ \A r \in 1..n : arr1[rows[r].id] = rows[r].pointer
           /\ \A i \in 0..max : (\A r \in 1..n : rows[r].id # i) => arr1[i] = NULL
      BY <1>3, <1>4, <2>8, <2>10
    <2> HIDE DEF arr1
    <2>12. arr1 # <<>>
      <3>1. DOMAIN <<>> = {} /\ 0 \in 0..max
        OBVIOUS
      <3> QED BY <2>11, <3>1
    <2>13. PICK m : m = IpNew(rows)
      OBVIOUS
    <2>14. m.array = arr1 /\ m.hash_size = n
      BY <2>9, <2>13
    <2>15. IsArray(m, rows, n, max, arr1)
      BY <2>8, <2>11, <2>12, <2>14 DEF IsArray
    <2>16. Answers(m, rows) /\ Injected(m, rows)
      BY <1>1, <2>15, ArrayAnswers
    <2> QED BY <2>13, <2>16
  <1> QED BY <1>5, <1>6

(* What _pbcM_ip_combine makes of two maps without a number in common. *)
LEMMA Joined ==
  ASSUME NEW a, IsRows(a), NEW b, IsRows(b),
         \A i \in 1 .. Len(a) : \A j \in 1 .. Len(b) : a[i].id # b[j].id
  PROVE  IsRows(a \o b) /\ Entries(a \o b) = Entries(a) \cup Entries(b)
  <1>1. PICK S : S = [id : Ids, pointer : Values]
    OBVIOUS
  <1>2. PICK n \in Nat \ {0} : n = Len(a)
    BY RowsAre
  <1>3. PICK k \in Nat \ {0} : k = Len(b)
    BY RowsAre
  <1>4. a \in Seq(S) /\ b \in Seq(S)
    BY <1>1 DEF IsRows
  <1>5. PICK c : c = a \o b
    OBVIOUS
  <1>6. /\ c \in Seq(S) /\ Len(c) = n + k
        /\ \A i \in 1..n : c[i] = a[i]
        /\ \A j \in 1..k : c[n + j] = b[j]
    BY <1>2, <1>3, <1>4, <1>5
  <1>7. /\ \A i \in 1 .. n + k : i \in 1..n \/ (i > n /\ i - n \in 1..k /\ n + (i - n) = i)
        /\ \A i \in 1..n : i \in 1 .. n + k
        /\ \A j \in 1..k : n + j \in 1 .. n + k
    OBVIOUS
  <1>8. \A i \in 1 .. n + k : \/ i \in 1..n /\ c[i] = a[i]
                              \/ \E j \in 1..k : i = n + j /\ c[i] = b[j]
    <2> TAKE i \in 1 .. n + k
    <2>1. CASE i \in 1..n
      BY <1>6, <2>1
    <2>2. CASE i > n
      <3>1. PICK j \in 1..k : j = i - n /\ n + j = i
        BY <1>7, <2>2
      <3> QED BY <1>6, <3>1
    <2> QED BY <1>7, <2>1, <2>2
  <1>9. ASSUME NEW i \in 1 .. n + k, NEW j \in 1 .. n + k, c[i].id = c[j].id PROVE i = j
    <2>1. \A x, y \in 1..n : a[x].id = a[y].id => x = y
      BY <1>2 DEF IsRows
    <2>2. \A x, y \in 1..k : b[x].id = b[y].id => x = y
      BY <1>3 DEF IsRows
    <2>3. \A x \in 1..n : \A y \in 1..k : a[x].id # b[y].id
      BY <1>2, <1>3
    <2>4. CASE i \in 1..n /\ c[i] = a[i]
      BY <1>8, <1>9, <2>1, <2>3, <2>4
    <2>5. CASE \E y \in 1..k : i = n + y /\ c[i] = b[y]
      <3>1. PICK y \in 1..k : i = n + y /\ c[i] = b[y]
        BY <2>5
      <3>2. CASE j \in 1..n /\ c[j] = a[j]
        <4>1. a[j].id # b[y].id
          BY <2>3, <3>2
        <4> QED BY <1>9, <3>1, <3>2, <4>1
      <3>3. CASE \E z \in 1..k : j = n + z /\ c[j] = b[z]
        BY <1>9, <2>2, <3>1, <3>3
      <3> QED BY <1>8, <3>2, <3>3
    <2> QED BY <1>8, <2>4, <2>5
  <1>10. IsRows(c)
    <2>1. n + k # 0
      OBVIOUS
    <2> QED BY <1>1, <1>6, <1>9, <2>1 DEF IsRows
  <1>11. \A x : x \in Entries(c) <=> \E i \in 1 .. n + k : x = c[i]
    BY <1>6 DEF Entries
  <1>12. \A x : x \in Entries(a) <=> \E i \in 1..n : x = a[i]
    BY <1>2 DEF Entries
  <1>13. \A x : x \in Entries(b) <=> \E i \in 1..k : x = b[i]
    BY <1>3 DEF Entries
  <1>14. ASSUME NEW x \in Entries(c) PROVE x \in Entries(a) \cup Entries(b)
    BY <1>8, <1>11, <1>12, <1>13
  <1>15. ASSUME NEW x \in Entries(a) PROVE x \in Entries(c)
    BY <1>6, <1>7, <1>11, <1>12
  <1>16. ASSUME NEW x \in Entries(b) PROVE x \in Entries(c)
    BY <1>6, <1>7, <1>11, <1>13
  <1> QED BY <1>5, <1>10, <1>14, <1>15, <1>16

LEMMA TablesAre ==
  ASSUME NEW taken, NEW rows \in Tables(taken)
  PROVE  /\ IsRows(rows) /\ Entries(rows) = {rows[i] : i \in DOMAIN rows}
         /\ \A i \in 1 .. Len(rows) : rows[i].id \notin taken
  <1>1. PICK S : S = [id : Ids \ taken, pointer : Values]
    OBVIOUS
  <1>2. PICK T : T = [id : Ids, pointer : Values]
    OBVIOUS
  <1>3. PICK n \in 1 .. MaxRows : rows \in [1..n -> S]
    BY <1>1 DEF Tables
  <1>4. n \in Nat /\ n # 0
    BY <1>3, MapAssumption
  <1>5. \A x \in S : x \in T /\ x.id \notin taken
    BY <1>1, <1>2
  <1>6. rows \in [1..n -> T]
    BY <1>3, <1>5
  <1>7. rows \in Seq(T) /\ Len(rows) = n
    BY <1>4, <1>6, FunctionIsSeq
  <1>8. DOMAIN rows = 1..n
    BY <1>3
  <1>9. \A i, j \in 1..n : rows[i].id = rows[j].id => i = j
    BY <1>8 DEF Tables
  <1>10. IsRows(rows)
    BY <1>2, <1>4, <1>7, <1>9 DEF IsRows
  <1>11. \A i \in 1..n : rows[i].id \notin taken
    BY <1>3, <1>5
  <1> QED BY <1>7, <1>8, <1>10, <1>11 DEF Entries

IpInv == ip # NULL => \E rows : IsRows(rows) /\ ip = IpNew(rows) /\ ipRows = Entries(rows)

LEMMA IpStep ==
  ASSUME IpInv, IpOpen \/ IpMerge
  PROVE  IpInv'
  <1>1. CASE IpOpen
    <2>1. PICK rows \in Tables({}) : ip' = IpNew(rows) /\ ipRows' = {rows[i] : i \in DOMAIN rows}
      BY <1>1 DEF IpOpen
    <2>2. IsRows(rows) /\ ipRows' = Entries(rows)
      BY <2>1, TablesAre
    <2> QED BY <2>1, <2>2 DEF IpInv
  <1>2. CASE IpMerge
    <2>1. PICK b \in Tables({r.id : r \in ipRows}) :
            ip' = IpCombine(ip, IpNew(b)) /\ ipRows' = ipRows \cup {b[i] : i \in DOMAIN b}
      BY <1>2 DEF IpMerge
    <2>2. IsRows(b) /\ Entries(b) = {b[i] : i \in DOMAIN b}
          /\ \A j \in 1 .. Len(b) : b[j].id \notin {r.id : r \in ipRows}
      BY <2>1, TablesAre
    <2>3. PICK a : IsRows(a) /\ ip = IpNew(a) /\ ipRows = Entries(a)
      BY <1>2 DEF IpInv, IpMerge
    <2>4. PICK a1 : a1 = Inject(ip)
      OBVIOUS
    <2>5. PICK b1 : b1 = Inject(IpNew(b))
      OBVIOUS
    <2>6. IsRows(a1) /\ Entries(a1) = Entries(a) /\ IsRows(b1) /\ Entries(b1) = Entries(b)
      BY <2>2, <2>3, <2>4, <2>5, NewAnswers DEF Injected
    <2>7. \A i \in 1 .. Len(a1) : \A j \in 1 .. Len(b1) : a1[i].id # b1[j].id
      <3> SUFFICES ASSUME NEW i \in 1 .. Len(a1), NEW j \in 1 .. Len(b1) PROVE a1[i].id # b1[j].id
        OBVIOUS
      <3>1. a1[i] \in ipRows
        BY <2>3, <2>6 DEF Entries
      <3>2. b1[j] \in Entries(b)
        BY <2>6 DEF Entries
      <3>3. PICK k \in 1 .. Len(b) : b1[j] = b[k]
        BY <3>2 DEF Entries
      <3> QED BY <2>2, <3>1, <3>3
    <2>8. IsRows(a1 \o b1) /\ Entries(a1 \o b1) = Entries(a1) \cup Entries(b1)
      BY <2>6, <2>7, Joined
    <2>9. ip' = IpNew(a1 \o b1)
      BY <2>1, <2>4, <2>5 DEF IpCombine
    <2>10. ipRows' = Entries(a1 \o b1)
      BY <2>1, <2>2, <2>3, <2>6, <2>8
    <2> QED BY <2>8, <2>9, <2>10 DEF IpInv
  <1> QED BY <1>1, <1>2

LEMMA IpIsRight ==
  ASSUME IpInv
  PROVE  IpAnswers
  <1> SUFFICES ASSUME ip # NULL, NEW id \in Ids
               PROVE  LET r == {x \in ipRows : x.id = id}
                      IN  IpQuery(ip, id) = IF r = {} THEN NULL ELSE (CHOOSE x \in r : TRUE).pointer
    BY DEF IpAnswers
  <1>1. PICK rows : IsRows(rows) /\ ip = IpNew(rows) /\ ipRows = Entries(rows)
    BY DEF IpInv
  <1>2. /\ \A i \in 1 .. Len(rows) : rows[i].id = id => IpQuery(ip, id) = rows[i].pointer
        /\ (\A i \in 1 .. Len(rows) : rows[i].id # id) => IpQuery(ip, id) = NULL
    BY <1>1, NewAnswers DEF Answers
  <1>3. PICK r : r = {x \in ipRows : x.id = id}
    OBVIOUS
  <1>4. \A x \in r : \E i \in 1 .. Len(rows) : x = rows[i] /\ rows[i].id = id
    BY <1>1, <1>3 DEF Entries
  <1>5. \A i \in 1 .. Len(rows) : rows[i].id = id => rows[i] \in r
    BY <1>1, <1>3 DEF Entries
  <1>6. CASE r = {}
    BY <1>2, <1>3, <1>5, <1>6
  <1>7. CASE r # {}
    <2>1. PICK x : x = (CHOOSE y \in r : TRUE) /\ x \in r
      BY <1>7
    <2>2. PICK i \in 1 .. Len(rows) : x = rows[i] /\ rows[i].id = id
      BY <1>4, <2>1
    <2> QED BY <1>2, <1>3, <1>7, <2>1, <2>2
  <1> QED BY <1>6, <1>7

-----------------------------------------------------------------------------
(***************************************************************************)
(* map_si, and the tables together.                                        *)
(***************************************************************************)
SiRows(n, k) == [i \in 1..n |-> [id |-> i, pointer |-> k[i]]]

SiInv == si # NULL =>
  \E n \in Nat \ {0} : \E k \in Injection(1..n, Keys) :
    si = [slot |-> SiNew(SiRows(n, k)), rows |-> {SiRows(n, k)[i] : i \in 1..n}]

LEMMA SiStep ==
  ASSUME SiInv, SiOpen
  PROVE  SiInv'
  <1>1. PICK n \in 1 .. MaxRows : \E k \in Injection(1..n, Keys) :
          si' = [slot |-> SiNew(SiRows(n, k)), rows |-> {SiRows(n, k)[i] : i \in 1..n}]
    BY DEF SiOpen, SiRows
  <1>2. n \in Nat \ {0} /\ hash' = hash
    BY MapAssumption DEF SiOpen
  <1>3. \A n1, k1 : SiNew(SiRows(n1, k1))' = SiNew(SiRows(n1, k1))
    BY <1>2 DEF SiNew
  <1> QED BY <1>1, <1>2, <1>3 DEF SiInv

LEMMA SiIsRight ==
  ASSUME SiInv, hash \in [Keys -> Nat]
  PROVE  SiAnswers
  <1> SUFFICES ASSUME si # NULL, NEW key \in Keys
               PROVE  LET r == {x \in si.rows : x.pointer = key}
                          i == SiFind(si.slot, key)
                      IN  IF r = {} THEN i = -1
                          ELSE i # -1 /\ [id |-> si.slot[i].id, pointer |-> key] \in r
    BY DEF SiAnswers
  <1>1. PICK n \in Nat \ {0} : \E k \in Injection(1..n, Keys) :
          si = [slot |-> SiNew(SiRows(n, k)), rows |-> {SiRows(n, k)[i] : i \in 1..n}]
    BY DEF SiInv
  <1>2. PICK k \in Injection(1..n, Keys) :
          si = [slot |-> SiNew(SiRows(n, k)), rows |-> {SiRows(n, k)[i] : i \in 1..n}]
    BY <1>1
  <1>3. k \in [1..n -> Keys] /\ \A i, j \in 1..n : k[i] = k[j] => i = j
    BY <1>2 DEF Injection, IsInjective
  <1>4. PICK rows : rows = SiRows(n, k)
    OBVIOUS
  <1>5. \A i \in 1..n : /\ rows[i] = [id |-> i, pointer |-> k[i]]
                        /\ rows[i] \in [id : 1..n, pointer : Keys]
                        /\ rows[i].pointer = k[i] /\ k[i] \in Keys
    BY <1>3, <1>4 DEF SiRows
  <1>6. Len(rows) = n
    <2>1. PICK S : S = [id : 1..n, pointer : Keys]
      OBVIOUS
    <2>2. rows \in [1..n -> S]
      BY <1>4, <1>5, <2>1 DEF SiRows
    <2> QED BY <2>2, FunctionIsSeq
  <1>7. PICK home : home = [i \in 1..n |-> hash[rows[i].pointer] % n]
    OBVIOUS
  <1>8. \A i \in 1..n : home[i] = hash[k[i]] % n /\ home[i] \in 0 .. n - 1
    <2> TAKE i \in 1..n
    <2>1. rows[i].pointer = k[i] /\ k[i] \in Keys
      BY <1>5
    <2>2. PICK x \in Nat : x = hash[k[i]]
      BY <2>1
    <2>3. x % n \in 0 .. n - 1
      OBVIOUS
    <2> QED BY <1>7, <2>1, <2>2, <2>3
  <1>9. PICK f : f = ClosedTable(rows, home)
    OBVIOUS
  <1>10. NULL \notin Keys
    BY MapAssumption
  <1>11. Filled(1..n, Keys, n, rows, home, n, f)
    BY <1>5, <1>6, <1>8, <1>9, <1>10, TableFilled
  <1>12. Linked(n, f) /\ DOMAIN f = 0 .. n - 1 /\ Cardinality(DOMAIN f) = n
    BY <1>11, FilledFull
  <1>13. PICK pos : Full(n, rows, home, f, pos)
    BY <1>11, FilledFull
  <1>14. si.slot = f /\ si.rows = {rows[i] : i \in 1..n}
    BY <1>2, <1>4, <1>6, <1>7, <1>9 DEF SiNew
  <1>15. PICK h \in 0 .. n - 1 : h = hash[key] % n
    <2>1. PICK x \in Nat : x = hash[key]
      OBVIOUS
    <2>2. x % n \in 0 .. n - 1
      OBVIOUS
    <2> QED BY <2>1, <2>2
  <1>16. PICK W : W = {j \in 0 .. n - 1 : f[j].pointer = key}
    OBVIOUS
  <1>17. PICK R \in SUBSET (1..n) : R = {i \in 1..n : rows[i].pointer = key}
    OBVIOUS
  <1>18. PICK i : i = SiFind(f, key)
    OBVIOUS
  <1>19. i = Found(f, n, h, W)
    BY <1>12, <1>15, <1>16, <1>18 DEF SiFind
  <1>20. \A x \in 0 .. n - 1 : \A j \in 1..n :
           f[x].id = rows[j].id /\ f[x].pointer = rows[j].pointer => (x \in W <=> j \in R)
    BY <1>16, <1>17
  <1>21. \A j \in R : j \in 1..n /\ rows[j].pointer = key /\ k[j] = key
    BY <1>5, <1>17
  <1>22. \A j, t \in R : j = t
    BY <1>3, <1>21
  <1>23. \A j \in R : home[j] = h
    BY <1>8, <1>15, <1>21
  <1>24. Wanted(n, rows, home, f, h, W, R)
    BY <1>20, <1>22, <1>23 DEF Wanted
  <1>25. /\ R = {} => i = -1
         /\ \A j \in R : \E x \in 0 .. n - 1 :
              i = x /\ f[x].id = rows[j].id /\ f[x].pointer = rows[j].pointer
    <2>1. Hit(n, rows, f, R, i)
      BY <1>12, <1>13, <1>19, <1>24, FullFound
    <2> QED BY <2>1 DEF Hit
  <1>26. PICK r : r = {x \in si.rows : x.pointer = key}
    OBVIOUS
  <1>27. CASE R = {}
    <2>1. r = {}
      BY <1>14, <1>17, <1>26, <1>27
    <2> QED BY <1>14, <1>18, <1>25, <1>26, <1>27, <2>1
  <1>28. CASE R # {}
    <2>1. PICK j \in R : TRUE
      BY <1>28
    <2>2. PICK x \in 0 .. n - 1 : i = x /\ f[x].id = rows[j].id
      BY <1>25, <2>1
    <2>3. j \in 1..n /\ rows[j].pointer = key
      BY <1>21, <2>1
    <2>4. rows[j] \in r
      BY <1>14, <1>26, <2>3
    <2>5. rows[j] = [id |-> rows[j].id, pointer |-> rows[j].pointer]
      BY <1>5, <2>3
    <2>6. i # -1 /\ [id |-> f[i].id, pointer |-> key] \in r
      BY <2>2, <2>3, <2>4, <2>5
    <2> QED BY <1>14, <1>18, <1>26, <2>4, <2>6
  <1> QED BY <1>27, <1>28

(* The tables answer for exactly what was put in: the walk of              *)
(* _pbcM_sp_next meets every key once and ends, map_ip finds every field   *)
(* by its number, array or hash or two of them combined, map_si every enum *)
(* value by its name; what was never inserted is not found.                *)
THEOREM TablesAnswerRight == MapSpec => []TablesAnswer
  <1>1. MapInit => MapInv /\ IpInv /\ SiInv
    BY MapAssumption DEF MapInit, MapInv, IpInv, SiInv
  <1>2. MapInv /\ IpInv /\ SiInv /\ [MapNext]_mapVars => (MapInv /\ IpInv /\ SiInv)'
    <2> SUFFICES ASSUME MapInv, IpInv, SiInv, [MapNext]_mapVars PROVE MapInv' /\ IpInv' /\ SiInv'
      OBVIOUS
    <2>1. MapInv'
      BY MapStep
    <2>2. IpInv'
      <3>1. IpOpen \/ IpMerge \/ (ip' = ip /\ ipRows' = ipRows)
        BY DEF MapNext, mapVars, SpOpen, SpAdd, SpEnsure, SiOpen
      <3>2. CASE ip' = ip /\ ipRows' = ipRows
        BY <3>2 DEF IpInv
      <3> QED BY <3>1, <3>2, IpStep
    <2>3. SiInv'
      <3>1. SiOpen \/ (si' = si /\ hash' = hash)
        BY DEF MapNext, mapVars, SpOpen, SpAdd, SpEnsure, IpOpen, IpMerge
      <3>2. CASE si' = si /\ hash' = hash
        <4>1. \A n, k : SiNew(SiRows(n, k))' = SiNew(SiRows(n, k))
          BY <3>2 DEF SiNew
        <4> QED BY <3>2, <4>1 DEF SiInv
      <3> QED BY <3>1, <3>2, SiStep
    <2> QED BY <2>1, <2>2, <2>3
  <1>3. MapInv /\ IpInv /\ SiInv => TablesAnswer
    <2> SUFFICES ASSUME MapInv, IpInv, SiInv PROVE TablesAnswer
      OBVIOUS
    <2>1. hash \in [Keys -> Nat] /\ (sp # NoMap => Table(hash, sp))
      BY DEF MapInv
    <2>2. WalkMeetsAll
      BY <2>1, WalkIsComplete
    <2> QED BY <2>1, <2>2, IpIsRight, SiIsRight DEF TablesAnswer
  <1> QED BY <1>1, <1>2, <1>3, PTL DEF MapSpec

-----------------------------------------------------------------------------
(***************************************************************************)
(* pbc_register: the rounds of _register_no_dependency.  P stands for the  *)
(* files that are registered, fs for those of the set.                     *)
(***************************************************************************)
FileSet == Seq(DOMAIN Files \cup {NullPtr})
Left(fs) == {fs[j] : j \in DOMAIN fs} \ {NullPtr}

(* An entry of the set that is still to be registered. *)
Waits(fs, P, j) == fs[j] # NullPtr /\ fs[j] \notin P
Ahead(fs, i, P) == {j \in i .. Len(fs) : Waits(fs, P, j)}

(* The entries M missed in this round are all that may still wait behind   *)
(* i.  Either the round has made progress, or none of them could be had.   *)
Round(fs, i, rr, r, P) ==
  \E M \in SUBSET (1 .. i - 1) :
    /\ IsFiniteSet(M) /\ Cardinality(M) = rr
    /\ \A j \in 1 .. i - 1 : Waits(fs, P, j) => j \in M
    /\ \/ rr + Cardinality(Ahead(fs, i, P)) < r
       \/ /\ rr + Cardinality(Ahead(fs, i, P)) <= r
          /\ \A j \in M : Waits(fs, P, j) /\ ~Ready(fs[j], P)

LEMMA AheadIsFinite ==
  ASSUME NEW fs \in FileSet, NEW i \in Nat, NEW P
  PROVE  /\ IsFiniteSet(Ahead(fs, i, P)) /\ Cardinality(Ahead(fs, i, P)) \in Nat
         /\ i > 0 => Cardinality(Ahead(fs, i, P)) <= Len(fs)
  <1>1. PICK n \in Nat : n = Len(fs)
    BY DEF FileSet
  <1>2. IsFiniteSet(1 .. n) /\ Cardinality(1 .. n) = n
    <2>1. 1 \in Int /\ n \in Int
      OBVIOUS
    <2>2. IsFiniteSet(1 .. n) /\ Cardinality(1 .. n) = IF 1 > n THEN 0 ELSE n - 1 + 1
      BY <2>1, FS_Interval
    <2> QED BY <2>2
  <1>3. IsFiniteSet(0 .. n)
    BY FS_Interval
  <1>4. PICK A : A = Ahead(fs, i, P)
    OBVIOUS
  <1>5. A \in SUBSET (0 .. n)
    BY <1>1, <1>4 DEF Ahead
  <1>6. IsFiniteSet(A) /\ Cardinality(A) \in Nat
    BY <1>3, <1>5, FS_Subset, FS_CardinalityType
  <1>7. ASSUME i > 0 PROVE Cardinality(A) <= n
    <2>1. A \in SUBSET (1 .. n)
      BY <1>1, <1>4, <1>7 DEF Ahead
    <2> QED BY <1>2, <2>1, FS_Subset
  <1> QED BY <1>1, <1>4, <1>6, <1>7

LEMMA RoundBegins ==
  ASSUME NEW fs \in FileSet, NEW P, NEW r \in Nat, Cardinality(Ahead(fs, 1, P)) \in Nat,
         Cardinality(Ahead(fs, 1, P)) <= r
  PROVE  Round(fs, 1, 0, r, P)
  <1>1. IsFiniteSet({}) /\ Cardinality({}) = 0
    BY FS_EmptySet
  <1>2. {} \in SUBSET (1 .. 1 - 1) /\ \A j \in 1 .. 1 - 1 : FALSE
    OBVIOUS
  <1>3. 0 + Cardinality(Ahead(fs, 1, P)) <= r
    OBVIOUS
  <1> QED BY <1>1, <1>2, <1>3 DEF Round

(* An entry that is done, or that another set has brought already. *)
LEMMA RoundSkips ==
  ASSUME NEW fs \in FileSet, NEW P, NEW i \in Nat \ {0}, NEW rr, NEW r, Round(fs, i, rr, r, P), ~Waits(fs, P, i)
  PROVE  Round(fs, i + 1, rr, r, P)
  <1>1. PICK M \in SUBSET (1 .. i - 1) :
          /\ IsFiniteSet(M) /\ Cardinality(M) = rr
          /\ \A j \in 1 .. i - 1 : Waits(fs, P, j) => j \in M
          /\ \/ rr + Cardinality(Ahead(fs, i, P)) < r
             \/ /\ rr + Cardinality(Ahead(fs, i, P)) <= r
                /\ \A j \in M : Waits(fs, P, j) /\ ~Ready(fs[j], P)
    BY DEF Round
  <1>2. Ahead(fs, i + 1, P) = Ahead(fs, i, P)
    <2>0. Len(fs) \in Nat
      BY DEF FileSet
    <2>1. \A j : j \in i .. Len(fs) <=> ((j = i /\ i \in i .. Len(fs)) \/ j \in i + 1 .. Len(fs))
      BY <2>0
    <2> QED BY <2>1 DEF Ahead
  <1>3. M \in SUBSET (1 .. (i + 1) - 1) /\ \A j \in 1 .. (i + 1) - 1 : j = i \/ j \in 1 .. i - 1
    OBVIOUS
  <1>4. \A j \in 1 .. (i + 1) - 1 : Waits(fs, P, j) => j \in M
    BY <1>1, <1>3
  <1> QED BY <1>1, <1>2, <1>3, <1>4 DEF Round

(* One whose dependencies are not there yet. *)
LEMMA RoundMisses ==
  ASSUME NEW fs \in FileSet, NEW P, NEW i \in 1 .. Len(fs), NEW rr \in Nat, NEW r \in Nat,
         Round(fs, i, rr, r, P), Waits(fs, P, i), ~Ready(fs[i], P)
  PROVE  Round(fs, i + 1, rr + 1, r, P)
  <1>0. Len(fs) \in Nat /\ i \in Nat
    BY DEF FileSet
  <1>1. PICK M \in SUBSET (1 .. i - 1) :
          /\ IsFiniteSet(M) /\ Cardinality(M) = rr
          /\ \A j \in 1 .. i - 1 : Waits(fs, P, j) => j \in M
          /\ \/ rr + Cardinality(Ahead(fs, i, P)) < r
             \/ /\ rr + Cardinality(Ahead(fs, i, P)) <= r
                /\ \A j \in M : Waits(fs, P, j) /\ ~Ready(fs[j], P)
    BY DEF Round
  <1>2. PICK M1 : M1 = M \cup {i}
    OBVIOUS
  <1>3. i \notin M
    OBVIOUS
  <1>4. IsFiniteSet(M1) /\ Cardinality(M1) = rr + 1
    BY <1>1, <1>2, <1>3, FS_AddElement
  <1>5. PICK A : A = Ahead(fs, i + 1, P)
    OBVIOUS
  <1>6. IsFiniteSet(A) /\ Cardinality(A) \in Nat
    BY <1>0, <1>5, AheadIsFinite
  <1>7. Ahead(fs, i, P) = A \cup {i} /\ i \notin A
    <2>1. \A j : j \in i .. Len(fs) <=> (j = i \/ j \in i + 1 .. Len(fs))
      BY <1>0
    <2>2. ~(i \in i + 1 .. Len(fs))
      BY <1>0
    <2> QED BY <1>5, <2>1, <2>2 DEF Ahead
  <1>8. Cardinality(Ahead(fs, i, P)) = Cardinality(A) + 1
    BY <1>6, <1>7, FS_AddElement
  <1>9. M1 \in SUBSET (1 .. (i + 1) - 1) /\ \A j \in 1 .. (i + 1) - 1 : j = i \/ j \in 1 .. i - 1
    BY <1>2
  <1>10. \A j \in 1 .. (i + 1) - 1 : Waits(fs, P, j) => j \in M1
    BY <1>1, <1>2, <1>9
  <1>11. PICK a \in Nat : a = Cardinality(A)
    BY <1>6
  <1>12. (rr + 1) + a = rr + (a + 1)
    OBVIOUS
  <1>13. \/ (rr + 1) + Cardinality(A) < r
         \/ /\ (rr + 1) + Cardinality(A) <= r
            /\ \A j \in M1 : Waits(fs, P, j) /\ ~Ready(fs[j], P)
    BY <1>1, <1>2, <1>8, <1>11, <1>12
  <1> QED BY <1>4, <1>5, <1>9, <1>10, <1>13 DEF Round

(* One that is registered: there are fewer left than there were places to miss. *)
LEMMA RoundAdds ==
  ASSUME NEW fs \in FileSet, NEW P, NEW i \in 1 .. Len(fs), NEW rr \in Nat, NEW r \in Nat,
         Round(fs, i, rr, r, P), Waits(fs, P, i)
  PROVE  Round([fs EXCEPT ![i] = NullPtr], i + 1, rr, r, P \cup {fs[i]})
  <1>0. Len(fs) \in Nat /\ i \in Nat
    BY DEF FileSet
  <1>1. PICK M \in SUBSET (1 .. i - 1) :
          /\ IsFiniteSet(M) /\ Cardinality(M) = rr
          /\ \A j \in 1 .. i - 1 : Waits(fs, P, j) => j \in M
          /\ \/ rr + Cardinality(Ahead(fs, i, P)) < r
             \/ /\ rr + Cardinality(Ahead(fs, i, P)) <= r
                /\ \A j \in M : Waits(fs, P, j) /\ ~Ready(fs[j], P)
    BY DEF Round
  <1>2. PICK gs : gs = [fs EXCEPT ![i] = NullPtr]
    OBVIOUS
  <1>3. PICK Q : Q = P \cup {fs[i]}
    OBVIOUS
  <1>4. gs \in FileSet /\ Len(gs) = Len(fs) /\ gs[i] = NullPtr
        /\ \A j \in 1 .. Len(fs) : j # i => gs[j] = fs[j]
    BY <1>2 DEF FileSet
  <1>5. \A j \in 1 .. Len(fs) : Waits(gs, Q, j) => j # i /\ Waits(fs, P, j)
    BY <1>3, <1>4 DEF Waits
  <1>6. PICK A : A = Ahead(fs, i, P)
    OBVIOUS
  <1>7. PICK B : B = Ahead(gs, i + 1, Q)
    OBVIOUS
  <1>8. IsFiniteSet(A) /\ Cardinality(A) \in Nat /\ Cardinality(B) \in Nat
    BY <1>0, <1>4, <1>6, <1>7, AheadIsFinite
  <1>9. B \subseteq A /\ i \in A /\ i \notin B
    <2>1. \A j \in i + 1 .. Len(fs) : j \in i .. Len(fs) /\ j \in 1 .. Len(fs) /\ j # i
      BY <1>0
    <2>2. i \in i .. Len(fs)
      BY <1>0
    <2> QED BY <1>4, <1>5, <1>6, <1>7, <2>1, <2>2 DEF Ahead
  <1>10. Cardinality(B) < Cardinality(A)
    <2>1. B \in SUBSET A /\ B # A
      BY <1>9
    <2>2. Cardinality(B) <= Cardinality(A) /\ (Cardinality(B) = Cardinality(A) => B = A)
      BY <1>8, <2>1, FS_Subset
    <2> QED BY <1>8, <2>1, <2>2
  <1>11. rr + Cardinality(B) < r
    <2>1. rr + Cardinality(A) <= r
      BY <1>1, <1>6, <1>8
    <2> QED BY <1>8, <1>10, <2>1
  <1>12. M \in SUBSET (1 .. (i + 1) - 1)
    BY <1>0
  <1>13. ASSUME NEW j \in 1 .. (i + 1) - 1, Waits(gs, Q, j) PROVE j \in M
    <2>1. j \in 1 .. Len(fs) /\ (j = i \/ j \in 1 .. i - 1)
      BY <1>0
    <2> QED BY <1>1, <1>5, <1>13, <2>1
  <1>14. Round(gs, i + 1, rr, r, Q)
    BY <1>1, <1>7, <1>11, <1>12, <1>13 DEF Round
  <1> QED BY <1>2, <1>3, <1>14

(* The end of a round. *)
LEMMA RoundEnds ==
  ASSUME NEW fs \in FileSet, NEW P, NEW rr \in Nat, NEW r \in Nat,
         Round(fs, Len(fs) + 1, rr, r, P)
  PROVE  /\ Cardinality(Ahead(fs, 1, P)) <= rr
         /\ (rr = r \/ rr = 0) => \A f \in Left(fs) : Ready(f, P) => f \in P
  <1>0. PICK n \in Nat : n = Len(fs)
    BY DEF FileSet
  <1>1. PICK M \in SUBSET (1 .. n) :
          /\ IsFiniteSet(M) /\ Cardinality(M) = rr
          /\ \A j \in 1 .. n : Waits(fs, P, j) => j \in M
          /\ \/ rr + Cardinality(Ahead(fs, n + 1, P)) < r
             \/ /\ rr + Cardinality(Ahead(fs, n + 1, P)) <= r
                /\ \A j \in M : Waits(fs, P, j) /\ ~Ready(fs[j], P)
    <2>1. (n + 1) - 1 = n
      OBVIOUS
    <2> QED BY <1>0, <2>1 DEF Round
  <1>2. Cardinality(Ahead(fs, 1, P)) <= rr
    <2>1. PICK A : A = Ahead(fs, 1, P)
      OBVIOUS
    <2>2. A \in SUBSET M
      BY <1>0, <1>1, <2>1 DEF Ahead
    <2> QED BY <1>1, <2>1, <2>2, FS_Subset
  <1>3. Cardinality(Ahead(fs, n + 1, P)) \in Nat
    BY AheadIsFinite
  <1>4. DOMAIN fs = 1 .. n
    BY <1>0 DEF FileSet
  <1>5. ASSUME rr = 0, NEW f \in Left(fs) PROVE f \in P
    <2>1. M = {}
      BY <1>1, <1>5, FS_EmptySet
    <2> QED BY <1>1, <1>4, <1>5, <2>1 DEF Left, Waits
  <1>6. ASSUME rr = r, NEW f \in Left(fs), Ready(f, P) PROVE f \in P
    <2>1. \A j \in M : Waits(fs, P, j) /\ ~Ready(fs[j], P)
      <3>1. PICK a \in Nat : a = Cardinality(Ahead(fs, n + 1, P))
        BY <1>3
      <3>2. ~(rr + a < r)
        BY <1>6
      <3> QED BY <1>1, <3>1, <3>2
    <2>2. PICK j \in 1 .. n : fs[j] = f /\ f # NullPtr
      BY <1>4 DEF Left
    <2> QED BY <1>1, <1>6, <2>1, <2>2 DEF Waits
  <1> QED BY <1>2, <1>5, <1>6

(* The closure does not change when one more of it is there. *)
LEMMA ClosureAdds ==
  ASSUME NEW P, NEW L, NEW f \in L, NEW L1, L1 \subseteq L, L \subseteq L1 \cup {f}, Ready(f, P)
  PROVE  Closure(P \cup {f}, L1) = Closure(P, L)
  <1>1. PICK K : K = P \cup L
    OBVIOUS
  <1>2. K = (P \cup {f}) \cup L1
    BY <1>1
  <1>3. ASSUME NEW c \in SUBSET K
        PROVE  (P \subseteq c /\ \A g \in L : Ready(g, c) => g \in c)
                 <=> (P \cup {f} \subseteq c /\ \A g \in L1 : Ready(g, c) => g \in c)
    <2>1. P \subseteq c => Ready(f, c)
      BY DEF Ready
    <2> QED BY <2>1
  <1> QED BY <1>1, <1>2, <1>3 DEF Closure

(* It is what is there when nothing more can be had. *)
LEMMA ClosureDone ==
  ASSUME NEW P, NEW L, \A f \in L : Ready(f, P) => f \in P
  PROVE  Closure(P, L) = P
  <1>1. P \in SUBSET (P \cup L)
    OBVIOUS
  <1> QED BY <1>1 DEF Closure

CallType == [files : FileSet, i : Nat \ {0}, rr : Nat, r : Nat]

RegInv ==
  /\ Pools \subseteq DOMAIN Files
  /\ call = NoCall => Pools = goal
  /\ call # NoCall =>
       /\ call \in CallType /\ call.i <= Len(call.files) + 1
       /\ goal = Closure(Pools, Left(call.files))
       /\ Round(call.files, call.i, call.rr, call.r, Pools)

(* A call in words that do not change with it. *)
LEMMA Calls ==
  ASSUME NEW c, NEW fs \in FileSet, NEW i \in Nat \ {0}, NEW rr \in Nat, NEW r \in Nat,
         c = [files |-> fs, i |-> i, rr |-> rr, r |-> r]
  PROVE  /\ c # NoCall /\ c \in CallType
         /\ c.files = fs /\ c.i = i /\ c.rr = rr /\ c.r = r
  <1>1. c.files = fs /\ c.i = i /\ c.rr = rr /\ c.r = r
    OBVIOUS
  <1>2. c # NoCall
    BY <1>1 DEF NoCall
  <1>3. c \in CallType
    BY DEF CallType
  <1> QED BY <1>1, <1>2, <1>3

LEMMA RegBegins == RegInit => RegInv
  <1> SUFFICES ASSUME RegInit PROVE RegInv
    OBVIOUS
  <1>1. env.files = MapPut(EmptyMap, BuiltIn.name, NullPtr) /\ call = NoCall /\ goal = {}
    BY DEF RegInit
  <1>2. env.files = [x \in {BuiltIn.name} |-> NullPtr]
    BY <1>1 DEF MapPut, EmptyMap
  <1>3. Pools = {}
    BY <1>2 DEF Pools
  <1> QED BY <1>1, <1>3 DEF RegInv

LEMMA OpenSetStep ==
  ASSUME RegInv, NEW set \in Sets, OpenSet(set)
  PROVE  RegInv'
  <1>1. PICK n \in 0 .. MaxSet : set \in [1 .. n -> DOMAIN Files]
    BY DEF Sets
  <1>2. n \in Nat
    BY RegAssumption
  <1>3. set \in FileSet /\ Len(set) = n /\ DOMAIN set = 1 .. n
    BY <1>1, <1>2 DEF FileSet
  <1>4. Pools' = Pools /\ call = NoCall /\ Pools \subseteq DOMAIN Files
    BY DEF OpenSet, Pools, RegInv
  <1>5. {set[j] : j \in DOMAIN set} = Left(set)
    BY <1>1, <1>3, RegAssumption DEF Left
  <1>6. goal' = Closure(Pools, Left(set))
    BY <1>5 DEF OpenSet
  <1>7. CASE set = <<>>
    <2>1. Left(set) = {}
      BY <1>7 DEF Left
    <2>2. Closure(Pools, {}) = Pools
      BY ClosureDone
    <2>3. call' = NoCall
      BY <1>4, <1>7 DEF OpenSet
    <2> QED BY <1>4, <1>6, <2>1, <2>2, <2>3 DEF RegInv
  <1>8. CASE set # <<>>
    <2>1. call' = [files |-> set, i |-> 1, rr |-> 0, r |-> n]
      BY <1>3, <1>8 DEF OpenSet
    <2>2. /\ call' # NoCall /\ call' \in CallType
          /\ call'.files = set /\ call'.i = 1 /\ call'.rr = 0 /\ call'.r = n
      BY <1>2, <1>3, <2>1, Calls
    <2>3. Round(set, 1, 0, n, Pools)
      <3>1. Cardinality(Ahead(set, 1, Pools)) \in Nat /\ Cardinality(Ahead(set, 1, Pools)) <= n
        BY <1>3, AheadIsFinite
      <3> QED BY <1>2, <1>3, <3>1, RoundBegins
    <2>4. 1 <= n + 1
      BY <1>2
    <2> QED BY <1>3, <1>4, <1>6, <2>2, <2>3, <2>4 DEF RegInv
  <1> QED BY <1>7, <1>8

LEMMA RegisterStep ==
  ASSUME RegInv, RegisterNoDependency
  PROVE  RegInv'
  <1>1. call # NoCall /\ call.i <= Len(call.files) /\ goal' = goal
    BY DEF RegisterNoDependency
  <1>2. /\ call \in CallType /\ Pools \subseteq DOMAIN Files
        /\ goal = Closure(Pools, Left(call.files))
        /\ Round(call.files, call.i, call.rr, call.r, Pools)
    BY <1>1 DEF RegInv
  <1>3. PICK fs \in FileSet : fs = call.files
    BY <1>2 DEF CallType
  <1>4. PICK i \in 1 .. Len(fs) : i = call.i
    BY <1>1, <1>2, <1>3 DEF CallType, FileSet
  <1>5. PICK rr \in Nat : rr = call.rr
    BY <1>2 DEF CallType
  <1>6. PICK r \in Nat : r = call.r
    BY <1>2 DEF CallType
  <1>7. call = [files |-> fs, i |-> i, rr |-> rr, r |-> r]
    BY <1>2, <1>3, <1>4, <1>5, <1>6 DEF CallType
  <1>8. Len(fs) \in Nat /\ i \in Nat \ {0} /\ i + 1 \in Nat \ {0} /\ i + 1 <= Len(fs) + 1 /\ DOMAIN fs = 1 .. Len(fs)
    BY DEF FileSet
  <1>9. PICK P : P = Pools
    OBVIOUS
  <1>10. goal = Closure(P, Left(fs)) /\ Round(fs, i, rr, r, P) /\ P \subseteq DOMAIN Files
    BY <1>2, <1>3, <1>4, <1>5, <1>6, <1>9
  <1>11. \A g : Lookup(env.files, g) # NullPtr <=> g \in P
    BY <1>9 DEF Lookup, Pools
  <1>12. CASE call' = [call EXCEPT !.i = @ + 1] /\ env' = env /\ ~Waits(fs, P, i)
    <2>1. call' = [files |-> fs, i |-> i + 1, rr |-> rr, r |-> r]
      BY <1>7, <1>12
    <2>2. Round(fs, i + 1, rr, r, P)
      BY <1>8, <1>10, <1>12, RoundSkips
    <2>3. Pools' = P
      BY <1>9, <1>12 DEF Pools
    <2>4. /\ call' # NoCall /\ call' \in CallType
          /\ call'.files = fs /\ call'.i = i + 1 /\ call'.rr = rr /\ call'.r = r
      BY <1>8, <2>1, Calls
    <2> QED BY <1>1, <1>8, <1>10, <2>2, <2>3, <2>4 DEF RegInv
  <1>13. CASE fs[i] = NullPtr
    <2>1. call' = [call EXCEPT !.i = @ + 1] /\ env' = env
      BY <1>3, <1>4, <1>13 DEF RegisterNoDependency
    <2> QED BY <1>12, <1>13, <2>1 DEF Waits
  <1>14. CASE fs[i] # NullPtr
    <2>1. PICK f : f = fs[i]
      OBVIOUS
    <2>2. \/ /\ CheckFileName(env, f) = "EXIST"
             /\ call' = [call EXCEPT !.i = @ + 1]
             /\ env' = env
          \/ /\ CheckFileName(env, f) = "DEPENDENCY"
             /\ call' = [call EXCEPT !.i = @ + 1, !.rr = @ + 1]
             /\ env' = env
          \/ /\ CheckFileName(env, f) = "OK"
             /\ call' = [call EXCEPT !.i = @ + 1, !.files[call.i] = NullPtr]
             /\ env'.files = MapPut(env.files, f, "pool")
      BY <1>3, <1>4, <1>14, <2>1 DEF RegisterNoDependency
    <2>3. /\ CheckFileName(env, f) = "EXIST" => f \in P
          /\ CheckFileName(env, f) # "EXIST" => f \notin P
          /\ CheckFileName(env, f) = "DEPENDENCY" => ~Ready(f, P)
          /\ CheckFileName(env, f) = "OK" => Ready(f, P)
      BY <1>11 DEF CheckFileName, Ready
    <2>4. f \in DOMAIN Files
      <3>1. fs[i] \in DOMAIN Files \cup {NullPtr}
        BY <1>8 DEF FileSet
      <3> QED BY <1>14, <2>1, <3>1
    <2>5. CASE CheckFileName(env, f) = "EXIST"
      <3>1. ~Waits(fs, P, i)
        BY <2>1, <2>3, <2>5 DEF Waits
      <3> QED BY <1>12, <2>2, <2>5, <3>1
    <2>6. CASE CheckFileName(env, f) = "DEPENDENCY"
      <3>1. call' = [call EXCEPT !.i = @ + 1, !.rr = @ + 1] /\ env' = env
        BY <2>2, <2>6
      <3>2. call' = [files |-> fs, i |-> i + 1, rr |-> rr + 1, r |-> r]
        BY <1>7, <3>1
      <3>3. Waits(fs, P, i) /\ ~Ready(fs[i], P)
        BY <1>14, <2>1, <2>3, <2>6 DEF Waits
      <3>4. Round(fs, i + 1, rr + 1, r, P)
        BY <1>10, <3>3, RoundMisses
      <3>5. Pools' = P
        BY <1>9, <3>1 DEF Pools
      <3>6. /\ call' # NoCall /\ call' \in CallType
            /\ call'.files = fs /\ call'.i = i + 1 /\ call'.rr = rr + 1 /\ call'.r = r
        BY <1>8, <3>2, Calls
      <3> QED BY <1>1, <1>8, <1>10, <3>4, <3>5, <3>6 DEF RegInv
    <2>7. CASE CheckFileName(env, f) = "OK"
      <3>1. /\ call' = [call EXCEPT !.i = @ + 1, !.files[call.i] = NullPtr]
            /\ env'.files = MapPut(env.files, f, "pool")
        BY <2>2, <2>7
      <3>2. PICK gs : gs = [fs EXCEPT ![i] = NullPtr]
        OBVIOUS
      <3>3. call' = [files |-> gs, i |-> i + 1, rr |-> rr, r |-> r]
        <4>1. call' = [call EXCEPT !.i = i + 1, !.files[i] = NullPtr]
          BY <1>4, <3>1
        <4>2. [call EXCEPT !.i = i + 1, !.files[i] = NullPtr] = [call EXCEPT !.i = i + 1, !.files = gs]
          BY <1>3, <1>7, <3>2
        <4>3. [call EXCEPT !.i = i + 1, !.files = gs] = [files |-> gs, i |-> i + 1, rr |-> rr, r |-> r]
          <5>1. [call EXCEPT !.i = i + 1] = [files |-> fs, i |-> i + 1, rr |-> rr, r |-> r]
            BY <1>7
          <5>2. [call EXCEPT !.i = i + 1, !.files = gs] = [[call EXCEPT !.i = i + 1] EXCEPT !.files = gs]
            OBVIOUS
          <5>3. PICK c : c = [files |-> fs, i |-> i + 1, rr |-> rr, r |-> r]
            OBVIOUS
          <5>4. [c EXCEPT !.files = gs] = [files |-> gs, i |-> c.i, rr |-> c.rr, r |-> c.r]
            BY <5>3
          <5> QED BY <5>1, <5>2, <5>3, <5>4
        <4> QED BY <4>1, <4>2, <4>3
      <3>4. gs \in FileSet /\ Len(gs) = Len(fs) /\ DOMAIN gs = DOMAIN fs /\ gs[i] = NullPtr
            /\ \A j \in DOMAIN fs : j # i => gs[j] = fs[j]
        BY <1>8, <3>2 DEF FileSet
      <3>5. Waits(fs, P, i)
        BY <1>14, <2>1, <2>3, <2>7 DEF Waits
      <3>6. Round(gs, i + 1, rr, r, P \cup {f})
        BY <1>10, <2>1, <3>2, <3>5, RoundAdds
      <3>7. Pools' = P \cup {f}
        BY <1>9, <3>1, RegAssumption DEF Pools, MapPut
      <3>8. goal = Closure(P \cup {f}, Left(gs))
        <4>1. f \in Left(fs)
          BY <1>8, <1>14, <2>1 DEF Left
        <4>2. Left(gs) \subseteq Left(fs) /\ Left(fs) \subseteq Left(gs) \cup {f}
          BY <2>1, <3>4 DEF Left
        <4> QED BY <1>10, <2>3, <2>7, <4>1, <4>2, ClosureAdds
      <3>9. /\ call' # NoCall /\ call' \in CallType
            /\ call'.files = gs /\ call'.i = i + 1 /\ call'.rr = rr /\ call'.r = r
        BY <1>8, <3>3, <3>4, Calls
      <3> QED BY <1>1, <1>8, <1>10, <2>4, <3>4, <3>6, <3>7, <3>8, <3>9 DEF RegInv
    <2> QED BY <2>2, <2>5, <2>6, <2>7
  <1> QED BY <1>13, <1>14

LEMMA PassEndStep ==
  ASSUME RegInv, PassEnd
  PROVE  RegInv'
  <1>1. /\ call # NoCall /\ call.i > Len(call.files) /\ goal' = goal
        /\ call \in CallType /\ call.i <= Len(call.files) + 1
    BY DEF PassEnd, RegInv
  <1>2. PICK fs \in FileSet : fs = call.files
    BY <1>1 DEF CallType
  <1>3. PICK rr \in Nat : rr = call.rr
    BY <1>1 DEF CallType
  <1>4. PICK r \in Nat : r = call.r
    BY <1>1 DEF CallType
  <1>5. Len(fs) \in Nat /\ call.i = Len(fs) + 1 /\ 1 <= Len(fs) + 1
    BY <1>1, <1>2 DEF CallType, FileSet
  <1>6. PICK P : P = Pools
    OBVIOUS
  <1>7. goal = Closure(P, Left(fs)) /\ Round(fs, Len(fs) + 1, rr, r, P) /\ P \subseteq DOMAIN Files
    BY <1>1, <1>2, <1>3, <1>4, <1>5, <1>6 DEF RegInv
  <1>8. /\ Cardinality(Ahead(fs, 1, P)) <= rr
        /\ (rr = r \/ rr = 0) => \A f \in Left(fs) : Ready(f, P) => f \in P
    BY <1>7, RoundEnds
  <1>9. env'.files = env.files
    <2>1. Dangle(env).files = env.files
      BY DEF Dangle
    <2> QED BY <2>1 DEF PassEnd
  <1>10. Pools' = P
    BY <1>6, <1>9 DEF Pools
  <1>11. CASE rr = r \/ rr = 0
    <2>1. call' = NoCall
      BY <1>3, <1>4, <1>11 DEF PassEnd
    <2>2. Closure(P, Left(fs)) = P
      BY <1>8, <1>11, ClosureDone
    <2> QED BY <1>1, <1>7, <1>10, <2>1, <2>2 DEF RegInv
  <1>12. CASE ~(rr = r \/ rr = 0)
    <2>1. call' = [call EXCEPT !.i = 1, !.r = rr, !.rr = 0]
      BY <1>3, <1>4, <1>12 DEF PassEnd
    <2>2. call' = [files |-> fs, i |-> 1, rr |-> 0, r |-> rr]
      BY <1>1, <1>2, <2>1 DEF CallType
    <2>3. /\ call' # NoCall /\ call' \in CallType
          /\ call'.files = fs /\ call'.i = 1 /\ call'.rr = 0 /\ call'.r = rr
      BY <2>2, Calls
    <2>4. Cardinality(Ahead(fs, 1, P)) \in Nat
      BY AheadIsFinite
    <2>5. Round(fs, 1, 0, rr, P)
      BY <1>8, <2>4, RoundBegins
    <2> QED BY <1>1, <1>5, <1>7, <1>10, <2>3, <2>5 DEF RegInv
  <1> QED BY <1>11, <1>12

(* pbc_register's rounds end with exactly those files registered that can  *)
(* be had from the set and what was there before, whatever its order.      *)
THEOREM RegisteredInAnyOrder == RegSpec => []OrderDoesNotMatter
  <1>1. RegInv => OrderDoesNotMatter
    BY DEF RegInv, OrderDoesNotMatter
  <1>2. RegInv /\ [RegNext]_regVars => RegInv'
    <2> SUFFICES ASSUME RegInv, [RegNext]_regVars PROVE RegInv'
      OBVIOUS
    <2>1. CASE UNCHANGED <<env, call, goal>>
      BY <2>1 DEF RegInv, Pools
    <2>2. CASE OpenFail
      BY <2>1, <2>2 DEF OpenFail
    <2>3. CASE UNCHANGED regVars
      BY <2>1, <2>3 DEF regVars
    <2> QED BY <2>2, <2>3, OpenSetStep, RegisterStep, PassEndStep DEF RegNext
  <1> QED BY <1>1, <1>2, RegBegins, PTL DEF RegSpec

-----------------------------------------------------------------------------
(***************************************************************************)
(* What pbc_register makes of well-formed files.  The units of P have been *)
(* registered and u is next: k of its declarations have been made, and the *)
(* fields of j of them are there.                                          *)
(***************************************************************************)
Done(P, u, k, v, i) == i \in DOMAIN Decls(v) /\ (v \in P \/ (v = u /\ i <= k))

HasField(msgs, m, a) ==
  /\ m \in DOMAIN msgs /\ a.name \in DOMAIN msgs[m].name
  /\ msgs[m].name[a.name].type = a.type

(* Every enum declared is there, and there is no other. *)
EnumsRight(P, u, k, enums) ==
  /\ \A v \in Units : \A i \in DOMAIN Decls(v) :
       Done(P, u, k, v, i) /\ Decls(v)[i].kind = "enum" =>
         Decls(v)[i].name \in DOMAIN enums /\ enums[Decls(v)[i].name].values = Decls(v)[i].values
  /\ \A n \in DOMAIN enums : \E v \in Units : \E i \in Places(v, "enum", n) :
       /\ enums[n].values = Decls(v)[i].values
       /\ enums[n].default = Decls(v)[i].values[1]

(* So are the messages, and their fields. *)
NamesRight(P, u, k, msgs) ==
  \A v \in Units : \A i \in DOMAIN Decls(v) :
    Done(P, u, k, v, i) /\ Decls(v)[i].kind = "message" => Decls(v)[i].name \in DOMAIN msgs

FieldsRight(P, u, j, msgs) ==
  \A v \in Units : \A i \in DOMAIN Decls(v) :
    Done(P, u, j, v, i) => \A p \in Added(Decls(v)[i]) : HasField(msgs, p[1], p[2])

(* The id maps of all messages but those of w are up to date; a message has *)
(* no fields only when it is declared so.                                  *)
MapRight(msg) ==
  LET ids == {msg.name[n].id : n \in DOMAIN msg.name}
  IN  IF DOMAIN msg.name = {} THEN msg.id = NullPtr
      ELSE /\ DOMAIN msg.id = ids
           /\ \A i \in ids : msg.id[i] \in DOMAIN msg.name /\ msg.name[msg.id[i]].id = i

MapsRight(P, u, k, w, msgs) ==
  \A m \in DOMAIN msgs :
    \/ m \in w /\ DOMAIN msgs[m].name # {}
    \/ /\ MapRight(msgs[m])
       /\ DOMAIN msgs[m].name = {} =>
            \E v \in Units : \E i \in Places(v, "message", m) : Done(P, u, k, v, i)

(* A field points to its type, or waits in the queue for that. *)
Fixed(enums, msgs, f) ==
  /\ f.type \in {"message", "enum"} => f.target = f.type_name
  /\ f.type = "message" => f.type_name \in DOMAIN msgs
  /\ f.type = "enum" => /\ f.type_name \in DOMAIN enums
                        /\ \E x \in DOMAIN enums[f.type_name].values :
                             enums[f.type_name].values[x] = f.default

Queued(q, x, m, n) == \E y \in x .. Len(q) : q[y] = <<m, n>>

TypesRight(u, enums, msgs, q, x) ==
  \A m \in DOMAIN msgs : \A n \in DOMAIN msgs[m].name :
    \/ Fixed(enums, msgs, msgs[m].name[n])
    \/ Fits(u, msgs[m].name[n]) /\ Queued(q, x, m, n)

QueueRight(msgs, q) ==
  /\ \E S : q \in Seq(S)
  /\ \A y \in 1 .. Len(q) : \E m \in DOMAIN msgs : \E n \in DOMAIN msgs[m].name : q[y] = <<m, n>>

(* Only a message that was first met as an extendee has a name of the set.  *)
KeysRight(msgs) == \A m \in DOMAIN msgs : msgs[m].key # "pool" => ExtendedEarly(m)

Going(P, u, k, j, w, s) ==
  /\ EnumsRight(P, u, k, s.enums) /\ NamesRight(P, u, k, s.msgs)
  /\ FieldsRight(P, u, j, s.msgs) /\ MapsRight(P, u, k, w, s.msgs)
  /\ TypesRight(u, s.enums, s.msgs, s.queue, 1) /\ QueueRight(s.msgs, s.queue)
  /\ KeysRight(s.msgs)

(* g is f with v at k. *)
PutAt(g, f, k, v) ==
  /\ DOMAIN g = DOMAIN f \cup {k} /\ g[k] = v
  /\ \A x \in DOMAIN f : x # k => g[x] = f[x]

LEMMA MapPutIs ==
  ASSUME NEW f, NEW k, NEW v
  PROVE  PutAt(MapPut(f, k, v), f, k, v)
  BY DEF MapPut, PutAt

LEMMA AppendIs ==
  ASSUME NEW S, NEW q \in Seq(S), NEW x
  PROVE  /\ Append(q, x) \in Seq(S \cup {x})
         /\ Len(q) \in Nat /\ Len(Append(q, x)) = Len(q) + 1
         /\ \A i \in 1 .. Len(q) : Append(q, x)[i] = q[i]
         /\ Append(q, x)[Len(q) + 1] = x
  <1>1. PICK T : T = S \cup {x}
    OBVIOUS
  <1>2. q \in Seq(T) /\ x \in T
    BY <1>1
  <1>3. Append(q, x) \in Seq(T) /\ Len(Append(q, x)) = Len(q) + 1
    BY <1>2
  <1>4. /\ \A i \in 1 .. Len(q) : Append(q, x)[i] = q[i]
        /\ Append(q, x)[Len(q) + 1] = x
    BY <1>2
  <1> QED BY <1>1, <1>3, <1>4

(* What _pbcP_push_message does to the messages and the queue. *)
Pushed(s, s1, m, key, f) ==
  /\ s1.enums = s.enums /\ DOMAIN s1.msgs = DOMAIN s.msgs \cup {m}
  /\ \A x \in DOMAIN s.msgs : x # m => s1.msgs[x] = s.msgs[x]
  /\ IF m \in DOMAIN s.msgs
     THEN /\ s1.msgs[m].key = s.msgs[m].key
          /\ DOMAIN s1.msgs[m].name = DOMAIN s.msgs[m].name \cup {f.name}
          /\ \A n \in DOMAIN s.msgs[m].name : n # f.name => s1.msgs[m].name[n] = s.msgs[m].name[n]
     ELSE s1.msgs[m].key = key /\ DOMAIN s1.msgs[m].name = {f.name}
  /\ s1.msgs[m].name[f.name] = f
  /\ s1.queue = IF f.type \in {"message", "enum"} THEN Append(s.queue, <<m, f.name>>) ELSE s.queue

LEMMA PushIs ==
  ASSUME NEW s, NEW m, NEW key, NEW f
  PROVE  Pushed(s, PushMessage(s, m, key, f), m, key, f)
  <1>1. PICK old : old = IF m \in DOMAIN s.msgs THEN s.msgs[m] ELSE NewMessage(key)
    OBVIOUS
  <1>2. PICK name : name = MapPut(old.name, f.name, f)
    OBVIOUS
  <1>3. PICK new : new = [key |-> old.key, name |-> name, id |-> old.id]
    OBVIOUS
  <1>4. PICK q : q = IF f.type \in {"message", "enum"} THEN Append(s.queue, <<m, f.name>>) ELSE s.queue
    OBVIOUS
  <1>5. PICK s1 : s1 = PushMessage(s, m, key, f)
    OBVIOUS
  <1>6. s1 = [enums |-> s.enums, msgs |-> MapPut(s.msgs, m, new), queue |-> q]
    BY <1>1, <1>2, <1>3, <1>4, <1>5 DEF PushMessage
  <1>7. s1.enums = s.enums /\ s1.msgs = MapPut(s.msgs, m, new) /\ s1.queue = q
    BY <1>6
  <1>8. /\ DOMAIN s1.msgs = DOMAIN s.msgs \cup {m} /\ s1.msgs[m] = new
        /\ \A x \in DOMAIN s.msgs : x # m => s1.msgs[x] = s.msgs[x]
    <2>1. PutAt(s1.msgs, s.msgs, m, new)
      BY <1>7, MapPutIs
    <2> QED BY <2>1 DEF PutAt
  <1>9. new.key = old.key /\ new.name = name
    BY <1>3
  <1>10. /\ DOMAIN name = DOMAIN old.name \cup {f.name} /\ name[f.name] = f
         /\ \A n \in DOMAIN old.name : n # f.name => name[n] = old.name[n]
    <2>1. PutAt(name, old.name, f.name, f)
      BY <1>2, MapPutIs
    <2> QED BY <2>1 DEF PutAt
  <1>11. m \notin DOMAIN s.msgs => old.key = key /\ DOMAIN old.name = {}
    BY <1>1 DEF NewMessage, EmptyMap
  <1>12. m \in DOMAIN s.msgs => old = s.msgs[m]
    BY <1>1
  <1>13. IF m \in DOMAIN s.msgs
         THEN /\ s1.msgs[m].key = s.msgs[m].key
              /\ DOMAIN s1.msgs[m].name = DOMAIN s.msgs[m].name \cup {f.name}
              /\ \A n \in DOMAIN s.msgs[m].name : n # f.name => s1.msgs[m].name[n] = s.msgs[m].name[n]
         ELSE s1.msgs[m].key = key /\ DOMAIN s1.msgs[m].name = {f.name}
    BY <1>8, <1>9, <1>10, <1>11, <1>12
  <1> QED BY <1>4, <1>5, <1>7, <1>8, <1>9, <1>10, <1>13 DEF Pushed

(* What _pbcP_init_message does. *)
Inited(s, s1, m, key) ==
  /\ s1.enums = s.enums /\ DOMAIN s1.msgs = DOMAIN s.msgs \cup {m} /\ s1.queue = s.queue
  /\ \A x \in DOMAIN s.msgs : x # m => s1.msgs[x] = s.msgs[x]
  /\ IF m \in DOMAIN s.msgs
     THEN /\ s1.msgs[m].key = s.msgs[m].key /\ s1.msgs[m].name = s.msgs[m].name
          /\ DOMAIN s1.msgs[m].name # {} => MapRight(s1.msgs[m])
     ELSE /\ s1.msgs[m].key = key /\ DOMAIN s1.msgs[m].name = {}
          /\ MapRight(s1.msgs[m])

LEMMA IdMapIs ==
  ASSUME NEW msg, msg.id = IdMap(msg.name), DOMAIN msg.name # {}
  PROVE  MapRight(msg)
  <1>1. PICK ids : ids = {msg.name[n].id : n \in DOMAIN msg.name}
    OBVIOUS
  <1>2. msg.id = [i \in ids |-> CHOOSE n \in DOMAIN msg.name : msg.name[n].id = i]
    BY <1>1 DEF IdMap
  <1>3. \A i \in ids : \E n \in DOMAIN msg.name : msg.name[n].id = i
    BY <1>1
  <1>4. /\ DOMAIN msg.id = ids
        /\ \A i \in ids : msg.id[i] \in DOMAIN msg.name /\ msg.name[msg.id[i]].id = i
    BY <1>2, <1>3
  <1> QED BY <1>1, <1>4 DEF MapRight

LEMMA InitIs ==
  ASSUME NEW s, NEW m, NEW key
  PROVE  Inited(s, InitMessage(s, m, key), m, key)
  <1>1. PICK new : new = IF m \notin DOMAIN s.msgs THEN NewMessage(key)
                         ELSE [key |-> s.msgs[m].key, name |-> s.msgs[m].name,
                               id |-> IdMap(s.msgs[m].name)]
    OBVIOUS
  <1>2. PICK s1 : s1 = InitMessage(s, m, key)
    OBVIOUS
  <1>3. s1 = [enums |-> s.enums, msgs |-> MapPut(s.msgs, m, new), queue |-> s.queue]
    BY <1>1, <1>2 DEF InitMessage
  <1>4. s1.enums = s.enums /\ s1.msgs = MapPut(s.msgs, m, new) /\ s1.queue = s.queue
    BY <1>3
  <1>5. /\ DOMAIN s1.msgs = DOMAIN s.msgs \cup {m} /\ s1.msgs[m] = new
        /\ \A x \in DOMAIN s.msgs : x # m => s1.msgs[x] = s.msgs[x]
    <2>1. PutAt(s1.msgs, s.msgs, m, new)
      BY <1>4, MapPutIs
    <2> QED BY <2>1 DEF PutAt
  <1>6. ASSUME m \in DOMAIN s.msgs
        PROVE  /\ new.key = s.msgs[m].key /\ new.name = s.msgs[m].name
               /\ DOMAIN new.name # {} => MapRight(new)
    <2>1. /\ new.key = s.msgs[m].key /\ new.name = s.msgs[m].name
          /\ new.id = IdMap(s.msgs[m].name)
      BY <1>1, <1>6
    <2> QED BY <2>1, IdMapIs
  <1>7. ASSUME m \notin DOMAIN s.msgs
        PROVE  new.key = key /\ DOMAIN new.name = {} /\ MapRight(new)
    <2>1. new.key = key /\ new.name = EmptyMap /\ new.id = NullPtr
      BY <1>1, <1>7 DEF NewMessage
    <2>2. DOMAIN new.name = {}
      BY <2>1 DEF EmptyMap
    <2> QED BY <2>1, <2>2 DEF MapRight
  <1> QED BY <1>2, <1>4, <1>5, <1>6, <1>7 DEF Inited

(* What was there stays there. *)
Kept(M, M1) ==
  /\ DOMAIN M \subseteq DOMAIN M1
  /\ \A v \in Units : \A i \in DOMAIN Decls(v) : \A p \in Added(Decls(v)[i]) :
       HasField(M, p[1], p[2]) => HasField(M1, p[1], p[2])

LEMMA KeptKeeps ==
  ASSUME NEW P, NEW u, NEW k, NEW M, NEW M1, Kept(M, M1)
  PROVE  /\ NamesRight(P, u, k, M) => NamesRight(P, u, k, M1)
         /\ FieldsRight(P, u, k, M) => FieldsRight(P, u, k, M1)
  BY DEF Kept, NamesRight, FieldsRight

LEMMA FixedStays ==
  ASSUME NEW enums, NEW M, NEW M1, DOMAIN M \subseteq DOMAIN M1, NEW f, Fixed(enums, M, f)
  PROVE  Fixed(enums, M1, f)
  BY DEF Fixed

LEMMA FieldIs ==
  ASSUME NEW a
  PROVE  /\ Field(a).name = a.name /\ Field(a).type = a.type
         /\ Field(a).type_name = a.type_name /\ Field(a).default = a.default
         /\ \A u : Fits(u, a) => Fits(u, Field(a))
  <1>1. PICK f : f = Field(a)
    OBVIOUS
  <1>2. f.name = a.name /\ f.type = a.type /\ f.type_name = a.type_name /\ f.default = a.default
    BY <1>1 DEF Field
  <1>3. \A u : Fits(u, a) => Fits(u, f)
    BY <1>2 DEF Fits
  <1> QED BY <1>1, <1>2, <1>3

(* The queue with one more field in it. *)
LEMMA QueueGrows ==
  ASSUME NEW M, NEW q, QueueRight(M, q), NEW M1, DOMAIN M \subseteq DOMAIN M1,
         \A m \in DOMAIN M : DOMAIN M[m].name \subseteq DOMAIN M1[m].name,
         NEW m \in DOMAIN M1, NEW n \in DOMAIN M1[m].name
  PROVE  /\ QueueRight(M1, q) /\ QueueRight(M1, Append(q, <<m, n>>))
         /\ Queued(Append(q, <<m, n>>), 1, m, n)
         /\ \A x, y : Queued(q, 1, x, y) => Queued(Append(q, <<m, n>>), 1, x, y)
  <1>1. PICK S : q \in Seq(S)
    BY DEF QueueRight
  <1>2. PICK e : e = <<m, n>>
    OBVIOUS
  <1>3. PICK q1 : q1 = Append(q, e)
    OBVIOUS
  <1>4. PICK l \in Nat : l = Len(q)
    BY <1>1
  <1>5. /\ q1 \in Seq(S \cup {e}) /\ Len(q1) = l + 1
        /\ \A i \in 1..l : q1[i] = q[i]
        /\ q1[l + 1] = e
    BY <1>1, <1>3, <1>4, AppendIs
  <1>6. (\A i \in 1 .. l + 1 : i \in 1..l \/ i = l + 1) /\ (\A i \in 1..l : i \in 1 .. l + 1) /\ l + 1 \in 1 .. l + 1
    OBVIOUS
  <1>7. \A y \in 1..l : \E x \in DOMAIN M1 : \E z \in DOMAIN M1[x].name : q[y] = <<x, z>>
    <2> TAKE y \in 1..l
    <2>1. PICK x \in DOMAIN M : \E z \in DOMAIN M[x].name : q[y] = <<x, z>>
      BY <1>4 DEF QueueRight
    <2>2. PICK z \in DOMAIN M[x].name : q[y] = <<x, z>>
      BY <2>1
    <2>3. x \in DOMAIN M1 /\ z \in DOMAIN M1[x].name
      OBVIOUS
    <2> QED BY <2>2, <2>3
  <1>8. QueueRight(M1, q)
    BY <1>1, <1>4, <1>7 DEF QueueRight
  <1>9. \A y \in 1 .. l + 1 : \E x \in DOMAIN M1 : \E z \in DOMAIN M1[x].name : q1[y] = <<x, z>>
    BY <1>2, <1>5, <1>6, <1>7
  <1>10. QueueRight(M1, q1)
    BY <1>5, <1>9 DEF QueueRight
  <1>11. Queued(q1, 1, m, n)
    BY <1>2, <1>5, <1>6 DEF Queued
  <1>12. \A x, y : Queued(q, 1, x, y) => Queued(q1, 1, x, y)
    BY <1>4, <1>5, <1>6 DEF Queued
  <1> QED BY <1>2, <1>3, <1>8, <1>10, <1>11, <1>12

LEMMA FieldPushKeeps ==
  ASSUME WellFormed, NEW P, NEW u \in Units, NEW k, NEW j, NEW w, NEW s, Going(P, u, k, j, w, s),
         NEW i \in DOMAIN Decls(u), NEW m, NEW a, <<m, a>> \in Added(Decls(u)[i]),
         NEW key, m \in DOMAIN s.msgs \/ key = "pool" \/ ExtendedEarly(m),
         NEW s1, s1 = PushMessage(s, m, key, Field(a))
  PROVE  Going(P, u, k, j, w \cup {m}, s1) /\ HasField(s1.msgs, m, a) /\ Kept(s.msgs, s1.msgs)
  <1>1. PICK f : f = Field(a)
    OBVIOUS
  <1>2. f.name = a.name /\ f.type = a.type
    BY <1>1, FieldIs
  <1>3. Fits(u, f)
    <2>1. \A p \in Added(Decls(u)[i]) : Fits(u, p[2])
      BY DEF WellFormed
    <2>2. Fits(u, a)
      BY <2>1
    <2> QED BY <1>1, <2>2, FieldIs
  <1>4. PICK M : M = s.msgs
    OBVIOUS
  <1>5. PICK M1 : M1 = s1.msgs
    OBVIOUS
  <1>6. PICK q : q = s.queue
    OBVIOUS
  <1>7. PICK q1 : q1 = s1.queue
    OBVIOUS
  <1>8. Pushed(s, s1, m, key, f)
    BY <1>1, PushIs
  <1>9. /\ s1.enums = s.enums /\ DOMAIN M1 = DOMAIN M \cup {m}
        /\ \A x \in DOMAIN M : x # m => M1[x] = M[x]
        /\ m \in DOMAIN M =>
             /\ M1[m].key = M[m].key
             /\ DOMAIN M1[m].name = DOMAIN M[m].name \cup {f.name}
             /\ \A n \in DOMAIN M[m].name : n # f.name => M1[m].name[n] = M[m].name[n]
        /\ m \notin DOMAIN M => M1[m].key = key /\ DOMAIN M1[m].name = {f.name}
        /\ M1[m].name[f.name] = f
        /\ q1 = IF f.type \in {"message", "enum"} THEN Append(q, <<m, f.name>>) ELSE q
    BY <1>4, <1>5, <1>6, <1>7, <1>8 DEF Pushed
  <1>10. /\ EnumsRight(P, u, k, s.enums) /\ NamesRight(P, u, k, M) /\ FieldsRight(P, u, j, M)
         /\ MapsRight(P, u, k, w, M) /\ TypesRight(u, s.enums, M, q, 1) /\ QueueRight(M, q)
         /\ KeysRight(M)
    BY <1>4, <1>6 DEF Going
  <1>11. HasField(M1, m, a)
    BY <1>2, <1>9 DEF HasField
  <1>12. Kept(M, M1)
    <2>1. DOMAIN M \subseteq DOMAIN M1
      BY <1>9
    <2>2. ASSUME NEW v \in Units, NEW y \in DOMAIN Decls(v), NEW p \in Added(Decls(v)[y]),
                 HasField(M, p[1], p[2])
          PROVE  HasField(M1, p[1], p[2])
      <3>1. PICK b : b = p[2]
        OBVIOUS
      <3>2. p[1] \in DOMAIN M /\ b.name \in DOMAIN M[p[1]].name /\ M[p[1]].name[b.name].type = b.type
        BY <2>2, <3>1 DEF HasField
      <3>3. CASE p[1] = m /\ b.name = a.name
        <4>1. \A x \in Added(Decls(u)[i]), z \in Added(Decls(v)[y]) :
                x[1] = z[1] /\ x[2].name = z[2].name => x[2] = z[2]
          BY DEF WellFormed
        <4>2. PICK x \in Added(Decls(u)[i]) : x = <<m, a>> /\ x[1] = m /\ x[2] = a
          OBVIOUS
        <4>3. a = b
          BY <3>1, <3>3, <4>1, <4>2
        <4> QED BY <1>11, <3>1, <3>3, <4>3
      <3>4. CASE p[1] = m /\ b.name # a.name
        <4>1. b.name \in DOMAIN M1[m].name /\ M1[m].name[b.name] = M[m].name[b.name]
          BY <1>2, <1>9, <3>2, <3>4
        <4> QED BY <1>9, <3>1, <3>2, <3>4, <4>1 DEF HasField
      <3>5. CASE p[1] # m
        <4>1. M1[p[1]] = M[p[1]] /\ p[1] \in DOMAIN M1
          BY <1>9, <3>2, <3>5
        <4> QED BY <3>1, <3>2, <4>1 DEF HasField
      <3> QED BY <3>3, <3>4, <3>5
    <2> QED BY <2>1, <2>2 DEF Kept
  <1>13. NamesRight(P, u, k, M1) /\ FieldsRight(P, u, j, M1)
    BY <1>10, <1>12, KeptKeeps
  <1>14. MapsRight(P, u, k, w \cup {m}, M1)
    <2> SUFFICES ASSUME NEW x \in DOMAIN M1
                 PROVE  \/ x \in w \cup {m} /\ DOMAIN M1[x].name # {}
                        \/ /\ MapRight(M1[x])
                           /\ DOMAIN M1[x].name = {} =>
                                \E v \in Units : \E y \in Places(v, "message", x) : Done(P, u, k, v, y)
      BY DEF MapsRight
    <2>1. CASE x = m
      <3>1. f.name \in DOMAIN M1[m].name
        BY <1>9
      <3> QED BY <2>1, <3>1
    <2>2. CASE x # m
      <3>1. x \in DOMAIN M /\ M1[x] = M[x]
        BY <1>9, <2>2
      <3> QED BY <1>10, <3>1 DEF MapsRight
    <2> QED BY <2>1, <2>2
  <1>15. /\ m \in DOMAIN M1 /\ f.name \in DOMAIN M1[m].name /\ DOMAIN M \subseteq DOMAIN M1
         /\ \A x \in DOMAIN M : DOMAIN M[x].name \subseteq DOMAIN M1[x].name
    <2> SUFFICES ASSUME NEW x \in DOMAIN M PROVE DOMAIN M[x].name \subseteq DOMAIN M1[x].name
      BY <1>9
    <2>1. CASE x = m
      BY <1>9, <2>1
    <2>2. CASE x # m
      BY <1>9, <2>2
    <2> QED BY <2>1, <2>2
  <1>16. /\ QueueRight(M1, q) /\ QueueRight(M1, Append(q, <<m, f.name>>))
         /\ Queued(Append(q, <<m, f.name>>), 1, m, f.name)
         /\ \A x, y : Queued(q, 1, x, y) => Queued(Append(q, <<m, f.name>>), 1, x, y)
    BY <1>10, <1>15, QueueGrows
  <1>17. QueueRight(M1, q1) /\ \A x, y : Queued(q, 1, x, y) => Queued(q1, 1, x, y)
    BY <1>9, <1>16
  <1>18. TypesRight(u, s1.enums, M1, q1, 1)
    <2> SUFFICES ASSUME NEW x \in DOMAIN M1, NEW n \in DOMAIN M1[x].name
                 PROVE  \/ Fixed(s1.enums, M1, M1[x].name[n])
                        \/ Fits(u, M1[x].name[n]) /\ Queued(q1, 1, x, n)
      BY DEF TypesRight
    <2>1. CASE x = m /\ n = f.name
      <3>1. CASE f.type \in {"message", "enum"}
        <4>1. Queued(q1, 1, m, f.name)
          BY <1>9, <1>16, <3>1
        <4> QED BY <1>3, <1>9, <2>1, <4>1
      <3>2. CASE f.type \notin {"message", "enum"}
        <4>1. Fixed(s1.enums, M1, f)
          BY <3>2 DEF Fixed
        <4> QED BY <1>9, <2>1, <4>1
      <3> QED BY <3>1, <3>2
    <2>2. CASE ~(x = m /\ n = f.name)
      <3>1. x \in DOMAIN M /\ n \in DOMAIN M[x].name /\ M1[x].name[n] = M[x].name[n]
        <4>1. CASE x = m
          BY <1>9, <2>2, <4>1
        <4>2. CASE x # m
          BY <1>9, <4>2
        <4> QED BY <4>1, <4>2
      <3>2. \/ Fixed(s.enums, M, M[x].name[n])
            \/ Fits(u, M[x].name[n]) /\ Queued(q, 1, x, n)
        BY <1>10, <3>1 DEF TypesRight
      <3>3. Fixed(s.enums, M, M[x].name[n]) => Fixed(s1.enums, M1, M[x].name[n])
        BY <1>9, <1>15, FixedStays
      <3> QED BY <1>17, <3>1, <3>2, <3>3
    <2> QED BY <2>1, <2>2
  <1>19. KeysRight(M1)
    <2> SUFFICES ASSUME NEW x \in DOMAIN M1, M1[x].key # "pool" PROVE ExtendedEarly(x)
      BY DEF KeysRight
    <2>1. CASE x \in DOMAIN M
      <3>1. M1[x].key = M[x].key
        BY <1>9, <2>1
      <3> QED BY <1>10, <2>1, <3>1 DEF KeysRight
    <2>2. CASE x \notin DOMAIN M
      <3>1. x = m /\ M1[m].key = key
        BY <1>9, <2>2
      <3> QED BY <1>4, <2>2, <3>1
    <2> QED BY <2>1, <2>2
  <1>20. EnumsRight(P, u, k, s1.enums)
    BY <1>9, <1>10
  <1> QED BY <1>4, <1>5, <1>7, <1>11, <1>12, <1>13, <1>14, <1>17, <1>18, <1>19, <1>20 DEF Going

(* One declaration further. *)
LEMMA DoneNext ==
  ASSUME NEW P, NEW u, NEW k \in Nat, NEW v, NEW i \in Nat
  PROVE  /\ Done(P, u, k, v, i) => Done(P, u, k + 1, v, i)
         /\ Done(P, u, k + 1, v, i) => Done(P, u, k, v, i) \/ (v = u /\ i = k + 1)
  <1>1. (i <= k => i <= k + 1) /\ (i <= k + 1 => i <= k \/ i = k + 1)
    OBVIOUS
  <1> QED BY <1>1 DEF Done

LEMMA DeclsAre ==
  ASSUME WellFormed, NEW u \in Units
  PROVE  /\ Len(Decls(u)) \in Nat /\ DOMAIN Decls(u) = 1 .. Len(Decls(u))
         /\ DOMAIN Decls(u) \subseteq Nat
  <1>1. Len(Decls(u)) \in Nat /\ DOMAIN Decls(u) = 1 .. Len(Decls(u))
    BY DEF WellFormed, IsList
  <1>2. \A n \in Nat : 1..n \subseteq Nat
    OBVIOUS
  <1> QED BY <1>1, <1>2

LEMMA Advance ==
  ASSUME WellFormed, NEW P, NEW u \in Units, NEW k \in Nat, k + 1 \in DOMAIN Decls(u),
         NEW e, NEW M, NEW w
  PROVE  /\ EnumsRight(P, u, k, e)
            /\ (Decls(u)[k + 1].kind = "enum" =>
                  /\ Decls(u)[k + 1].name \in DOMAIN e
                  /\ e[Decls(u)[k + 1].name].values = Decls(u)[k + 1].values)
              => EnumsRight(P, u, k + 1, e)
         /\ NamesRight(P, u, k, M)
            /\ (Decls(u)[k + 1].kind = "message" => Decls(u)[k + 1].name \in DOMAIN M)
              => NamesRight(P, u, k + 1, M)
         /\ FieldsRight(P, u, k, M) /\ (\A p \in Added(Decls(u)[k + 1]) : HasField(M, p[1], p[2]))
              => FieldsRight(P, u, k + 1, M)
         /\ MapsRight(P, u, k, w, M) => MapsRight(P, u, k + 1, w, M)
  <1>1. \A v \in Units : \A i \in DOMAIN Decls(v) :
          /\ Done(P, u, k, v, i) => Done(P, u, k + 1, v, i)
          /\ Done(P, u, k + 1, v, i) => Done(P, u, k, v, i) \/ (v = u /\ i = k + 1)
    BY DeclsAre, DoneNext
  <1>2. ASSUME EnumsRight(P, u, k, e),
               Decls(u)[k + 1].kind = "enum" =>
                  /\ Decls(u)[k + 1].name \in DOMAIN e
                  /\ e[Decls(u)[k + 1].name].values = Decls(u)[k + 1].values
        PROVE  EnumsRight(P, u, k + 1, e)
    BY <1>1, <1>2 DEF EnumsRight
  <1>3. ASSUME NamesRight(P, u, k, M),
               Decls(u)[k + 1].kind = "message" => Decls(u)[k + 1].name \in DOMAIN M
        PROVE  NamesRight(P, u, k + 1, M)
    BY <1>1, <1>3 DEF NamesRight
  <1>4. ASSUME FieldsRight(P, u, k, M), \A p \in Added(Decls(u)[k + 1]) : HasField(M, p[1], p[2])
        PROVE  FieldsRight(P, u, k + 1, M)
    BY <1>1, <1>4 DEF FieldsRight
  <1>5. ASSUME MapsRight(P, u, k, w, M) PROVE MapsRight(P, u, k + 1, w, M)
    <2> SUFFICES ASSUME NEW x \in DOMAIN M
                 PROVE  \/ x \in w /\ DOMAIN M[x].name # {}
                        \/ /\ MapRight(M[x])
                           /\ DOMAIN M[x].name = {} =>
                                \E v \in Units : \E y \in Places(v, "message", x) : Done(P, u, k + 1, v, y)
      BY DEF MapsRight
    <2>1. ASSUME NEW v \in Units, NEW y \in Places(v, "message", x), Done(P, u, k, v, y)
          PROVE  Done(P, u, k + 1, v, y)
      <3>1. y \in DOMAIN Decls(v)
        BY DEF Places
      <3> QED BY <1>1, <2>1, <3>1
    <2> QED BY <1>5, <2>1 DEF MapsRight
  <1> QED BY <1>2, <1>3, <1>4, <1>5

(* What an init leaves as it was. *)
LEMMA InitLeaves ==
  ASSUME NEW P, NEW u, NEW k, NEW j, NEW w, NEW s, Going(P, u, k, j, w, s),
         NEW m, NEW key, m \in DOMAIN s.msgs \/ key = "pool",
         NEW s1, s1 = InitMessage(s, m, key)
  PROVE  /\ s1.enums = s.enums /\ Kept(s.msgs, s1.msgs)
         /\ EnumsRight(P, u, k, s1.enums) /\ NamesRight(P, u, k, s1.msgs)
         /\ FieldsRight(P, u, j, s1.msgs)
         /\ TypesRight(u, s1.enums, s1.msgs, s1.queue, 1) /\ QueueRight(s1.msgs, s1.queue)
         /\ KeysRight(s1.msgs)
  <1>1. PICK M : M = s.msgs
    OBVIOUS
  <1>2. PICK M1 : M1 = s1.msgs
    OBVIOUS
  <1>3. Inited(s, s1, m, key)
    BY InitIs
  <1>4. /\ s1.enums = s.enums /\ s1.queue = s.queue /\ DOMAIN M1 = DOMAIN M \cup {m}
        /\ \A x \in DOMAIN M : M1[x].name = M[x].name /\ M1[x].key = M[x].key
        /\ m \notin DOMAIN M => M1[m].key = key /\ DOMAIN M1[m].name = {}
    BY <1>1, <1>2, <1>3 DEF Inited
  <1>5. /\ EnumsRight(P, u, k, s.enums) /\ NamesRight(P, u, k, M) /\ FieldsRight(P, u, j, M)
        /\ TypesRight(u, s.enums, M, s.queue, 1) /\ QueueRight(M, s.queue) /\ KeysRight(M)
    BY <1>1 DEF Going
  <1>6. Kept(M, M1)
    BY <1>4 DEF Kept, HasField
  <1>7. NamesRight(P, u, k, M1) /\ FieldsRight(P, u, j, M1)
    BY <1>5, <1>6, KeptKeeps
  <1>8. TypesRight(u, s.enums, M1, s.queue, 1)
    <2> SUFFICES ASSUME NEW x \in DOMAIN M1, NEW n \in DOMAIN M1[x].name
                 PROVE  \/ Fixed(s.enums, M1, M1[x].name[n])
                        \/ Fits(u, M1[x].name[n]) /\ Queued(s.queue, 1, x, n)
      BY DEF TypesRight
    <2>1. x \in DOMAIN M /\ n \in DOMAIN M[x].name /\ M1[x].name[n] = M[x].name[n]
      BY <1>4
    <2>2. Fixed(s.enums, M, M[x].name[n]) => Fixed(s.enums, M1, M[x].name[n])
      BY <1>4, FixedStays
    <2> QED BY <1>5, <2>1, <2>2 DEF TypesRight
  <1>9. QueueRight(M1, s.queue)
    <2>1. \E S : s.queue \in Seq(S)
      BY <1>5 DEF QueueRight
    <2>2. ASSUME NEW y \in 1 .. Len(s.queue)
          PROVE  \E x \in DOMAIN M1 : \E n \in DOMAIN M1[x].name : s.queue[y] = <<x, n>>
      <3>1. PICK x \in DOMAIN M : \E n \in DOMAIN M[x].name : s.queue[y] = <<x, n>>
        BY <1>5 DEF QueueRight
      <3>2. PICK n \in DOMAIN M[x].name : s.queue[y] = <<x, n>>
        BY <3>1
      <3>3. x \in DOMAIN M1 /\ n \in DOMAIN M1[x].name
        BY <1>4
      <3> QED BY <3>2, <3>3
    <2> QED BY <2>1, <2>2 DEF QueueRight
  <1>10. KeysRight(M1)
    <2> SUFFICES ASSUME NEW x \in DOMAIN M1, M1[x].key # "pool" PROVE ExtendedEarly(x)
      BY DEF KeysRight
    <2>1. x \in DOMAIN M /\ M[x].key # "pool"
      BY <1>1, <1>4
    <2> QED BY <1>5, <2>1 DEF KeysRight
  <1> QED BY <1>1, <1>2, <1>4, <1>5, <1>6, <1>7, <1>8, <1>9, <1>10

(* A message with fields is brought up to date. *)
LEMMA InitKeeps ==
  ASSUME NEW P, NEW u, NEW k, NEW j, NEW w, NEW s, Going(P, u, k, j, w, s),
         NEW m \in DOMAIN s.msgs, DOMAIN s.msgs[m].name # {}, NEW key,
         NEW s1, s1 = InitMessage(s, m, key)
  PROVE  Going(P, u, k, j, w \ {m}, s1) /\ Kept(s.msgs, s1.msgs)
  <1>1. Inited(s, s1, m, key)
    BY InitIs
  <1>2. /\ s1.enums = s.enums /\ Kept(s.msgs, s1.msgs)
        /\ EnumsRight(P, u, k, s1.enums) /\ NamesRight(P, u, k, s1.msgs)
        /\ FieldsRight(P, u, j, s1.msgs)
        /\ TypesRight(u, s1.enums, s1.msgs, s1.queue, 1) /\ QueueRight(s1.msgs, s1.queue)
        /\ KeysRight(s1.msgs)
    BY InitLeaves
  <1>3. MapsRight(P, u, k, w \ {m}, s1.msgs)
    <2> SUFFICES ASSUME NEW x \in DOMAIN s1.msgs
                 PROVE  \/ x \in w \ {m} /\ DOMAIN s1.msgs[x].name # {}
                        \/ /\ MapRight(s1.msgs[x])
                           /\ DOMAIN s1.msgs[x].name = {} =>
                                \E v \in Units : \E y \in Places(v, "message", x) : Done(P, u, k, v, y)
      BY DEF MapsRight
    <2>1. CASE x = m
      BY <1>1, <2>1 DEF Inited
    <2>2. CASE x # m
      <3>1. x \in DOMAIN s.msgs /\ s1.msgs[x] = s.msgs[x]
        BY <1>1, <2>2 DEF Inited
      <3>2. MapsRight(P, u, k, w, s.msgs)
        BY DEF Going
      <3> QED BY <2>2, <3>1, <3>2 DEF MapsRight
    <2> QED BY <2>1, <2>2
  <1> QED BY <1>2, <1>3 DEF Going

(* A declared message is there after its own init. *)
LEMMA InitDeclares ==
  ASSUME WellFormed, NEW P, NEW u \in Units, u \notin P, NEW k \in Nat, k + 1 \in DOMAIN Decls(u),
         NEW s, NEW m, Decls(u)[k + 1].kind = "message", Decls(u)[k + 1].name = m,
         Going(P, u, k, k, {m}, s), NEW s1, s1 = InitMessage(s, m, "pool")
  PROVE  Going(P, u, k + 1, k, {}, s1) /\ Kept(s.msgs, s1.msgs) /\ m \in DOMAIN s1.msgs
  <1>1. Inited(s, s1, m, "pool")
    BY InitIs
  <1>2. /\ s1.enums = s.enums /\ Kept(s.msgs, s1.msgs)
        /\ EnumsRight(P, u, k, s1.enums) /\ NamesRight(P, u, k, s1.msgs)
        /\ FieldsRight(P, u, k, s1.msgs)
        /\ TypesRight(u, s1.enums, s1.msgs, s1.queue, 1) /\ QueueRight(s1.msgs, s1.queue)
        /\ KeysRight(s1.msgs)
    BY InitLeaves
  <1>3. m \in DOMAIN s1.msgs
    BY <1>1 DEF Inited
  <1>4. EnumsRight(P, u, k + 1, s1.enums) /\ NamesRight(P, u, k + 1, s1.msgs)
    BY <1>2, <1>3, Advance
  <1>5. MapsRight(P, u, k, {m}, s.msgs)
    BY DEF Going
  <1>6. MapsRight(P, u, k + 1, {m}, s.msgs)
    BY <1>5, Advance
  <1>7. k + 1 \in Places(u, "message", m) /\ Done(P, u, k + 1, u, k + 1)
    <2>1. k + 1 <= k + 1
      OBVIOUS
    <2> QED BY <2>1 DEF Places, Done
  <1>8. ASSUME m \in DOMAIN s.msgs PROVE DOMAIN s.msgs[m].name # {}
    <2> SUFFICES ASSUME DOMAIN s.msgs[m].name = {} PROVE FALSE
      OBVIOUS
    <2>1. PICK v \in Units : \E y \in Places(v, "message", m) : Done(P, u, k, v, y)
      BY <1>5, <1>8 DEF MapsRight
    <2>2. PICK y \in Places(v, "message", m) : Done(P, u, k, v, y)
      BY <2>1
    <2>3. u = v /\ k + 1 = y
      BY DEF WellFormed
    <2>4. ~(k + 1 <= k)
      OBVIOUS
    <2> QED BY <2>2, <2>3, <2>4 DEF Done
  <1>9. MapsRight(P, u, k + 1, {}, s1.msgs)
    <2> SUFFICES ASSUME NEW x \in DOMAIN s1.msgs
                 PROVE  /\ MapRight(s1.msgs[x])
                        /\ DOMAIN s1.msgs[x].name = {} =>
                              \E v \in Units : \E y \in Places(v, "message", x) : Done(P, u, k + 1, v, y)
      BY DEF MapsRight
    <2>1. CASE x = m
      <3>1. MapRight(s1.msgs[m])
        BY <1>1, <1>8 DEF Inited
      <3> QED BY <1>7, <2>1, <3>1
    <2>2. CASE x # m
      <3>1. x \in DOMAIN s.msgs /\ s1.msgs[x] = s.msgs[x]
        BY <1>1, <2>2 DEF Inited
      <3> QED BY <1>6, <2>2, <3>1 DEF MapsRight
    <2> QED BY <2>1, <2>2
  <1> QED BY <1>2, <1>3, <1>4, <1>9 DEF Going

(* An enum joins the others, or was there. *)
LEMMA EnumKeeps ==
  ASSUME WellFormed, NEW P, NEW u \in Units, u \notin P, NEW k \in Nat, k + 1 \in DOMAIN Decls(u),
         NEW s, Decls(u)[k + 1].kind = "enum", Going(P, u, k, k, {}, s),
         NEW s1, s1 = PushEnum(s, Decls(u)[k + 1].name, Decls(u)[k + 1].values)
  PROVE  Going(P, u, k + 1, k + 1, {}, s1)
  <1>1. PICK d : d = Decls(u)[k + 1]
    OBVIOUS
  <1>2. PICK e : e = s.enums
    OBVIOUS
  <1>3. PICK e1 : e1 = s1.enums
    OBVIOUS
  <1>4. d.kind = "enum" /\ s1 = PushEnum(s, d.name, d.values)
    BY <1>1
  <1>5. /\ EnumsRight(P, u, k, e) /\ NamesRight(P, u, k, s.msgs) /\ FieldsRight(P, u, k, s.msgs)
        /\ MapsRight(P, u, k, {}, s.msgs)
        /\ TypesRight(u, e, s.msgs, s.queue, 1) /\ QueueRight(s.msgs, s.queue) /\ KeysRight(s.msgs)
    BY <1>2 DEF Going
  <1>6. k + 1 \in Places(u, "enum", d.name)
    BY <1>1, <1>4 DEF Places
  <1>7. /\ s1.msgs = s.msgs /\ s1.queue = s.queue
        /\ d.name \in DOMAIN e1 /\ DOMAIN e \subseteq DOMAIN e1 /\ DOMAIN e1 \subseteq DOMAIN e \cup {d.name}
        /\ \A n \in DOMAIN e : e1[n] = e[n]
        /\ e1[d.name].values = d.values /\ e1[d.name].default = d.values[1]
    <2>1. CASE d.name \in DOMAIN e
      <3>1. s1 = s
        BY <1>2, <1>4, <2>1 DEF PushEnum
      <3>2. PICK v \in Units : \E y \in Places(v, "enum", d.name) :
              e[d.name].values = Decls(v)[y].values /\ e[d.name].default = Decls(v)[y].values[1]
        BY <1>5, <2>1 DEF EnumsRight
      <3>3. PICK y \in Places(v, "enum", d.name) :
              e[d.name].values = Decls(v)[y].values /\ e[d.name].default = Decls(v)[y].values[1]
        BY <3>2
      <3>4. u = v /\ k + 1 = y
        BY <1>1, <1>4 DEF WellFormed
      <3> QED BY <1>1, <1>2, <1>3, <2>1, <3>1, <3>3, <3>4
    <2>2. CASE d.name \notin DOMAIN e
      <3>1. PICK r : r = [values |-> d.values, default |-> d.values[1]]
        OBVIOUS
      <3>2. s1 = [enums |-> MapPut(e, d.name, r), msgs |-> s.msgs, queue |-> s.queue]
        BY <1>2, <1>4, <2>2, <3>1 DEF PushEnum
      <3>3. e1 = MapPut(e, d.name, r) /\ s1.msgs = s.msgs /\ s1.queue = s.queue
        BY <1>3, <3>2
      <3>4. PutAt(e1, e, d.name, r)
        BY <3>3, MapPutIs
      <3>5. r.values = d.values /\ r.default = d.values[1]
        BY <3>1
      <3> QED BY <2>2, <3>3, <3>4, <3>5 DEF PutAt
    <2> QED BY <2>1, <2>2
  <1>8. EnumsRight(P, u, k, e1)
    <2>1. ASSUME NEW v \in Units, NEW i \in DOMAIN Decls(v), Done(P, u, k, v, i), Decls(v)[i].kind = "enum"
          PROVE  Decls(v)[i].name \in DOMAIN e1 /\ e1[Decls(v)[i].name].values = Decls(v)[i].values
      BY <1>5, <1>7, <2>1 DEF EnumsRight
    <2>2. ASSUME NEW n \in DOMAIN e1
          PROVE  \E v \in Units : \E i \in Places(v, "enum", n) :
                   e1[n].values = Decls(v)[i].values /\ e1[n].default = Decls(v)[i].values[1]
      <3>1. CASE n = d.name
        BY <1>1, <1>6, <1>7, <3>1
      <3>2. CASE n # d.name
        <4>1. n \in DOMAIN e /\ e1[n] = e[n]
          BY <1>7, <3>2
        <4> QED BY <1>5, <4>1 DEF EnumsRight
      <3> QED BY <3>1, <3>2
    <2> QED BY <2>1, <2>2 DEF EnumsRight
  <1>9. EnumsRight(P, u, k + 1, e1)
    BY <1>1, <1>7, <1>8, Advance
  <1>10. Added(d) = {}
    <2>1. d.kind # "message"
      BY <1>4
    <2> QED BY <1>4, <2>1 DEF Added
  <1>11. /\ NamesRight(P, u, k + 1, s.msgs) /\ FieldsRight(P, u, k + 1, s.msgs)
         /\ MapsRight(P, u, k + 1, {}, s.msgs)
    <2>1. d.kind # "message"
      BY <1>4
    <2> QED BY <1>1, <1>5, <1>10, <2>1, Advance
  <1>12. TypesRight(u, e1, s.msgs, s.queue, 1)
    <2> SUFFICES ASSUME NEW x \in DOMAIN s.msgs, NEW n \in DOMAIN s.msgs[x].name,
                        Fixed(e, s.msgs, s.msgs[x].name[n])
                 PROVE  Fixed(e1, s.msgs, s.msgs[x].name[n])
      BY <1>5 DEF TypesRight
    <2> QED BY <1>7 DEF Fixed
  <1> QED BY <1>3, <1>5, <1>7, <1>9, <1>11, <1>12 DEF Going

(* The states between the fields of a message ... *)
FieldsFollow(s, name, fields, at) ==
  /\ at[0] = s
  /\ \A j \in 1 .. Len(fields) : at[j] = PushMessage(at[j - 1], name, "pool", Field(fields[j]))

LEMMA PushFieldsFollow ==
  ASSUME NEW s, NEW name, NEW fields, Len(fields) \in Nat
  PROVE  \E at : FieldsFollow(s, name, fields, at) /\ PushFields(s, name, fields) = at[Len(fields)]
  <1>1. PICK n \in Nat : n = Len(fields)
    OBVIOUS
  <1> DEFINE z == s
             From(g, j) == PushMessage(g[j - 1], name, "pool", Field(fields[j]))
             Is(i, g) == g = [j \in 0..i |-> IF j = 0 THEN z ELSE From(g, j)]
             put == CHOOSE g : Is(n, g)
  <1>2. PushFields(s, name, fields) = put[n]
    BY <1>1 DEF PushFields
  <1> HIDE DEF z
  <1>3. \E g : Is(n, g)
    <2> DEFINE G == {i \in 0..n : \E g : Is(i, g)}
    <2>1. 0 \in G
      <3>1. Is(0, [j \in 0..0 |-> z])
        OBVIOUS
      <3>2. 0 \in 0..n
        OBVIOUS
      <3> HIDE DEF Is
      <3> QED BY <3>1, <3>2
    <2>2. ASSUME NEW i \in 1..n, i - 1 \in G PROVE i \in G
      <3>1. PICK g : Is(i - 1, g)
        BY <2>2
      <3>2. PICK last : last = From(g, i)
        OBVIOUS
      <3> DEFINE h == [j \in 0..i |-> IF j = i THEN last ELSE g[j]]
      <3>3. h[i] = last /\ (\A j \in 0..i-1 : h[j] = g[j]) /\ i # 0
        OBVIOUS
      <3>4. DOMAIN h = 0..i /\ h = [j \in 0..i |-> h[j]]
        OBVIOUS
      <3> HIDE DEF h
      <3>5. \A j \in 0..i : h[j] = IF j = 0 THEN z ELSE From(h, j)
        <4> TAKE j \in 0..i
        <4>1. \A y \in 0..i-1 : g[y] = IF y = 0 THEN z ELSE From(g, y)
          BY <3>1
        <4>2. CASE j = i
          <5>1. i - 1 \in 0..i-1
            OBVIOUS
          <5>2. From(h, i) = From(g, i)
            BY <3>3, <5>1
          <5> QED BY <3>2, <3>3, <4>2, <5>2
        <4>3. CASE j = 0
          <5>1. 0 \in 0..i-1
            OBVIOUS
          <5> QED BY <3>3, <4>1, <4>3, <5>1
        <4>4. CASE j # i /\ j # 0
          <5>1. j \in 0..i-1 /\ j - 1 \in 0..i-1
            BY <4>4
          <5>2. From(h, j) = From(g, j)
            BY <3>3, <5>1
          <5> HIDE DEF From
          <5> QED BY <3>3, <4>1, <4>4, <5>1, <5>2
        <4> QED BY <4>2, <4>3, <4>4
      <3>6. Is(i, h)
        <4> HIDE DEF From
        <4> QED BY <3>4, <3>5
      <3> HIDE DEF Is
      <3> QED BY <3>6
    <2>3. \A i \in 0..n : i \in G
      <3> HIDE DEF G
      <3> QED BY <2>1, <2>2, UpTo
    <2>4. n \in 0..n
      OBVIOUS
    <2> HIDE DEF Is
    <2> QED BY <2>3, <2>4
  <1>4. Is(n, put)
    <2> HIDE DEF Is
    <2> QED BY <1>3
  <1> HIDE DEF put
  <1>5. put[0] = z /\ \A j \in 1..n : put[j] = From(put, j)
    <2>1. \A j \in 0..n : put[j] = IF j = 0 THEN z ELSE From(put, j)
      <3> HIDE DEF From
      <3> QED BY <1>4
    <2>2. 0 \in 0..n /\ \A j \in 1..n : j \in 0..n /\ j # 0
      OBVIOUS
    <2> HIDE DEF From
    <2> QED BY <2>1, <2>2
  <1> HIDE DEF Is
  <1> QED BY <1>1, <1>2, <1>5 DEF z, FieldsFollow

(* ... between its extensions ... *)
Extended(s, exts, j) ==
  LET to     == exts[j].extendee
      pushed == PushMessage(s, to, "message", Field(exts[j]))
  IN  IF j > 1 /\ exts[j - 1].extendee # to
      THEN InitMessage(pushed, exts[j - 1].extendee, "message") ELSE pushed

ExtensionsFollow(s, exts, at) ==
  at[0] = s /\ \A j \in 1 .. Len(exts) : at[j] = Extended(at[j - 1], exts, j)

LEMMA RegisterExtensionFollows ==
  ASSUME NEW s, NEW exts, Len(exts) \in Nat
  PROVE  \E at : ExtensionsFollow(s, exts, at) /\ 
           RegisterExtension(s, exts) =
             IF Len(exts) = 0 THEN s
             ELSE InitMessage(at[Len(exts)], exts[Len(exts)].extendee, "message")
  <1>1. PICK n \in Nat : n = Len(exts)
    OBVIOUS
  <1> DEFINE z == s
             From(g, j) ==
               LET to     == exts[j].extendee
                   pushed == PushMessage(g[j - 1], to, "message", Field(exts[j]))
               IN  IF j > 1 /\ exts[j - 1].extendee # to
                   THEN InitMessage(pushed, exts[j - 1].extendee, "message") ELSE pushed
             Is(i, g) == g = [j \in 0..i |-> IF j = 0 THEN z ELSE From(g, j)]
             put == CHOOSE g : Is(n, g)
  <1>2. RegisterExtension(s, exts) =
         IF n = 0 THEN s ELSE InitMessage(put[n], exts[n].extendee, "message")
    BY <1>1 DEF RegisterExtension
  <1> HIDE DEF z
  <1>3. \E g : Is(n, g)
    <2> DEFINE G == {i \in 0..n : \E g : Is(i, g)}
    <2>1. 0 \in G
      <3>1. Is(0, [j \in 0..0 |-> z])
        OBVIOUS
      <3>2. 0 \in 0..n
        OBVIOUS
      <3> HIDE DEF Is
      <3> QED BY <3>1, <3>2
    <2>2. ASSUME NEW i \in 1..n, i - 1 \in G PROVE i \in G
      <3>1. PICK g : Is(i - 1, g)
        BY <2>2
      <3>2. PICK last : last = From(g, i)
        OBVIOUS
      <3> DEFINE h == [j \in 0..i |-> IF j = i THEN last ELSE g[j]]
      <3>3. h[i] = last /\ (\A j \in 0..i-1 : h[j] = g[j]) /\ i # 0
        OBVIOUS
      <3>4. DOMAIN h = 0..i /\ h = [j \in 0..i |-> h[j]]
        OBVIOUS
      <3> HIDE DEF h
      <3>5. \A j \in 0..i : h[j] = IF j = 0 THEN z ELSE From(h, j)
        <4> TAKE j \in 0..i
        <4>1. \A y \in 0..i-1 : g[y] = IF y = 0 THEN z ELSE From(g, y)
          BY <3>1
        <4>2. CASE j = i
          <5>1. i - 1 \in 0..i-1
            OBVIOUS
          <5>2. From(h, i) = From(g, i)
            BY <3>3, <5>1
          <5> QED BY <3>2, <3>3, <4>2, <5>2
        <4>3. CASE j = 0
          <5>1. 0 \in 0..i-1
            OBVIOUS
          <5> QED BY <3>3, <4>1, <4>3, <5>1
        <4>4. CASE j # i /\ j # 0
          <5>1. j \in 0..i-1 /\ j - 1 \in 0..i-1
            BY <4>4
          <5>2. From(h, j) = From(g, j)
            BY <3>3, <5>1
          <5> HIDE DEF From
          <5> QED BY <3>3, <4>1, <4>4, <5>1, <5>2
        <4> QED BY <4>2, <4>3, <4>4
      <3>6. Is(i, h)
        <4> HIDE DEF From
        <4> QED BY <3>4, <3>5
      <3> HIDE DEF Is
      <3> QED BY <3>6
    <2>3. \A i \in 0..n : i \in G
      <3> HIDE DEF G
      <3> QED BY <2>1, <2>2, UpTo
    <2>4. n \in 0..n
      OBVIOUS
    <2> HIDE DEF Is
    <2> QED BY <2>3, <2>4
  <1>4. Is(n, put)
    <2> HIDE DEF Is
    <2> QED BY <1>3
  <1> HIDE DEF put
  <1>5. put[0] = z /\ \A j \in 1..n : put[j] = From(put, j)
    <2>1. \A j \in 0..n : put[j] = IF j = 0 THEN z ELSE From(put, j)
      <3> HIDE DEF From
      <3> QED BY <1>4
    <2>2. 0 \in 0..n /\ \A j \in 1..n : j \in 0..n /\ j # 0
      OBVIOUS
    <2> HIDE DEF From
    <2> QED BY <2>1, <2>2
  <1> HIDE DEF Is
  <1> QED BY <1>1, <1>2, <1>5 DEF z, ExtensionsFollow, Extended

(* ... between the declarations of a file ... *)
DeclsFollow(s, decls, at) ==
  at[0] = s /\ \A j \in 1 .. Len(decls) : at[j] = Declare(at[j - 1], decls[j])

LEMMA DeclareAllFollows ==
  ASSUME NEW s, NEW decls, Len(decls) \in Nat
  PROVE  \E at : DeclsFollow(s, decls, at) /\ DeclareAll(s, decls) = at[Len(decls)]
  <1>1. PICK n \in Nat : n = Len(decls)
    OBVIOUS
  <1> DEFINE z == s
             From(g, j) == Declare(g[j - 1], decls[j])
             Is(i, g) == g = [j \in 0..i |-> IF j = 0 THEN z ELSE From(g, j)]
             put == CHOOSE g : Is(n, g)
  <1>2. DeclareAll(s, decls) = put[n]
    BY <1>1 DEF DeclareAll
  <1> HIDE DEF z
  <1>3. \E g : Is(n, g)
    <2> DEFINE G == {i \in 0..n : \E g : Is(i, g)}
    <2>1. 0 \in G
      <3>1. Is(0, [j \in 0..0 |-> z])
        OBVIOUS
      <3>2. 0 \in 0..n
        OBVIOUS
      <3> HIDE DEF Is
      <3> QED BY <3>1, <3>2
    <2>2. ASSUME NEW i \in 1..n, i - 1 \in G PROVE i \in G
      <3>1. PICK g : Is(i - 1, g)
        BY <2>2
      <3>2. PICK last : last = From(g, i)
        OBVIOUS
      <3> DEFINE h == [j \in 0..i |-> IF j = i THEN last ELSE g[j]]
      <3>3. h[i] = last /\ (\A j \in 0..i-1 : h[j] = g[j]) /\ i # 0
        OBVIOUS
      <3>4. DOMAIN h = 0..i /\ h = [j \in 0..i |-> h[j]]
        OBVIOUS
      <3> HIDE DEF h
      <3>5. \A j \in 0..i : h[j] = IF j = 0 THEN z ELSE From(h, j)
        <4> TAKE j \in 0..i
        <4>1. \A y \in 0..i-1 : g[y] = IF y = 0 THEN z ELSE From(g, y)
          BY <3>1
        <4>2. CASE j = i
          <5>1. i - 1 \in 0..i-1
            OBVIOUS
          <5>2. From(h, i) = From(g, i)
            BY <3>3, <5>1
          <5> QED BY <3>2, <3>3, <4>2, <5>2
        <4>3. CASE j = 0
          <5>1. 0 \in 0..i-1
            OBVIOUS
          <5> QED BY <3>3, <4>1, <4>3, <5>1
        <4>4. CASE j # i /\ j # 0
          <5>1. j \in 0..i-1 /\ j - 1 \in 0..i-1
            BY <4>4
          <5>2. From(h, j) = From(g, j)
            BY <3>3, <5>1
          <5> HIDE DEF From
          <5> QED BY <3>3, <4>1, <4>4, <5>1, <5>2
        <4> QED BY <4>2, <4>3, <4>4
      <3>6. Is(i, h)
        <4> HIDE DEF From
        <4> QED BY <3>4, <3>5
      <3> HIDE DEF Is
      <3> QED BY <3>6
    <2>3. \A i \in 0..n : i \in G
      <3> HIDE DEF G
      <3> QED BY <2>1, <2>2, UpTo
    <2>4. n \in 0..n
      OBVIOUS
    <2> HIDE DEF Is
    <2> QED BY <2>3, <2>4
  <1>4. Is(n, put)
    <2> HIDE DEF Is
    <2> QED BY <1>3
  <1> HIDE DEF put
  <1>5. put[0] = z /\ \A j \in 1..n : put[j] = From(put, j)
    <2>1. \A j \in 0..n : put[j] = IF j = 0 THEN z ELSE From(put, j)
      <3> HIDE DEF From
      <3> QED BY <1>4
    <2>2. 0 \in 0..n /\ \A j \in 1..n : j \in 0..n /\ j # 0
      OBVIOUS
    <2> HIDE DEF From
    <2> QED BY <2>1, <2>2
  <1> HIDE DEF Is
  <1> QED BY <1>1, <1>2, <1>5 DEF z, DeclsFollow

(* ... and between the fields of the queue. *)
Resolved(enums, msgs, q) ==
  LET msg == msgs[q[1]]
      f   == SetFieldOne(enums, msgs, msg.name[q[2]])
  IN  MapPut(msgs, q[1], [key |-> msg.key, name |-> MapPut(msg.name, q[2], f), id |-> msg.id])

QueueFollows(s, at) ==
  /\ at[0] = s.msgs
  /\ \A j \in 1 .. Len(s.queue) : at[j] = Resolved(s.enums, at[j - 1], s.queue[j])

LEMMA RegisterFieldsFollow ==
  ASSUME NEW s, Len(s.queue) \in Nat
  PROVE  \E at : QueueFollows(s, at) /\ RegisterFields(s) = at[Len(s.queue)]
  <1>1. PICK n \in Nat : n = Len(s.queue)
    OBVIOUS
  <1> DEFINE z == s.msgs
             From(g, j) ==
               LET q   == s.queue[j]
                   msg == g[j - 1][q[1]]
                   f   == SetFieldOne(s.enums, g[j - 1], msg.name[q[2]])
               IN  MapPut(g[j - 1], q[1], [key |-> msg.key, name |-> MapPut(msg.name, q[2], f),
                                           id |-> msg.id])
             Is(i, g) == g = [j \in 0..i |-> IF j = 0 THEN z ELSE From(g, j)]
             put == CHOOSE g : Is(n, g)
  <1>2. RegisterFields(s) = put[n]
    BY <1>1 DEF RegisterFields
  <1> HIDE DEF z
  <1>3. \E g : Is(n, g)
    <2> DEFINE G == {i \in 0..n : \E g : Is(i, g)}
    <2>1. 0 \in G
      <3>1. Is(0, [j \in 0..0 |-> z])
        OBVIOUS
      <3>2. 0 \in 0..n
        OBVIOUS
      <3> HIDE DEF Is
      <3> QED BY <3>1, <3>2
    <2>2. ASSUME NEW i \in 1..n, i - 1 \in G PROVE i \in G
      <3>1. PICK g : Is(i - 1, g)
        BY <2>2
      <3>2. PICK last : last = From(g, i)
        OBVIOUS
      <3> DEFINE h == [j \in 0..i |-> IF j = i THEN last ELSE g[j]]
      <3>3. h[i] = last /\ (\A j \in 0..i-1 : h[j] = g[j]) /\ i # 0
        OBVIOUS
      <3>4. DOMAIN h = 0..i /\ h = [j \in 0..i |-> h[j]]
        OBVIOUS
      <3> HIDE DEF h
      <3>5. \A j \in 0..i : h[j] = IF j = 0 THEN z ELSE From(h, j)
        <4> TAKE j \in 0..i
        <4>1. \A y \in 0..i-1 : g[y] = IF y = 0 THEN z ELSE From(g, y)
          BY <3>1
        <4>2. CASE j = i
          <5>1. i - 1 \in 0..i-1
            OBVIOUS
          <5>2. From(h, i) = From(g, i)
            BY <3>3, <5>1
          <5> QED BY <3>2, <3>3, <4>2, <5>2
        <4>3. CASE j = 0
          <5>1. 0 \in 0..i-1
            OBVIOUS
          <5> QED BY <3>3, <4>1, <4>3, <5>1
        <4>4. CASE j # i /\ j # 0
          <5>1. j \in 0..i-1 /\ j - 1 \in 0..i-1
            BY <4>4
          <5>2. From(h, j) = From(g, j)
            BY <3>3, <5>1
          <5> HIDE DEF From
          <5> QED BY <3>3, <4>1, <4>4, <5>1, <5>2
        <4> QED BY <4>2, <4>3, <4>4
      <3>6. Is(i, h)
        <4> HIDE DEF From
        <4> QED BY <3>4, <3>5
      <3> HIDE DEF Is
      <3> QED BY <3>6
    <2>3. \A i \in 0..n : i \in G
      <3> HIDE DEF G
      <3> QED BY <2>1, <2>2, UpTo
    <2>4. n \in 0..n
      OBVIOUS
    <2> HIDE DEF Is
    <2> QED BY <2>3, <2>4
  <1>4. Is(n, put)
    <2> HIDE DEF Is
    <2> QED BY <1>3
  <1> HIDE DEF put
  <1>5. put[0] = z /\ \A j \in 1..n : put[j] = From(put, j)
    <2>1. \A j \in 0..n : put[j] = IF j = 0 THEN z ELSE From(put, j)
      <3> HIDE DEF From
      <3> QED BY <1>4
    <2>2. 0 \in 0..n /\ \A j \in 1..n : j \in 0..n /\ j # 0
      OBVIOUS
    <2> HIDE DEF From
    <2> QED BY <2>1, <2>2
  <1> HIDE DEF Is
  <1> QED BY <1>1, <1>2, <1>5 DEF z, QueueFollows, Resolved

LEMMA AddedAre ==
  ASSUME NEW d
  PROVE  /\ d.kind = "message" => \A x \in DOMAIN d.fields : <<d.name, d.fields[x]>> \in Added(d)
         /\ d.kind # "enum" => \A x \in DOMAIN d.exts : <<d.exts[x].extendee, d.exts[x]>> \in Added(d)
         /\ \A p \in Added(d) :
              \/ d.kind = "message" /\ \E x \in DOMAIN d.fields : p = <<d.name, d.fields[x]>>
              \/ d.kind # "enum" /\ \E x \in DOMAIN d.exts : p = <<d.exts[x].extendee, d.exts[x]>>
  <1>1. PICK F : F = IF d.kind = "message" THEN {<<d.name, d.fields[x]>> : x \in DOMAIN d.fields} ELSE {}
    OBVIOUS
  <1>2. PICK X : X = IF d.kind = "enum" THEN {} ELSE {<<d.exts[x].extendee, d.exts[x]>> : x \in DOMAIN d.exts}
    OBVIOUS
  <1>3. Added(d) = UNION {F, X}
    BY <1>1, <1>2 DEF Added
  <1>4. \A p : p \in Added(d) <=> p \in F \/ p \in X
    BY <1>3
  <1>5. d.kind = "message" => \A x \in DOMAIN d.fields : <<d.name, d.fields[x]>> \in F
    BY <1>1
  <1>6. d.kind # "enum" => \A x \in DOMAIN d.exts : <<d.exts[x].extendee, d.exts[x]>> \in X
    BY <1>2
  <1>7. \A p \in F : d.kind = "message" /\ \E x \in DOMAIN d.fields : p = <<d.name, d.fields[x]>>
    BY <1>1
  <1>8. \A p \in X : d.kind # "enum" /\ \E x \in DOMAIN d.exts : p = <<d.exts[x].extendee, d.exts[x]>>
    BY <1>2
  <1> QED BY <1>4, <1>5, <1>6, <1>7, <1>8

LEMMA KeptHas ==
  ASSUME NEW M, NEW M1, Kept(M, M1), NEW v \in Units, NEW i \in DOMAIN Decls(v),
         NEW m, NEW a, <<m, a>> \in Added(Decls(v)[i]), HasField(M, m, a)
  PROVE  HasField(M1, m, a)
  <1>1. \A p \in Added(Decls(v)[i]) : HasField(M, p[1], p[2]) => HasField(M1, p[1], p[2])
    BY DEF Kept
  <1>2. PICK p \in Added(Decls(v)[i]) : p = <<m, a>> /\ p[1] = m /\ p[2] = a
    OBVIOUS
  <1> QED BY <1>1, <1>2

LEMMA KeptTwice ==
  ASSUME NEW M, NEW M1, NEW M2, Kept(M, M1), Kept(M1, M2) PROVE Kept(M, M2)
  BY DEF Kept

LEMMA KeptSame == ASSUME NEW M PROVE Kept(M, M)
  BY DEF Kept

LEMMA MoreWait ==
  ASSUME NEW P, NEW u, NEW k, NEW j, NEW s, NEW w, Going(P, u, k, j, {}, s) PROVE Going(P, u, k, j, w, s)
  <1>1. MapsRight(P, u, k, {}, s.msgs) => MapsRight(P, u, k, w, s.msgs)
    BY DEF MapsRight
  <1> QED BY <1>1 DEF Going

(* The fields of a message are pushed. *)
LEMMA FieldsKeep ==
  ASSUME WellFormed, NEW P, NEW u \in Units, NEW k \in Nat, NEW c \in DOMAIN Decls(u),
         NEW s, Going(P, u, k, k, {}, s), NEW d, d = Decls(u)[c], d.kind = "message",
         NEW s1, s1 = PushFields(s, d.name, d.fields)
  PROVE  /\ Going(P, u, k, k, {d.name}, s1)
         /\ \A x \in DOMAIN d.fields : HasField(s1.msgs, d.name, d.fields[x])
  <1>1. IsList(d.fields)
    <2>1. IsDeclaration(d)
      BY DEF WellFormed
    <2> QED BY <2>1 DEF IsDeclaration
  <1>2. PICK n \in Nat : n = Len(d.fields) /\ DOMAIN d.fields = 1..n
    BY <1>1 DEF IsList
  <1>3. PICK at : FieldsFollow(s, d.name, d.fields, at) /\ s1 = at[n]
    BY <1>2, PushFieldsFollow
  <1>4. at[0] = s /\ \A i \in 1..n : at[i] = PushMessage(at[i - 1], d.name, "pool", Field(d.fields[i]))
    BY <1>2, <1>3 DEF FieldsFollow
  <1> DEFINE Right(i) == /\ Going(P, u, k, k, {d.name}, at[i])
                         /\ \A x \in 1..i : HasField(at[i].msgs, d.name, d.fields[x])
             G == {i \in 0..n : Right(i)}
  <1>5. 0 \in G
    <2>1. 0 \in 0..n /\ \A x \in 1..0 : FALSE
      OBVIOUS
    <2>2. Going(P, u, k, k, {d.name}, at[0])
      BY <1>4, MoreWait
    <2> QED BY <2>1, <2>2
  <1>6. ASSUME NEW i \in 1..n, i - 1 \in G PROVE i \in G
    <2>1. Going(P, u, k, k, {d.name}, at[i - 1]) /\ \A x \in 1..i-1 : HasField(at[i - 1].msgs, d.name, d.fields[x])
      BY <1>6
    <2>2. <<d.name, d.fields[i]>> \in Added(d)
      BY <1>2, AddedAre
    <2>3. /\ Going(P, u, k, k, {d.name} \cup {d.name}, at[i]) /\ HasField(at[i].msgs, d.name, d.fields[i])
          /\ Kept(at[i - 1].msgs, at[i].msgs)
      <3>1. PICK t : t = at[i - 1]
        OBVIOUS
      <3>2. PICK a : a = d.fields[i]
        OBVIOUS
      <3>3. PICK m : m = d.name
        OBVIOUS
      <3>4. PICK t1 : t1 = at[i] /\ t1 = PushMessage(t, m, "pool", Field(a))
        BY <1>4, <3>1, <3>2, <3>3
      <3>5. Going(P, u, k, k, {m}, t) /\ <<m, a>> \in Added(Decls(u)[c])
        BY <2>1, <2>2, <3>1, <3>2, <3>3
      <3>6. Going(P, u, k, k, {m} \cup {m}, t1) /\ HasField(t1.msgs, m, a) /\ Kept(t.msgs, t1.msgs)
        BY <3>4, <3>5, FieldPushKeeps
      <3> QED BY <3>1, <3>2, <3>3, <3>4, <3>6
    <2>4. {d.name} \cup {d.name} = {d.name}
      OBVIOUS
    <2>5. ASSUME NEW x \in 1..i PROVE HasField(at[i].msgs, d.name, d.fields[x])
      <3>1. CASE x = i
        BY <2>3, <3>1
      <3>2. CASE x # i
        <4>1. x \in 1..i-1 /\ x \in 1..n
          BY <3>2
        <4>2. <<d.name, d.fields[x]>> \in Added(d)
          BY <1>2, <4>1, AddedAre
        <4>3. HasField(at[i - 1].msgs, d.name, d.fields[x])
          BY <2>1, <4>1
        <4> QED BY <2>3, <4>2, <4>3, KeptHas
      <3> QED BY <3>1, <3>2
    <2>6. i \in 0..n
      OBVIOUS
    <2> QED BY <2>3, <2>4, <2>5, <2>6
  <1>7. \A i \in 0..n : i \in G
    <2> HIDE DEF G
    <2> QED BY <1>5, <1>6, UpTo
  <1>8. n \in 0..n
    OBVIOUS
  <1> QED BY <1>2, <1>3, <1>7, <1>8

(* An extended message is there, unless its file extends it before. *)
LEMMA ExtendeeThere ==
  ASSUME WellFormed, NEW P, NEW u \in Units, NEW k \in Nat, k + 1 \in DOMAIN Decls(u),
         Visible(u) \subseteq P \cup {u}, NEW M, NamesRight(P, u, k + 1, M),
         NEW d, d = Decls(u)[k + 1], d.kind # "enum", NEW x \in DOMAIN d.exts,
         NEW m, m = d.exts[x].extendee
  PROVE  m \in DOMAIN M \/ ExtendedEarly(m)
  <1>1. IsDeclaration(d)
    BY DEF WellFormed
  <1>2. d.kind \in {"message", "extend"}
    BY <1>1 DEF IsDeclaration
  <1>3. <<m, d.exts[x]>> \in Added(d)
    BY AddedAre
  <1>4. Sees(u, "message", m)
    <2>1. \A p \in Added(d) : Sees(u, "message", p[1])
      BY DEF WellFormed
    <2>2. PICK p \in Added(d) : p = <<m, d.exts[x]>> /\ p[1] = m
      BY <1>3
    <2> QED BY <2>1, <2>2
  <1>5. PICK v \in Visible(u) : Places(v, "message", m) # {}
    BY <1>4 DEF Sees
  <1>6. PICK y \in Places(v, "message", m) : TRUE
    BY <1>5
  <1>7. v \in Units /\ y \in DOMAIN Decls(v) /\ Decls(v)[y].kind = "message" /\ Decls(v)[y].name = m
    BY <1>6 DEF Places, Visible
  <1>8. v \in P \/ v = u
    BY <1>5
  <1>9. CASE Done(P, u, k + 1, v, y)
    BY <1>7, <1>9 DEF NamesRight
  <1>10. CASE v = u /\ ~(y <= k + 1)
    <2>1. y \in Nat /\ k + 1 < y
      <3>1. y \in Nat
        BY <1>7, DeclsAre
      <3> QED BY <1>10, <3>1
    <2>2. ~(y < k + 1)
      BY <2>1
    <2>3. d.kind = "message"
      <3>1. d.kind = "extend" => y < k + 1
        BY <1>7, <1>10 DEF WellFormed
      <3> QED BY <1>2, <2>2, <3>1
    <2>4. u # NullPtr
      <3> SUFFICES ASSUME u = NullPtr PROVE FALSE
        OBVIOUS
      <3>1. PICK e : e = Len(BuiltIn.enum_name)
        OBVIOUS
      <3>2. PICK D : D = 1 .. e + Len(BuiltIn.message_name)
        OBVIOUS
      <3>3. Decls(u) = [i \in D |->
              IF i <= e
              THEN [kind |-> "enum", name |-> BuiltIn.enum_name[i],
                    values |-> Slice(BuiltIn.enum_size, BuiltIn.enum_string, i)]
              ELSE [kind |-> "message", name |-> BuiltIn.message_name[i - e],
                    fields |-> Slice(BuiltIn.message_size, BuiltIn.message_field, i - e),
                    exts |-> <<>>]]
        BY <3>1, <3>2 DEF Decls, InternalDecls
      <3>4. k + 1 \in D
        BY <3>3
      <3>5. PICK c : c = k + 1 /\ c \in D
        BY <3>4
      <3>6. d = IF c <= e
                THEN [kind |-> "enum", name |-> BuiltIn.enum_name[c],
                      values |-> Slice(BuiltIn.enum_size, BuiltIn.enum_string, c)]
                ELSE [kind |-> "message", name |-> BuiltIn.message_name[c - e],
                      fields |-> Slice(BuiltIn.message_size, BuiltIn.message_field, c - e),
                      exts |-> <<>>]
        BY <3>3, <3>5
      <3>7. d.exts = <<>>
        <4>1. CASE c <= e
          <5>1. d.kind = "enum"
            BY <3>6, <4>1
          <5> QED BY <5>1
        <4>2. CASE ~(c <= e)
          BY <3>6, <4>2
        <4> QED BY <4>1, <4>2
      <3> QED BY <3>7
    <2>5. u \in DOMAIN Files /\ Decls(u) = Files[u].decls
      BY <2>4 DEF Units, Decls
    <2>6. k + 1 \in Messages(u) /\ y \in Messages(u)
      BY <1>7, <1>10, <2>3, <2>5 DEF Messages
    <2> QED BY <1>7, <1>10, <2>1, <2>5, <2>6 DEF ExtendedEarly
  <1> QED BY <1>7, <1>8, <1>9, <1>10 DEF Done

LEMMA HasThere ==
  ASSUME NEW M, NEW m, NEW a, HasField(M, m, a) PROVE m \in DOMAIN M /\ DOMAIN M[m].name # {}
  BY DEF HasField

(* One extension is pushed, and the message extended before it brought up *)
(* to date when it is another.                                             *)
Before(d, i, w, M) ==
  IF i > 1 THEN w = {d.exts[i - 1].extendee} /\ i - 1 \in DOMAIN d.exts
                /\ HasField(M, d.exts[i - 1].extendee, d.exts[i - 1])
           ELSE w = {}

LEMMA ExtensionKeeps ==
  ASSUME WellFormed, NEW P, NEW u \in Units, NEW k \in Nat, k + 1 \in DOMAIN Decls(u),
         Visible(u) \subseteq P \cup {u}, NEW d, d = Decls(u)[k + 1], d.kind # "enum",
         NEW i \in DOMAIN d.exts, NEW w, NEW s, Going(P, u, k + 1, k, w, s), Before(d, i, w, s.msgs),
         NEW s1, s1 = Extended(s, d.exts, i)
  PROVE  /\ Going(P, u, k + 1, k, {d.exts[i].extendee}, s1) /\ Kept(s.msgs, s1.msgs)
         /\ HasField(s1.msgs, d.exts[i].extendee, d.exts[i])
  <1>1. PICK a : a = d.exts[i]
    OBVIOUS
  <1>2. PICK m : m = a.extendee /\ m = d.exts[i].extendee
    BY <1>1
  <1>3. PICK b : b = d.exts[i - 1]
    OBVIOUS
  <1>4. PICK n : n = b.extendee
    OBVIOUS
  <1>5. PICK t : t = PushMessage(s, m, "message", Field(a))
    OBVIOUS
  <1>6. s1 = IF i > 1 /\ n # m THEN InitMessage(t, n, "message") ELSE t
    BY <1>1, <1>2, <1>3, <1>4, <1>5 DEF Extended
  <1>7. <<m, a>> \in Added(Decls(u)[k + 1])
    BY <1>1, <1>2, AddedAre
  <1>8. m \in DOMAIN s.msgs \/ ExtendedEarly(m)
    <2>1. NamesRight(P, u, k + 1, s.msgs)
      BY DEF Going
    <2> QED BY <1>2, <2>1, ExtendeeThere
  <1>9. Going(P, u, k + 1, k, w \cup {m}, t) /\ HasField(t.msgs, m, a) /\ Kept(s.msgs, t.msgs)
    BY <1>5, <1>7, <1>8, FieldPushKeeps
  <1>10. CASE i > 1 /\ n # m
    <2>1. w = {n} /\ i - 1 \in DOMAIN d.exts /\ HasField(s.msgs, n, b)
      BY <1>3, <1>4, <1>10 DEF Before
    <2>2. <<n, b>> \in Added(Decls(u)[k + 1])
      BY <1>3, <1>4, <2>1, AddedAre
    <2>3. HasField(t.msgs, n, b)
      BY <1>9, <2>1, <2>2, KeptHas
    <2>4. n \in DOMAIN t.msgs /\ DOMAIN t.msgs[n].name # {}
      BY <2>3, HasThere
    <2>5. Going(P, u, k + 1, k, (w \cup {m}) \ {n}, s1) /\ Kept(t.msgs, s1.msgs)
      BY <1>6, <1>9, <1>10, <2>4, InitKeeps
    <2>6. (w \cup {m}) \ {n} = {m}
      BY <1>10, <2>1
    <2>7. HasField(s1.msgs, m, a) /\ Kept(s.msgs, s1.msgs)
      BY <1>7, <1>9, <2>5, KeptHas, KeptTwice
    <2> QED BY <1>1, <1>2, <2>5, <2>6, <2>7
  <1>11. CASE ~(i > 1 /\ n # m)
    <2>1. w \cup {m} = {m}
      BY <1>3, <1>4, <1>11 DEF Before
    <2>2. s1 = t
      BY <1>6, <1>11
    <2> QED BY <1>1, <1>2, <1>9, <2>1, <2>2
  <1> QED BY <1>10, <1>11

(* All extensions of a declaration. *)
LEMMA ExtensionsKeep ==
  ASSUME WellFormed, NEW P, NEW u \in Units, NEW k \in Nat, k + 1 \in DOMAIN Decls(u),
         Visible(u) \subseteq P \cup {u}, NEW d, d = Decls(u)[k + 1], d.kind # "enum",
         NEW s, Going(P, u, k + 1, k, {}, s), NEW s1, s1 = RegisterExtension(s, d.exts)
  PROVE  /\ Going(P, u, k + 1, k, {}, s1) /\ Kept(s.msgs, s1.msgs)
         /\ \A x \in DOMAIN d.exts : HasField(s1.msgs, d.exts[x].extendee, d.exts[x])
  <1>1. IsList(d.exts)
    <2>1. IsDeclaration(d)
      BY DEF WellFormed
    <2> QED BY <2>1 DEF IsDeclaration
  <1>2. PICK n \in Nat : n = Len(d.exts) /\ DOMAIN d.exts = 1..n
    BY <1>1 DEF IsList
  <1>3. PICK at : /\ ExtensionsFollow(s, d.exts, at)
                  /\ s1 = IF Len(d.exts) = 0 THEN s
                          ELSE InitMessage(at[Len(d.exts)], d.exts[Len(d.exts)].extendee, "message")
    BY <1>2, RegisterExtensionFollows
  <1>4. at[0] = s /\ \A i \in 1..n : at[i] = Extended(at[i - 1], d.exts, i)
    BY <1>2, <1>3 DEF ExtensionsFollow
  <1> DEFINE Wait(i) == IF i = 0 THEN {} ELSE {d.exts[i].extendee}
             Right(i) == /\ Going(P, u, k + 1, k, Wait(i), at[i]) /\ Kept(s.msgs, at[i].msgs)
                         /\ \A x \in 1..i : HasField(at[i].msgs, d.exts[x].extendee, d.exts[x])
             G == {i \in 0..n : Right(i)}
  <1>5. 0 \in G
    <2>1. 0 \in 0..n /\ \A x \in 1..0 : FALSE
      OBVIOUS
    <2>2. Going(P, u, k + 1, k, Wait(0), at[0])
      BY <1>4
    <2>3. Kept(s.msgs, at[0].msgs)
      BY <1>4, KeptSame
    <2> QED BY <2>1, <2>2, <2>3
  <1>6. ASSUME NEW i \in 1..n, i - 1 \in G PROVE i \in G
    <2>1. /\ Going(P, u, k + 1, k, Wait(i - 1), at[i - 1]) /\ Kept(s.msgs, at[i - 1].msgs)
          /\ \A x \in 1..i-1 : HasField(at[i - 1].msgs, d.exts[x].extendee, d.exts[x])
      BY <1>6
    <2>2. PICK t : t = at[i - 1]
      OBVIOUS
    <2>3. PICK w : w = Wait(i - 1)
      OBVIOUS
    <2>4. PICK t1 : t1 = at[i] /\ t1 = Extended(t, d.exts, i)
      BY <1>4, <2>2
    <2>5. Before(d, i, w, t.msgs)
      <3>1. CASE i > 1
        <4>1. i - 1 \in 1..i-1 /\ i - 1 \in 1..n /\ i - 1 # 0
          BY <3>1
        <4>2. w = {d.exts[i - 1].extendee}
          BY <2>3, <4>1
        <4>3. HasField(t.msgs, d.exts[i - 1].extendee, d.exts[i - 1])
          BY <2>1, <2>2, <4>1
        <4> QED BY <1>2, <3>1, <4>1, <4>2, <4>3 DEF Before
      <3>2. CASE ~(i > 1)
        <4>1. i - 1 = 0
          BY <3>2
        <4> QED BY <2>3, <3>2, <4>1 DEF Before
      <3> QED BY <3>1, <3>2
    <2>6. Going(P, u, k + 1, k, w, t) /\ i \in DOMAIN d.exts
      BY <1>2, <2>1, <2>2, <2>3
    <2>7. /\ Going(P, u, k + 1, k, {d.exts[i].extendee}, t1) /\ Kept(t.msgs, t1.msgs)
          /\ HasField(t1.msgs, d.exts[i].extendee, d.exts[i])
      BY <2>4, <2>5, <2>6, ExtensionKeeps
    <2>8. ASSUME NEW x \in 1..i PROVE HasField(t1.msgs, d.exts[x].extendee, d.exts[x])
      <3>1. CASE x = i
        BY <2>7, <3>1
      <3>2. CASE x # i
        <4>1. x \in 1..i-1 /\ x \in 1..n
          BY <3>2
        <4>2. <<d.exts[x].extendee, d.exts[x]>> \in Added(d)
          BY <1>2, <4>1, AddedAre
        <4>3. HasField(t.msgs, d.exts[x].extendee, d.exts[x])
          BY <2>1, <2>2, <4>1
        <4> QED BY <2>7, <4>2, <4>3, KeptHas
      <3> QED BY <3>1, <3>2
    <2>9. i \in 0..n /\ i # 0
      OBVIOUS
    <2>10. Wait(i) = {d.exts[i].extendee}
      BY <2>9
    <2>11. Kept(s.msgs, t1.msgs)
      BY <2>1, <2>2, <2>7, KeptTwice
    <2> HIDE DEF Wait
    <2> QED BY <2>4, <2>7, <2>8, <2>9, <2>10, <2>11
  <1>7. \A i \in 0..n : i \in G
    <2> HIDE DEF G
    <2> QED BY <1>5, <1>6, UpTo
  <1>8. n \in 0..n
    OBVIOUS
  <1>9. PICK t : t = at[n]
    OBVIOUS
  <1>10. /\ Going(P, u, k + 1, k, Wait(n), t) /\ Kept(s.msgs, t.msgs)
         /\ \A x \in 1..n : HasField(t.msgs, d.exts[x].extendee, d.exts[x])
    BY <1>7, <1>8, <1>9
  <1>11. CASE n = 0
    <2>1. s1 = s /\ t = s
      BY <1>2, <1>3, <1>4, <1>9, <1>11
    <2> QED BY <1>2, <1>10, <2>1, KeptSame
  <1>12. CASE n # 0
    <2>1. PICK m : m = d.exts[n].extendee
      OBVIOUS
    <2>2. s1 = InitMessage(t, m, "message") /\ Wait(n) = {m} /\ n \in 1..n
      BY <1>2, <1>3, <1>9, <1>12, <2>1
    <2>3. m \in DOMAIN t.msgs /\ DOMAIN t.msgs[m].name # {}
      <3>1. HasField(t.msgs, m, d.exts[n])
        BY <1>10, <2>1, <2>2
      <3> QED BY <3>1, HasThere
    <2>4. Going(P, u, k + 1, k, {m}, t)
      BY <1>10, <2>2
    <2>5. Going(P, u, k + 1, k, {m} \ {m}, s1) /\ Kept(t.msgs, s1.msgs)
      BY <2>2, <2>3, <2>4, InitKeeps
    <2>6. {m} \ {m} = {}
      OBVIOUS
    <2>7. ASSUME NEW x \in 1..n PROVE HasField(s1.msgs, d.exts[x].extendee, d.exts[x])
      <3>1. <<d.exts[x].extendee, d.exts[x]>> \in Added(d)
        BY <1>2, AddedAre
      <3> QED BY <1>10, <2>5, <3>1, KeptHas
    <2>8. Kept(s.msgs, s1.msgs)
      BY <1>10, <2>5, KeptTwice
    <2> HIDE DEF Wait
    <2> QED BY <1>2, <2>5, <2>6, <2>7, <2>8
  <1> QED BY <1>11, <1>12

(* A whole declaration. *)
LEMMA DeclareKeeps ==
  ASSUME WellFormed, NEW P, NEW u \in Units, u \notin P, NEW k \in Nat, k + 1 \in DOMAIN Decls(u),
         Visible(u) \subseteq P \cup {u}, NEW s, Going(P, u, k, k, {}, s),
         NEW s1, s1 = Declare(s, Decls(u)[k + 1])
  PROVE  Going(P, u, k + 1, k + 1, {}, s1)
  <1>1. PICK d : d = Decls(u)[k + 1]
    OBVIOUS
  <1>2. d.kind \in {"enum", "message", "extend"}
    <2>1. IsDeclaration(d)
      BY <1>1 DEF WellFormed
    <2> QED BY <2>1 DEF IsDeclaration
  <1>3. ASSUME Going(P, u, k + 1, k, {}, s1), \A p \in Added(d) : HasField(s1.msgs, p[1], p[2])
        PROVE  Going(P, u, k + 1, k + 1, {}, s1)
    <2>1. FieldsRight(P, u, k, s1.msgs)
      BY <1>3 DEF Going
    <2>2. FieldsRight(P, u, k + 1, s1.msgs)
      BY <1>1, <1>3, <2>1, Advance
    <2> QED BY <1>3, <2>2 DEF Going
  <1>4. CASE d.kind = "enum"
    <2>1. s1 = PushEnum(s, d.name, d.values)
      BY <1>1, <1>4 DEF Declare
    <2> QED BY <1>1, <1>4, <2>1, EnumKeeps
  <1>5. CASE d.kind = "message"
    <2>1. PICK t : t = PushFields(s, d.name, d.fields)
      OBVIOUS
    <2>2. PICK t1 : t1 = InitMessage(t, d.name, "pool")
      OBVIOUS
    <2>3. s1 = RegisterExtension(t1, d.exts)
      <3>1. s1 = RegisterMessage(s, d)
        BY <1>1, <1>5 DEF Declare
      <3> QED BY <2>1, <2>2, <3>1 DEF RegisterMessage
    <2>4. Going(P, u, k, k, {d.name}, t) /\ \A x \in DOMAIN d.fields : HasField(t.msgs, d.name, d.fields[x])
      BY <1>1, <1>5, <2>1, FieldsKeep
    <2>5. Going(P, u, k + 1, k, {}, t1) /\ Kept(t.msgs, t1.msgs)
      BY <1>1, <1>5, <2>2, <2>4, InitDeclares
    <2>6. d.kind # "enum"
      BY <1>5
    <2>7. /\ Going(P, u, k + 1, k, {}, s1) /\ Kept(t1.msgs, s1.msgs)
          /\ \A x \in DOMAIN d.exts : HasField(s1.msgs, d.exts[x].extendee, d.exts[x])
      BY <1>1, <2>3, <2>5, <2>6, ExtensionsKeep
    <2>8. ASSUME NEW x \in DOMAIN d.fields PROVE HasField(s1.msgs, d.name, d.fields[x])
      <3>1. <<d.name, d.fields[x]>> \in Added(d)
        BY <1>5, AddedAre
      <3>2. HasField(t1.msgs, d.name, d.fields[x])
        BY <1>1, <2>4, <2>5, <3>1, KeptHas
      <3> QED BY <1>1, <2>7, <3>1, <3>2, KeptHas
    <2>9. ASSUME NEW p \in Added(d) PROVE HasField(s1.msgs, p[1], p[2])
      <3>1. CASE \E x \in DOMAIN d.fields : p = <<d.name, d.fields[x]>>
        <4>1. PICK x \in DOMAIN d.fields : p = <<d.name, d.fields[x]>>
          BY <3>1
        <4>2. p[1] = d.name /\ p[2] = d.fields[x]
          BY <4>1
        <4> QED BY <2>8, <4>2
      <3>2. CASE \E x \in DOMAIN d.exts : p = <<d.exts[x].extendee, d.exts[x]>>
        <4>1. PICK x \in DOMAIN d.exts : p = <<d.exts[x].extendee, d.exts[x]>>
          BY <3>2
        <4>2. p[1] = d.exts[x].extendee /\ p[2] = d.exts[x]
          BY <4>1
        <4> QED BY <2>7, <4>2
      <3> QED BY <3>1, <3>2, AddedAre
    <2> QED BY <1>3, <2>7, <2>9
  <1>6. CASE d.kind = "extend"
    <2>1. s1 = RegisterExtension(s, d.exts)
      <3>1. d.kind # "enum" /\ d.kind # "message"
        BY <1>6
      <3> QED BY <1>1, <1>6, <3>1 DEF Declare
    <2>2. d.kind # "enum" /\ d.kind # "message"
      BY <1>6
    <2>3. Going(P, u, k + 1, k, {}, s)
      <3>1. /\ EnumsRight(P, u, k, s.enums) /\ NamesRight(P, u, k, s.msgs)
            /\ MapsRight(P, u, k, {}, s.msgs)
        BY DEF Going
      <3>2. /\ EnumsRight(P, u, k + 1, s.enums) /\ NamesRight(P, u, k + 1, s.msgs)
            /\ MapsRight(P, u, k + 1, {}, s.msgs)
        BY <1>1, <2>2, <3>1, Advance
      <3> QED BY <3>2 DEF Going
    <2>4. /\ Going(P, u, k + 1, k, {}, s1)
          /\ \A x \in DOMAIN d.exts : HasField(s1.msgs, d.exts[x].extendee, d.exts[x])
      BY <1>1, <2>1, <2>2, <2>3, ExtensionsKeep
    <2>5. ASSUME NEW p \in Added(d) PROVE HasField(s1.msgs, p[1], p[2])
      <3>1. PICK x \in DOMAIN d.exts : p = <<d.exts[x].extendee, d.exts[x]>>
        BY <2>2, AddedAre
      <3>2. p[1] = d.exts[x].extendee /\ p[2] = d.exts[x]
        BY <3>1
      <3> QED BY <2>4, <3>2
    <2> QED BY <1>3, <2>4, <2>5
  <1> QED BY <1>2, <1>4, <1>5, <1>6

(* All declarations of a file. *)
LEMMA DeclareAllKeeps ==
  ASSUME WellFormed, NEW P, NEW u \in Units, u \notin P, Visible(u) \subseteq P \cup {u},
         NEW s, Going(P, u, 0, 0, {}, s), NEW n, n = Len(Decls(u))
  PROVE  Going(P, u, n, n, {}, DeclareAll(s, Decls(u)))
  <1>1. n \in Nat /\ DOMAIN Decls(u) = 1..n
    BY DeclsAre
  <1>2. PICK at : DeclsFollow(s, Decls(u), at) /\ DeclareAll(s, Decls(u)) = at[n]
    BY <1>1, DeclareAllFollows
  <1>3. at[0] = s /\ \A i \in 1..n : at[i] = Declare(at[i - 1], Decls(u)[i])
    BY <1>2 DEF DeclsFollow
  <1> DEFINE G == {i \in 0..n : Going(P, u, i, i, {}, at[i])}
  <1>4. 0 \in G
    BY <1>1, <1>3
  <1>5. ASSUME NEW i \in 1..n, i - 1 \in G PROVE i \in G
    <2>1. PICK k \in Nat : k = i - 1 /\ k + 1 = i
      BY <1>1
    <2>2. PICK t : t = at[k]
      OBVIOUS
    <2>3. PICK t1 : t1 = at[i] /\ t1 = Declare(t, Decls(u)[k + 1])
      BY <1>3, <2>1, <2>2
    <2>4. Going(P, u, k, k, {}, t) /\ k + 1 \in DOMAIN Decls(u)
      BY <1>1, <1>5, <2>1, <2>2
    <2>5. Going(P, u, k + 1, k + 1, {}, t1)
      BY <2>3, <2>4, DeclareKeeps
    <2>6. i \in 0..n
      BY <1>1
    <2> QED BY <2>1, <2>3, <2>5, <2>6
  <1>6. \A i \in 0..n : i \in G
    <2> HIDE DEF G
    <2> QED BY <1>1, <1>4, <1>5, UpTo
  <1>7. n \in 0..n
    BY <1>1
  <1> QED BY <1>2, <1>6, <1>7

(* Once all declarations of u have been made, all that u sees is there. *)
LEMMA SeenIsDone ==
  ASSUME WellFormed, NEW P, NEW u \in Units, Visible(u) \subseteq P \cup {u},
         NEW n, n = Len(Decls(u)), NEW v \in Visible(u), NEW y \in DOMAIN Decls(v)
  PROVE  v \in Units /\ Done(P, u, n, v, y)
  <1>1. v \in Units /\ (v \in P \/ v = u)
    BY DEF Visible
  <1>2. ASSUME v = u PROVE y <= n
    BY <1>2, DeclsAre
  <1> QED BY <1>1, <1>2 DEF Done

LEMMA EnumsAre ==
  ASSUME WellFormed, NEW P, NEW u, NEW k, NEW enums, EnumsRight(P, u, k, enums), NEW n \in DOMAIN enums
  PROVE  /\ 1 \in DOMAIN enums[n].values /\ enums[n].default = enums[n].values[1]
         /\ DOMAIN enums[n].values \subseteq Nat \ {0}
         /\ \A x, y \in DOMAIN enums[n].values : enums[n].values[x] = enums[n].values[y] => x = y
  <1>1. PICK v \in Units : \E i \in Places(v, "enum", n) :
          enums[n].values = Decls(v)[i].values /\ enums[n].default = Decls(v)[i].values[1]
    BY DEF EnumsRight
  <1>2. PICK i \in Places(v, "enum", n) :
          enums[n].values = Decls(v)[i].values /\ enums[n].default = Decls(v)[i].values[1]
    BY <1>1
  <1>3. PICK d : d = Decls(v)[i]
    OBVIOUS
  <1>4. d.kind = "enum" /\ IsDeclaration(d)
    BY <1>3 DEF WellFormed, Places
  <1>5. /\ IsList(d.values) /\ 1 \in DOMAIN d.values
        /\ \A x, y \in DOMAIN d.values : d.values[x] = d.values[y] => x = y
    BY <1>4 DEF IsDeclaration
  <1>6. DOMAIN d.values \subseteq Nat \ {0}
    <2>1. PICK l \in Nat : DOMAIN d.values = 1..l
      BY <1>5 DEF IsList
    <2> QED BY <2>1
  <1> QED BY <1>2, <1>3, <1>5, <1>6

(* What set_field_one leaves of a field, and what it brings about. *)
SameField(f, g) == /\ g.id = f.id /\ g.type = f.type /\ g.type_name = f.type_name

LEMMA FieldResolves ==
  ASSUME WellFormed, NEW P, NEW u \in Units, Visible(u) \subseteq P \cup {u},
         NEW n, n = Len(Decls(u)), NEW enums, EnumsRight(P, u, n, enums),
         NEW M, NamesRight(P, u, n, M), NEW f, Fixed(enums, M, f) \/ Fits(u, f),
         NEW g, g = SetFieldOne(enums, M, f)
  PROVE  SameField(f, g) /\ Fixed(enums, M, g)
  <1>1. CASE f.type = "message"
    <2>1. f.type_name \in DOMAIN M
      <3>1. CASE Fixed(enums, M, f)
        BY <1>1, <3>1 DEF Fixed
      <3>2. CASE Fits(u, f)
        <4>1. PICK v \in Visible(u) : Places(v, "message", f.type_name) # {}
          BY <1>1, <3>2 DEF Fits, Sees
        <4>2. PICK y \in Places(v, "message", f.type_name) : TRUE
          BY <4>1
        <4>3. y \in DOMAIN Decls(v) /\ Decls(v)[y].kind = "message" /\ Decls(v)[y].name = f.type_name
          BY <4>2 DEF Places
        <4>4. v \in Units /\ Done(P, u, n, v, y)
          BY <4>3, SeenIsDone
        <4> QED BY <4>3, <4>4 DEF NamesRight
      <3> QED BY <3>1, <3>2
    <2>2. g = [name |-> f.name, id |-> f.id, type |-> f.type, type_name |-> f.type_name,
               label |-> f.label, default |-> f.default, target |-> f.type_name]
      BY <1>1, <2>1 DEF SetFieldOne
    <2>3. g.id = f.id /\ g.type = f.type /\ g.type_name = f.type_name /\ g.target = f.type_name
      BY <2>2
    <2> QED BY <1>1, <2>1, <2>3 DEF SameField, Fixed
  <1>2. CASE f.type = "enum"
    <2>1. PICK e : e = f.type_name
      OBVIOUS
    <2>2. /\ e \in DOMAIN enums
          /\ f.default = None \/ \E x \in DOMAIN enums[e].values : enums[e].values[x] = f.default
      <3>1. CASE Fixed(enums, M, f)
        BY <1>2, <2>1, <3>1 DEF Fixed
      <3>2. CASE Fits(u, f)
        <4>1. PICK v \in Visible(u) : \E i \in Places(v, "enum", e) :
                \/ f.default = None
                \/ \E x \in DOMAIN Decls(v)[i].values : Decls(v)[i].values[x] = f.default
          BY <1>2, <2>1, <3>2 DEF Fits
        <4>2. PICK i \in Places(v, "enum", e) :
                \/ f.default = None
                \/ \E x \in DOMAIN Decls(v)[i].values : Decls(v)[i].values[x] = f.default
          BY <4>1
        <4>3. i \in DOMAIN Decls(v) /\ Decls(v)[i].kind = "enum" /\ Decls(v)[i].name = e
          BY DEF Places
        <4>4. v \in Units /\ Done(P, u, n, v, i)
          BY <4>3, SeenIsDone
        <4>5. e \in DOMAIN enums /\ enums[e].values = Decls(v)[i].values
          BY <4>3, <4>4 DEF EnumsRight
        <4> QED BY <4>2, <4>5
      <3> QED BY <3>1, <3>2
    <2>3. 1 \in DOMAIN enums[e].values /\ enums[e].default = enums[e].values[1]
      BY <2>2, EnumsAre
    <2>4. PICK default : default = IF f.default # None THEN f.default ELSE enums[e].default
      OBVIOUS
    <2>5. \E x \in DOMAIN enums[e].values : enums[e].values[x] = default
      BY <2>2, <2>3, <2>4
    <2>6. g = [name |-> f.name, id |-> f.id, type |-> f.type, type_name |-> e,
               label |-> f.label, default |-> default, target |-> e]
      <3>1. f.type # "message"
        BY <1>2
      <3> QED BY <1>2, <2>1, <2>2, <2>4, <3>1 DEF SetFieldOne
    <2>7. /\ g.id = f.id /\ g.type = f.type /\ g.type_name = e /\ g.target = e
          /\ g.default = default
      BY <2>6
    <2> QED BY <1>2, <2>1, <2>2, <2>5, <2>7 DEF SameField, Fixed
  <1>3. CASE f.type # "message" /\ f.type # "enum"
    <2>1. g = f
      BY <1>3 DEF SetFieldOne
    <2> QED BY <1>3, <2>1 DEF SameField, Fixed
  <1> QED BY <1>1, <1>2, <1>3

(* What register_fields leaves of the messages. *)
SameShape(M, M1) ==
  /\ DOMAIN M1 = DOMAIN M
  /\ \A m \in DOMAIN M :
       /\ M1[m].key = M[m].key /\ M1[m].id = M[m].id /\ DOMAIN M1[m].name = DOMAIN M[m].name
       /\ \A n \in DOMAIN M[m].name : SameField(M[m].name[n], M1[m].name[n])

LEMMA ShapeSame == ASSUME NEW M PROVE SameShape(M, M)
  BY DEF SameShape, SameField

LEMMA ShapeTwice ==
  ASSUME NEW M, NEW M1, NEW M2, SameShape(M, M1), SameShape(M1, M2) PROVE SameShape(M, M2)
  BY DEF SameShape, SameField

(* One field of the queue. *)
LEMMA QueueStep ==
  ASSUME WellFormed, NEW P, NEW u \in Units, Visible(u) \subseteq P \cup {u},
         NEW n, n = Len(Decls(u)), NEW enums, EnumsRight(P, u, n, enums),
         NEW M, NamesRight(P, u, n, M), NEW S, NEW q \in Seq(S), NEW i \in 1 .. Len(q),
         NEW m \in DOMAIN M, NEW k \in DOMAIN M[m].name, q[i] = <<m, k>>,
         TypesRight(u, enums, M, q, i), NEW M1, M1 = Resolved(enums, M, q[i])
  PROVE  SameShape(M, M1) /\ TypesRight(u, enums, M1, q, i + 1)
  <1>1. PICK f : f = M[m].name[k]
    OBVIOUS
  <1>2. PICK g : g = SetFieldOne(enums, M, f)
    OBVIOUS
  <1>3. Fixed(enums, M, f) \/ Fits(u, f)
    BY <1>1 DEF TypesRight
  <1>4. SameField(f, g) /\ Fixed(enums, M, g)
    BY <1>2, <1>3, FieldResolves
  <1>5. PICK name : name = MapPut(M[m].name, k, g)
    OBVIOUS
  <1>6. PICK msg : msg = [key |-> M[m].key, name |-> name, id |-> M[m].id]
    OBVIOUS
  <1>7. M1 = MapPut(M, m, msg)
    <2>1. PICK e : e = q[i] /\ e[1] = m /\ e[2] = k
      OBVIOUS
    <2>2. M1 = Resolved(enums, M, e)
      BY <2>1
    <2> QED BY <1>1, <1>2, <1>5, <1>6, <2>1, <2>2 DEF Resolved
  <1>8. DOMAIN M1 = DOMAIN M /\ M1[m] = msg /\ \A x \in DOMAIN M : x # m => M1[x] = M[x]
    <2>1. PutAt(M1, M, m, msg)
      BY <1>7, MapPutIs
    <2> QED BY <2>1 DEF PutAt
  <1>9. /\ DOMAIN name = DOMAIN M[m].name /\ name[k] = g
        /\ \A x \in DOMAIN M[m].name : x # k => name[x] = M[m].name[x]
    <2>1. PutAt(name, M[m].name, k, g)
      BY <1>5, MapPutIs
    <2> QED BY <2>1 DEF PutAt
  <1>10. msg.key = M[m].key /\ msg.name = name /\ msg.id = M[m].id
    BY <1>6
  <1>11. SameShape(M, M1)
    <2> SUFFICES ASSUME NEW x \in DOMAIN M
                 PROVE  /\ M1[x].key = M[x].key /\ M1[x].id = M[x].id
                        /\ DOMAIN M1[x].name = DOMAIN M[x].name
                        /\ \A z \in DOMAIN M[x].name : SameField(M[x].name[z], M1[x].name[z])
      BY <1>8 DEF SameShape
    <2>1. CASE x = m
      <3>1. \A z \in DOMAIN M[m].name : SameField(M[m].name[z], name[z])
        BY <1>1, <1>4, <1>9 DEF SameField
      <3> QED BY <1>8, <1>9, <1>10, <2>1, <3>1
    <2>2. CASE x # m
      BY <1>8, <2>2 DEF SameField
    <2> QED BY <2>1, <2>2
  <1>12. TypesRight(u, enums, M1, q, i + 1)
    <2> SUFFICES ASSUME NEW x \in DOMAIN M1, NEW z \in DOMAIN M1[x].name
                 PROVE  \/ Fixed(enums, M1, M1[x].name[z])
                        \/ Fits(u, M1[x].name[z]) /\ Queued(q, i + 1, x, z)
      BY DEF TypesRight
    <2>1. \A h : Fixed(enums, M, h) => Fixed(enums, M1, h)
      BY <1>8 DEF Fixed
    <2>2. CASE x = m /\ z = k
      BY <1>4, <1>8, <1>9, <1>10, <2>1, <2>2
    <2>3. CASE ~(x = m /\ z = k)
      <3>1. x \in DOMAIN M /\ z \in DOMAIN M[x].name /\ M1[x].name[z] = M[x].name[z]
        <4>1. CASE x = m
          BY <1>8, <1>9, <1>10, <2>3, <4>1
        <4>2. CASE x # m
          BY <1>8, <4>2
        <4> QED BY <4>1, <4>2
      <3>2. \/ Fixed(enums, M, M[x].name[z])
            \/ Fits(u, M[x].name[z]) /\ Queued(q, i, x, z)
        BY <3>1 DEF TypesRight
      <3>3. ASSUME Queued(q, i, x, z) PROVE Queued(q, i + 1, x, z)
        <4>1. PICK l \in Nat : l = Len(q)
          OBVIOUS
        <4>2. PICK y \in i .. l : q[y] = <<x, z>>
          BY <3>3, <4>1 DEF Queued
        <4>3. y # i
          <5> SUFFICES ASSUME y = i PROVE FALSE
            OBVIOUS
          <5>1. <<x, z>> = <<m, k>>
            BY <4>2
          <5> QED BY <2>3, <5>1
        <4>4. y \in i + 1 .. l
          BY <4>1, <4>2, <4>3
        <4> QED BY <4>1, <4>2, <4>4 DEF Queued
      <3> QED BY <2>1, <3>1, <3>2, <3>3
    <2> QED BY <2>2, <2>3
  <1> QED BY <1>11, <1>12

LEMMA ShapeKeeps ==
  ASSUME NEW M, NEW M1, SameShape(M, M1)
  PROVE  /\ Kept(M, M1) /\ (KeysRight(M) => KeysRight(M1))
         /\ \A P, u, k : NamesRight(P, u, k, M) => NamesRight(P, u, k, M1)
         /\ \A P, u, k : FieldsRight(P, u, k, M) => FieldsRight(P, u, k, M1)
         /\ \A P, u, k : MapsRight(P, u, k, {}, M) => MapsRight(P, u, k, {}, M1)
  <1>1. Kept(M, M1)
    BY DEF SameShape, SameField, Kept, HasField
  <1>2. KeysRight(M) => KeysRight(M1)
    BY DEF SameShape, KeysRight
  <1>3. ASSUME NEW x \in DOMAIN M, MapRight(M[x]) PROVE MapRight(M1[x])
    <2>1. PICK a : a = M[x]
      OBVIOUS
    <2>2. PICK b : b = M1[x]
      OBVIOUS
    <2>3. /\ b.id = a.id /\ DOMAIN b.name = DOMAIN a.name
          /\ \A n \in DOMAIN a.name : b.name[n].id = a.name[n].id
      BY <2>1, <2>2 DEF SameShape, SameField
    <2>4. {b.name[n].id : n \in DOMAIN b.name} = {a.name[n].id : n \in DOMAIN a.name}
      BY <2>3
    <2>5. MapRight(a)
      BY <1>3, <2>1
    <2>6. MapRight(b)
      BY <2>3, <2>4, <2>5 DEF MapRight
    <2> QED BY <2>2, <2>6
  <1>4. ASSUME NEW P, NEW u, NEW k, MapsRight(P, u, k, {}, M) PROVE MapsRight(P, u, k, {}, M1)
    <2> SUFFICES ASSUME NEW x \in DOMAIN M1
                 PROVE  /\ MapRight(M1[x])
                        /\ DOMAIN M1[x].name = {} =>
                             \E v \in Units : \E y \in Places(v, "message", x) : Done(P, u, k, v, y)
      BY DEF MapsRight
    <2>1. x \in DOMAIN M /\ DOMAIN M1[x].name = DOMAIN M[x].name
      BY DEF SameShape
    <2>2. /\ MapRight(M[x])
          /\ DOMAIN M[x].name = {} =>
               \E v \in Units : \E y \in Places(v, "message", x) : Done(P, u, k, v, y)
      BY <1>4, <2>1 DEF MapsRight
    <2> QED BY <1>3, <2>1, <2>2
  <1> QED BY <1>1, <1>2, <1>4, KeptKeeps

(* The units of P are registered, and none is under way. *)
Rest(P, e, m) == Going(P, NullPtr, 0, 0, {}, [enums |-> e, msgs |-> m, queue |-> <<>>])

LEMMA RestIs ==
  ASSUME NEW P, NEW e, NEW m
  PROVE  Rest(P, e, m) <=>
           /\ EnumsRight(P, NullPtr, 0, e) /\ NamesRight(P, NullPtr, 0, m)
           /\ FieldsRight(P, NullPtr, 0, m) /\ MapsRight(P, NullPtr, 0, {}, m)
           /\ \A x \in DOMAIN m : \A n \in DOMAIN m[x].name : Fixed(e, m, m[x].name[n])
           /\ KeysRight(m)
  <1>1. PICK q : q = <<>>
    OBVIOUS
  <1>2. PICK s : s = [enums |-> e, msgs |-> m, queue |-> q]
    OBVIOUS
  <1>3. s.enums = e /\ s.msgs = m /\ s.queue = q
    BY <1>2
  <1>4. q \in Seq({}) /\ Len(q) = 0 /\ \A y \in 1..0 : FALSE
    BY <1>1
  <1>5. QueueRight(m, q)
    BY <1>4 DEF QueueRight
  <1>6. TypesRight(NullPtr, e, m, q, 1) <=>
          \A x \in DOMAIN m : \A n \in DOMAIN m[x].name : Fixed(e, m, m[x].name[n])
    BY <1>4 DEF TypesRight, Queued
  <1> QED BY <1>1, <1>2, <1>3, <1>5, <1>6 DEF Rest, Going

(* Done before a unit begins, and after it ends. *)
LEMMA DoneEnds ==
  ASSUME WellFormed, NEW P, NEW u \in Units, NEW n, n = Len(Decls(u)), NEW v \in Units, NEW i \in DOMAIN Decls(v)
  PROVE  /\ Done(P, NullPtr, 0, v, i) <=> Done(P, u, 0, v, i)
         /\ Done(P, u, n, v, i) <=> Done(P \cup {u}, NullPtr, 0, v, i)
  <1>1. i \in Nat \ {0} /\ ~(i <= 0)
    BY DeclsAre
  <1>2. v = u => i <= n
    BY DeclsAre
  <1> QED BY <1>1, <1>2 DEF Done

SameDone(P, u, k, Q, w, l) ==
  \A v \in Units : \A i \in DOMAIN Decls(v) : Done(P, u, k, v, i) <=> Done(Q, w, l, v, i)

LEMMA DoneSame ==
  ASSUME NEW P, NEW u, NEW k, NEW Q, NEW w, NEW l, SameDone(P, u, k, Q, w, l), NEW e, NEW m
  PROVE  /\ EnumsRight(P, u, k, e) => EnumsRight(Q, w, l, e)
         /\ NamesRight(P, u, k, m) => NamesRight(Q, w, l, m)
         /\ FieldsRight(P, u, k, m) => FieldsRight(Q, w, l, m)
         /\ MapsRight(P, u, k, {}, m) => MapsRight(Q, w, l, {}, m)
  <1>1. EnumsRight(P, u, k, e) => EnumsRight(Q, w, l, e)
    BY DEF EnumsRight, SameDone
  <1>2. NamesRight(P, u, k, m) => NamesRight(Q, w, l, m)
    BY DEF NamesRight, SameDone
  <1>3. FieldsRight(P, u, k, m) => FieldsRight(Q, w, l, m)
    BY DEF FieldsRight, SameDone
  <1>4. ASSUME MapsRight(P, u, k, {}, m) PROVE MapsRight(Q, w, l, {}, m)
    <2> SUFFICES ASSUME NEW x \in DOMAIN m
                 PROVE  /\ MapRight(m[x])
                        /\ DOMAIN m[x].name = {} =>
                             \E v \in Units : \E y \in Places(v, "message", x) : Done(Q, w, l, v, y)
      BY DEF MapsRight
    <2>1. ASSUME NEW v \in Units, NEW y \in Places(v, "message", x), Done(P, u, k, v, y)
          PROVE  Done(Q, w, l, v, y)
      <3>1. y \in DOMAIN Decls(v)
        BY DEF Places
      <3> QED BY <2>1, <3>1 DEF SameDone
    <2> QED BY <1>4, <2>1 DEF MapsRight
  <1> QED BY <1>1, <1>2, <1>3, <1>4

(* The queue is worked off. *)
LEMMA RegisterFieldsKeep ==
  ASSUME WellFormed, NEW P, NEW u \in Units, Visible(u) \subseteq P \cup {u},
         NEW n, n = Len(Decls(u)), NEW s, Going(P, u, n, n, {}, s)
  PROVE  Rest(P \cup {u}, s.enums, RegisterFields(s))
  <1>1. PICK e : e = s.enums
    OBVIOUS
  <1>2. PICK M : M = s.msgs
    OBVIOUS
  <1>3. PICK q : q = s.queue
    OBVIOUS
  <1>4. /\ EnumsRight(P, u, n, e) /\ NamesRight(P, u, n, M) /\ FieldsRight(P, u, n, M)
        /\ MapsRight(P, u, n, {}, M) /\ TypesRight(u, e, M, q, 1) /\ QueueRight(M, q) /\ KeysRight(M)
    BY <1>1, <1>2, <1>3 DEF Going
  <1>5. PICK S : q \in Seq(S)
    BY <1>4 DEF QueueRight
  <1>6. PICK l \in Nat : l = Len(q)
    BY <1>5
  <1>7. PICK at : QueueFollows(s, at) /\ RegisterFields(s) = at[l]
    <2>1. Len(s.queue) \in Nat
      BY <1>3, <1>6
    <2> QED BY <1>3, <1>6, <2>1, RegisterFieldsFollow
  <1>8. at[0] = M /\ \A i \in 1..l : at[i] = Resolved(e, at[i - 1], q[i])
    BY <1>1, <1>2, <1>3, <1>6, <1>7 DEF QueueFollows
  <1> DEFINE G == {i \in 0..l : SameShape(M, at[i]) /\ TypesRight(u, e, at[i], q, i + 1)}
  <1>9. 0 \in G
    <2>1. 0 \in 0..l /\ 0 + 1 = 1
      OBVIOUS
    <2>2. SameShape(M, M)
      BY ShapeSame
    <2> QED BY <1>4, <1>8, <2>1, <2>2
  <1>10. ASSUME NEW i \in 1..l, i - 1 \in G PROVE i \in G
    <2>1. PICK t : t = at[i - 1]
      OBVIOUS
    <2>2. i \in Nat /\ (i - 1) + 1 = i /\ i \in 0..l
      OBVIOUS
    <2>3. SameShape(M, t) /\ TypesRight(u, e, t, q, i)
      BY <1>10, <2>1, <2>2
    <2>4. PICK m \in DOMAIN M : \E k \in DOMAIN M[m].name : q[i] = <<m, k>>
      BY <1>4, <1>6 DEF QueueRight
    <2>5. PICK k \in DOMAIN M[m].name : q[i] = <<m, k>>
      BY <2>4
    <2>6. m \in DOMAIN t /\ k \in DOMAIN t[m].name
      BY <2>3 DEF SameShape
    <2>7. NamesRight(P, u, n, t)
      BY <1>4, <2>3, ShapeKeeps
    <2>8. PICK t1 : t1 = at[i] /\ t1 = Resolved(e, t, q[i])
      BY <1>8, <2>1
    <2>9. SameShape(t, t1) /\ TypesRight(u, e, t1, q, i + 1)
      BY <1>4, <1>5, <1>6, <2>3, <2>5, <2>6, <2>7, <2>8, QueueStep
    <2>10. SameShape(M, t1)
      BY <2>3, <2>9, ShapeTwice
    <2> QED BY <2>2, <2>8, <2>9, <2>10
  <1>11. \A i \in 0..l : i \in G
    <2> HIDE DEF G
    <2> QED BY <1>9, <1>10, UpTo
  <1>12. PICK M1 : M1 = at[l]
    OBVIOUS
  <1>13. SameShape(M, M1) /\ TypesRight(u, e, M1, q, l + 1)
    <2>1. l \in 0..l
      OBVIOUS
    <2> QED BY <1>11, <1>12, <2>1
  <1>14. \A x \in DOMAIN M1 : \A z \in DOMAIN M1[x].name : Fixed(e, M1, M1[x].name[z])
    <2>1. \A y \in l + 1 .. l : FALSE
      OBVIOUS
    <2> QED BY <1>6, <1>13, <2>1 DEF TypesRight, Queued
  <1>15. NamesRight(P, u, n, M1) /\ FieldsRight(P, u, n, M1) /\ MapsRight(P, u, n, {}, M1) /\ KeysRight(M1)
    BY <1>4, <1>13, ShapeKeeps
  <1>16. SameDone(P, u, n, P \cup {u}, NullPtr, 0)
    BY DoneEnds DEF SameDone
  <1>17. PICK Q : Q = P \cup {u}
    OBVIOUS
  <1>18. /\ EnumsRight(Q, NullPtr, 0, e) /\ NamesRight(Q, NullPtr, 0, M1)
         /\ FieldsRight(Q, NullPtr, 0, M1) /\ MapsRight(Q, NullPtr, 0, {}, M1)
    BY <1>4, <1>15, <1>16, <1>17, DoneSame
  <1>19. Rest(Q, e, M1)
    BY <1>14, <1>15, <1>18, RestIs
  <1> QED BY <1>1, <1>7, <1>12, <1>17, <1>19

LEMMA RegisterKeeps ==
  ASSUME WellFormed, NEW P, NEW u \in Units, u \notin P, Visible(u) \subseteq P \cup {u},
         NEW e, Rest(P, e.enums, e.msgs), NEW r, r = Register(e, Decls(u))
  PROVE  Rest(P \cup {u}, r.enums, r.msgs)
  <1>1. PICK E : E = e.enums
    OBVIOUS
  <1>2. PICK M : M = e.msgs
    OBVIOUS
  <1>3. PICK q : q = <<>>
    OBVIOUS
  <1>4. PICK s : s = [enums |-> E, msgs |-> M, queue |-> q]
    OBVIOUS
  <1>5. s.enums = E /\ s.msgs = M /\ s.queue = q
    BY <1>4
  <1>6. /\ EnumsRight(P, NullPtr, 0, E) /\ NamesRight(P, NullPtr, 0, M)
        /\ FieldsRight(P, NullPtr, 0, M) /\ MapsRight(P, NullPtr, 0, {}, M)
        /\ (\A x \in DOMAIN M : \A z \in DOMAIN M[x].name : Fixed(E, M, M[x].name[z]))
        /\ KeysRight(M)
    BY <1>1, <1>2, RestIs
  <1>7. SameDone(P, NullPtr, 0, P, u, 0)
    BY DoneEnds DEF SameDone
  <1>8. /\ EnumsRight(P, u, 0, E) /\ NamesRight(P, u, 0, M)
        /\ FieldsRight(P, u, 0, M) /\ MapsRight(P, u, 0, {}, M)
    BY <1>6, <1>7, DoneSame
  <1>9. q \in Seq({}) /\ Len(q) = 0 /\ \A y \in 1..0 : FALSE
    BY <1>3
  <1>10. QueueRight(M, q)
    BY <1>9 DEF QueueRight
  <1>11. TypesRight(u, E, M, q, 1)
    BY <1>6 DEF TypesRight
  <1>12. Going(P, u, 0, 0, {}, s)
    BY <1>5, <1>6, <1>8, <1>10, <1>11 DEF Going
  <1>13. PICK n : n = Len(Decls(u))
    OBVIOUS
  <1>14. PICK t : t = DeclareAll(s, Decls(u))
    OBVIOUS
  <1>15. Going(P, u, n, n, {}, t)
    BY <1>12, <1>13, <1>14, DeclareAllKeeps
  <1>16. Rest(P \cup {u}, t.enums, RegisterFields(t))
    BY <1>13, <1>15, RegisterFieldsKeep
  <1>17. r = [enums |-> t.enums, msgs |-> RegisterFields(t)]
    BY <1>1, <1>2, <1>3, <1>4, <1>14 DEF Register
  <1>18. r.enums = t.enums /\ r.msgs = RegisterFields(t)
    BY <1>17
  <1> QED BY <1>16, <1>18

LEMMA DangleKeeps ==
  ASSUME NEW P, NEW e, Rest(P, e.enums, e.msgs), NEW r, r = Dangle(e)
  PROVE  Rest(P, r.enums, r.msgs)
  <1>1. PICK E : E = e.enums
    OBVIOUS
  <1>2. PICK M : M = e.msgs
    OBVIOUS
  <1>3. PICK M1 : M1 = [n \in DOMAIN M |->
                          [key  |-> IF M[n].key = "message" THEN "freed" ELSE M[n].key,
                           name |-> M[n].name, id |-> M[n].id]]
    OBVIOUS
  <1>4. r.enums = E /\ r.msgs = M1
    <2>1. r = [files |-> e.files, enums |-> E, msgs |-> M1]
      BY <1>1, <1>2, <1>3 DEF Dangle
    <2> QED BY <2>1
  <1>5. /\ DOMAIN M1 = DOMAIN M
        /\ \A n \in DOMAIN M : /\ M1[n].name = M[n].name /\ M1[n].id = M[n].id
                               /\ M1[n].key # "pool" => M[n].key # "pool"
    BY <1>3
  <1>6. /\ EnumsRight(P, NullPtr, 0, E) /\ NamesRight(P, NullPtr, 0, M)
        /\ FieldsRight(P, NullPtr, 0, M) /\ MapsRight(P, NullPtr, 0, {}, M)
        /\ (\A x \in DOMAIN M : \A z \in DOMAIN M[x].name : Fixed(E, M, M[x].name[z]))
        /\ KeysRight(M)
    BY <1>1, <1>2, RestIs
  <1>7. NamesRight(P, NullPtr, 0, M1)
    BY <1>5, <1>6 DEF NamesRight
  <1>8. FieldsRight(P, NullPtr, 0, M1)
    BY <1>5, <1>6 DEF FieldsRight, HasField
  <1>9. MapsRight(P, NullPtr, 0, {}, M1)
    <2>1. \A n \in DOMAIN M : MapRight(M[n]) => MapRight(M1[n])
      BY <1>5 DEF MapRight
    <2> QED BY <1>5, <1>6, <2>1 DEF MapsRight
  <1>10. \A x \in DOMAIN M1 : \A z \in DOMAIN M1[x].name : Fixed(E, M1, M1[x].name[z])
    BY <1>5, <1>6 DEF Fixed
  <1>11. KeysRight(M1)
    BY <1>5, <1>6 DEF KeysRight
  <1> QED BY <1>4, <1>6, <1>7, <1>8, <1>9, <1>10, <1>11, RestIs

(* What u can see is among any units with u that are closed. *)
LEMMA VisibleAmong ==
  ASSUME NEW u, NEW c \in SUBSET Units, u \in c, NullPtr \in c, \A x \in c : Deps(x) \cap Units \subseteq c
  PROVE  Visible(u) \subseteq c
  BY DEF Visible

(* The registered files come with their dependencies, and the tables are   *)
(* what they and the built-in file declare.                                *)
RegKnown ==
  /\ \A f \in Pools : Deps(f) \subseteq Pools
  /\ Rest(Pools \cup {NullPtr}, env.enums, env.msgs)

LEMMA KnownBegins ==
  ASSUME WellFormed, RegInit PROVE RegKnown
  <1>1. PICK e : e = [enums |-> EmptyMap, msgs |-> EmptyMap]
    OBVIOUS
  <1>2. e.enums = EmptyMap /\ e.msgs = EmptyMap
    BY <1>1
  <1>3. PICK z : z = EmptyMap
    OBVIOUS
  <1>4. DOMAIN z = {}
    BY <1>3 DEF EmptyMap
  <1>5. Rest({}, z, z)
    <2>1. \A v \in Units : \A i \in DOMAIN Decls(v) : ~Done({}, NullPtr, 0, v, i)
      <3> SUFFICES ASSUME NEW v \in Units, NEW i \in DOMAIN Decls(v) PROVE ~Done({}, NullPtr, 0, v, i)
        OBVIOUS
      <3>1. i \in Nat \ {0}
        BY DeclsAre
      <3>2. ~(i <= 0)
        BY <3>1
      <3> QED BY <3>2 DEF Done
    <2>2. EnumsRight({}, NullPtr, 0, z)
      BY <1>4, <2>1 DEF EnumsRight
    <2>3. NamesRight({}, NullPtr, 0, z) /\ FieldsRight({}, NullPtr, 0, z)
      BY <2>1 DEF NamesRight, FieldsRight
    <2>4. MapsRight({}, NullPtr, 0, {}, z) /\ KeysRight(z)
      BY <1>4 DEF MapsRight, KeysRight
    <2> QED BY <1>4, <2>2, <2>3, <2>4, RestIs
  <1>6. NullPtr \in Units /\ Decls(NullPtr) = InternalDecls(BuiltIn) /\ Deps(NullPtr) = {}
    BY DEF Units, Decls, Deps
  <1>7. Visible(NullPtr) \subseteq {} \cup {NullPtr}
    <2>1. PICK c : c = {NullPtr}
      OBVIOUS
    <2>2. c \in SUBSET Units /\ NullPtr \in c /\ \A x \in c : Deps(x) \cap Units \subseteq c
      BY <1>6, <2>1
    <2>3. Visible(NullPtr) \subseteq c
      BY <2>2, VisibleAmong
    <2> QED BY <2>1, <2>3
  <1>8. PICK r : r = Register(e, InternalDecls(BuiltIn))
    OBVIOUS
  <1>9. Rest({} \cup {NullPtr}, r.enums, r.msgs)
    BY <1>2, <1>3, <1>5, <1>6, <1>7, <1>8, RegisterKeeps
  <1>10. env = [files |-> MapPut(EmptyMap, BuiltIn.name, NullPtr), enums |-> r.enums, msgs |-> r.msgs]
    BY <1>1, <1>8 DEF RegInit, RegisterInternal
  <1>11. env.files = MapPut(EmptyMap, BuiltIn.name, NullPtr) /\ env.enums = r.enums /\ env.msgs = r.msgs
    BY <1>10
  <1>12. Pools = {}
    <2>1. env.files = [x \in {BuiltIn.name} |-> NullPtr]
      BY <1>11 DEF MapPut, EmptyMap
    <2> QED BY <2>1 DEF Pools
  <1> QED BY <1>9, <1>11, <1>12 DEF RegKnown

LEMMA KnownRegisters ==
  ASSUME WellFormed, RegInv, RegKnown, RegisterNoDependency
  PROVE  RegKnown'
  <1>1. call # NoCall /\ call.i <= Len(call.files)
    BY DEF RegisterNoDependency
  <1>2. call \in CallType /\ Pools \subseteq DOMAIN Files
    BY <1>1 DEF RegInv
  <1>3. PICK fs \in FileSet : fs = call.files
    BY <1>2 DEF CallType
  <1>4. PICK i \in 1 .. Len(fs) : i = call.i
    BY <1>1, <1>2, <1>3 DEF CallType, FileSet
  <1>5. PICK P : P = Pools
    OBVIOUS
  <1>6. PICK f : f = fs[i]
    OBVIOUS
  <1>7. CASE env' = env
    BY <1>7 DEF RegKnown, Pools
  <1>8. CASE f # NullPtr /\ CheckFileName(env, f) = "OK"
    <2>1. f \in DOMAIN Files
      <3>1. fs[i] \in DOMAIN Files \cup {NullPtr}
        BY DEF FileSet
      <3> QED BY <1>6, <1>8, <3>1
    <2>2. /\ Lookup(env.files, f) = NullPtr
          /\ \A j \in DOMAIN Files[f].deps : Lookup(env.files, Files[f].deps[j]) # NullPtr
      BY <1>8 DEF CheckFileName
    <2>3. \A g : Lookup(env.files, g) # NullPtr <=> g \in P
      BY <1>5 DEF Lookup, Pools
    <2>4. f \notin P \cup {NullPtr} /\ f \in Units /\ Decls(f) = Files[f].decls
      BY <1>8, <2>1, <2>2, <2>3 DEF Units, Decls
    <2>5. Deps(f) \subseteq P
      BY <1>8, <2>2, <2>3 DEF Deps
    <2>6. (\A x \in P : Deps(x) \subseteq P) /\ Rest(P \cup {NullPtr}, env.enums, env.msgs)
      BY <1>5 DEF RegKnown
    <2>7. PICK Q : Q = P \cup {NullPtr}
      OBVIOUS
    <2>8. Visible(f) \subseteq Q \cup {f}
      <3>1. PICK c : c = Q \cup {f}
        OBVIOUS
      <3>2. c \in SUBSET Units
        BY <1>2, <1>5, <2>4, <2>7, <3>1 DEF Units
      <3>3. Deps(NullPtr) = {}
        BY DEF Deps
      <3>4. \A x \in c : Deps(x) \cap Units \subseteq c
        BY <2>5, <2>6, <2>7, <3>1, <3>3
      <3>5. f \in c /\ NullPtr \in c
        BY <2>7, <3>1
      <3>6. Visible(f) \subseteq c
        BY <3>2, <3>4, <3>5, VisibleAmong
      <3> QED BY <3>1, <3>6
    <2>9. PICK r : r = Register(env, Files[f].decls)
      OBVIOUS
    <2>10. Rest(Q \cup {f}, r.enums, r.msgs)
      <3>1. f \notin Q /\ Rest(Q, env.enums, env.msgs) /\ r = Register(env, Decls(f))
        BY <2>4, <2>6, <2>7, <2>9
      <3> QED BY <2>4, <2>8, <3>1, RegisterKeeps
    <2>11. env' = [files |-> MapPut(env.files, f, "pool"), enums |-> r.enums, msgs |-> r.msgs]
      BY <1>3, <1>4, <1>6, <1>8, <2>9 DEF RegisterNoDependency
    <2>12. env'.files = MapPut(env.files, f, "pool") /\ env'.enums = r.enums /\ env'.msgs = r.msgs
      BY <2>11
    <2>13. Pools' = P \cup {f}
      BY <1>5, <2>12, RegAssumption DEF Pools, MapPut
    <2>14. Q \cup {f} = Pools' \cup {NullPtr}
      BY <2>7, <2>13
    <2>15. \A x \in Pools' : Deps(x) \subseteq Pools'
      BY <2>5, <2>6, <2>13
    <2>16. Rest(Pools' \cup {NullPtr}, env'.enums, env'.msgs)
      BY <2>10, <2>12, <2>14
    <2>17. \A x : Deps(x)' = Deps(x)
      BY DEF Deps
    <2> QED BY <2>15, <2>16, <2>17 DEF RegKnown
  <1> QED BY <1>3, <1>4, <1>6, <1>7, <1>8 DEF RegisterNoDependency

LEMMA KnownStays ==
  ASSUME RegKnown, PassEnd PROVE RegKnown'
  <1>1. CASE env' = env
    BY <1>1 DEF RegKnown, Pools
  <1>2. CASE env' = Dangle(env)
    <2>1. PICK r : r = Dangle(env)
      OBVIOUS
    <2>2. Rest(Pools \cup {NullPtr}, r.enums, r.msgs)
      BY <2>1, DangleKeeps DEF RegKnown
    <2>3. env'.files = env.files
      <3>1. Dangle(env).files = env.files
        BY DEF Dangle
      <3> QED BY <1>2, <3>1
    <2>4. Pools' = Pools
      BY <2>3 DEF Pools
    <2> QED BY <1>2, <2>1, <2>2, <2>4 DEF RegKnown
  <1> QED BY <1>1, <1>2 DEF PassEnd

(* The place pbc_enum_id finds. *)
LEMMA EnumIdIs ==
  ASSUME NEW e \in DOMAIN env.enums, DOMAIN env.enums[e].values \subseteq Nat \ {0},
         \A x, y \in DOMAIN env.enums[e].values : env.enums[e].values[x] = env.enums[e].values[y] => x = y,
         NEW x \in DOMAIN env.enums[e].values
  PROVE  PbcEnumId(e, env.enums[e].values[x]) = x /\ x # 0
  <1>1. PICK hits : hits = {i \in DOMAIN env.enums[e].values : env.enums[e].values[i] = env.enums[e].values[x]}
    OBVIOUS
  <1>2. hits = {x}
    BY <1>1
  <1>3. Min(hits) = x
    <2>1. x <= x
      OBVIOUS
    <2> QED BY <1>2, <2>1 DEF Min
  <1>4. PbcEnumId(e, env.enums[e].values[x]) = IF hits = {} THEN 0 ELSE Min(hits)
    BY <1>1 DEF PbcEnumId
  <1> QED BY <1>2, <1>3, <1>4

LEMMA RestIsClosed ==
  ASSUME WellFormed, RegInv, RegKnown PROVE RegistryClosed
  <1>1. PICK P : P = Pools \cup {NullPtr}
    OBVIOUS
  <1>2. PICK E : E = env.enums
    OBVIOUS
  <1>3. PICK M : M = env.msgs
    OBVIOUS
  <1>4. /\ EnumsRight(P, NullPtr, 0, E) /\ NamesRight(P, NullPtr, 0, M)
        /\ FieldsRight(P, NullPtr, 0, M) /\ MapsRight(P, NullPtr, 0, {}, M)
        /\ (\A x \in DOMAIN M : \A z \in DOMAIN M[x].name : Fixed(E, M, M[x].name[z]))
        /\ KeysRight(M)
    <2>1. Rest(P, E, M)
      BY <1>1, <1>2, <1>3 DEF RegKnown
    <2> QED BY <2>1, RestIs
  <1>5. ASSUME NEW n \in DOMAIN E
        PROVE  /\ DOMAIN E[n].values \subseteq Nat \ {0}
               /\ \A x, y \in DOMAIN E[n].values : E[n].values[x] = E[n].values[y] => x = y
    BY <1>4, EnumsAre
  <1>6. ASSUME NEW n \in DOMAIN E, NEW x \in DOMAIN E[n].values
        PROVE  PbcEnumId(n, E[n].values[x]) = x /\ x # 0
    BY <1>2, <1>5, EnumIdIs
  <1>7. ASSUME NEW f \in Pools, NEW i \in DOMAIN Files[f].decls
        PROVE  LET d == Files[f].decls[i] IN
                 /\ d.kind = "message" =>
                      \A x \in DOMAIN d.fields : PbcType(d.name, d.fields[x].name)[1] = d.fields[x].type
                 /\ d.kind \in {"message", "extend"} =>
                      \A x \in DOMAIN d.exts : PbcType(d.exts[x].extendee, d.exts[x].name)[1] = d.exts[x].type
                 /\ d.kind = "enum" => \A x \in DOMAIN d.values : PbcEnumId(d.name, d.values[x]) = x
    <2>1. f \in DOMAIN Files /\ f \in Units /\ Decls(f) = Files[f].decls
      BY RegAssumption DEF RegInv, Units, Decls
    <2>2. Done(P, NullPtr, 0, f, i)
      BY <1>1, <2>1 DEF Done
    <2>3. PICK d : d = Files[f].decls[i] /\ d = Decls(f)[i]
      BY <2>1
    <2>4. \A p \in Added(d) : HasField(M, p[1], p[2])
      BY <1>4, <2>1, <2>2, <2>3 DEF FieldsRight
    <2>5. ASSUME NEW m, NEW a, <<m, a>> \in Added(d) PROVE PbcType(m, a.name)[1] = a.type
      <3>1. HasField(M, m, a)
        <4>1. PICK p \in Added(d) : p = <<m, a>> /\ p[1] = m /\ p[2] = a
          BY <2>5
        <4> QED BY <2>4, <4>1
      <3>2. m \in DOMAIN M /\ a.name \in DOMAIN M[m].name /\ M[m].name[a.name].type = a.type
        BY <3>1 DEF HasField
      <3>3. PICK g : g = M[m].name[a.name]
        OBVIOUS
      <3>4. PbcType(m, a.name) = <<g.type, IF g.label \in {"repeated", "packed"} THEN "repeated" ELSE None>>
        BY <1>3, <3>2, <3>3 DEF PbcType
      <3> QED BY <3>2, <3>3, <3>4
    <2>6. d.kind = "message" =>
            \A x \in DOMAIN d.fields : PbcType(d.name, d.fields[x].name)[1] = d.fields[x].type
      BY <2>5, AddedAre
    <2>7. d.kind \in {"message", "extend"} =>
            \A x \in DOMAIN d.exts : PbcType(d.exts[x].extendee, d.exts[x].name)[1] = d.exts[x].type
      <3>1. d.kind \in {"message", "extend"} => d.kind # "enum"
        OBVIOUS
      <3> QED BY <2>5, <3>1, AddedAre
    <2>8. ASSUME d.kind = "enum", NEW x \in DOMAIN d.values PROVE PbcEnumId(d.name, d.values[x]) = x
      <3>1. d.name \in DOMAIN E /\ E[d.name].values = d.values
        BY <1>4, <2>1, <2>2, <2>3, <2>8 DEF EnumsRight
      <3> QED BY <1>6, <2>8, <3>1
    <2> QED BY <2>3, <2>6, <2>7, <2>8
  <1>8. DeclaredIsKnown
    BY <1>7 DEF DeclaredIsKnown
  <1>9. MapsAgree
    <2> SUFFICES ASSUME NEW m \in DOMAIN M
                 PROVE  LET msg == M[m]
                            ids == {msg.name[n].id : n \in DOMAIN msg.name}
                        IN  IF DOMAIN msg.name = {} THEN msg.id = NullPtr
                            ELSE DOMAIN msg.id = ids /\ \A i \in ids : msg.name[msg.id[i]].id = i
      BY <1>3 DEF MapsAgree
    <2>1. MapRight(M[m])
      BY <1>4 DEF MapsRight
    <2> QED BY <2>1 DEF MapRight
  <1>10. TypesResolved
    <2> SUFFICES ASSUME NEW m \in DOMAIN M, NEW k \in DOMAIN M[m].name
                 PROVE  LET f == M[m].name[k] IN
                          /\ f.type \in {"message", "enum"} => f.target = f.type_name
                          /\ f.type = "message" => f.target \in DOMAIN M
                          /\ f.type = "enum" => PbcEnumId(f.type_name, f.default) # 0
      BY <1>3 DEF TypesResolved
    <2>1. PICK f : f = M[m].name[k]
      OBVIOUS
    <2>2. Fixed(E, M, f)
      BY <1>4, <2>1
    <2>3. ASSUME f.type = "enum" PROVE PbcEnumId(f.type_name, f.default) # 0
      <3>1. PICK n : n = f.type_name
        OBVIOUS
      <3>2. n \in DOMAIN E /\ \E x \in DOMAIN E[n].values : E[n].values[x] = f.default
        BY <2>2, <2>3, <3>1 DEF Fixed
      <3>3. PICK x \in DOMAIN E[n].values : E[n].values[x] = f.default
        BY <3>2
      <3> QED BY <1>6, <3>1, <3>2, <3>3
    <2> QED BY <2>1, <2>2, <2>3 DEF Fixed
  <1>11. NamesOutliveTheSet
    BY <1>3, <1>4 DEF KeysRight, NamesOutliveTheSet
  <1> QED BY <1>8, <1>9, <1>10, <1>11 DEF RegistryClosed

(* Every field and enum value that a registered file declares is found,    *)
(* the maps of a message agree, every type a field names is there, and no  *)
(* name points into a freed set but those the code is known to leave.      *)
THEOREM RegistryIsClosed == WellFormed => (RegSpec => []RegistryClosed)
  <1> SUFFICES ASSUME WellFormed PROVE RegSpec => []RegistryClosed
    OBVIOUS
  <1> DEFINE Inv == RegInv /\ RegKnown
  <1>1. RegInit => Inv
    BY RegBegins, KnownBegins
  <1>2. Inv /\ [RegNext]_regVars => Inv'
    <2> SUFFICES ASSUME RegInv, RegKnown, [RegNext]_regVars PROVE RegInv' /\ RegKnown'
      OBVIOUS
    <2>1. CASE UNCHANGED <<env, call, goal>>
      BY <2>1 DEF RegInv, RegKnown, Pools
    <2>2. CASE OpenFail
      BY <2>1, <2>2 DEF OpenFail
    <2>3. CASE UNCHANGED regVars
      BY <2>1, <2>3 DEF regVars
    <2>4. ASSUME NEW set \in Sets, OpenSet(set) PROVE RegInv' /\ RegKnown'
      <3>1. env' = env
        BY <2>4 DEF OpenSet
      <3>2. RegKnown'
        BY <3>1 DEF RegKnown, Pools
      <3> QED BY <2>4, <3>2, OpenSetStep
    <2>5. CASE RegisterNoDependency
      BY <2>5, RegisterStep, KnownRegisters
    <2>6. CASE PassEnd
      BY <2>6, PassEndStep, KnownStays
    <2> QED BY <2>2, <2>3, <2>4, <2>5, <2>6 DEF RegNext
  <1>3. Inv => RegistryClosed
    BY RestIsClosed
  <1> HIDE DEF Inv
  <1> QED BY <1>1, <1>2, <1>3, PTL DEF RegSpec

=============================================================================
