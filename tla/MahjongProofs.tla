--------------------------- MODULE MahjongProofs ----------------------------
(***************************************************************************)
(* Mahjong, for any scale of scores, any number of melds and winners, any  *)
(* tiles and any sorted hands.                                             *)
(*                                                                         *)
(* The scores of a round add up to zero: what one seat gains is what the   *)
(* others pay (PayBalances, OwnBalances, AwardBalances), and the winners   *)
(* of a discard are one after the other (OtherBalances).                   *)
(*                                                                         *)
(* A hand is read right: it stays in order through every draw, claim and   *)
(* kong (HandInv), so that the claims offered are those it allows and can  *)
(* be taken from it (ClaimsAreExact).  The search finds as many melds as   *)
(* there are (DfsFinds, by induction over them), and what it finds leaves  *)
(* nothing over, since it counts as many tiles as the hand (NothingLeft).  *)
(***************************************************************************)
EXTENDS MahjongScore, MahjongHand, FiniteSetTheorems, WellFoundedInduction, TLAPS

Scores == [Seats -> Int]

(* A single winner pays nobody, and nobody else gets anything.             *)
SingleWins == Len(winners) = 1 =>
  fin[winners[1]] >= 0 /\ \A s \in Seats \ ToSet(winners) : fin[s] <= 0

(* While the round is played nothing but kongs is paid; then a single      *)
(* winner never pays.                                                      *)
BalanceInv ==
  /\ paid \in BOOLEAN /\ banker \in Seats
  /\ gang \in Scores /\ Total(gang) = 0
  /\ fin \in Scores /\ Total(fin) = 0
  /\ winners = <<>> => fin = Zero
  /\ SingleWins

-----------------------------------------------------------------------------
(* How many of the seats are in a set: one by one.                         *)
In(P, s) == IF s \in P THEN 1 ELSE 0

LEMMA CountOne ==
  ASSUME NEW Q, IsFiniteSet(Q), NEW P, NEW s, s \notin Q
  PROVE  /\ IsFiniteSet(Q \cup (P \cap {s}))
         /\ Cardinality(Q \cup (P \cap {s})) = Cardinality(Q) + In(P, s)
  <1> DEFINE R == Q \cup (P \cap {s})
  <1>0. Cardinality(Q) \in Nat
    BY FS_CardinalityType
  <1>1. ASSUME s \in P
        PROVE  IsFiniteSet(R) /\ Cardinality(R) = Cardinality(Q) + 1
    <2>1. R = Q \cup {s}
      BY <1>1
    <2> HIDE DEF R
    <2>2. IsFiniteSet(Q \cup {s}) /\ Cardinality(Q \cup {s}) = Cardinality(Q) + 1
      BY FS_AddElement
    <2> QED BY <2>1, <2>2
  <1>2. s \notin P => R = Q
    OBVIOUS
  <1> HIDE DEF R
  <1>3. IsFiniteSet(R) /\ Cardinality(R) = Cardinality(Q) + In(P, s)
    BY <1>0, <1>1, <1>2 DEF In
  <1> QED BY <1>3 DEF R

LEMMA CountSeats ==
  ASSUME NEW P \in SUBSET Seats
  PROVE  Cardinality(P) = In(P, 1) + In(P, 2) + In(P, 3) + In(P, 4)
  <1> DEFINE Q1 == {} \cup (P \cap {1})
             Q2 == Q1 \cup (P \cap {2})
             Q3 == Q2 \cup (P \cap {3})
             Q4 == Q3 \cup (P \cap {4})
  <1>1. IsFiniteSet({}) /\ Cardinality({}) = 0
    BY FS_EmptySet
  <1>2. IsFiniteSet(Q1) /\ Cardinality(Q1) = 0 + In(P, 1)
    BY <1>1, CountOne
  <1>3. 2 \notin Q1 /\ 3 \notin Q2 /\ 4 \notin Q3
    OBVIOUS
  <1>4. Q4 = P
    <2>1. \A x \in P : x \in {1, 2, 3, 4}
      BY DEF Seats
    <2>2. \A x : x \in Q4 <=> x \in P /\ x \in {1, 2, 3, 4}
      OBVIOUS
    <2> HIDE DEF Q4
    <2> QED BY <2>1, <2>2
  <1> HIDE DEF Q1
  <1>5. IsFiniteSet(Q2) /\ Cardinality(Q2) = Cardinality(Q1) + In(P, 2)
    BY <1>2, <1>3, CountOne
  <1> HIDE DEF Q2
  <1>6. IsFiniteSet(Q3) /\ Cardinality(Q3) = Cardinality(Q2) + In(P, 3)
    BY <1>5, <1>3, CountOne
  <1> HIDE DEF Q3
  <1>7. IsFiniteSet(Q4) /\ Cardinality(Q4) = Cardinality(Q3) + In(P, 4)
    BY <1>6, <1>3, CountOne
  <1> HIDE DEF Q4
  <1>8. \A s \in {1, 2, 3, 4} : In(P, s) \in Int
    BY DEF In
  <1> QED BY <1>2, <1>4, <1>5, <1>6, <1>7, <1>8

(* What the seats of a set pay together.                                   *)
Share(P, a, s) == IF s \in P THEN a ELSE 0

LEMMA SharesAddUp ==
  ASSUME NEW P \in SUBSET Seats, NEW a \in Int
  PROVE  a * Cardinality(P) = Share(P, a, 1) + Share(P, a, 2) + Share(P, a, 3) + Share(P, a, 4)
  <1> DEFINE n == Cardinality(P)
  <1>1. n = In(P, 1) + In(P, 2) + In(P, 3) + In(P, 4)
    BY CountSeats
  <1>2. \A s \in {1, 2, 3, 4} :
          \/ In(P, s) = 0 /\ Share(P, a, s) = 0
          \/ In(P, s) = 1 /\ Share(P, a, s) = a
    BY DEF In, Share
  <1>3. a * 0 = 0 /\ a * 1 = a /\ a * 2 = a + a /\ a * 3 = a + a + a /\ a * 4 = a + a + a + a
    OBVIOUS
  <1>4. n \in {0, 1, 2, 3, 4}
    BY <1>1, <1>2
  <1> HIDE DEF n
  <1>5. a * n = Share(P, a, 1) + Share(P, a, 2) + Share(P, a, 3) + Share(P, a, 4)
    <2>0. CASE n = 0 BY <1>1, <1>2, <1>3, <2>0
    <2>1. CASE n = 1 BY <1>1, <1>2, <1>3, <2>1
    <2>2. CASE n = 2 BY <1>1, <1>2, <1>3, <2>2
    <2>3. CASE n = 3 BY <1>1, <1>2, <1>3, <2>3
    <2>4. CASE n = 4 BY <1>1, <1>2, <1>3, <2>4
    <2> QED BY <1>4, <2>0, <2>1, <2>2, <2>3, <2>4
  <1> QED BY <1>5 DEF n

(* What the payers lose is what w gains.                                   *)
LEMMA PayBalances ==
  ASSUME NEW f \in Scores, NEW P \in SUBSET Seats, NEW w \in Seats, NEW a \in Int
  PROVE  Pay(f, P, w, a) \in Scores /\ Total(Pay(f, P, w, a)) = Total(f)
  <1> DEFINE sum == a * Cardinality(P)
             Gain(s) == IF s = w THEN sum ELSE 0
             g == Pay(f, P, w, a)
  <1>1. sum = Share(P, a, 1) + Share(P, a, 2) + Share(P, a, 3) + Share(P, a, 4)
    BY SharesAddUp
  <1>2. \A s \in Seats : Share(P, a, s) \in Int
    BY DEF Share
  <1>3. sum \in Int
    BY <1>1, <1>2 DEF Seats
  <1>4. g = [s \in Seats |-> f[s] + Gain(s) - Share(P, a, s)]
    BY DEF Pay, Share
  <1> HIDE DEF sum
  <1>5. \A s \in Seats : Gain(s) \in Int /\ f[s] \in Int
    BY <1>3 DEF Scores
  <1>6. Gain(1) + Gain(2) + Gain(3) + Gain(4) = sum
    BY <1>3 DEF Seats
  <1>7. \A s \in Seats : g[s] = f[s] + Gain(s) - Share(P, a, s)
    BY <1>4
  <1> HIDE DEF Gain
  <1>8. g \in Scores
    BY <1>2, <1>4, <1>5 DEF Scores
  <1> HIDE DEF g
  <1>9. Total(g) = Total(f)
    BY <1>1, <1>2, <1>5, <1>6, <1>7 DEF Total, Seats
  <1> QED BY <1>8, <1>9 DEF g

-----------------------------------------------------------------------------
(* What one winner gains.                                                  *)
LEMMA Products == \A x, y \in Nat : x * y \in Nat
  OBVIOUS

LEMMA CloseAreOthers ==
  ASSUME NEW w \in Seats
  PROVE  ChipengSeats(w) \in SUBSET Seats /\ w \notin ChipengSeats(w)
  BY DEF ChipengSeats

(* What w has got, and that nobody else has got anything.                  *)
Signs(g, w) == g[w] >= 0 /\ \A s \in Seats \ {w} : g[s] <= 0

LEMMA OwnBalances ==
  ASSUME NEW w \in Seats, NEW fan \in FanValues
  PROVE  /\ OwnScores(w, fan) \in Scores
         /\ Total(OwnScores(w, fan)) = 0
         /\ Signs(OwnScores(w, fan), w)
  <1> DEFINE close == ChipengSeats(w)
             base(k) == (WinOwn + (IF banker \in {w, k} THEN 1 ELSE 0)) * fan
             due == [k \in Seats |-> IF k = w THEN 0
                                     ELSE IF close = {} THEN base(k)
                                     ELSE IF k \in close THEN base(k) * 2 * 3 ELSE 0]
             g == OwnScores(w, fan)
  <1>1. \A k \in Seats : base(k) \in Nat
    <2>1. fan \in Nat /\ WinOwn \in Nat
      BY ScoreAssumption
    <2>2. TAKE k \in Seats
    <2>3. WinOwn + (IF banker \in {w, k} THEN 1 ELSE 0) \in Nat
      BY <2>1
    <2> QED BY <2>1, <2>3, Products
  <1>2. \A k \in Seats : base(k) * 2 * 3 \in Nat
    <2> HIDE DEF base
    <2> QED BY <1>1
  <1> HIDE DEF base, close
  <1>3. due \in [Seats -> Nat] /\ due[w] = 0
    BY <1>1, <1>2
  <1>4. g = [s \in Seats |-> IF s = w THEN Total(due) ELSE -due[s]]
    BY DEF OwnScores, base, close
  <1> HIDE DEF due, g
  <1>5. \A s \in Seats : due[s] \in Nat
    BY <1>3
  <1>6. Total(due) \in Nat
    BY <1>5 DEF Total, Seats
  <1>7. g \in Scores
    BY <1>4, <1>5, <1>6 DEF Scores
  <1>8. \A s \in Seats : g[s] = IF s = w THEN Total(due) ELSE -due[s]
    BY <1>4
  <1>9. Total(g) = 0
    <2>1. g[1] + g[2] + g[3] + g[4] = 0
      BY <1>3, <1>5, <1>8 DEF Total, Seats
    <2> QED BY <2>1 DEF Total
  <1>10. Signs(g, w)
    BY <1>5, <1>6, <1>8 DEF Signs
  <1> QED BY <1>7, <1>9, <1>10 DEF g

(* Accounts while the winners of a discard are paid: what the loser owes   *)
(* makes up for the rest, and he has paid nothing yet.                     *)
Accounts(loser) ==
  {acc \in [f : Scores, lose : Int] : Total(acc.f) + acc.lose = 0 /\ acc.f[loser] = 0}

(* The parts of Award: the amount that others pay and what is due from the *)
(* loser.                                                                  *)
LEMMA AwardIs ==
  ASSUME NEW acc, NEW w \in Seats, NEW loser, NEW fan \in FanValues
  PROVE  \E a \in Nat, d \in Nat : \E g :
           /\ g = Pay(acc.f, OtherPayers(w, loser), w, a)
           /\ Award(acc, w, loser, fan) = [f |-> [g EXCEPT ![w] = @ + d], lose |-> acc.lose - d]
  <1> DEFINE a == (WinOther + (IF w = banker THEN 1 ELSE 0)) * fan
             d == a * (IF loser \in ChipengSeats(w) THEN 2 ELSE 1)
             g == Pay(acc.f, OtherPayers(w, loser), w, a)
  <1>1. fan \in Nat /\ WinOther + (IF w = banker THEN 1 ELSE 0) \in Nat
    BY ScoreAssumption
  <1>2. a \in Nat
    BY <1>1, Products
  <1>3. Award(acc, w, loser, fan) = [f |-> [g EXCEPT ![w] = @ + d], lose |-> acc.lose - d]
    BY DEF Award
  <1> HIDE DEF a
  <1>4. d \in Nat
    BY <1>2
  <1> HIDE DEF d
  <1> QED BY <1>2, <1>3, <1>4

LEMMA AwardBalances ==
  ASSUME NEW loser \in Seats, NEW acc \in Accounts(loser), NEW w \in Seats \ {loser},
         NEW fan \in FanValues
  PROVE  Award(acc, w, loser, fan) \in Accounts(loser)
  <1> DEFINE P == OtherPayers(w, loser)
  <1>0. PICK a \in Nat, d \in Nat : \E g :
           /\ g = Pay(acc.f, P, w, a)
           /\ Award(acc, w, loser, fan) = [f |-> [g EXCEPT ![w] = @ + d], lose |-> acc.lose - d]
    BY AwardIs
  <1>1. PICK g :
           /\ g = Pay(acc.f, P, w, a)
           /\ Award(acc, w, loser, fan) = [f |-> [g EXCEPT ![w] = @ + d], lose |-> acc.lose - d]
    BY <1>0
  <1>2. P \in SUBSET Seats /\ loser \notin P
    BY CloseAreOthers DEF OtherPayers
  <1>3. acc.f \in Scores /\ acc.lose \in Int /\ Total(acc.f) + acc.lose = 0 /\ acc.f[loser] = 0
    BY DEF Accounts
  <1> HIDE DEF P
  <1>4. g \in Scores /\ Total(g) = Total(acc.f)
    BY <1>1, <1>2, <1>3, PayBalances
  <1>5. g[loser] = 0
    BY <1>1, <1>2, <1>3 DEF Pay
  <1> DEFINE h == [g EXCEPT ![w] = @ + d]
  <1>6. h \in Scores
    BY <1>4 DEF Scores
  <1>7. \A s \in Seats : h[s] = g[s] + (IF s = w THEN d ELSE 0)
    BY <1>4 DEF Scores
  <1>8. h[loser] = 0
    BY <1>4, <1>5 DEF Scores
  <1> HIDE DEF h
  <1>9. \A s \in Seats : g[s] \in Int
    BY <1>4 DEF Scores
  <1>10. Total(h) = Total(g) + d
    BY <1>7, <1>9 DEF Total, Seats
  <1>11. Total(g) \in Int
    BY <1>9 DEF Total, Seats
  <1>12. Total(h) + (acc.lose - d) = 0
    BY <1>3, <1>4, <1>10, <1>11
  <1>13. Award(acc, w, loser, fan) = [f |-> h, lose |-> acc.lose - d]
    BY <1>1 DEF h
  <1> QED BY <1>3, <1>6, <1>8, <1>12, <1>13 DEF Accounts

(* The first winner is paid by others; the loser owes what is due.         *)
LEMMA FirstAward ==
  ASSUME NEW loser, NEW acc, acc.f = Zero, acc.lose = 0, NEW w \in Seats, NEW fan \in FanValues
  PROVE  Signs(Award(acc, w, loser, fan).f, w) /\ Award(acc, w, loser, fan).lose <= 0
  <1> DEFINE P == OtherPayers(w, loser)
  <1>0. PICK a \in Nat, d \in Nat : \E g :
           /\ g = Pay(acc.f, P, w, a)
           /\ Award(acc, w, loser, fan) = [f |-> [g EXCEPT ![w] = @ + d], lose |-> acc.lose - d]
    BY AwardIs
  <1>1. PICK g :
           /\ g = Pay(acc.f, P, w, a)
           /\ Award(acc, w, loser, fan) = [f |-> [g EXCEPT ![w] = @ + d], lose |-> acc.lose - d]
    BY <1>0
  <1>2. P \in SUBSET Seats /\ w \notin P
    BY CloseAreOthers DEF OtherPayers
  <1> DEFINE n == Cardinality(P)
  <1>3. a * n \in Nat
    <2>1. n = In(P, 1) + In(P, 2) + In(P, 3) + In(P, 4)
      BY <1>2, CountSeats
    <2>2. n \in Nat
      BY <2>1 DEF In
    <2> QED BY <2>2, Products
  <1> DEFINE sum == a * n
  <1>4. g = [s \in Seats |-> 0 + (IF s = w THEN sum ELSE 0) - (IF s \in P THEN a ELSE 0)]
    <2>1. \A s \in Seats : acc.f[s] = 0
      BY DEF Zero
    <2> QED BY <1>1, <2>1 DEF Pay
  <1> HIDE DEF sum, P
  <1>5. sum \in Nat
    BY <1>3 DEF sum
  <1>6. g[w] = sum /\ \A s \in Seats \ {w} : g[s] = 0 - (IF s \in P THEN a ELSE 0)
    BY <1>2, <1>4, <1>5
  <1> DEFINE h == [g EXCEPT ![w] = @ + d]
  <1>7. h[w] = sum + d /\ \A s \in Seats \ {w} : h[s] = 0 - (IF s \in P THEN a ELSE 0)
    BY <1>4, <1>6
  <1> HIDE DEF h
  <1>8. Signs(h, w)
    BY <1>5, <1>7 DEF Signs
  <1>9. Award(acc, w, loser, fan) = [f |-> h, lose |-> 0 - d]
    BY <1>1 DEF h
  <1> QED BY <1>8, <1>9

-----------------------------------------------------------------------------
(* Induction over the winners: the least one for which a law would fail.   *)
LEMMA LeastNatural ==
  ASSUME NEW S \in SUBSET Nat, S # {}
  PROVE  \E i \in S : \A j \in S : i <= j
  <1> DEFINE R == {p \in Nat \X Nat : p[1] < p[2]}
  <1>1. IsWellFoundedOn(R, Nat)
    BY NatLessThanWellFounded DEF OpToRel
  <1>2. PICK i \in S : \A j \in S : ~ (<<j, i>> \in R)
    <2> HIDE DEF R
    <2> QED BY <1>1, WFMin, Zenon
  <1>3. ASSUME NEW j \in S, j < i PROVE <<j, i>> \in R
    BY <1>3
  <1>4. \A j \in S : ~(j < i)
    <2> HIDE DEF R
    <2> QED BY <1>2, <1>3
  <1> QED BY <1>4

LEMMA UpTo ==
  ASSUME NEW n \in Nat, NEW G, 0 \in G, \A i \in 1..n : i - 1 \in G => i \in G
  PROVE  \A i \in 0..n : i \in G
  <1> SUFFICES ASSUME NEW k \in 0..n, k \notin G PROVE FALSE
    OBVIOUS
  <1> DEFINE B == {i \in 0..n : i \notin G}
  <1>1. B \in SUBSET Nat /\ k \in B
    OBVIOUS
  <1>2. PICK m \in B : \A j \in B : m <= j
    BY <1>1, LeastNatural
  <1>3. m \in 1..n
    BY <1>2
  <1>4. m - 1 \in 0..n /\ ~(m <= m - 1)
    BY <1>3
  <1>5. m - 1 \in G
    BY <1>2, <1>4
  <1> QED BY <1>2, <1>3, <1>5

(* g is the function that OtherScores computes, up to winner n.            *)
Paying(ws, fans, loser, n, g) ==
  g = [i \in 0..n |-> IF i = 0 THEN [f |-> fin, lose |-> 0]
                      ELSE Award(g[i - 1], ws[i], loser, fans[i])]

LEMMA PayingExists ==
  ASSUME NEW ws, NEW fans, NEW loser, NEW n \in Nat
  PROVE  \E g : Paying(ws, fans, loser, n, g)
  <1> DEFINE G == {i \in 0..n : \E g : Paying(ws, fans, loser, i, g)}
             start == [f |-> fin, lose |-> 0]
  <1>1. 0 \in G
    <2>1. Paying(ws, fans, loser, 0, [i \in 0..0 |-> start])
      BY DEF Paying
    <2> QED BY <2>1
  <1>2. ASSUME NEW i \in 1..n, i - 1 \in G PROVE i \in G
    <2>1. PICK g : Paying(ws, fans, loser, i - 1, g)
      BY <1>2
    <2> DEFINE next == Award(g[i - 1], ws[i], loser, fans[i])
               h == [j \in 0..i |-> IF j = i THEN next ELSE g[j]]
    <2>2. i - 1 \in 0..i-1 /\ i \in 0..i /\ 0 \in 0..i-1
      OBVIOUS
    <2> HIDE DEF start
    <2>3. g[0] = start /\ \A j \in 1..i-1 : g[j] = Award(g[j - 1], ws[j], loser, fans[j])
      BY <2>1 DEF Paying, start
    <2> HIDE DEF next
    <2>4. h[i] = next /\ \A j \in 0..i-1 : h[j] = g[j]
      OBVIOUS
    <2>5. h = [j \in 0..i |-> h[j]]
      OBVIOUS
    <2> HIDE DEF h
    <2>6. \A j \in 0..i : h[j] = IF j = 0 THEN start ELSE Award(h[j - 1], ws[j], loser, fans[j])
      <3>1. h[0] = start
        BY <2>2, <2>3, <2>4
      <3>2. ASSUME NEW j \in 1..i PROVE h[j] = Award(h[j - 1], ws[j], loser, fans[j])
        <4>1. CASE j = i
          <5>1. h[i - 1] = g[i - 1]
            BY <2>2, <2>4
          <5> QED BY <2>4, <4>1, <5>1 DEF next
        <4>2. CASE j # i
          <5>1. j \in 1..i-1 /\ j \in 0..i-1 /\ j - 1 \in 0..i-1
            BY <4>2
          <5> QED BY <2>3, <2>4, <5>1
        <4> QED BY <4>1, <4>2
      <3> QED BY <3>1, <3>2
    <2>7. Paying(ws, fans, loser, i, h)
      BY <2>5, <2>6 DEF Paying, start
    <2> QED BY <2>7
  <1>3. n \in 0..n /\ \A i \in 0..n : i \in G
    <2> HIDE DEF G
    <2> QED BY <1>1, <1>2, UpTo
  <1> QED BY <1>3

(* OtherScores is the last of them, with what the loser owes written in.   *)
LEMMA OtherScoresIs ==
  ASSUME NEW ws \in Seq(Seats), NEW fans, NEW loser
  PROVE  \E g : /\ Paying(ws, fans, loser, Len(ws), g)
                /\ OtherScores(ws, fans, loser)
                     = [g[Len(ws)].f EXCEPT ![loser] = g[Len(ws)].lose]
  <1> DEFINE n == Len(ws)
             Is(g) == g = [i \in 0..n |-> IF i = 0 THEN [f |-> fin, lose |-> 0]
                                          ELSE Award(g[i - 1], ws[i], loser, fans[i])]
             F == CHOOSE g : Is(g)
  <1>1. OtherScores(ws, fans, loser) = [F[n].f EXCEPT ![loser] = F[n].lose]
    BY DEF OtherScores
  <1>2. \A g : Is(g) <=> Paying(ws, fans, loser, n, g)
    BY DEF Paying
  <1>3. n \in Nat
    OBVIOUS
  <1> HIDE DEF Is
  <1>4. Is(F)
    BY <1>2, <1>3, PayingExists
  <1> HIDE DEF F
  <1> QED BY <1>1, <1>2, <1>4

(* A score of zero is written over with what is owed. *)
LEMMA WrittenIn ==
  ASSUME NEW e \in Scores, NEW l \in Int, NEW k \in Seats, e[k] = 0, Total(e) + l = 0,
         NEW r, \A s \in Seats : r[s] = IF s = k THEN l ELSE e[s]
  PROVE  Total(r) = 0
  <1>1. e[1] \in Int /\ e[2] \in Int /\ e[3] \in Int /\ e[4] \in Int
    BY DEF Scores, Seats
  <1>2. /\ r[1] = IF k = 1 THEN l ELSE e[1]
        /\ r[2] = IF k = 2 THEN l ELSE e[2]
        /\ r[3] = IF k = 3 THEN l ELSE e[3]
        /\ r[4] = IF k = 4 THEN l ELSE e[4]
    BY DEF Seats
  <1>3. \/ k = 1 /\ e[1] = 0
        \/ k = 2 /\ e[2] = 0
        \/ k = 3 /\ e[3] = 0
        \/ k = 4 /\ e[4] = 0
    BY DEF Seats
  <1>4. e[1] + e[2] + e[3] + e[4] + l = 0
    BY DEF Total
  <1>5. r[1] + r[2] + r[3] + r[4] = 0
    BY <1>1, <1>2, <1>3, <1>4
  <1> QED BY <1>5 DEF Total

(* Whoever wins a discard of another seat, one or several, in any order.   *)
LEMMA OtherBalances ==
  ASSUME NEW loser \in Seats, NEW ws \in Seq(Seats), NEW fans, fin = Zero,
         \A i \in 1..Len(ws) : ws[i] # loser /\ fans[i] \in FanValues
  PROVE  /\ OtherScores(ws, fans, loser) \in Scores
         /\ Total(OtherScores(ws, fans, loser)) = 0
         /\ Len(ws) = 1 => Signs(OtherScores(ws, fans, loser), ws[1])
  <1> DEFINE n == Len(ws)
             r == OtherScores(ws, fans, loser)
  <1>1. PICK g : /\ Paying(ws, fans, loser, n, g)
                 /\ r = [g[n].f EXCEPT ![loser] = g[n].lose]
    BY OtherScoresIs
  <1>2. n \in Nat /\ \A i \in 1..n : ws[i] \in Seats \ {loser}
    OBVIOUS
  <1> HIDE DEF n, r
  <1>3. /\ g[0] = [f |-> fin, lose |-> 0]
        /\ \A i \in 1..n : g[i] = Award(g[i - 1], ws[i], loser, fans[i])
    BY <1>1, <1>2 DEF Paying
  <1> DEFINE G == {i \in 0..n : g[i] \in Accounts(loser)}
  <1>4. 0 \in G
    <2>1. Zero \in Scores /\ Total(Zero) = 0
      BY DEF Zero, Scores, Total, Seats
    <2>2. [f |-> Zero, lose |-> 0] \in Accounts(loser)
      BY <2>1 DEF Accounts, Zero
    <2> QED BY <1>2, <1>3, <2>2
  <1>5. ASSUME NEW i \in 1..n, i - 1 \in G PROVE i \in G
    <2>1. fans[i] \in FanValues
      BY DEF n
    <2>2. g[i] \in Accounts(loser)
      BY <1>2, <1>3, <1>5, <2>1, AwardBalances
    <2> QED BY <1>2, <2>2
  <1>6. n \in G
    <2>1. n \in 0..n
      BY <1>2
    <2> HIDE DEF G
    <2> QED BY <1>2, <1>4, <1>5, <2>1, UpTo
  <1> DEFINE end == g[n].f
             lose == g[n].lose
  <1>7. /\ end \in Scores /\ lose \in Int /\ Total(end) + lose = 0 /\ end[loser] = 0
    BY <1>6 DEF Accounts
  <1>8. r = [end EXCEPT ![loser] = lose]
    BY <1>1
  <1>9. ASSUME n = 1 PROVE Signs(end, ws[1]) /\ lose <= 0
    <2>1. g[1] = Award(g[0], ws[1], loser, fans[1])
      BY <1>3, <1>9
    <2>2. ws[1] \in Seats /\ fans[1] \in FanValues
      BY <1>2, <1>9 DEF n
    <2>3. g[0].f = Zero /\ g[0].lose = 0
      BY <1>3
    <2>4. Signs(g[1].f, ws[1]) /\ g[1].lose <= 0
      BY <2>1, <2>2, <2>3, FirstAward
    <2> QED BY <1>9, <2>4
  <1> HIDE DEF end, lose
  <1>10. r \in Scores /\ \A s \in Seats : r[s] = IF s = loser THEN lose ELSE end[s]
    BY <1>7, <1>8 DEF Scores
  <1>11. \A s \in Seats : end[s] \in Int
    BY <1>7 DEF Scores
  <1>12. Total(r) = 0
    BY <1>7, <1>10, WrittenIn
  <1>13. n = 1 => Signs(r, ws[1])
    BY <1>2, <1>9, <1>10 DEF Signs
  <1> QED BY <1>10, <1>12, <1>13 DEF n, r

-----------------------------------------------------------------------------
(* The steps. *)
LEMMA InitBalances == ScoreInit => BalanceInv
  <1> SUFFICES ASSUME ScoreInit PROVE BalanceInv
    OBVIOUS
  <1>1. Zero \in Scores /\ Total(Zero) = 0
    BY DEF Zero, Scores, Total, Seats
  <1>2. banker \in Seats
    BY ScoreAssumption DEF ScoreInit, Seats
  <1>3. SingleWins
    BY DEF ScoreInit, SingleWins
  <1> QED BY <1>1, <1>2, <1>3 DEF ScoreInit, BalanceInv

(* A meld: only the scores of kongs change, by a payment.                  *)
LEMMA MeldBalances ==
  ASSUME BalanceInv, gang' \in Scores, Total(gang') = 0, UNCHANGED <<paid, banker, fin, winners>>
  PROVE  BalanceInv'
  BY DEF BalanceInv, SingleWins, Scores, Seats, Zero, Total

LEMMA GangBalances ==
  ASSUME BalanceInv, NEW P \in SUBSET Seats, NEW w \in Seats, NEW a \in Nat,
         gang' = IF paid THEN Pay(gang, P, w, a) ELSE gang
  PROVE  gang' \in Scores /\ Total(gang') = 0
  BY PayBalances DEF BalanceInv

(* The end: what is written is balanced.                                   *)
LEMMA EndBalances ==
  ASSUME BalanceInv, NEW ws \in Seq(Seats), ws # <<>>, NEW r \in Scores, Total(r) = 0,
         Len(ws) = 1 => Signs(r, ws[1]), Ends(ws, r)
  PROVE  BalanceInv'
  <1>1. winners' = ws /\ fin' = r /\ UNCHANGED <<paid, banker, gang>>
    BY DEF Ends
  <1>2. SingleWins'
    <2> SUFFICES ASSUME Len(ws) = 1
                 PROVE  r[ws[1]] >= 0 /\ \A s \in Seats \ ToSet(ws) : r[s] <= 0
      BY <1>1 DEF SingleWins
    <2>1. ws[1] \in ToSet(ws)
      BY DEF ToSet
    <2> QED BY <2>1 DEF Signs
  <1> QED BY <1>1, <1>2 DEF BalanceInv, Total, Scores, Seats

LEMMA StepBalances ==
  ASSUME BalanceInv, [ScoreNext]_scoreVars
  PROVE  BalanceInv'
  <1> USE ScoreAssumption
  <1>1. ASSUME NEW s \in Seats, NEW from \in Seats, LayChi(s, from) PROVE BalanceInv'
    BY <1>1, MeldBalances DEF LayChi, Claimed, BalanceInv
  <1>2. ASSUME NEW s \in Seats, NEW from \in Seats, LayPeng(s, from) PROVE BalanceInv'
    BY <1>2, MeldBalances DEF LayPeng, Claimed, BalanceInv
  <1>3. ASSUME NEW s \in Seats, NEW from \in Seats, LayLightGang(s, from) PROVE BalanceInv'
    <2>1. gang' \in Scores /\ Total(gang') = 0
      BY <1>3, GangBalances DEF LayLightGang, SetMingGangScore
    <2> QED BY <1>3, <2>1, MeldBalances DEF LayLightGang, Claimed
  <1>4. ASSUME NEW s \in Seats, NEW from \in Seats, LayPengGang(s, from) PROVE BalanceInv'
    <2>1. gang' \in Scores /\ Total(gang') = 0
      BY <1>4, GangBalances DEF LayPengGang, SetMingGangScore
    <2> QED BY <1>4, <2>1, MeldBalances DEF LayPengGang
  <1>5. ASSUME NEW s \in Seats, LayAnGang(s) PROVE BalanceInv'
    <2>1. gang' \in Scores /\ Total(gang') = 0
      BY <1>5, GangBalances DEF LayAnGang
    <2> QED BY <1>5, <2>1, MeldBalances DEF LayAnGang
  <1>6. ASSUME NEW w \in Seats, WinOwnTile(w) PROVE BalanceInv'
    <2>1. PICK fan \in FanValues : Ends(<<w>>, OwnScores(w, fan))
      BY <1>6 DEF WinOwnTile
    <2>2. PICK r : r = OwnScores(w, fan)
      OBVIOUS
    <2>3. r \in Scores /\ Total(r) = 0 /\ Signs(r, w)
      BY <2>2, OwnBalances
    <2>s. <<w>> \in Seq(Seats)
      OBVIOUS
    <2>4. PICK ws \in Seq(Seats) : ws = <<w>>
      BY <2>s
    <2>5. ws # <<>> /\ ws[1] = w
      BY <2>4
    <2> QED BY <2>1, <2>2, <2>3, <2>4, <2>5, EndBalances
  <1>7. ASSUME NEW w \in Seats, RobKong(w) PROVE BalanceInv'
    <2>1. PICK fan \in FanValues : Ends(<<w>>, OtherScores(<<w>>, <<fan>>, FirstLoser(w)))
      BY <1>7 DEF RobKong
    <2>2. PICK loser \in Seats : loser = FirstLoser(w) /\ loser # w
      BY DEF FirstLoser, Seats
    <2>s. <<w>> \in Seq(Seats)
      OBVIOUS
    <2>3. PICK ws \in Seq(Seats) : ws = <<w>>
      BY <2>s
    <2>4. PICK fans : fans = <<fan>>
      OBVIOUS
    <2>5. /\ ws # <<>> /\ Len(ws) = 1
          /\ \A i \in 1..Len(ws) : ws[i] # loser /\ fans[i] \in FanValues
      BY <2>2, <2>3, <2>4
    <2>6. PICK r : r = OtherScores(ws, fans, loser)
      OBVIOUS
    <2>7. Ends(ws, r)
      BY <2>1, <2>2, <2>3, <2>4, <2>6
    <2>8. fin = Zero
      BY <2>7 DEF BalanceInv, Ends
    <2>9. r \in Scores /\ Total(r) = 0 /\ (Len(ws) = 1 => Signs(r, ws[1]))
      BY <2>5, <2>6, <2>8, OtherBalances
    <2> QED BY <2>5, <2>7, <2>9, EndBalances
  <1>8. ASSUME NEW loser \in Seats, WinDiscard(loser) PROVE BalanceInv'
    <2>0. PICK ws \in UNION {[1 .. n -> Seats \ {loser}] : n \in 1 .. MaxWinners} :
            \E fans \in [DOMAIN ws -> FanValues] : Ends(ws, OtherScores(ws, fans, loser))
      BY <1>8 DEF WinDiscard
    <2>1. PICK fans \in [DOMAIN ws -> FanValues] : Ends(ws, OtherScores(ws, fans, loser))
      BY <2>0
    <2>a. PICK n \in 1..MaxWinners : ws \in [1..n -> Seats \ {loser}]
      OBVIOUS
    <2>2. ws \in Seq(Seats) /\ Len(ws) = n /\ ws # <<>>
      BY <2>a
    <2>3. \A i \in 1..Len(ws) : ws[i] # loser /\ fans[i] \in FanValues
      BY <2>a, <2>2
    <2>4. PICK r : r = OtherScores(ws, fans, loser)
      OBVIOUS
    <2>5. Ends(ws, r)
      BY <2>1, <2>4
    <2>6. fin = Zero
      BY <2>5 DEF BalanceInv, Ends
    <2>7. r \in Scores /\ Total(r) = 0 /\ (Len(ws) = 1 => Signs(r, ws[1]))
      BY <2>2, <2>3, <2>4, <2>6, OtherBalances
    <2> QED BY <2>2, <2>5, <2>7, EndBalances
  <1>9. CASE UNCHANGED scoreVars
    BY <1>9 DEF scoreVars, BalanceInv, SingleWins, Scores, Seats, Zero, Total
  <1> QED BY <1>1, <1>2, <1>3, <1>4, <1>5, <1>6, <1>7, <1>8, <1>9 DEF ScoreNext

(* ScoresBalance: what the winners of a round get is what the others lose, *)
(* and a single winner never pays (set_end_scores, set_ming_gang_score,    *)
(* set_an_gang_score).                                                     *)
THEOREM ScoresAddUp == ScoreSpec => []ScoresBalance
  <1>1. BalanceInv => ScoresBalance
    BY DEF BalanceInv, SingleWins, ScoresBalance
  <1> QED BY <1>1, InitBalances, StepBalances, PTL DEF ScoreSpec

-----------------------------------------------------------------------------
(* Counting the tiles of a kind one position after the other.              *)
Among(s, n, k) == Cardinality({i \in 1 .. n : s[i] = k})
One(a, b) == IF a = b THEN 1 ELSE 0

LEMMA AmongStep ==
  ASSUME NEW s, NEW n \in Nat, NEW k
  PROVE  /\ Among(s, n, k) \in Nat /\ Among(s, 0, k) = 0
         /\ n > 0 => Among(s, n, k) = Among(s, n - 1, k) + One(s[n], k)
  <1>1. \A m \in Nat : IsFiniteSet({i \in 1 .. m : s[i] = k})
    <2> TAKE m \in Nat
    <2>1. IsFiniteSet(1 .. m)
      BY FS_Interval
    <2>2. {i \in 1 .. m : s[i] = k} \in SUBSET (1 .. m)
      OBVIOUS
    <2> QED BY <2>1, <2>2, FS_Subset
  <1>2. \A m \in Nat : Among(s, m, k) \in Nat
    BY <1>1, FS_CardinalityType DEF Among
  <1>3. Among(s, 0, k) = 0
    <2>1. {i \in 1 .. 0 : s[i] = k} = {}
      OBVIOUS
    <2> QED BY <2>1, FS_EmptySet DEF Among
  <1>4. ASSUME n > 0 PROVE Among(s, n, k) = Among(s, n - 1, k) + One(s[n], k)
    <2>1. PICK B : B = {i \in 1 .. n - 1 : s[i] = k}
      OBVIOUS
    <2>2. n - 1 \in Nat /\ IsFiniteSet(B) /\ n \notin B
      BY <1>1, <1>4, <2>1
    <2>3. CASE s[n] = k
      <3>1. {i \in 1 .. n : s[i] = k} = B \cup {n}
        BY <1>4, <2>1, <2>3
      <3>2. Cardinality(B \cup {n}) = Cardinality(B) + 1
        BY <2>2, FS_AddElement
      <3> QED BY <2>1, <2>3, <3>1, <3>2 DEF Among, One
    <2>4. CASE s[n] # k
      <3>1. {i \in 1 .. n : s[i] = k} = B
        BY <1>4, <2>1, <2>4
      <3>2. Cardinality(B) \in Nat
        BY <2>2, FS_CardinalityType
      <3>3. Among(s, n, k) = Cardinality(B) /\ Among(s, n - 1, k) = Cardinality(B)
        BY <2>1, <3>1 DEF Among
      <3>4. One(s[n], k) = 0
        BY <2>4 DEF One
      <3> QED BY <3>2, <3>3, <3>4
    <2> QED BY <2>3, <2>4
  <1> QED BY <1>2, <1>3, <1>4

LEMMA CountIsAmong ==
  ASSUME NEW S, NEW s \in Seq(S), NEW k
  PROVE  CountOf(s, k) = Among(s, Len(s), k) /\ CountOf(s, k) \in Nat
  <1>1. DOMAIN s = 1 .. Len(s) /\ Len(s) \in Nat
    OBVIOUS
  <1>2. CountOf(s, k) = Among(s, Len(s), k)
    BY <1>1 DEF CountOf, Among
  <1> QED BY <1>1, <1>2, AmongStep

LEMMA CountOfAppend ==
  ASSUME NEW S, NEW s \in Seq(S), NEW x \in S, NEW k
  PROVE  CountOf(Append(s, x), k) = CountOf(s, k) + One(x, k)
  <1>1. PICK n \in Nat : n = Len(s)
    OBVIOUS
  <1>2. PICK w : w = Append(s, x)
    OBVIOUS
  <1>0. w \in Seq(S)
    BY <1>2
  <1>3. Len(w) = n + 1 /\ w[n + 1] = x /\ \A i \in 1 .. n : w[i] = s[i]
    BY <1>1, <1>2
  <1>4. Among(w, n + 1, k) = Among(w, n, k) + One(x, k)
    <2>1. n + 1 \in Nat /\ n + 1 > 0 /\ (n + 1) - 1 = n
      OBVIOUS
    <2> QED BY <1>3, <2>1, AmongStep
  <1>5. Among(w, n, k) = Among(s, n, k)
    <2>1. {i \in 1 .. n : w[i] = k} = {i \in 1 .. n : s[i] = k}
      BY <1>3
    <2> QED BY <2>1 DEF Among
  <1> QED BY <1>0, <1>1, <1>2, <1>3, <1>4, <1>5, CountIsAmong

(* What is kept of a hand, position after position.                        *)
KeptFollows(s, P, at) ==
  /\ at[0] = <<>>
  /\ \A j \in 1 .. Len(s) : at[j] = IF j \in P THEN at[j - 1] ELSE Append(at[j - 1], s[j])

LEMMA WithoutFollows ==
  ASSUME NEW s, NEW P, Len(s) \in Nat
  PROVE  \E at : KeptFollows(s, P, at) /\ Without(s, P) = at[Len(s)]
  <1>1. PICK n \in Nat : n = Len(s)
    OBVIOUS
  <1> DEFINE z == <<>>
             From(g, j) == IF j \in P THEN g[j - 1] ELSE Append(g[j - 1], s[j])
             Is(i, g) == g = [j \in 0..i |-> IF j = 0 THEN z ELSE From(g, j)]
             put == CHOOSE g : Is(n, g)
  <1>2. Without(s, P) = put[n]
    BY <1>1 DEF Without
  <1> HIDE DEF z
  <1>3. \E g : Is(n, g)
    <2> DEFINE G == {i \in 0..n : \E g : Is(i, g)}
    <2>1. 0 \in G
      <3>1. Is(0, [j \in 0..0 |-> z])
        OBVIOUS
      <3>2. 0 \in 0..n
        OBVIOUS
      <3> HIDE DEF Is
      <3> QED BY <3>1, <3>2
    <2>2. ASSUME NEW i \in 1..n, i - 1 \in G PROVE i \in G
      <3>1. PICK g : Is(i - 1, g)
        BY <2>2
      <3>2. PICK last : last = From(g, i)
        OBVIOUS
      <3> DEFINE h == [j \in 0..i |-> IF j = i THEN last ELSE g[j]]
      <3>3. h[i] = last /\ (\A j \in 0..i-1 : h[j] = g[j]) /\ i # 0
        OBVIOUS
      <3>4. DOMAIN h = 0..i /\ h = [j \in 0..i |-> h[j]]
        OBVIOUS
      <3> HIDE DEF h
      <3>5. \A j \in 0..i : h[j] = IF j = 0 THEN z ELSE From(h, j)
        <4> TAKE j \in 0..i
        <4>1. \A y \in 0..i-1 : g[y] = IF y = 0 THEN z ELSE From(g, y)
          BY <3>1
        <4>2. CASE j = i
          <5>1. i - 1 \in 0..i-1
            OBVIOUS
          <5>2. From(h, i) = From(g, i)
            BY <3>3, <5>1
          <5> QED BY <3>2, <3>3, <4>2, <5>2
        <4>3. CASE j = 0
          <5>1. 0 \in 0..i-1
            OBVIOUS
          <5> QED BY <3>3, <4>1, <4>3, <5>1
        <4>4. CASE j # i /\ j # 0
          <5>1. j \in 0..i-1 /\ j - 1 \in 0..i-1
            BY <4>4
          <5>2. From(h, j) = From(g, j)
            BY <3>3, <5>1
          <5> HIDE DEF From
          <5> QED BY <3>3, <4>1, <4>4, <5>1, <5>2
        <4> QED BY <4>2, <4>3, <4>4
      <3>6. Is(i, h)
        <4> HIDE DEF From
        <4> QED BY <3>4, <3>5
      <3> HIDE DEF Is
      <3> QED BY <3>6
    <2>3. \A i \in 0..n : i \in G
      <3> HIDE DEF G
      <3> QED BY <2>1, <2>2, UpTo
    <2>4. n \in 0..n
      OBVIOUS
    <2> HIDE DEF Is
    <2> QED BY <2>3, <2>4
  <1>4. Is(n, put)
    <2> HIDE DEF Is
    <2> QED BY <1>3
  <1> HIDE DEF put
  <1>5. put[0] = z /\ \A j \in 1..n : put[j] = From(put, j)
    <2>1. \A j \in 0..n : put[j] = IF j = 0 THEN z ELSE From(put, j)
      <3> HIDE DEF From
      <3> QED BY <1>4
    <2>2. 0 \in 0..n /\ \A j \in 1..n : j \in 0..n /\ j # 0
      OBVIOUS
    <2> HIDE DEF From
    <2> QED BY <2>1, <2>2
  <1> HIDE DEF Is
  <1> QED BY <1>1, <1>2, <1>5 DEF z, KeptFollows

(* Whatever is cut out, the rest of a hand is in order, with no more tiles *)
(* of a kind.                                                              *)
KeptInOrder(s, j, q) ==
  /\ q \in Seq(Kinds) /\ InOrder(q)
  /\ \A i \in DOMAIN q : \E m \in 1 .. j : q[i] = s[m]
  /\ \A k \in Kinds : CountOf(q, k) <= Among(s, j, k)

LEMMA KindsAreNumbers == \A k \in Kinds : k \in Int /\ k >= 11 /\ k <= 55
  BY DEF Kinds

LEMMA AppendInOrder ==
  ASSUME NEW q \in Seq(Kinds), InOrder(q), NEW x \in Kinds, \A i \in DOMAIN q : q[i] <= x
  PROVE  Append(q, x) \in Seq(Kinds) /\ InOrder(Append(q, x))
  <1>1. PICK w : w = Append(q, x)
    OBVIOUS
  <1>2. w \in Seq(Kinds) /\ Len(w) = Len(q) + 1 /\ w[Len(q) + 1] = x /\ DOMAIN w = 1 .. Len(q) + 1
    BY <1>1
  <1>3. \A i \in 1 .. Len(q) : w[i] = q[i] /\ q[i] <= x
    BY <1>1
  <1>4. Len(q) \in Nat /\ DOMAIN q = 1 .. Len(q)
    OBVIOUS
  <1>5. ASSUME NEW i \in DOMAIN w, NEW j \in DOMAIN w, i <= j PROVE w[i] <= w[j]
    <2>1. CASE j \in 1 .. Len(q)
      <3>1. i \in 1 .. Len(q)
        BY <1>2, <1>4, <1>5, <2>1
      <3> QED BY <1>3, <1>4, <1>5, <2>1, <3>1 DEF InOrder
    <2>2. CASE j = Len(q) + 1
      <3>1. CASE i = j
        BY <1>2, <2>2, <3>1, KindsAreNumbers
      <3>2. CASE i # j
        <4>1. i \in 1 .. Len(q)
          BY <1>2, <1>4, <1>5, <2>2, <3>2
        <4> QED BY <1>2, <1>3, <2>2, <4>1
      <3> QED BY <3>1, <3>2
    <2> QED BY <1>2, <1>4, <2>1, <2>2
  <1> QED BY <1>1, <1>2, <1>5 DEF InOrder

LEMMA KeptStep ==
  ASSUME NEW s \in Seq(Kinds), InOrder(s), NEW j \in 1 .. Len(s), NEW q, KeptInOrder(s, j - 1, q)
  PROVE  KeptInOrder(s, j, q) /\ KeptInOrder(s, j, Append(q, s[j]))
  <1>0. PICK x \in Kinds : x = s[j]
    OBVIOUS
  <1>1. j \in Nat /\ j > 0 /\ j \in DOMAIN s
    OBVIOUS
  <1>2. q \in Seq(Kinds) /\ InOrder(q)
    BY DEF KeptInOrder
  <1>3. \A i \in DOMAIN q : \E m \in 1 .. j : q[i] = s[m]
    BY <1>1 DEF KeptInOrder
  <1>4. ASSUME NEW k \in Kinds
        PROVE  /\ CountOf(q, k) \in Nat /\ Among(s, j, k) \in Nat /\ One(x, k) \in Nat
               /\ CountOf(q, k) + One(x, k) <= Among(s, j, k)
    <2>1. Among(s, j, k) = Among(s, j - 1, k) + One(x, k) /\ Among(s, j, k) \in Nat
      BY <1>0, <1>1, AmongStep
    <2>2. j - 1 \in Nat
      BY <1>1
    <2>3. Among(s, j - 1, k) \in Nat
      BY <2>2, AmongStep
    <2>4. CountOf(q, k) \in Nat
      BY <1>2, CountIsAmong
    <2>5. CountOf(q, k) <= Among(s, j - 1, k)
      BY DEF KeptInOrder
    <2>6. One(x, k) \in Nat
      BY DEF One
    <2> QED BY <2>1, <2>3, <2>4, <2>5, <2>6
  <1>5. KeptInOrder(s, j, q)
    <2>1. \A k \in Kinds : CountOf(q, k) <= Among(s, j, k)
      BY <1>4
    <2> QED BY <1>2, <1>3, <2>1 DEF KeptInOrder
  <1>6. \A i \in DOMAIN q : q[i] <= x
    <2> TAKE i \in DOMAIN q
    <2>1. PICK m \in 1 .. j - 1 : q[i] = s[m]
      BY DEF KeptInOrder
    <2>2. m \in DOMAIN s /\ m <= j
      BY <1>1
    <2> QED BY <1>0, <1>1, <2>1, <2>2 DEF InOrder
  <1>7. KeptInOrder(s, j, Append(q, x))
    <2>1. Append(q, x) \in Seq(Kinds) /\ InOrder(Append(q, x))
      BY <1>2, <1>6, AppendInOrder
    <2>2. \A i \in DOMAIN Append(q, x) : \E m \in 1 .. j : Append(q, x)[i] = s[m]
      <3> TAKE i \in DOMAIN Append(q, x)
      <3>1. i \in DOMAIN q \/ i = Len(q) + 1
        BY <1>2
      <3>2. i \in DOMAIN q => Append(q, x)[i] = q[i]
        BY <1>2
      <3>3. i = Len(q) + 1 => Append(q, x)[i] = x
        BY <1>2
      <3>4. j \in 1 .. j
        BY <1>1
      <3> QED BY <1>0, <1>3, <3>1, <3>2, <3>3, <3>4
    <2>3. ASSUME NEW k \in Kinds PROVE CountOf(Append(q, x), k) <= Among(s, j, k)
      <3>1. CountOf(Append(q, x), k) = CountOf(q, k) + One(x, k)
        BY <1>2, CountOfAppend
      <3> QED BY <1>4, <3>1
    <2> QED BY <2>1, <2>2, <2>3 DEF KeptInOrder
  <1> QED BY <1>0, <1>5, <1>7

LEMMA WithoutKeepsOrder ==
  ASSUME NEW s \in Seq(Kinds), InOrder(s), NEW P
  PROVE  /\ Without(s, P) \in Seq(Kinds) /\ InOrder(Without(s, P))
         /\ \A k \in Kinds : CountOf(Without(s, P), k) <= CountOf(s, k)
  <1>1. PICK at : KeptFollows(s, P, at) /\ Without(s, P) = at[Len(s)]
    BY WithoutFollows
  <1>2. PICK n \in Nat : n = Len(s)
    OBVIOUS
  <1> DEFINE G == {j \in 0 .. n : KeptInOrder(s, j, at[j])}
  <1>3. 0 \in G
    <2>1. at[0] = <<>>
      BY <1>1 DEF KeptFollows
    <2>2. \A k \in Kinds : CountOf(<<>>, k) <= Among(s, 0, k)
      <3> TAKE k \in Kinds
      <3>1. <<>> \in Seq(Kinds) /\ Len(<<>>) = 0
        OBVIOUS
      <3>2. CountOf(<<>>, k) = Among(<<>>, 0, k)
        BY <3>1, CountIsAmong
      <3>3. Among(<<>>, 0, k) = 0 /\ Among(s, 0, k) = 0
        BY AmongStep
      <3> QED BY <3>2, <3>3
    <2>3. KeptInOrder(s, 0, <<>>)
      BY <2>2 DEF KeptInOrder, InOrder
    <2> QED BY <2>1, <2>3
  <1>4. ASSUME NEW j \in 1 .. n, j - 1 \in G PROVE j \in G
    <2>1. PICK q : q = at[j - 1]
      OBVIOUS
    <2>2. KeptInOrder(s, j - 1, q)
      BY <1>4, <2>1
    <2>3. KeptInOrder(s, j, q) /\ KeptInOrder(s, j, Append(q, s[j]))
      BY <1>2, <2>2, KeptStep
    <2>4. at[j] = q \/ at[j] = Append(q, s[j])
      BY <1>1, <1>2, <2>1 DEF KeptFollows
    <2>5. KeptInOrder(s, j, at[j])
      BY <2>3, <2>4
    <2>6. j \in 0 .. n
      OBVIOUS
    <2> QED BY <2>5, <2>6
  <1>5. n \in 0 .. n /\ \A j \in 0 .. n : j \in G
    <2> HIDE DEF G
    <2> QED BY <1>3, <1>4, UpTo
  <1>6. KeptInOrder(s, n, Without(s, P))
    BY <1>1, <1>2, <1>5
  <1>7. \A k \in Kinds : CountOf(s, k) = Among(s, n, k)
    BY <1>2, CountIsAmong
  <1> QED BY <1>6, <1>7 DEF KeptInOrder

(* The drawn tile goes where the order wants it.                           *)
LEMMA InsertIsSeq ==
  ASSUME NEW s \in Seq(Kinds), NEW i \in 1 .. Len(s), NEW e \in Kinds
  PROVE  LET w == InsertAt(s, i, e) IN
         /\ w \in Seq(Kinds) /\ Len(w) = Len(s) + 1 /\ w[i] = e
         /\ \A j \in 1 .. i - 1 : w[j] = s[j]
         /\ \A j \in i + 1 .. Len(s) + 1 : w[j] = s[j - 1]
  <1>1. PICK a : a = SubSeq(s, 1, i - 1)
    OBVIOUS
  <1>2. PICK b : b = SubSeq(s, i, Len(s))
    OBVIOUS
  <1>3. a \in Seq(Kinds) /\ Len(a) = i - 1 /\ \A j \in 1 .. i - 1 : a[j] = s[j]
    BY <1>1
  <1>4. b \in Seq(Kinds) /\ Len(b) = Len(s) - i + 1 /\ \A j \in 1 .. Len(s) - i + 1 : b[j] = s[i + j - 1]
    BY <1>2
  <1>5. PICK c : c = a \o <<e>>
    OBVIOUS
  <1>6. c \in Seq(Kinds) /\ Len(c) = i /\ c[i] = e /\ \A j \in 1 .. i - 1 : c[j] = s[j]
    BY <1>3, <1>5
  <1>7. PICK w : w = c \o b
    OBVIOUS
  <1>8. w \in Seq(Kinds) /\ Len(w) = Len(s) + 1
    <2>0. c \in Seq(Kinds) /\ b \in Seq(Kinds)
      BY <1>4, <1>6
    <2>1. w \in Seq(Kinds)
      BY <1>7, <2>0
    <2>2. Len(w) = Len(c) + Len(b)
      BY <1>7, <2>0
    <2>3. Len(s) \in Nat
      OBVIOUS
    <2> QED BY <1>4, <1>6, <2>1, <2>2, <2>3
  <1>9. \A j \in 1 .. i : w[j] = c[j]
    BY <1>4, <1>6, <1>7
  <1>10. \A j \in i + 1 .. Len(s) + 1 : w[j] = s[j - 1]
    <2> TAKE j \in i + 1 .. Len(s) + 1
    <2>1. w[j] = b[j - i]
      BY <1>4, <1>6, <1>7
    <2>2. j - i \in 1 .. Len(s) - i + 1 /\ i + (j - i) - 1 = j - 1
      OBVIOUS
    <2> QED BY <1>4, <2>1, <2>2
  <1>11. w = InsertAt(s, i, e)
    BY <1>1, <1>2, <1>5, <1>7 DEF InsertAt
  <1>12. w[i] = e /\ \A j \in 1 .. i - 1 : w[j] = s[j]
    BY <1>6, <1>9
  <1> QED BY <1>8, <1>10, <1>11, <1>12

LEMMA CountOfInsert ==
  ASSUME NEW s \in Seq(Kinds), NEW i \in 1 .. Len(s), NEW e \in Kinds, NEW k
  PROVE  CountOf(InsertAt(s, i, e), k) = CountOf(s, k) + One(e, k)
  <1>1. PICK w : w = InsertAt(s, i, e)
    OBVIOUS
  <1>2. /\ w \in Seq(Kinds) /\ Len(w) = Len(s) + 1 /\ w[i] = e
        /\ \A j \in 1 .. i - 1 : w[j] = s[j]
        /\ \A j \in i + 1 .. Len(s) + 1 : w[j] = s[j - 1]
    BY <1>1, InsertIsSeq
  <1>3. PICK n \in Nat : n = Len(s)
    OBVIOUS
  <1>4. i - 1 \in Nat /\ i \in Nat /\ i > 0 /\ i <= n
    BY <1>3
  <1>5. Among(w, i - 1, k) = Among(s, i - 1, k)
    <2>1. {j \in 1 .. i - 1 : w[j] = k} = {j \in 1 .. i - 1 : s[j] = k}
      BY <1>2
    <2> QED BY <2>1 DEF Among
  <1>6. One(e, k) \in Nat
    BY DEF One
  <1> DEFINE G == {j \in 0 .. n + 1 - i : Among(w, i + j, k) = Among(s, i + j - 1, k) + One(e, k)}
  <1>7. 0 \in G
    <2>1. Among(w, i, k) = Among(w, i - 1, k) + One(e, k)
      BY <1>2, <1>4, AmongStep
    <2>2. i + 0 = i /\ i + 0 - 1 = i - 1 /\ 0 \in 0 .. n + 1 - i
      BY <1>4
    <2> QED BY <1>5, <2>1, <2>2
  <1>8. ASSUME NEW j \in 1 .. n + 1 - i, j - 1 \in G PROVE j \in G
    <2>1. PICK m \in Nat : m = i + j - 1
      BY <1>4
    <2>2. i + j = m + 1 /\ i + (j - 1) = m /\ i + (j - 1) - 1 = m - 1 /\ m > 0 /\ m \in 1 .. n
      BY <1>4, <2>1
    <2>3. Among(w, m, k) = Among(s, m - 1, k) + One(e, k)
      BY <1>8, <2>2
    <2>4. Among(w, m + 1, k) = Among(w, m, k) + One(w[m + 1], k)
      <3>1. m + 1 \in Nat /\ m + 1 > 0 /\ (m + 1) - 1 = m
        BY <2>2
      <3> QED BY <3>1, AmongStep
    <2>5. Among(s, m, k) = Among(s, m - 1, k) + One(s[m], k)
      BY <2>2, AmongStep
    <2>6. w[m + 1] = s[m]
      <3>1. m + 1 \in i + 1 .. Len(s) + 1 /\ (m + 1) - 1 = m
        BY <1>3, <1>4, <1>8, <2>1, <2>2
      <3> QED BY <1>2, <3>1
    <2>7. Among(s, m - 1, k) \in Nat /\ One(s[m], k) \in Nat
      <3>1. m - 1 \in Nat
        BY <2>2
      <3> QED BY <3>1, AmongStep DEF One
    <2>8. Among(w, m + 1, k) = Among(s, m, k) + One(e, k)
      BY <1>6, <2>3, <2>4, <2>5, <2>6, <2>7
    <2>9. j \in 0 .. n + 1 - i
      OBVIOUS
    <2> QED BY <2>1, <2>2, <2>8, <2>9
  <1>9. n + 1 - i \in 0 .. n + 1 - i /\ \A j \in 0 .. n + 1 - i : j \in G
    <2>1. PICK r \in Nat : r = n + 1 - i
      BY <1>4
    <2> HIDE DEF G
    <2>2. \A j \in 1 .. r : j - 1 \in G => j \in G
      BY <1>8, <2>1
    <2>3. \A j \in 0 .. r : j \in G
      BY <1>7, <2>1, <2>2, UpTo
    <2> QED BY <2>1, <2>3
  <1>10. Among(w, n + 1, k) = Among(s, n, k) + One(e, k)
    <2>1. i + (n + 1 - i) = n + 1 /\ i + (n + 1 - i) - 1 = n
      BY <1>4
    <2> QED BY <1>9, <2>1
  <1>11. CountOf(w, k) = Among(w, n + 1, k) /\ CountOf(s, k) = Among(s, n, k)
    BY <1>2, <1>3, CountIsAmong
  <1> QED BY <1>1, <1>10, <1>11

LEMMA InsertKeepsOrder ==
  ASSUME NEW s \in Seq(Kinds), InOrder(s), NEW t \in Kinds \cup {0}
  PROVE  LET w == InsertLastDrawTile(s, t) IN
         /\ w \in Seq(Kinds) /\ InOrder(w)
         /\ \A k \in Kinds : CountOf(w, k) = CountOf(s, k) + One(t, k)
  <1>0. DOMAIN s = 1 .. Len(s) /\ Len(s) \in Nat
    OBVIOUS
  <1>1. CASE t = 0
    <2>1. InsertLastDrawTile(s, t) = s
      BY <1>1 DEF InsertLastDrawTile
    <2>2. ASSUME NEW k \in Kinds PROVE CountOf(s, k) = CountOf(s, k) + One(t, k)
      <3>1. One(t, k) = 0
        BY <1>1, KindsAreNumbers DEF One
      <3>2. CountOf(s, k) \in Nat
        BY CountIsAmong
      <3> QED BY <3>1, <3>2
    <2> QED BY <2>1, <2>2
  <1>2. CASE t # 0 /\ (s = <<>> \/ t >= Last(s))
    <2>1. t \in Kinds /\ InsertLastDrawTile(s, t) = Append(s, t)
      BY <1>2 DEF InsertLastDrawTile
    <2>2. \A i \in DOMAIN s : s[i] <= t
      <3> TAKE i \in DOMAIN s
      <3>1. s # <<>>
        OBVIOUS
      <3>2. t >= s[Len(s)]
        BY <1>2, <3>1 DEF Last
      <3>3. Len(s) \in DOMAIN s /\ i <= Len(s)
        BY <1>0
      <3>4. s[i] <= s[Len(s)]
        BY <3>3 DEF InOrder
      <3>5. s[i] \in Int /\ s[Len(s)] \in Int /\ t \in Int
        BY <2>1, <3>3, KindsAreNumbers
      <3> QED BY <3>2, <3>4, <3>5
    <2> QED BY <2>1, <2>2, AppendInOrder, CountOfAppend
  <1>3. CASE t # 0 /\ s # <<>> /\ ~(t >= Last(s))
    <2> DEFINE At(i) == i \in DOMAIN s /\ t <= s[i] /\ \A j \in 1 .. i - 1 : s[j] < t
               i == CHOOSE i \in DOMAIN s : t <= s[i] /\ \A j \in 1 .. i - 1 : s[j] < t
    <2>0. t \in Kinds
      BY <1>3
    <2>1. InsertLastDrawTile(s, t) = InsertAt(s, i, t)
      BY <1>3 DEF InsertLastDrawTile
    <2>2. \E m : At(m)
      <3> DEFINE S == {m \in DOMAIN s : t <= s[m]}
      <3>1. Len(s) \in S
        <4>1. Len(s) \in DOMAIN s /\ Last(s) = s[Len(s)]
          BY <1>0, <1>3 DEF Last
        <4>2. s[Len(s)] \in Int /\ t \in Int
          BY <2>0, <4>1, KindsAreNumbers
        <4> QED BY <1>3, <4>1, <4>2
      <3>2. S \in SUBSET Nat
        BY <1>0
      <3>3. PICK m \in S : \A j \in S : m <= j
        BY <3>1, <3>2, LeastNatural
      <3>4. ASSUME NEW j \in 1 .. m - 1 PROVE s[j] < t
        <4>1. j \in DOMAIN s /\ ~(m <= j)
          BY <1>0, <3>3
        <4>2. j \notin S
          BY <3>3, <4>1
        <4>3. s[j] \in Int /\ t \in Int
          BY <2>0, <4>1, KindsAreNumbers
        <4> QED BY <4>1, <4>2, <4>3
      <3> QED BY <3>3, <3>4
    <2>3. At(i)
      <3> HIDE <2>1
      <3> QED BY <2>2
    <2>4. i \in 1 .. Len(s)
      BY <1>0, <2>3
    <2> HIDE DEF i
    <2>5. PICK w : w = InsertAt(s, i, t)
      OBVIOUS
    <2>6. /\ w \in Seq(Kinds) /\ Len(w) = Len(s) + 1 /\ w[i] = t
          /\ \A j \in 1 .. i - 1 : w[j] = s[j]
          /\ \A j \in i + 1 .. Len(s) + 1 : w[j] = s[j - 1]
      BY <2>0, <2>4, <2>5, InsertIsSeq
    <2>7. \A k \in Kinds : CountOf(w, k) = CountOf(s, k) + One(t, k)
      BY <2>0, <2>4, <2>5, CountOfInsert
    <2>8. ASSUME NEW a \in DOMAIN w, NEW b \in DOMAIN w, a <= b PROVE w[a] <= w[b]
      <3>1. a \in 1 .. Len(s) + 1 /\ b \in 1 .. Len(s) + 1 /\ w[a] \in Int /\ w[b] \in Int /\ t \in Int
        BY <2>0, <2>6, KindsAreNumbers
      <3>2. a < i => a \in DOMAIN s /\ w[a] = s[a] /\ s[a] < t
        BY <1>0, <2>3, <2>4, <2>6, <3>1
      <3>3. b < i => b \in DOMAIN s /\ w[b] = s[b]
        BY <1>0, <2>4, <2>6, <3>1
      <3>4. b > i => b - 1 \in DOMAIN s /\ w[b] = s[b - 1] /\ i <= b - 1
        BY <1>0, <2>4, <2>6, <3>1
      <3>5. a > i => a - 1 \in DOMAIN s /\ w[a] = s[a - 1]
        BY <1>0, <2>4, <2>6, <3>1
      <3>6. CASE b < i
        BY <2>4, <2>8, <3>1, <3>2, <3>3, <3>6 DEF InOrder
      <3>7. CASE b = i
        BY <2>4, <2>6, <2>8, <3>1, <3>2, <3>7
      <3>8. CASE b > i
        <4>1. s[i] <= s[b - 1]
          BY <2>3, <2>4, <3>4, <3>8 DEF InOrder
        <4>2. s[i] \in Int /\ s[b - 1] \in Int /\ t <= s[i]
          BY <2>3, <3>4, <3>8, KindsAreNumbers
        <4>3. CASE a < i
          BY <3>1, <3>2, <3>4, <3>8, <4>1, <4>2, <4>3
        <4>4. CASE a = i
          BY <2>6, <3>1, <3>4, <3>8, <4>1, <4>2, <4>4
        <4>5. CASE a > i
          <5>1. a - 1 <= b - 1
            BY <2>8, <3>1
          <5> QED BY <3>4, <3>5, <3>8, <4>5, <5>1 DEF InOrder
        <4> QED BY <2>4, <3>1, <4>3, <4>4, <4>5
      <3> QED BY <2>4, <3>1, <3>6, <3>7, <3>8
    <2>9. InOrder(w)
      BY <2>8 DEF InOrder
    <2> QED BY <2>1, <2>5, <2>6, <2>7, <2>9
  <1> QED BY <1>1, <1>2, <1>3

-----------------------------------------------------------------------------
(* The invariant: a hand in order, and never more than four tiles of a     *)
(* kind in the hand, in the player's fingers and in the wall.              *)
LeftOf(k) == IF k \in Tiles THEN left[k] ELSE 0
HandOrdered ==
  /\ hand \in Seq(Kinds) /\ InOrder(hand) /\ drawn \in Kinds \cup {0}
  /\ \A k \in Kinds : CountOf(hand, k) + One(drawn, k) + LeftOf(k) <= COPIES
HandInv == left \in [Tiles -> Nat] /\ (phase # "over" => HandOrdered)

LEMMA CountsAreNumbers ==
  ASSUME HandInv, phase # "over", NEW k \in Kinds
  PROVE  CountOf(hand, k) \in Nat /\ One(drawn, k) \in Nat /\ LeftOf(k) \in Nat
  <1>1. hand \in Seq(Kinds) /\ left \in [Tiles -> Nat]
    BY DEF HandInv, HandOrdered
  <1>2. CountOf(hand, k) \in Nat
    BY <1>1, CountIsAmong
  <1> QED BY <1>1, <1>2 DEF One, LeftOf

LEMMA InitInOrder == TilesInit => HandInv
  <1> SUFFICES ASSUME TilesInit PROVE HandInv
    OBVIOUS
  <1>1. hand \in Deals /\ drawn = 0 /\ left = [t \in Tiles |-> COPIES - CountOf(hand, t)]
    BY DEF TilesInit
  <1>2. hand \in Seq(Kinds) /\ InOrder(hand) /\ \A k \in Kinds : CountOf(hand, k) <= COPIES
    BY <1>1, TilesAssumption
  <1>3. \A k : CountOf(hand, k) \in Nat
    BY <1>2, CountIsAmong
  <1>4. left \in [Tiles -> Nat]
    <2>1. \A t \in Tiles : CountOf(hand, t) \in Nat /\ CountOf(hand, t) <= 4
      BY <1>2, <1>3, TilesAssumption DEF COPIES
    <2> QED BY <1>1, <2>1 DEF COPIES
  <1>5. ASSUME NEW k \in Kinds PROVE CountOf(hand, k) + One(drawn, k) + LeftOf(k) <= COPIES
    <2>1. One(drawn, k) = 0
      BY <1>1, KindsAreNumbers DEF One
    <2>2. LeftOf(k) = COPIES - CountOf(hand, k) \/ LeftOf(k) = 0
      BY <1>1 DEF LeftOf
    <2>3. CountOf(hand, k) <= COPIES /\ CountOf(hand, k) \in Nat /\ COPIES = 4
      BY <1>2, <1>3 DEF COPIES
    <2> QED BY <2>1, <2>2, <2>3
  <1> QED BY <1>1, <1>2, <1>4, <1>5 DEF HandInv, HandOrdered

(* A step that takes nothing from the wall and keeps order and numbers.    *)
LEMMA NoMoreTiles ==
  ASSUME HandInv, phase # "over", left' = left,
         hand' \in Seq(Kinds), InOrder(hand'), drawn' \in Kinds \cup {0},
         \A k \in Kinds : CountOf(hand', k) + One(drawn', k) <= CountOf(hand, k) + One(drawn, k)
  PROVE  HandInv'
  <1>1. left' \in [Tiles -> Nat]
    BY DEF HandInv
  <1>2. ASSUME NEW k \in Kinds PROVE CountOf(hand', k) + One(drawn', k) + LeftOf(k)' <= COPIES
    <2>1. LeftOf(k)' = LeftOf(k)
      BY DEF LeftOf
    <2>2. CountOf(hand, k) + One(drawn, k) + LeftOf(k) <= COPIES
      BY DEF HandInv, HandOrdered
    <2>3. CountOf(hand, k) \in Nat /\ One(drawn, k) \in Nat /\ LeftOf(k) \in Nat
      BY CountsAreNumbers
    <2>4. CountOf(hand', k) \in Nat
      BY CountIsAmong
    <2>5. One(drawn', k) \in Nat
      BY DEF One
    <2>6. CountOf(hand', k) + One(drawn', k) <= CountOf(hand, k) + One(drawn, k)
      OBVIOUS
    <2> QED BY <2>1, <2>2, <2>3, <2>4, <2>5, <2>6 DEF COPIES
  <1>3. HandOrdered'
    BY <1>2 DEF HandOrdered
  <1> QED BY <1>1, <1>3 DEF HandInv

(* The tiles at some positions leave the hand, and the drawn one joins it. *)
LEMMA TakenAndJoined ==
  ASSUME HandInv, phase # "over", NEW P, NEW t \in {0, drawn}, left' = left, drawn' = 0,
         hand' = InsertLastDrawTile(Without(hand, P), t)
  PROVE  HandInv'
  <1>1. hand \in Seq(Kinds) /\ InOrder(hand) /\ t \in Kinds \cup {0}
    BY DEF HandInv, HandOrdered
  <1>2. PICK s : s = Without(hand, P)
    OBVIOUS
  <1>3. /\ s \in Seq(Kinds) /\ InOrder(s)
        /\ \A k \in Kinds : CountOf(s, k) <= CountOf(hand, k)
    BY <1>1, <1>2, WithoutKeepsOrder
  <1>4. PICK w : w = InsertLastDrawTile(s, t)
    OBVIOUS
  <1>5. w \in Seq(Kinds) /\ InOrder(w) /\ \A k \in Kinds : CountOf(w, k) = CountOf(s, k) + One(t, k)
    BY <1>1, <1>3, <1>4, InsertKeepsOrder
  <1>6. hand' = w
    BY <1>2, <1>4
  <1>7. ASSUME NEW k \in Kinds
        PROVE  CountOf(hand', k) + One(drawn', k) <= CountOf(hand, k) + One(drawn, k)
    <2>1. One(0, k) = 0
      BY KindsAreNumbers DEF One
    <2>2. One(t, k) <= One(drawn, k) /\ One(t, k) \in Nat /\ One(drawn, k) \in Nat
      BY <2>1 DEF One
    <2>3. CountOf(s, k) \in Nat /\ CountOf(hand, k) \in Nat
      BY <1>1, <1>3, CountIsAmong
    <2>4. CountOf(s, k) <= CountOf(hand, k) /\ CountOf(w, k) = CountOf(s, k) + One(t, k)
      BY <1>3, <1>5
    <2> QED BY <1>6, <2>1, <2>2, <2>3, <2>4
  <1> QED BY <1>5, <1>6, <1>7, NoMoreTiles

LEMMA DrawInOrder ==
  ASSUME HandInv, NEW t \in Tiles, Draw(t)
  PROVE  HandInv'
  <1>1. /\ phase # "over" /\ hand' = hand /\ drawn' = t /\ left' = [left EXCEPT ![t] = @ - 1]
        /\ left[t] > 0
    BY DEF Draw, Take
  <1>2. HandOrdered /\ left \in [Tiles -> Nat] /\ t \in Kinds
    BY <1>1, TilesAssumption DEF HandInv
  <1>3. left' \in [Tiles -> Nat]
    BY <1>1, <1>2
  <1>4. ASSUME NEW k \in Kinds PROVE CountOf(hand', k) + One(drawn', k) + LeftOf(k)' <= COPIES
    <2>1. CountOf(hand, k) + One(drawn, k) + LeftOf(k) <= COPIES
      BY <1>2 DEF HandOrdered
    <2>2. CountOf(hand, k) \in Nat /\ One(drawn, k) \in Nat /\ LeftOf(k) \in Nat
      BY <1>1, CountsAreNumbers
    <2>3. One(t, k) + LeftOf(k)' = LeftOf(k)
      <3>1. CASE k = t
        BY <1>1, <1>2, <3>1 DEF One, LeftOf
      <3>2. CASE k # t
        BY <1>1, <1>2, <3>2 DEF One, LeftOf
      <3> QED BY <3>1, <3>2
    <2>4. LeftOf(k)' \in Int /\ One(t, k) \in Nat
      BY <1>3 DEF LeftOf, One
    <2> QED BY <1>1, <2>1, <2>2, <2>3, <2>4 DEF COPIES
  <1>5. HandOrdered'
    BY <1>1, <1>2, <1>4 DEF HandOrdered
  <1> QED BY <1>3, <1>5 DEF HandInv

LEMMA OtherDiscardsInOrder ==
  ASSUME HandInv, NEW t \in Tiles, NEW prev \in BOOLEAN, OtherDiscards(t, prev)
  PROVE  HandInv'
  <1>1. /\ phase # "over" /\ hand' = hand /\ drawn' = drawn /\ left' = [left EXCEPT ![t] = @ - 1]
        /\ left[t] > 0
    BY DEF OtherDiscards, Take
  <1>2. HandOrdered /\ left \in [Tiles -> Nat]
    BY <1>1 DEF HandInv
  <1>3. left' \in [Tiles -> Nat]
    BY <1>1, <1>2
  <1>4. ASSUME NEW k \in Kinds PROVE CountOf(hand', k) + One(drawn', k) + LeftOf(k)' <= COPIES
    <2>1. CountOf(hand, k) + One(drawn, k) + LeftOf(k) <= COPIES
      BY <1>2 DEF HandOrdered
    <2>2. CountOf(hand, k) \in Nat /\ One(drawn, k) \in Nat /\ LeftOf(k) \in Nat
      BY <1>1, CountsAreNumbers
    <2>3. LeftOf(k)' <= LeftOf(k) /\ LeftOf(k)' \in Int
      BY <1>1, <1>2, <1>3 DEF LeftOf
    <2> QED BY <1>1, <2>1, <2>2, <2>3 DEF COPIES
  <1>5. HandOrdered'
    BY <1>1, <1>2, <1>4 DEF HandOrdered
  <1> QED BY <1>3, <1>5 DEF HandInv

LEMMA ClaimInOrder ==
  ASSUME HandInv, NEW o \in offer, Claim(o)
  PROVE  HandInv'
  <1>1. phase # "over" /\ drawn' = drawn /\ left' = left
    BY DEF Claim
  <1>2. HandOrdered
    BY <1>1 DEF HandInv
  <1>3. \A k \in Kinds : CountOf(hand, k) \in Nat /\ One(drawn, k) \in Nat
    BY <1>1, CountsAreNumbers
  <1>4. PICK cut : cut = MovedToHold(hand, o.cards, o.cnt, asked)
    OBVIOUS
  <1>5. CASE cut = {}
    <2>1. hand' = hand
      BY <1>4, <1>5 DEF Claim
    <2> QED BY <1>1, <1>2, <1>3, <2>1, NoMoreTiles DEF HandOrdered
  <1>6. CASE cut # {}
    <2>1. PICK s : s = Without(hand, cut)
      OBVIOUS
    <2>2. hand' = s
      BY <1>4, <1>6, <2>1 DEF Claim
    <2>3. hand \in Seq(Kinds) /\ InOrder(hand) /\ drawn' \in Kinds \cup {0}
      BY <1>1, <1>2 DEF HandOrdered
    <2>4. s \in Seq(Kinds) /\ InOrder(s) /\ \A k \in Kinds : CountOf(s, k) <= CountOf(hand, k)
      BY <2>1, <2>3, WithoutKeepsOrder
    <2>5. ASSUME NEW k \in Kinds
          PROVE  CountOf(hand', k) + One(drawn', k) <= CountOf(hand, k) + One(drawn, k)
      <3>1. CountOf(s, k) \in Nat
        BY <2>4, CountIsAmong
      <3> QED BY <1>1, <1>3, <2>2, <2>4, <3>1
    <2> QED BY <1>1, <2>2, <2>3, <2>4, <2>5, NoMoreTiles
  <1> QED BY <1>5, <1>6

LEMMA DiscardInOrder ==
  ASSUME HandInv, NEW t, Discard(t)
  PROVE  HandInv'
  <1>1. phase # "over" /\ drawn' = 0 /\ left' = left
    BY DEF Discard
  <1>2. HandOrdered
    BY <1>1 DEF HandInv
  <1>3. CASE t = drawn
    <2>1. hand' = hand
      BY <1>3 DEF Discard
    <2>2. ASSUME NEW k \in Kinds
          PROVE  CountOf(hand', k) + One(drawn', k) <= CountOf(hand, k) + One(drawn, k)
      <3>1. CountOf(hand, k) \in Nat /\ One(drawn, k) \in Nat
        BY <1>1, CountsAreNumbers
      <3>2. One(0, k) = 0
        BY KindsAreNumbers DEF One
      <3> QED BY <1>1, <2>1, <3>1, <3>2
    <2> QED BY <1>1, <1>2, <2>1, <2>2, NoMoreTiles DEF HandOrdered
  <1>4. CASE t # drawn
    <2> DEFINE pos == {i \in DOMAIN hand : hand[i] = t}
    <2>1. hand' = InsertLastDrawTile(Without(hand, {CHOOSE i \in pos : \A j \in pos : i <= j}), drawn)
      BY <1>4 DEF Discard
    <2>2. drawn \in {0, drawn}
      OBVIOUS
    <2> HIDE DEF pos
    <2> QED BY <1>1, <2>1, <2>2, TakenAndJoined
  <1> QED BY <1>3, <1>4

LEMMA AnGangInOrder ==
  ASSUME HandInv, NEW t, AnGang(t)
  PROVE  HandInv'
  <1>1. phase # "over" /\ drawn' = 0 /\ left' = left
    BY DEF AnGang
  <1>2. PICK P : \E u \in {0, drawn} : hand' = InsertLastDrawTile(Without(hand, P), u)
    <2> DEFINE cnt == IF drawn = t THEN 3 ELSE 4
               at(n) == CHOOSE i \in DOMAIN hand : hand[i] = t /\ CountOf(SubSeq(hand, 1, i), t) = n
               block == at(cnt) - cnt + 1 .. at(cnt)
               kept == IF drawn = t THEN 0 ELSE drawn
    <2>1. hand' = InsertLastDrawTile(Without(hand, block), kept)
      BY DEF AnGang
    <2>2. kept \in {0, drawn}
      OBVIOUS
    <2> HIDE DEF block, kept
    <2> QED BY <2>1, <2>2
  <1> QED BY <1>1, <1>2, TakenAndJoined

LEMMA PengGangInOrder ==
  ASSUME HandInv, PengGang
  PROVE  HandInv'
  <1>1. phase # "over" /\ drawn' = 0 /\ left' = left
    BY DEF PengGang
  <1>2. HandOrdered
    BY <1>1 DEF HandInv
  <1>3. CASE drawn = asked
    <2>1. hand' = hand
      BY <1>3 DEF PengGang
    <2>2. ASSUME NEW k \in Kinds
          PROVE  CountOf(hand', k) + One(drawn', k) <= CountOf(hand, k) + One(drawn, k)
      <3>1. CountOf(hand, k) \in Nat /\ One(drawn, k) \in Nat
        BY <1>1, CountsAreNumbers
      <3>2. One(0, k) = 0
        BY KindsAreNumbers DEF One
      <3> QED BY <1>1, <2>1, <3>1, <3>2
    <2> QED BY <1>1, <1>2, <2>1, <2>2, NoMoreTiles DEF HandOrdered
  <1>4. CASE drawn # asked
    <2>1. PICK P : P = {CHOOSE i \in DOMAIN hand : hand[i] = asked /\ \A j \in 1 .. i - 1 : hand[j] # asked}
      OBVIOUS
    <2>2. hand' = InsertLastDrawTile(Without(hand, P), drawn)
      BY <1>4, <2>1 DEF PengGang
    <2>3. drawn \in {0, drawn}
      OBVIOUS
    <2> QED BY <1>1, <2>2, <2>3, TakenAndJoined
  <1> QED BY <1>3, <1>4

LEMMA NothingMoved ==
  ASSUME HandInv, UNCHANGED <<hand, drawn, left>>, phase' = "over" => phase = "over",
         phase' # "over" => phase # "over"
  PROVE  HandInv'
  <1>1. ASSUME HandOrdered PROVE HandOrdered'
    BY <1>1 DEF HandOrdered, LeftOf
  <1> QED BY <1>1 DEF HandInv

(* The invariant holds before and after each step of the table.            *)
LEMMA StepInOrder == HandInv /\ [TilesNext]_handVars => HandInv'
  <1> SUFFICES ASSUME HandInv, [TilesNext]_handVars PROVE HandInv'
    OBVIOUS
  <1>1. ASSUME NEW t \in Tiles, Draw(t) PROVE HandInv'
    BY <1>1, DrawInOrder
  <1>2. ASSUME NEW t \in Tiles, NEW prev \in BOOLEAN, OtherDiscards(t, prev) PROVE HandInv'
    BY <1>2, OtherDiscardsInOrder
  <1>3. ASSUME NEW t, Discard(t) PROVE HandInv'
    BY <1>3, DiscardInOrder
  <1>4. ASSUME NEW t, AnGang(t) PROVE HandInv'
    BY <1>4, AnGangInOrder
  <1>5. ASSUME NEW t, ReqPengGang(t) PROVE HandInv'
    BY <1>5, NothingMoved DEF ReqPengGang
  <1>6. ASSUME NEW o \in offer, Claim(o) PROVE HandInv'
    BY <1>6, ClaimInOrder
  <1>7. ASSUME GiveUp PROVE HandInv'
    BY <1>7, NothingMoved DEF GiveUp
  <1>8. ASSUME PengGang PROVE HandInv'
    BY <1>8, PengGangInOrder
  <1>9. ASSUME Win PROVE HandInv'
    <2>1. phase' = "over" /\ left' = left
      BY <1>9 DEF Win
    <2> QED BY <2>1 DEF HandInv
  <1>10. ASSUME UNCHANGED handVars PROVE HandInv'
    BY <1>10, NothingMoved DEF handVars
  <1> QED BY <1>1, <1>2, <1>3, <1>4, <1>5, <1>6, <1>7, <1>8, <1>9, <1>10 DEF TilesNext

-----------------------------------------------------------------------------
(* A hand in order has no tile behind the first greater one.               *)
LEMMA PungAndKongExact ==
  ASSUME NEW s \in Seq(Kinds), InOrder(s), NEW t \in Kinds
  PROVE  /\ CheckPung(s, t) <=> CountOf(s, t) >= 2
         /\ CheckKong(s, t) <=> CountOf(s, t) >= 3
  <1>1. {i \in BeforeGreater(s, t) : s[i] = t} = {i \in DOMAIN s : s[i] = t}
    <2>1. ASSUME NEW i \in DOMAIN s, s[i] = t, NEW j \in 1 .. i PROVE s[j] <= t
      <3>1. j \in DOMAIN s /\ j <= i
        OBVIOUS
      <3> QED BY <2>1, <3>1 DEF InOrder
    <2> QED BY <2>1 DEF BeforeGreater
  <1> QED BY <1>1 DEF CheckPung, CheckKong, CountOf

(* filter_odds: each kind of the hand once, ascending.                     *)
Ascending(q) == \A i, j \in DOMAIN q : i < j => q[i] < q[j]
OddsOf(s, n, q) ==
  /\ q \in Seq(Kinds) /\ Ascending(q)
  /\ \A i \in DOMAIN q : \E m \in 1 .. n : q[i] = s[m]
  /\ \A m \in 1 .. n : \E i \in DOMAIN q : q[i] = s[m]

LEMMA AppendAscending ==
  ASSUME NEW q \in Seq(Kinds), Ascending(q), NEW x \in Kinds, \A i \in DOMAIN q : q[i] < x
  PROVE  Append(q, x) \in Seq(Kinds) /\ Ascending(Append(q, x))
  <1>1. PICK w : w = Append(q, x)
    OBVIOUS
  <1>2. w \in Seq(Kinds) /\ Len(w) = Len(q) + 1 /\ w[Len(q) + 1] = x /\ DOMAIN w = 1 .. Len(q) + 1
    BY <1>1
  <1>3. \A i \in 1 .. Len(q) : w[i] = q[i] /\ q[i] < x
    BY <1>1
  <1>4. Len(q) \in Nat /\ DOMAIN q = 1 .. Len(q)
    OBVIOUS
  <1>5. ASSUME NEW i \in DOMAIN w, NEW j \in DOMAIN w, i < j PROVE w[i] < w[j]
    <2>1. i \in 1 .. Len(q)
      BY <1>2, <1>4, <1>5
    <2>2. CASE j \in 1 .. Len(q)
      BY <1>3, <1>4, <1>5, <2>1, <2>2 DEF Ascending
    <2>3. CASE j = Len(q) + 1
      BY <1>2, <1>3, <2>1, <2>3
    <2> QED BY <1>2, <1>4, <2>2, <2>3
  <1> QED BY <1>1, <1>2, <1>5 DEF Ascending

LEMMA OddsStep ==
  ASSUME NEW s \in Seq(Kinds), InOrder(s), NEW j \in 1 .. Len(s), NEW q, OddsOf(s, j - 1, q)
  PROVE  OddsOf(s, j, IF j \in {i \in 2 .. Len(s) : s[i] = s[i - 1]} THEN q ELSE Append(q, s[j]))
  <1>0. PICK x \in Kinds : x = s[j]
    OBVIOUS
  <1>1. q \in Seq(Kinds) /\ Ascending(q)
    BY DEF OddsOf
  <1>2. \A i \in DOMAIN q : \E m \in 1 .. j - 1 : q[i] = s[m]
    BY DEF OddsOf
  <1>3. \A m \in 1 .. j - 1 : \E i \in DOMAIN q : q[i] = s[m]
    BY DEF OddsOf
  <1>4. DOMAIN s = 1 .. Len(s) /\ Len(s) \in Nat
    OBVIOUS
  <1>5. CASE j \in 2 .. Len(s) /\ s[j] = s[j - 1]
    <2>1. \A i \in DOMAIN q : \E m \in 1 .. j : q[i] = s[m]
      BY <1>2
    <2>2. \A m \in 1 .. j : \E i \in DOMAIN q : q[i] = s[m]
      <3> TAKE m \in 1 .. j
      <3>1. CASE m = j
        <4>1. j - 1 \in 1 .. j - 1
          BY <1>5
        <4> QED BY <1>3, <1>5, <3>1, <4>1
      <3>2. CASE m # j
        <4>1. m \in 1 .. j - 1
          BY <3>2
        <4> QED BY <1>3, <4>1
      <3> QED BY <3>1, <3>2
    <2>3. OddsOf(s, j, q)
      BY <1>1, <2>1, <2>2 DEF OddsOf
    <2> QED BY <1>5, <2>3
  <1>6. CASE ~(j \in 2 .. Len(s) /\ s[j] = s[j - 1])
    <2>1. \A i \in DOMAIN q : q[i] < x
      <3> TAKE i \in DOMAIN q
      <3>1. PICK m \in 1 .. j - 1 : q[i] = s[m]
        BY <1>2
      <3>2. j \in 2 .. Len(s) /\ j - 1 \in DOMAIN s /\ m \in DOMAIN s /\ m <= j - 1 /\ j - 1 <= j
        BY <1>4
      <3>3. s[m] <= s[j - 1] /\ s[j - 1] <= s[j] /\ s[j - 1] # s[j]
        BY <1>4, <1>6, <3>2 DEF InOrder
      <3>4. s[m] \in Int /\ s[j - 1] \in Int /\ s[j] \in Int
        BY <1>4, <3>2, KindsAreNumbers
      <3> QED BY <1>0, <3>1, <3>3, <3>4
    <2>2. PICK w : w = Append(q, x)
      OBVIOUS
    <2>3. w \in Seq(Kinds) /\ Ascending(w)
      BY <1>1, <2>1, <2>2, AppendAscending
    <2>4. /\ DOMAIN w = 1 .. Len(q) + 1 /\ w[Len(q) + 1] = x
          /\ DOMAIN q = 1 .. Len(q) /\ Len(q) \in Nat
          /\ \A i \in 1 .. Len(q) : w[i] = q[i]
      BY <1>1, <2>2
    <2>5. \A i \in DOMAIN w : \E m \in 1 .. j : w[i] = s[m]
      <3> TAKE i \in DOMAIN w
      <3>1. CASE i = Len(q) + 1
        BY <1>0, <2>4, <3>1
      <3>2. CASE i # Len(q) + 1
        <4>1. i \in DOMAIN q /\ w[i] = q[i]
          BY <2>4, <3>2
        <4> QED BY <1>2, <4>1
      <3> QED BY <3>1, <3>2
    <2>6. \A m \in 1 .. j : \E i \in DOMAIN w : w[i] = s[m]
      <3> TAKE m \in 1 .. j
      <3>1. CASE m = j
        <4>1. Len(q) + 1 \in DOMAIN w
          BY <2>4
        <4> QED BY <1>0, <2>4, <3>1, <4>1
      <3>2. CASE m # j
        <4>1. m \in 1 .. j - 1
          BY <3>2
        <4>2. PICK i \in DOMAIN q : q[i] = s[m]
          BY <1>3, <4>1
        <4>3. i \in DOMAIN w /\ w[i] = q[i]
          BY <2>4
        <4> QED BY <4>2, <4>3
      <3> QED BY <3>1, <3>2
    <2>7. OddsOf(s, j, w)
      BY <2>3, <2>5, <2>6 DEF OddsOf
    <2> QED BY <1>0, <1>6, <2>2, <2>7
  <1> QED BY <1>5, <1>6

(* Sorting leaves what ascends as it is.                                   *)
LEMMA SortedAscending ==
  ASSUME NEW q \in Seq(Kinds), Ascending(q)
  PROVE  Sorted(q) = q
  <1>0. DOMAIN q = 1 .. Len(q) /\ Len(q) \in Nat
    OBVIOUS
  <1>1. ASSUME NEW m \in DOMAIN q
        PROVE  /\ Cardinality({j \in DOMAIN q : q[j] < q[m]}) = m - 1
               /\ Cardinality({j \in DOMAIN q : q[j] <= q[m]}) = m
    <2>1. \A i \in DOMAIN q : q[i] \in Int
      BY KindsAreNumbers
    <2>2. \A j \in DOMAIN q : (j < m => q[j] < q[m]) /\ (j = m => q[j] = q[m]) /\ (j > m => q[m] < q[j])
      BY DEF Ascending
    <2>3. \A j \in DOMAIN q : j < m \/ j = m \/ j > m
      BY <1>0
    <2>4. {j \in DOMAIN q : q[j] < q[m]} = 1 .. m - 1
      <3>1. \A j \in DOMAIN q : q[j] < q[m] <=> j < m
        BY <1>0, <2>1, <2>2, <2>3
      <3>2. \A j \in DOMAIN q : j < m <=> j \in 1 .. m - 1
        BY <1>0
      <3>3. \A j \in 1 .. m - 1 : j \in DOMAIN q
        BY <1>0
      <3> QED BY <3>1, <3>2, <3>3
    <2>5. {j \in DOMAIN q : q[j] <= q[m]} = 1 .. m
      <3>1. \A j \in DOMAIN q : q[j] <= q[m] <=> j <= m
        BY <1>0, <2>1, <2>2, <2>3
      <3>2. \A j \in DOMAIN q : j <= m <=> j \in 1 .. m
        BY <1>0
      <3>3. \A j \in 1 .. m : j \in DOMAIN q
        BY <1>0
      <3> QED BY <3>1, <3>2, <3>3
    <2>6. Cardinality(1 .. m - 1) = m - 1 /\ Cardinality(1 .. m) = m
      <3>1. m \in Int /\ m - 1 \in Int /\ 1 \in Int /\ m >= 1
        BY <1>0
      <3>2. Cardinality(1 .. m - 1) = IF 1 > m - 1 THEN 0 ELSE m - 1 - 1 + 1
        BY <3>1, FS_Interval
      <3>3. Cardinality(1 .. m) = IF 1 > m THEN 0 ELSE m - 1 + 1
        BY <3>1, FS_Interval
      <3> QED BY <3>1, <3>2, <3>3
    <2> QED BY <2>4, <2>5, <2>6
  <1>2. ASSUME NEW i \in DOMAIN q
        PROVE  (CHOOSE t \in ToSet(q) : /\ Cardinality({j \in DOMAIN q : q[j] < t}) < i
                                        /\ Cardinality({j \in DOMAIN q : q[j] <= t}) >= i) = q[i]
    <2> DEFINE Here(t) == /\ Cardinality({j \in DOMAIN q : q[j] < t}) < i
                          /\ Cardinality({j \in DOMAIN q : q[j] <= t}) >= i
    <2>1. q[i] \in ToSet(q) /\ Here(q[i])
      BY <1>0, <1>1 DEF ToSet
    <2>2. ASSUME NEW t \in ToSet(q), Here(t) PROVE t = q[i]
      <3>1. PICK m \in DOMAIN q : t = q[m]
        BY DEF ToSet
      <3>2. m - 1 < i /\ m >= i
        BY <1>1, <2>2, <3>1
      <3> QED BY <1>0, <3>1, <3>2
    <2> HIDE DEF Here
    <2>3. (CHOOSE t \in ToSet(q) : Here(t)) = q[i]
      BY <2>1, <2>2
    <2> QED BY <2>3 DEF Here
  <1>3. Sorted(q) = [i \in DOMAIN q |-> q[i]]
    BY <1>2 DEF Sorted
  <1> QED BY <1>3

LEMMA FilterOddsAscends ==
  ASSUME NEW s \in Seq(Kinds), InOrder(s)
  PROVE  /\ FilterOdds(s) \in Seq(Kinds) /\ Ascending(FilterOdds(s))
         /\ ToSet(FilterOdds(s)) = ToSet(s)
  <1> DEFINE P == {i \in 2 .. Len(s) : s[i] = s[i - 1]}
  <1>1. PICK at : KeptFollows(s, P, at) /\ Without(s, P) = at[Len(s)]
    <2>1. Len(s) \in Nat
      OBVIOUS
    <2> HIDE DEF P
    <2> QED BY <2>1, WithoutFollows
  <1>2. PICK n \in Nat : n = Len(s)
    OBVIOUS
  <1> DEFINE G == {j \in 0 .. n : OddsOf(s, j, at[j])}
  <1>3. 0 \in G
    <2>1. at[0] = <<>>
      BY <1>1 DEF KeptFollows
    <2>2. OddsOf(s, 0, <<>>)
      BY DEF OddsOf, Ascending
    <2> QED BY <2>1, <2>2
  <1>4. ASSUME NEW j \in 1 .. n, j - 1 \in G PROVE j \in G
    <2>1. PICK q : q = at[j - 1]
      OBVIOUS
    <2>2. OddsOf(s, j - 1, q)
      BY <1>4, <2>1
    <2>3. OddsOf(s, j, IF j \in P THEN q ELSE Append(q, s[j]))
      BY <1>2, <2>2, OddsStep
    <2> HIDE DEF P
    <2>4. at[j] = IF j \in P THEN q ELSE Append(q, s[j])
      BY <1>1, <1>2, <2>1 DEF KeptFollows
    <2>5. OddsOf(s, j, at[j])
      BY <2>3, <2>4
    <2>6. j \in 0 .. n
      OBVIOUS
    <2> QED BY <2>5, <2>6
  <1>5. n \in 0 .. n /\ \A j \in 0 .. n : j \in G
    <2> HIDE DEF G
    <2> QED BY <1>3, <1>4, UpTo
  <1>6. PICK q : q = Without(s, P)
    OBVIOUS
  <1>7. OddsOf(s, n, q)
    BY <1>1, <1>2, <1>5, <1>6
  <1>8. q \in Seq(Kinds) /\ Ascending(q)
    BY <1>7 DEF OddsOf
  <1>9. FilterOdds(s) = q
    BY <1>6, <1>8, SortedAscending DEF FilterOdds
  <1>10. ToSet(q) = ToSet(s)
    <2>1. DOMAIN s = 1 .. n
      BY <1>2
    <2>2. \A x : x \in ToSet(q) <=> \E i \in DOMAIN q : q[i] = x
      BY DEF ToSet
    <2>3. \A x : x \in ToSet(s) <=> \E i \in 1 .. n : s[i] = x
      BY <2>1 DEF ToSet
    <2>4. \A i \in DOMAIN q : \E m \in 1 .. n : q[i] = s[m]
      BY <1>7 DEF OddsOf
    <2>5. \A m \in 1 .. n : \E i \in DOMAIN q : q[i] = s[m]
      BY <1>7 DEF OddsOf
    <2>6. \A x : x \in ToSet(q) <=> x \in ToSet(s)
      BY <2>2, <2>3, <2>4, <2>5
    <2> QED BY <2>6
  <1> QED BY <1>8, <1>9, <1>10

(* Three kinds in a row are a run of one suit.                             *)
LEMMA RunOfKinds ==
  ASSUME NEW x \in Kinds, x + 1 \in Kinds, x + 2 \in Kinds
  PROVE  x \in 11 .. 37 /\ x % 10 \in 1 .. 7
  <1>1. x \in 11 .. 39 /\ x % 10 # 0
    BY DEF Kinds
  <1>2. x + 1 \in 11 .. 39 /\ (x + 1) % 10 # 0
    BY <1>1 DEF Kinds
  <1>3. x + 2 \in 11 .. 39 /\ (x + 2) % 10 # 0
    BY <1>1 DEF Kinds
  <1>4. x \in 11 .. 37
    BY <1>1, <1>3
  <1>5. x % 10 \in 1 .. 7
    BY <1>1, <1>2, <1>3
  <1> QED BY <1>4, <1>5

LEMMA RunsAre ==
  ASSUME NEW r
  PROVE  r \in Runs <=> \E x \in 11 .. 37 : x % 10 \in 1 .. 7 /\ r = {x, x + 1, x + 2}
  <1>1. \A x \in 11 .. 37 : Run(x) = {x, x + 1, x + 2}
    BY DEF Run
  <1> QED BY <1>1 DEF Runs

LEMMA ToSetOfThree ==
  ASSUME NEW a, NEW b, NEW c
  PROVE  ToSet(<<a, b, c>>) = {a, b, c}
  <1>1. DOMAIN <<a, b, c>> = {1, 2, 3}
    OBVIOUS
  <1> QED BY <1>1 DEF ToSet

(* The three ways to a run of which the player holds two.                  *)
Chows(R, t) ==
      {c \in {<<t - 2, t - 1, t>>} : t - 2 \in R /\ t - 1 \in R}
  \cup {c \in {<<t - 1, t + 1, t>>} : t - 1 \in R /\ t + 1 \in R}
  \cup {c \in {<<t + 1, t + 2, t>>} : t + 1 \in R /\ t + 2 \in R}

(* What ascends has the next kinds on the next places.                     *)
LEMMA Neighbours ==
  ASSUME NEW q \in Seq(Kinds), Ascending(q), NEW i \in DOMAIN q, NEW j \in DOMAIN q
  PROVE  /\ q[j] = q[i] + 1 => j = i + 1
         /\ q[j] = q[i] + 2 => j = i + 1 \/ j = i + 2
  <1>0. DOMAIN q = 1 .. Len(q) /\ Len(q) \in Nat
    OBVIOUS
  <1>1. \A k \in DOMAIN q : q[k] \in Int
    BY KindsAreNumbers
  <1>2. q[j] > q[i] => j > i
    <2>1. i = j \/ j < i \/ j > i
      BY <1>0
    <2>2. j < i => q[j] < q[i]
      BY DEF Ascending
    <2> QED BY <1>1, <2>1, <2>2
  <1>3. ASSUME j > i + 1 PROVE q[j] >= q[i] + 2
    <2>1. i + 1 \in DOMAIN q /\ i < i + 1 /\ i + 1 < j
      BY <1>0, <1>3
    <2>2. q[i] < q[i + 1] /\ q[i + 1] < q[j]
      BY <2>1 DEF Ascending
    <2> QED BY <1>1, <2>1, <2>2
  <1>4. ASSUME j > i + 2 PROVE q[j] >= q[i] + 3
    <2>1. i + 1 \in DOMAIN q /\ i < i + 1 /\ i + 2 \in DOMAIN q /\ i + 1 < i + 2 /\ i + 2 < j
      BY <1>0, <1>4
    <2>2. q[i] < q[i + 1] /\ q[i + 1] < q[i + 2] /\ q[i + 2] < q[j]
      BY <2>1 DEF Ascending
    <2> QED BY <1>1, <2>1, <2>2
  <1>5. i \in Int /\ j \in Int /\ q[i] \in Int /\ q[j] \in Int
    BY <1>0, <1>1
  <1>6. q[j] = q[i] + 1 => j = i + 1
    BY <1>2, <1>3, <1>5
  <1>7. q[j] = q[i] + 2 => j = i + 1 \/ j = i + 2
    BY <1>2, <1>4, <1>5
  <1> QED BY <1>6, <1>7

LEMMA CheckChowIs ==
  ASSUME NEW s \in Seq(Kinds), InOrder(s), NEW t \in Kinds
  PROVE  CheckChow(s, t) = IF t > 39 THEN {} ELSE Chows(ToSet(s), t)
  <1>1. PICK q : q = FilterOdds(s)
    OBVIOUS
  <1>2. q \in Seq(Kinds) /\ Ascending(q) /\ ToSet(q) = ToSet(s)
    BY <1>1, FilterOddsAscends
  <1>3. PICK R : R = ToSet(s)
    OBVIOUS
  <1>4. \A v : v \in R <=> \E i \in DOMAIN q : q[i] = v
    BY <1>2, <1>3 DEF ToSet
  <1>5. CASE t > 39
    BY <1>5 DEF CheckChow
  <1>6. CASE ~(t > 39)
    <2> DEFINE At(i, v) == i \in DOMAIN q /\ q[i] = v
               Here(i) ==    {c \in {<<t - 2, t - 1, t>>} : At(i, t - 2) /\ At(i + 1, t - 1)}
                        \cup {c \in {<<t - 1, t + 1, t>>} :
                                At(i, t - 1) /\ (At(i + 1, t + 1) \/ At(i + 2, t + 1))}
                        \cup {c \in {<<t + 1, t + 2, t>>} : At(i, t + 1) /\ At(i + 1, t + 2)}
    <2>1. CheckChow(s, t) = UNION {Here(i) : i \in DOMAIN q}
      BY <1>1, <1>6 DEF CheckChow
    <2>2. t \in Int
      BY KindsAreNumbers
    <2>3. \A i, v : At(i, v) => v \in R
      BY <1>4
    <2>4. ASSUME NEW v \in Int, v \in R, v + 1 \in R PROVE \E i \in DOMAIN q : At(i, v) /\ At(i + 1, v + 1)
      <3>1. PICK i \in DOMAIN q : q[i] = v
        BY <1>4, <2>4
      <3>2. PICK j \in DOMAIN q : q[j] = v + 1
        BY <1>4, <2>4
      <3>3. j = i + 1
        BY <1>2, <3>1, <3>2, Neighbours
      <3> QED BY <3>1, <3>2, <3>3
    <2>5. ASSUME NEW v \in Int, v \in R, v + 2 \in R
          PROVE  \E i \in DOMAIN q : At(i, v) /\ (At(i + 1, v + 2) \/ At(i + 2, v + 2))
      <3>1. PICK i \in DOMAIN q : q[i] = v
        BY <1>4, <2>5
      <3>2. PICK j \in DOMAIN q : q[j] = v + 2
        BY <1>4, <2>5
      <3>3. j = i + 1 \/ j = i + 2
        BY <1>2, <3>1, <3>2, Neighbours
      <3> QED BY <3>1, <3>2, <3>3
    <2>6. (t - 2) + 1 = t - 1 /\ (t - 1) + 2 = t + 1 /\ (t + 1) + 1 = t + 2
          /\ t - 2 \in Int /\ t - 1 \in Int /\ t + 1 \in Int
      BY <2>2
    <2>7. ASSUME NEW i \in DOMAIN q, NEW c \in Here(i) PROVE c \in Chows(R, t)
      <3>1. \/ c = <<t - 2, t - 1, t>> /\ At(i, t - 2) /\ At(i + 1, t - 1)
            \/ c = <<t - 1, t + 1, t>> /\ At(i, t - 1) /\ (At(i + 1, t + 1) \/ At(i + 2, t + 1))
            \/ c = <<t + 1, t + 2, t>> /\ At(i, t + 1) /\ At(i + 1, t + 2)
        BY <2>7
      <3> HIDE DEF At, Here
      <3> QED BY <2>3, <3>1 DEF Chows
    <2>8. ASSUME NEW c \in Chows(R, t) PROVE \E i \in DOMAIN q : c \in Here(i)
      <3>1. CASE c = <<t - 2, t - 1, t>> /\ t - 2 \in R /\ t - 1 \in R
        <4>1. PICK i \in DOMAIN q : At(i, t - 2) /\ At(i + 1, t - 1)
          <5> HIDE DEF At
          <5> QED BY <2>4, <2>6, <3>1
        <4> HIDE DEF At
        <4> QED BY <3>1, <4>1
      <3>2. CASE c = <<t - 1, t + 1, t>> /\ t - 1 \in R /\ t + 1 \in R
        <4>1. PICK i \in DOMAIN q : At(i, t - 1) /\ (At(i + 1, t + 1) \/ At(i + 2, t + 1))
          <5> HIDE DEF At
          <5> QED BY <2>5, <2>6, <3>2
        <4> HIDE DEF At
        <4> QED BY <3>2, <4>1
      <3>3. CASE c = <<t + 1, t + 2, t>> /\ t + 1 \in R /\ t + 2 \in R
        <4>1. PICK i \in DOMAIN q : At(i, t + 1) /\ At(i + 1, t + 2)
          <5> HIDE DEF At
          <5> QED BY <2>4, <2>6, <3>3
        <4> HIDE DEF At
        <4> QED BY <3>3, <4>1
      <3> QED BY <2>8, <3>1, <3>2, <3>3 DEF Chows
    <2>9. CheckChow(s, t) = Chows(R, t)
      <3> HIDE DEF Here
      <3> QED BY <2>1, <2>7, <2>8
    <2> QED BY <1>3, <1>6, <2>9
  <1> QED BY <1>5, <1>6

(* A chi is offered for each run that the tile makes, and for no other.    *)
LEMMA ChowExact ==
  ASSUME NEW s \in Seq(Kinds), InOrder(s), NEW t \in Kinds
  PROVE  {ToSet(c) : c \in CheckChow(s, t)} = {r \in Runs : t \in r /\ r \subseteq ToSet(s) \cup {t}}
  <1>1. PICK R : R = ToSet(s)
    OBVIOUS
  <1>2. R \subseteq Kinds
    BY <1>1 DEF ToSet
  <1>3. t \in Int /\ t >= 11
    BY KindsAreNumbers
  <1>4. CASE t > 39
    <2>1. CheckChow(s, t) = {}
      BY <1>4, CheckChowIs
    <2>2. ASSUME NEW r \in Runs, t \in r PROVE FALSE
      <3>1. PICK x \in 11 .. 37 : r = {x, x + 1, x + 2}
        BY RunsAre
      <3> QED BY <1>3, <1>4, <2>2, <3>1
    <2> QED BY <2>1, <2>2
  <1>5. CASE ~(t > 39)
    <2>0. CheckChow(s, t) = Chows(R, t)
      BY <1>1, <1>5, CheckChowIs
    <2>1. ASSUME NEW c \in Chows(R, t)
          PROVE  ToSet(c) \in Runs /\ t \in ToSet(c) /\ ToSet(c) \subseteq R \cup {t}
      <3>1. CASE c = <<t - 2, t - 1, t>> /\ t - 2 \in R /\ t - 1 \in R
        <4>1. ToSet(c) = {t - 2, t - 1, t}
          BY <3>1, ToSetOfThree
        <4>2. PICK x \in Kinds : x = t - 2
          BY <1>2, <3>1
        <4>3. x + 1 = t - 1 /\ x + 2 = t /\ x + 1 \in Kinds /\ x + 2 \in Kinds
          BY <1>2, <1>3, <3>1, <4>2
        <4>4. x \in 11 .. 37 /\ x % 10 \in 1 .. 7
          BY <4>3, RunOfKinds
        <4>5. ToSet(c) = {x, x + 1, x + 2}
          BY <4>1, <4>2, <4>3
        <4> QED BY <3>1, <4>1, <4>4, <4>5, RunsAre
      <3>2. CASE c = <<t - 1, t + 1, t>> /\ t - 1 \in R /\ t + 1 \in R
        <4>1. ToSet(c) = {t - 1, t + 1, t}
          BY <3>2, ToSetOfThree
        <4>2. PICK x \in Kinds : x = t - 1
          BY <1>2, <3>2
        <4>3. x + 1 = t /\ x + 2 = t + 1 /\ x + 1 \in Kinds /\ x + 2 \in Kinds
          BY <1>2, <1>3, <3>2, <4>2
        <4>4. x \in 11 .. 37 /\ x % 10 \in 1 .. 7
          BY <4>3, RunOfKinds
        <4>5. ToSet(c) = {x, x + 1, x + 2}
          BY <4>1, <4>2, <4>3
        <4> QED BY <3>2, <4>1, <4>4, <4>5, RunsAre
      <3>3. CASE c = <<t + 1, t + 2, t>> /\ t + 1 \in R /\ t + 2 \in R
        <4>1. ToSet(c) = {t + 1, t + 2, t}
          BY <3>3, ToSetOfThree
        <4>2. t + 1 \in Kinds /\ t + 2 \in Kinds
          BY <1>2, <3>3
        <4>4. t \in 11 .. 37 /\ t % 10 \in 1 .. 7
          BY <4>2, RunOfKinds
        <4>5. ToSet(c) = {t, t + 1, t + 2}
          BY <4>1
        <4> QED BY <3>3, <4>1, <4>4, <4>5, RunsAre
      <3> QED BY <2>1, <3>1, <3>2, <3>3 DEF Chows
    <2>2. ASSUME NEW r \in Runs, t \in r, r \subseteq R \cup {t}
          PROVE  \E c \in Chows(R, t) : r = ToSet(c)
      <3>1. PICK x \in 11 .. 37 : r = {x, x + 1, x + 2}
        BY RunsAre
      <3>2. \A y \in r : y = t \/ y \in R
        BY <2>2
      <3>3. CASE t = x
        <4>1. t + 1 \in R /\ t + 2 \in R
          BY <1>3, <3>1, <3>2, <3>3
        <4>2. <<t + 1, t + 2, t>> \in Chows(R, t)
          BY <4>1 DEF Chows
        <4>3. r = ToSet(<<t + 1, t + 2, t>>)
          BY <3>1, <3>3, ToSetOfThree
        <4> QED BY <4>2, <4>3
      <3>4. CASE t = x + 1
        <4>1. x = t - 1 /\ x + 2 = t + 1
          BY <1>3, <3>4
        <4>2. t - 1 \in R /\ t + 1 \in R
          BY <1>3, <3>1, <3>2, <4>1
        <4>3. <<t - 1, t + 1, t>> \in Chows(R, t)
          BY <4>2 DEF Chows
        <4>4. r = ToSet(<<t - 1, t + 1, t>>)
          BY <3>1, <3>4, <4>1, ToSetOfThree
        <4> QED BY <4>3, <4>4
      <3>5. CASE t = x + 2
        <4>1. x = t - 2 /\ x + 1 = t - 1
          BY <1>3, <3>5
        <4>2. t - 2 \in R /\ t - 1 \in R
          BY <1>3, <3>1, <3>2, <4>1
        <4>3. <<t - 2, t - 1, t>> \in Chows(R, t)
          BY <4>2 DEF Chows
        <4>4. r = ToSet(<<t - 2, t - 1, t>>)
          BY <3>1, <3>5, <4>1, ToSetOfThree
        <4> QED BY <4>3, <4>4
      <3> QED BY <2>2, <3>1, <3>3, <3>4, <3>5
    <2> QED BY <1>1, <2>0, <2>1, <2>2
  <1> QED BY <1>4, <1>5

-----------------------------------------------------------------------------
(* The places has_tile has found, position after position.                 *)
FoundNext(s, ts, j, q) ==
  IF Len(q) < Len(ts) /\ s[j] = ts[Len(q) + 1] THEN Append(q, j) ELSE q
FoundFollows(s, ts, at) ==
  at[0] = <<>> /\ \A j \in 1 .. Len(s) : at[j] = FoundNext(s, ts, j, at[j - 1])

LEMMA HasTilesFollows ==
  ASSUME NEW s, NEW ts, Len(s) \in Nat
  PROVE  \E at : FoundFollows(s, ts, at) /\ HasTiles(s, ts) = at[Len(s)]
  <1>1. PICK n \in Nat : n = Len(s)
    OBVIOUS
  <1> DEFINE z == <<>>
             From(g, j) == LET before == g[j - 1]
                           IN  IF Len(before) < Len(ts) /\ s[j] = ts[Len(before) + 1]
                               THEN Append(before, j) ELSE before
             Is(i, g) == g = [j \in 0..i |-> IF j = 0 THEN z ELSE From(g, j)]
             put == CHOOSE g : Is(n, g)
  <1>2. HasTiles(s, ts) = put[n]
    BY <1>1 DEF HasTiles
  <1> HIDE DEF z
  <1>3. \E g : Is(n, g)
    <2> DEFINE G == {i \in 0..n : \E g : Is(i, g)}
    <2>1. 0 \in G
      <3>1. Is(0, [j \in 0..0 |-> z])
        OBVIOUS
      <3>2. 0 \in 0..n
        OBVIOUS
      <3> HIDE DEF Is
      <3> QED BY <3>1, <3>2
    <2>2. ASSUME NEW i \in 1..n, i - 1 \in G PROVE i \in G
      <3>1. PICK g : Is(i - 1, g)
        BY <2>2
      <3>2. PICK last : last = From(g, i)
        OBVIOUS
      <3> DEFINE h == [j \in 0..i |-> IF j = i THEN last ELSE g[j]]
      <3>3. h[i] = last /\ (\A j \in 0..i-1 : h[j] = g[j]) /\ i # 0
        OBVIOUS
      <3>4. DOMAIN h = 0..i /\ h = [j \in 0..i |-> h[j]]
        OBVIOUS
      <3> HIDE DEF h
      <3>5. \A j \in 0..i : h[j] = IF j = 0 THEN z ELSE From(h, j)
        <4> TAKE j \in 0..i
        <4>1. \A y \in 0..i-1 : g[y] = IF y = 0 THEN z ELSE From(g, y)
          BY <3>1
        <4>2. CASE j = i
          <5>1. i - 1 \in 0..i-1
            OBVIOUS
          <5>2. From(h, i) = From(g, i)
            BY <3>3, <5>1
          <5> QED BY <3>2, <3>3, <4>2, <5>2
        <4>3. CASE j = 0
          <5>1. 0 \in 0..i-1
            OBVIOUS
          <5> QED BY <3>3, <4>1, <4>3, <5>1
        <4>4. CASE j # i /\ j # 0
          <5>1. j \in 0..i-1 /\ j - 1 \in 0..i-1
            BY <4>4
          <5>2. From(h, j) = From(g, j)
            BY <3>3, <5>1
          <5> HIDE DEF From
          <5> QED BY <3>3, <4>1, <4>4, <5>1, <5>2
        <4> QED BY <4>2, <4>3, <4>4
      <3>6. Is(i, h)
        <4> HIDE DEF From
        <4> QED BY <3>4, <3>5
      <3> HIDE DEF Is
      <3> QED BY <3>6
    <2>3. \A i \in 0..n : i \in G
      <3> HIDE DEF G
      <3> QED BY <2>1, <2>2, UpTo
    <2>4. n \in 0..n
      OBVIOUS
    <2> HIDE DEF Is
    <2> QED BY <2>3, <2>4
  <1>4. Is(n, put)
    <2> HIDE DEF Is
    <2> QED BY <1>3
  <1> HIDE DEF put
  <1>5. put[0] = z /\ \A j \in 1..n : put[j] = From(put, j)
    <2>1. \A j \in 0..n : put[j] = IF j = 0 THEN z ELSE From(put, j)
      <3> HIDE DEF From
      <3> QED BY <1>4
    <2>2. 0 \in 0..n /\ \A j \in 1..n : j \in 0..n /\ j # 0
      OBVIOUS
    <2> HIDE DEF From
    <2> QED BY <2>1, <2>2
  <1> HIDE DEF Is
  <1> QED BY <1>1, <1>2, <1>5 DEF z, FoundFollows, FoundNext

(* They hold the first tiles of the list, in its order.                    *)
Found(s, ts, n, q) ==
  /\ q \in Seq(Nat) /\ Len(q) <= Len(ts)
  /\ \A a \in DOMAIN q : q[a] \in 1 .. n /\ s[q[a]] = ts[a]
  /\ \A a, b \in DOMAIN q : a < b => q[a] < q[b]

LEMMA FoundStep ==
  ASSUME NEW s, NEW S, NEW ts \in Seq(S), NEW j \in Nat \ {0}, NEW q, Found(s, ts, j - 1, q)
  PROVE  Found(s, ts, j, FoundNext(s, ts, j, q))
  <1>1. q \in Seq(Nat) /\ Len(q) <= Len(ts) /\ Len(q) \in Nat /\ Len(ts) \in Nat /\ DOMAIN q = 1 .. Len(q)
    BY DEF Found
  <1>2. \A a \in DOMAIN q : q[a] \in 1 .. j - 1 /\ s[q[a]] = ts[a]
    BY DEF Found
  <1>3. \A a, b \in DOMAIN q : a < b => q[a] < q[b]
    BY DEF Found
  <1>4. CASE Len(q) < Len(ts) /\ s[j] = ts[Len(q) + 1]
    <2>1. PICK w : w = Append(q, j)
      OBVIOUS
    <2>2. /\ w \in Seq(Nat) /\ Len(w) = Len(q) + 1 /\ DOMAIN w = 1 .. Len(q) + 1 /\ w[Len(q) + 1] = j
          /\ \A a \in 1 .. Len(q) : w[a] = q[a]
      BY <1>1, <2>1
    <2>3. \A a \in DOMAIN w : w[a] \in 1 .. j /\ s[w[a]] = ts[a]
      <3> TAKE a \in DOMAIN w
      <3>1. CASE a = Len(q) + 1
        BY <1>4, <2>2, <3>1
      <3>2. CASE a # Len(q) + 1
        <4>1. a \in DOMAIN q /\ w[a] = q[a]
          BY <1>1, <2>2, <3>2
        <4> QED BY <1>2, <4>1
      <3> QED BY <3>1, <3>2
    <2>4. \A a, b \in DOMAIN w : a < b => w[a] < w[b]
      <3> SUFFICES ASSUME NEW a \in DOMAIN w, NEW b \in DOMAIN w, a < b PROVE w[a] < w[b]
        OBVIOUS
      <3>1. a \in DOMAIN q /\ w[a] = q[a]
        BY <1>1, <2>2
      <3>2. CASE b = Len(q) + 1
        BY <1>2, <2>2, <3>1, <3>2
      <3>3. CASE b # Len(q) + 1
        <4>1. b \in DOMAIN q /\ w[b] = q[b]
          BY <1>1, <2>2, <3>3
        <4> QED BY <1>3, <3>1, <4>1
      <3> QED BY <3>2, <3>3
    <2>5. Found(s, ts, j, w)
      BY <1>1, <1>4, <2>2, <2>3, <2>4 DEF Found
    <2> QED BY <1>4, <2>1, <2>5 DEF FoundNext
  <1>5. CASE ~(Len(q) < Len(ts) /\ s[j] = ts[Len(q) + 1])
    <2>1. \A a \in DOMAIN q : q[a] \in 1 .. j /\ s[q[a]] = ts[a]
      BY <1>2
    <2>2. Found(s, ts, j, q)
      BY <1>1, <1>3, <2>1 DEF Found
    <2> QED BY <1>5, <2>2 DEF FoundNext
  <1> QED BY <1>4, <1>5

LEMMA FoundRight ==
  ASSUME NEW S, NEW s \in Seq(S), NEW ts \in Seq(S), NEW at, FoundFollows(s, ts, at)
  PROVE  \A j \in 0 .. Len(s) : Found(s, ts, j, at[j])
  <1>1. PICK n \in Nat : n = Len(s)
    OBVIOUS
  <1> DEFINE G == {j \in 0 .. n : Found(s, ts, j, at[j])}
  <1>2. 0 \in G
    <2>1. at[0] = <<>>
      BY DEF FoundFollows
    <2>2. Found(s, ts, 0, <<>>)
      <3>1. Len(ts) \in Nat
        OBVIOUS
      <3> QED BY <3>1 DEF Found
    <2> QED BY <2>1, <2>2
  <1>3. ASSUME NEW j \in 1 .. n, j - 1 \in G PROVE j \in G
    <2>1. PICK q : q = at[j - 1]
      OBVIOUS
    <2>2. Found(s, ts, j - 1, q) /\ j \in Nat \ {0}
      BY <1>3, <2>1
    <2>3. Found(s, ts, j, FoundNext(s, ts, j, q))
      BY <2>2, FoundStep
    <2>4. at[j] = FoundNext(s, ts, j, q)
      BY <1>1, <2>1 DEF FoundFollows
    <2>5. Found(s, ts, j, at[j]) /\ j \in 0 .. n
      BY <2>3, <2>4
    <2> QED BY <2>5
  <1>4. \A j \in 0 .. n : j \in G
    <2> HIDE DEF G
    <2> QED BY <1>2, <1>3, UpTo
  <1> QED BY <1>1, <1>4

(* Enough tiles of one kind are found.                                     *)
LEMMA FindsCopies ==
  ASSUME NEW s \in Seq(Kinds), NEW t \in Kinds, NEW ts \in Seq(Kinds), \A a \in DOMAIN ts : ts[a] = t,
         CountOf(s, t) >= Len(ts)
  PROVE  Len(HasTiles(s, ts)) = Len(ts)
  <1>1. PICK at : FoundFollows(s, ts, at) /\ HasTiles(s, ts) = at[Len(s)]
    <2>1. Len(s) \in Nat
      OBVIOUS
    <2> QED BY <2>1, HasTilesFollows
  <1>2. PICK n \in Nat : n = Len(s)
    OBVIOUS
  <1>3. PICK m \in Nat : m = Len(ts)
    OBVIOUS
  <1>4. \A j \in 0 .. n : Found(s, ts, j, at[j])
    BY <1>1, <1>2, FoundRight
  <1> DEFINE G == {j \in 0 .. n : Len(at[j]) = m \/ Len(at[j]) >= Among(s, j, t)}
  <1>5. 0 \in G
    <2>1. at[0] = <<>>
      BY <1>1 DEF FoundFollows
    <2>2. Among(s, 0, t) = 0 /\ Len(<<>>) = 0
      BY AmongStep
    <2> QED BY <2>1, <2>2
  <1>6. ASSUME NEW j \in 1 .. n, j - 1 \in G PROVE j \in G
    <2>1. PICK q : q = at[j - 1]
      OBVIOUS
    <2>2. j - 1 \in 0 .. n /\ j \in 0 .. n /\ j \in Nat /\ j > 0
      OBVIOUS
    <2>3. q \in Seq(Nat) /\ Len(q) <= m
      BY <1>3, <1>4, <2>1, <2>2 DEF Found
    <2>4. at[j] = FoundNext(s, ts, j, q)
      BY <1>1, <1>2, <2>1 DEF FoundFollows
    <2>5. Among(s, j, t) = Among(s, j - 1, t) + One(s[j], t)
      BY <2>2, AmongStep
    <2>6. Among(s, j - 1, t) \in Nat
      <3>1. j - 1 \in Nat
        BY <2>2
      <3> QED BY <3>1, AmongStep
    <2>7. Len(q) \in Nat /\ Len(Append(q, j)) = Len(q) + 1
      BY <2>2, <2>3
    <2>8. Len(q) = m \/ Len(q) >= Among(s, j - 1, t)
      BY <1>6, <2>1
    <2>9. CASE Len(q) = m
      <3>1. at[j] = q
        BY <1>3, <2>4, <2>9 DEF FoundNext
      <3> QED BY <2>2, <2>9, <3>1
    <2>10. CASE Len(q) # m /\ s[j] = t
      <3>1. Len(q) + 1 \in DOMAIN ts
        BY <1>3, <2>3, <2>7, <2>10
      <3>2. at[j] = Append(q, j)
        BY <1>3, <2>3, <2>4, <2>7, <2>10, <3>1 DEF FoundNext
      <3>3. Len(at[j]) >= Among(s, j, t)
        BY <2>5, <2>6, <2>7, <2>8, <2>10, <3>2 DEF One
      <3> QED BY <2>2, <3>3
    <2>11. CASE Len(q) # m /\ s[j] # t
      <3>1. Len(q) + 1 \in DOMAIN ts
        BY <1>3, <2>3, <2>7, <2>11
      <3>2. at[j] = q
        BY <2>4, <2>11, <3>1 DEF FoundNext
      <3>3. Len(at[j]) >= Among(s, j, t)
        BY <2>5, <2>6, <2>7, <2>8, <2>11, <3>2 DEF One
      <3> QED BY <2>2, <3>3
    <2> QED BY <2>9, <2>10, <2>11
  <1>7. n \in 0 .. n /\ \A j \in 0 .. n : j \in G
    <2> HIDE DEF G
    <2>1. \A j \in 1 .. n : j - 1 \in G => j \in G
      BY <1>6
    <2>2. \A j \in 0 .. n : j \in G
      BY <1>5, <2>1, UpTo
    <2> QED BY <2>2
  <1>8. PICK q : q = at[n]
    OBVIOUS
  <1>9. Len(q) = m \/ Len(q) >= Among(s, n, t)
    BY <1>7, <1>8
  <1>10. Among(s, n, t) >= m /\ Among(s, n, t) \in Nat
    BY <1>2, <1>3, CountIsAmong
  <1>11. q \in Seq(Nat) /\ Len(q) <= m
    BY <1>3, <1>4, <1>7, <1>8 DEF Found
  <1>12. Len(q) = m
    <2>1. Len(q) \in Nat
      BY <1>11
    <2> QED BY <1>9, <1>10, <1>11, <2>1
  <1> QED BY <1>1, <1>2, <1>3, <1>8, <1>12

(* Two tiles are found if the second comes later.                          *)
LEMMA FindsTwo ==
  ASSUME NEW s \in Seq(Kinds), NEW ts \in Seq(Kinds), Len(ts) = 2,
         NEW x \in DOMAIN s, NEW y \in DOMAIN s, x < y, s[x] = ts[1], s[y] = ts[2]
  PROVE  Len(HasTiles(s, ts)) = 2
  <1>1. PICK at : FoundFollows(s, ts, at) /\ HasTiles(s, ts) = at[Len(s)]
    <2>1. Len(s) \in Nat
      OBVIOUS
    <2> QED BY <2>1, HasTilesFollows
  <1>2. PICK n \in Nat : n = Len(s)
    OBVIOUS
  <1>3. x \in 1 .. n /\ y \in 1 .. n
    BY <1>2
  <1>4. \A j \in 0 .. n : Found(s, ts, j, at[j])
    BY <1>1, <1>2, FoundRight
  <1> DEFINE G == {j \in 0 .. n : (j >= x => Len(at[j]) >= 1) /\ (j >= y => Len(at[j]) = 2)}
  <1>5. 0 \in G
    BY <1>3
  <1>6. ASSUME NEW j \in 1 .. n, j - 1 \in G PROVE j \in G
    <2>1. PICK q : q = at[j - 1]
      OBVIOUS
    <2>2. j - 1 \in 0 .. n /\ j \in 0 .. n /\ j \in Nat /\ j > 0
      OBVIOUS
    <2>3. q \in Seq(Nat) /\ Len(q) <= 2
      BY <1>4, <2>1, <2>2 DEF Found
    <2>4. at[j] = FoundNext(s, ts, j, q)
      BY <1>1, <1>2, <2>1 DEF FoundFollows
    <2>5. Len(q) \in Nat /\ Len(Append(q, j)) = Len(q) + 1
      BY <2>2, <2>3
    <2>6. (j - 1 >= x => Len(q) >= 1) /\ (j - 1 >= y => Len(q) = 2)
      BY <1>6, <2>1
    <2>7. PICK w : w = at[j]
      OBVIOUS
    <2>8. Len(w) = Len(q) \/ Len(w) = Len(q) + 1
      BY <2>4, <2>5, <2>7 DEF FoundNext
    <2>9. Len(w) <= 2 /\ Len(w) \in Nat
      BY <2>3, <2>4, <2>5, <2>7 DEF FoundNext
    <2>12. j = x /\ Len(q) = 0 => Len(w) = Len(q) + 1
      BY <2>4, <2>5, <2>7 DEF FoundNext
    <2>13. j = y /\ Len(q) = 1 => Len(w) = Len(q) + 1
      BY <2>4, <2>5, <2>7 DEF FoundNext
    <2>14. PICK lq : lq = Len(q)
      OBVIOUS
    <2>15. PICK lw : lw = Len(w)
      OBVIOUS
    <2>16. /\ lq \in Nat /\ lq <= 2 /\ lw \in Nat /\ lw <= 2 /\ (lw = lq \/ lw = lq + 1)
           /\ (j - 1 >= x => lq >= 1) /\ (j - 1 >= y => lq = 2)
           /\ (j = x /\ lq = 0 => lw = lq + 1) /\ (j = y /\ lq = 1 => lw = lq + 1)
      BY <2>3, <2>5, <2>6, <2>8, <2>9, <2>12, <2>13, <2>14, <2>15
    <2>17. x \in Nat /\ y \in Nat /\ x < y /\ j \in Nat
      BY <1>3, <2>2
    <2>10. j >= x => lw >= 1
      <3>1. j >= x => j = x \/ j - 1 >= x
        BY <2>17
      <3> QED BY <2>16, <3>1
    <2>11. j >= y => lw = 2
      <3>1. j >= y => j = y \/ j - 1 >= y
        BY <2>17
      <3>2. j = y => j - 1 >= x
        BY <2>17
      <3> QED BY <2>16, <3>1, <3>2
    <2> QED BY <2>2, <2>7, <2>10, <2>11, <2>15
  <1>7. n \in 0 .. n /\ \A j \in 0 .. n : j \in G
    <2> HIDE DEF G
    <2>1. \A j \in 1 .. n : j - 1 \in G => j \in G
      BY <1>6
    <2>2. \A j \in 0 .. n : j \in G
      BY <1>5, <2>1, UpTo
    <2> QED BY <2>2
  <1> QED BY <1>1, <1>2, <1>3, <1>7

LEMMA SequenceOfFunction ==
  ASSUME NEW S, NEW n \in Nat, NEW q \in [1 .. n -> S]
  PROVE  q \in Seq(S) /\ Len(q) = n
  OBVIOUS

(* What has_tile finds are as many places as the list is long, and those   *)
(* tiles.                                                                  *)
LEMMA FoundTiles ==
  ASSUME NEW s \in Seq(Kinds), NEW ts \in Seq(Kinds), Len(HasTiles(s, ts)) = Len(ts)
  PROVE  /\ Cardinality(ToSet(HasTiles(s, ts))) = Len(ts)
         /\ {s[i] : i \in ToSet(HasTiles(s, ts))} = ToSet(ts)
  <1>1. PICK at : FoundFollows(s, ts, at) /\ HasTiles(s, ts) = at[Len(s)]
    <2>1. Len(s) \in Nat
      OBVIOUS
    <2> QED BY <2>1, HasTilesFollows
  <1>2. PICK q : q = HasTiles(s, ts)
    OBVIOUS
  <1>3. Found(s, ts, Len(s), q)
    <2>1. Len(s) \in 0 .. Len(s)
      OBVIOUS
    <2> QED BY <1>1, <1>2, <2>1, FoundRight
  <1>4. PICK m \in Nat : m = Len(ts) /\ DOMAIN ts = 1 .. m
    OBVIOUS
  <1>5. q \in Seq(Nat) /\ Len(q) = m /\ DOMAIN q = 1 .. m
    BY <1>2, <1>3, <1>4 DEF Found
  <1>6. PICK Q : Q = ToSet(q)
    OBVIOUS
  <1>7. \A x : x \in Q <=> \E a \in 1 .. m : q[a] = x
    BY <1>5, <1>6 DEF ToSet
  <1>8. \A a \in 1 .. m : s[q[a]] = ts[a]
    BY <1>3, <1>5 DEF Found
  <1>9. \A a, b \in 1 .. m : a < b => q[a] < q[b]
    BY <1>3, <1>5 DEF Found
  <1>10. Cardinality(Q) = m
    <2>1. q \in [1 .. m -> Q]
      BY <1>5, <1>7
    <2>2. \A a, b \in 1 .. m : q[a] = q[b] => a = b
      <3> SUFFICES ASSUME NEW a \in 1 .. m, NEW b \in 1 .. m, q[a] = q[b] PROVE a = b
        OBVIOUS
      <3>1. q[a] \in Nat /\ q[b] \in Nat
        BY <1>5
      <3> QED BY <1>9, <3>1
    <2>3. q \in Injection(1 .. m, Q) /\ q \in Surjection(1 .. m, Q)
      BY <1>7, <2>1, <2>2 DEF Injection, IsInjective, Surjection
    <2>4. ExistsBijection(1 .. m, Q)
      BY <2>3 DEF ExistsBijection, Bijection
    <2>5. IsFiniteSet(1 .. m) /\ Cardinality(1 .. m) = m
      <3>1. 1 \in Int /\ m \in Int /\ m >= 0
        BY <1>4
      <3>2. IsFiniteSet(1 .. m) /\ Cardinality(1 .. m) = IF 1 > m THEN 0 ELSE m - 1 + 1
        BY <3>1, FS_Interval
      <3> QED BY <3>1, <3>2
    <2> QED BY <2>4, <2>5, FS_Bijection
  <1>11. {s[i] : i \in Q} = ToSet(ts)
    <2>1. \A x : x \in {s[i] : i \in Q} <=> \E a \in 1 .. m : s[q[a]] = x
      BY <1>7
    <2>2. \A x : x \in ToSet(ts) <=> \E a \in 1 .. m : ts[a] = x
      BY <1>4 DEF ToSet
    <2>3. \A x : x \in {s[i] : i \in Q} <=> x \in ToSet(ts)
      BY <1>8, <2>1, <2>2
    <2> QED BY <2>3
  <1> QED BY <1>2, <1>4, <1>6, <1>10, <1>11

(* What an offer cuts out of the hand when it is claimed.                  *)
TakenFor(s, t, o) ==
  LET cut == {s[i] : i \in MovedToHold(s, o.cards, o.cnt, t)}
  IN  /\ Cardinality(MovedToHold(s, o.cards, o.cnt, t)) = o.cnt - 1
      /\ cut = IF o.opttype = "chi" THEN ToSet(o.cards) \ {t} ELSE {t}

LEMMA CopiesTaken ==
  ASSUME NEW s \in Seq(Kinds), NEW t \in Kinds, NEW n \in {3, 4}, CountOf(s, t) >= n - 1
  PROVE  /\ Cardinality(MovedToHold(s, <<t>>, n, t)) = n - 1
         /\ {s[i] : i \in MovedToHold(s, <<t>>, n, t)} = {t}
  <1>1. PICK a : a = <<t>>
    OBVIOUS
  <1>2. PICK b : b = [i \in 1 .. n - 2 |-> t]
    OBVIOUS
  <1>3. a \in Seq(Kinds) /\ Len(a) = 1 /\ a[1] = t
    BY <1>1
  <1>4. b \in Seq(Kinds) /\ Len(b) = n - 2 /\ \A i \in 1 .. n - 2 : b[i] = t
    BY <1>2
  <1>5. PICK own : own = a \o b
    OBVIOUS
  <1>6. own \in Seq(Kinds) /\ Len(own) = n - 1 /\ \A i \in DOMAIN own : own[i] = t
    <2>0. a \in Seq(Kinds) /\ b \in Seq(Kinds)
      BY <1>3, <1>4
    <2>1. own \in Seq(Kinds) /\ Len(own) = Len(a) + Len(b)
      BY <1>5, <2>0
    <2>7. /\ \A i \in 1 .. Len(a) : own[i] = a[i]
          /\ \A i \in Len(a) + 1 .. Len(a) + Len(b) : own[i] = b[i - Len(a)]
      BY <1>5, <2>0
    <2>2. Len(own) = n - 1
      BY <1>3, <1>4, <2>1
    <2>3. DOMAIN own = 1 .. n - 1
      BY <2>1, <2>2
    <2>4. own[1] = t
      BY <1>3, <2>7
    <2>5. ASSUME NEW i \in 2 .. n - 1 PROVE own[i] = t
      <3>1. own[i] = b[i - 1]
        BY <1>3, <1>4, <2>7
      <3>2. i - 1 \in 1 .. n - 2
        OBVIOUS
      <3> QED BY <1>4, <3>1, <3>2
    <2>6. \A i \in 1 .. n - 1 : i = 1 \/ i \in 2 .. n - 1
      OBVIOUS
    <2> QED BY <2>1, <2>2, <2>3, <2>4, <2>5, <2>6
  <1>7. PICK q : q = HasTiles(s, own)
    OBVIOUS
  <1>8. Len(q) = n - 1
    BY <1>6, <1>7, FindsCopies
  <1>9. Cardinality(ToSet(q)) = n - 1 /\ {s[i] : i \in ToSet(q)} = ToSet(own)
    BY <1>6, <1>7, <1>8, FoundTiles
  <1>10. ToSet(own) = {t}
    <2>1. 1 \in DOMAIN own
      BY <1>6
    <2> QED BY <1>6, <2>1 DEF ToSet
  <1>11. MovedToHold(s, <<t>>, n, t) = ToSet(q)
    <2>1. MovedToHold(s, a, n, t) = IF Len(q) = n - 1 THEN ToSet(q) ELSE {}
      BY <1>2, <1>3, <1>5, <1>7 DEF MovedToHold
    <2> QED BY <1>1, <1>8, <2>1
  <1> QED BY <1>9, <1>10, <1>11

LEMMA RunTaken ==
  ASSUME NEW s \in Seq(Kinds), InOrder(s), NEW t \in Kinds, NEW a \in ToSet(s), NEW b \in ToSet(s),
         a < b, a # t, b # t
  PROVE  /\ Cardinality(MovedToHold(s, <<a, b, t>>, 3, t)) = 2
         /\ {s[i] : i \in MovedToHold(s, <<a, b, t>>, 3, t)} = {a, b}
  <1>1. PICK x \in DOMAIN s : s[x] = a
    BY DEF ToSet
  <1>2. PICK y \in DOMAIN s : s[y] = b
    BY DEF ToSet
  <1>3. a \in Kinds /\ b \in Kinds
    BY <1>1, <1>2
  <1>4. x < y
    <2>1. x \in Nat /\ y \in Nat /\ a \in Int /\ b \in Int
      BY <1>3, KindsAreNumbers
    <2>2. y <= x => b <= a
      BY <1>1, <1>2 DEF InOrder
    <2> QED BY <2>1, <2>2
  <1>5. PICK c : c = <<a, b, t>>
    OBVIOUS
  <1>6. c \in Seq(Kinds) /\ Len(c) = 3 /\ c[1] = a /\ c[2] = b /\ c[3] = t /\ DOMAIN c = 1 .. 3
    BY <1>3, <1>5
  <1>7. (CHOOSE i \in DOMAIN c : c[i] = t) = 3
    <2>1. \A i \in DOMAIN c : c[i] = t <=> i = 3
      BY <1>6
    <2>2. 3 \in DOMAIN c
      BY <1>6
    <2> QED BY <2>1, <2>2
  <1>8. PICK own : own = RemoveAt(c, 3)
    OBVIOUS
  <1>9. own \in Seq(Kinds) /\ Len(own) = 2 /\ own[1] = a /\ own[2] = b
    <2>1. PICK u : u = SubSeq(c, 1, 2)
      OBVIOUS
    <2>0. c \in Seq(Kinds) /\ Len(c) = 3
      BY <1>6
    <2>6. u \in Seq(Kinds) /\ Len(u) = 2 /\ u[1] = c[1] /\ u[2] = c[2]
      <3>1. u = [i \in 1 .. 2 |-> c[i]]
        BY <2>0, <2>1
      <3>2. \A i \in 1 .. 2 : c[i] \in Kinds
        <4>1. c[1] \in Kinds /\ c[2] \in Kinds
          BY <1>3, <1>6
        <4>2. \A i \in 1 .. 2 : i = 1 \/ i = 2
          OBVIOUS
        <4> QED BY <4>1, <4>2
      <3>3. u \in [1 .. 2 -> Kinds] /\ u[1] = c[1] /\ u[2] = c[2]
        BY <3>1, <3>2
      <3>4. u \in Seq(Kinds) /\ Len(u) = 2
        BY <3>3, SequenceOfFunction
      <3> QED BY <3>3, <3>4
    <2>2. u \in Seq(Kinds) /\ Len(u) = 2 /\ u[1] = a /\ u[2] = b
      BY <1>6, <2>6
    <2>3. PICK v : v = SubSeq(c, 4, 3)
      OBVIOUS
    <2>4. v = <<>>
      BY <2>0, <2>3
    <2>5. own = u \o v
      BY <1>6, <1>8, <2>1, <2>3 DEF RemoveAt
    <2>7. own = u
      BY <2>4, <2>5, <2>6
    <2> QED BY <2>2, <2>7
  <1>10. PICK q : q = HasTiles(s, own)
    OBVIOUS
  <1>11. Len(q) = 2
    BY <1>1, <1>2, <1>4, <1>9, <1>10, FindsTwo
  <1>12. Cardinality(ToSet(q)) = 2 /\ {s[i] : i \in ToSet(q)} = ToSet(own)
    BY <1>9, <1>10, <1>11, FoundTiles
  <1>13. ToSet(own) = {a, b}
    <2>1. DOMAIN own = {1, 2}
      BY <1>9
    <2> QED BY <1>9, <2>1 DEF ToSet
  <1>14. MovedToHold(s, c, 3, t) = ToSet(q)
    <2>1. MovedToHold(s, c, 3, t) = IF Len(q) = 3 - 1 THEN ToSet(q) ELSE {}
      BY <1>6, <1>7, <1>8, <1>10 DEF MovedToHold
    <2> QED BY <1>11, <2>1
  <1> QED BY <1>5, <1>12, <1>13, <1>14

LEMMA OffersCanBeTaken ==
  ASSUME NEW s \in Seq(Kinds), InOrder(s), NEW t \in Kinds,
         NEW o \in Offers(s, t, TRUE), o.opttype # "win"
  PROVE  TakenFor(s, t, o)
  <1>1. \/ o = [opttype |-> "gang", cards |-> <<t>>, cnt |-> 4] /\ CheckKong(s, t)
        \/ o = [opttype |-> "peng", cards |-> <<t>>, cnt |-> 3] /\ CheckPung(s, t)
        \/ \E c \in CheckChow(s, t) : o = [opttype |-> "chi", cards |-> c, cnt |-> 3]
    BY DEF Offers
  <1>2. CASE o = [opttype |-> "gang", cards |-> <<t>>, cnt |-> 4] /\ CheckKong(s, t)
    <2>1. CountOf(s, t) >= 4 - 1
      BY <1>2, PungAndKongExact
    <2>2. /\ Cardinality(MovedToHold(s, <<t>>, 4, t)) = 4 - 1
          /\ {s[i] : i \in MovedToHold(s, <<t>>, 4, t)} = {t}
      BY <2>1, CopiesTaken
    <2>3. o.opttype = "gang" /\ o.cards = <<t>> /\ o.cnt = 4
      BY <1>2
    <2> QED BY <2>2, <2>3 DEF TakenFor
  <1>3. CASE o = [opttype |-> "peng", cards |-> <<t>>, cnt |-> 3] /\ CheckPung(s, t)
    <2>1. CountOf(s, t) >= 3 - 1
      BY <1>3, PungAndKongExact
    <2>2. /\ Cardinality(MovedToHold(s, <<t>>, 3, t)) = 3 - 1
          /\ {s[i] : i \in MovedToHold(s, <<t>>, 3, t)} = {t}
      BY <2>1, CopiesTaken
    <2>3. o.opttype = "peng" /\ o.cards = <<t>> /\ o.cnt = 3
      BY <1>3
    <2> QED BY <2>2, <2>3 DEF TakenFor
  <1>4. ASSUME NEW c \in CheckChow(s, t), o = [opttype |-> "chi", cards |-> c, cnt |-> 3]
        PROVE  TakenFor(s, t, o)
    <2>1. c \in Chows(ToSet(s), t)
      BY CheckChowIs
    <2>2. t \in Int
      BY KindsAreNumbers
    <2>3. PICK a \in ToSet(s), b \in ToSet(s) : c = <<a, b, t>> /\ a < b /\ a # t /\ b # t
      BY <2>1, <2>2 DEF Chows
    <2>4. /\ Cardinality(MovedToHold(s, c, 3, t)) = 2
          /\ {s[i] : i \in MovedToHold(s, c, 3, t)} = {a, b}
      BY <2>3, RunTaken
    <2>5. ToSet(c) \ {t} = {a, b}
      BY <2>3, ToSetOfThree
    <2>6. o.opttype = "chi" /\ o.cards = c /\ o.cnt = 3
      BY <1>4
    <2>7. PICK M : M = MovedToHold(s, c, 3, t)
      OBVIOUS
    <2>8. MovedToHold(s, o.cards, o.cnt, t) = M /\ o.cnt - 1 = 2
      BY <2>6, <2>7
    <2>9. Cardinality(M) = 2 /\ {s[i] : i \in M} = {a, b}
      BY <2>4, <2>7
    <2> QED BY <2>5, <2>6, <2>8, <2>9 DEF TakenFor
  <1> QED BY <1>1, <1>2, <1>3, <1>4

(* The claims offered are those the hand allows, and can be taken from it. *)
LEMMA ClaimsAreExact == HandInv => ClaimsExact
  <1> SUFFICES ASSUME HandInv, phase # "over", NEW t \in Tiles
               PROVE  /\ CheckPung(hand, t) <=> CountOf(hand, t) >= 2
                      /\ CheckKong(hand, t) <=> CountOf(hand, t) >= 3
                      /\ {ToSet(c) : c \in CheckChow(hand, t)}
                           = {r \in Runs : t \in r /\ r \subseteq ToSet(hand) \cup {t}}
                      /\ \A o \in {x \in Offers(hand, t, TRUE) : x.opttype # "win"} : TakenFor(hand, t, o)
    BY DEF ClaimsExact, TakenFor
  <1>1. hand \in Seq(Kinds) /\ InOrder(hand) /\ t \in Kinds
    BY TilesAssumption DEF HandInv, HandOrdered
  <1> QED BY <1>1, PungAndKongExact, ChowExact, OffersCanBeTaken

-----------------------------------------------------------------------------
(* What the search finds with one more meld to find: some triplet, or some *)
(* run, is there, and the rest is found.                                   *)
DfsNext(K, q) ==
  {c \in [K -> Nat] : \E t \in K : \/ c[t] >= 3 /\ [c EXCEPT ![t] = @ - 3] \in q
                                   \/ HasRun(c, t) /\ Less(c, t .. t + 2) \in q}
DfsFollows(K, n, at) == at[0] = [K -> Nat] /\ \A m \in 1 .. n : at[m] = DfsNext(K, at[m - 1])

LEMMA DfsIsFollowed ==
  ASSUME NEW counts, NEW len, len \in Nat
  PROVE  \E at : DfsFollows(DOMAIN counts, len, at) /\ (Dfs(len, counts) <=> counts \in at[len])
  <1>1. PICK n \in Nat : n = len
    OBVIOUS
  <1> DEFINE z == [DOMAIN counts -> Nat]
             From(g, m) == DfsNext(DOMAIN counts, g[m - 1])
             Is(i, g) == g = [j \in 0..i |-> IF j = 0 THEN z ELSE From(g, j)]
             put == CHOOSE g : Is(n, g)
  <1>2. Dfs(n, counts) <=> counts \in put[n]
    BY <1>1 DEF Dfs, DfsNext
  <1> HIDE DEF z
  <1>3. \E g : Is(n, g)
    <2> DEFINE G == {i \in 0..n : \E g : Is(i, g)}
    <2>1. 0 \in G
      <3>1. Is(0, [j \in 0..0 |-> z])
        OBVIOUS
      <3>2. 0 \in 0..n
        OBVIOUS
      <3> HIDE DEF Is
      <3> QED BY <3>1, <3>2
    <2>2. ASSUME NEW i \in 1..n, i - 1 \in G PROVE i \in G
      <3>1. PICK g : Is(i - 1, g)
        BY <2>2
      <3>2. PICK last : last = From(g, i)
        OBVIOUS
      <3> DEFINE h == [j \in 0..i |-> IF j = i THEN last ELSE g[j]]
      <3>3. h[i] = last /\ (\A j \in 0..i-1 : h[j] = g[j]) /\ i # 0
        OBVIOUS
      <3>4. DOMAIN h = 0..i /\ h = [j \in 0..i |-> h[j]]
        OBVIOUS
      <3> HIDE DEF h
      <3>5. \A j \in 0..i : h[j] = IF j = 0 THEN z ELSE From(h, j)
        <4> TAKE j \in 0..i
        <4>1. \A y \in 0..i-1 : g[y] = IF y = 0 THEN z ELSE From(g, y)
          BY <3>1
        <4>2. CASE j = i
          <5>1. i - 1 \in 0..i-1
            OBVIOUS
          <5>2. From(h, i) = From(g, i)
            BY <3>3, <5>1
          <5> QED BY <3>2, <3>3, <4>2, <5>2
        <4>3. CASE j = 0
          <5>1. 0 \in 0..i-1
            OBVIOUS
          <5> QED BY <3>3, <4>1, <4>3, <5>1
        <4>4. CASE j # i /\ j # 0
          <5>1. j \in 0..i-1 /\ j - 1 \in 0..i-1
            BY <4>4
          <5>2. From(h, j) = From(g, j)
            BY <3>3, <5>1
          <5> HIDE DEF From
          <5> QED BY <3>3, <4>1, <4>4, <5>1, <5>2
        <4> QED BY <4>2, <4>3, <4>4
      <3>6. Is(i, h)
        <4> HIDE DEF From
        <4> QED BY <3>4, <3>5
      <3> HIDE DEF Is
      <3> QED BY <3>6
    <2>3. \A i \in 0..n : i \in G
      <3> HIDE DEF G
      <3> QED BY <2>1, <2>2, UpTo
    <2>4. n \in 0..n
      OBVIOUS
    <2> HIDE DEF Is
    <2> QED BY <2>3, <2>4
  <1>4. Is(n, put)
    <2> HIDE DEF Is
    <2> QED BY <1>3
  <1> HIDE DEF put
  <1>5. put[0] = z /\ \A j \in 1..n : put[j] = From(put, j)
    <2>1. \A j \in 0..n : put[j] = IF j = 0 THEN z ELSE From(put, j)
      <3> HIDE DEF From
      <3> QED BY <1>4
    <2>2. 0 \in 0..n /\ \A j \in 1..n : j \in 0..n /\ j # 0
      OBVIOUS
    <2> HIDE DEF From
    <2> QED BY <2>1, <2>2
  <1> HIDE DEF Is
  <1> QED BY <1>1, <1>2, <1>5 DEF z, DfsFollows

(* What a meld takes of a kind, and what the first n melds of f take.      *)
Weight(e, k) == IF e = {k} THEN 3 ELSE IF k \in e THEN 1 ELSE 0
Mixed(f, k) == [i \in DOMAIN f |-> IF k \in f[i] /\ f[i] # {k} THEN 1 ELSE 0]
TakenBy(f, n, k) == 3 * Among(f, n, {k}) + Among(Mixed(f, k), n, 1)
TakenInSteps(f, n, k) ==
  /\ InMelds(f, k) = TakenBy(f, n, k)
  /\ \A m \in 0 .. n : TakenBy(f, m, k) \in Nat
  /\ TakenBy(f, 0, k) = 0
  /\ \A m \in 1 .. n : TakenBy(f, m, k) = TakenBy(f, m - 1, k) + Weight(f[m], k)
MeldsOf(K) == {{t} : t \in K} \cup {r \in Runs : r \subseteq K}

LEMMA TakenByStep ==
  ASSUME NEW n \in Nat, NEW f, DOMAIN f = 1 .. n, NEW k
  PROVE  TakenInSteps(f, n, k)
  <1>1. PICK g : g = Mixed(f, k)
    OBVIOUS
  <1>2. \A i \in 1 .. n : g[i] = IF k \in f[i] /\ f[i] # {k} THEN 1 ELSE 0
    BY <1>1 DEF Mixed
  <1>3. InMelds(f, k) = TakenBy(f, n, k)
    <2>1. {i \in DOMAIN f : k \in f[i] /\ f[i] # {k}} = {i \in 1 .. n : g[i] = 1}
      BY <1>2
    <2>2. Cardinality({i \in DOMAIN f : f[i] = {k}}) = Among(f, n, {k})
      BY DEF Among
    <2> QED BY <1>1, <2>1, <2>2 DEF InMelds, TakenBy, Among
  <1>4. \A m \in 0 .. n : Among(f, m, {k}) \in Nat /\ Among(g, m, 1) \in Nat
    <2> TAKE m \in 0 .. n
    <2>1. m \in Nat
      OBVIOUS
    <2> QED BY <2>1, AmongStep
  <1>5. \A m \in 0 .. n : TakenBy(f, m, k) \in Nat
    <2> TAKE m \in 0 .. n
    <2>1. PICK a : a = Among(f, m, {k})
      OBVIOUS
    <2>2. PICK b : b = Among(g, m, 1)
      OBVIOUS
    <2>3. a \in Nat /\ b \in Nat
      BY <1>4, <2>1, <2>2
    <2>4. TakenBy(f, m, k) = 3 * a + b
      BY <1>1, <2>1, <2>2 DEF TakenBy
    <2> QED BY <2>3, <2>4
  <1>6. TakenBy(f, 0, k) = 0
    <2>1. Among(f, 0, {k}) = 0 /\ Among(g, 0, 1) = 0
      BY AmongStep
    <2> QED BY <1>1, <2>1 DEF TakenBy
  <1>7. ASSUME NEW m \in 1 .. n PROVE TakenBy(f, m, k) = TakenBy(f, m - 1, k) + Weight(f[m], k)
    <2>1. m \in Nat /\ m > 0 /\ m - 1 \in 0 .. n /\ m \in 0 .. n
      OBVIOUS
    <2>2. Among(f, m, {k}) = Among(f, m - 1, {k}) + One(f[m], {k})
      BY <2>1, AmongStep
    <2>3. Among(g, m, 1) = Among(g, m - 1, 1) + One(g[m], 1)
      BY <2>1, AmongStep
    <2>4. 3 * One(f[m], {k}) + One(g[m], 1) = Weight(f[m], k)
      BY <1>2 DEF One, Weight
    <2>5. Among(f, m - 1, {k}) \in Nat /\ Among(g, m - 1, 1) \in Nat
      BY <1>4, <2>1
    <2>6. One(f[m], {k}) \in Nat /\ One(g[m], 1) \in Nat
      BY DEF One
    <2> QED BY <1>1, <2>2, <2>3, <2>4, <2>5, <2>6 DEF TakenBy
  <1> QED BY <1>3, <1>5, <1>6, <1>7 DEF TakenInSteps

(* The search tries a meld: each that fits, and no other.                  *)
Fits(e, c) == \A k \in DOMAIN c : Weight(e, k) <= c[k]
Rest(e, c) == [k \in DOMAIN c |-> c[k] - Weight(e, k)]

LEMMA FitsAre ==
  ASSUME NEW K \in SUBSET Kinds, NEW c \in [K -> Nat], NEW e \in MeldsOf(K)
  PROVE  /\ Fits(e, c) => Rest(e, c) \in [K -> Nat]
         /\ \A k \in K : Weight(e, k) \in Nat
  <1>1. \A k \in K : Weight(e, k) \in Nat
    BY DEF Weight
  <1> QED BY <1>1 DEF Fits, Rest

LEMMA DfsTriesMelds ==
  ASSUME NEW K \in SUBSET Kinds, NEW c \in [K -> Nat], NEW q
  PROVE  c \in DfsNext(K, q) <=> \E e \in MeldsOf(K) : Fits(e, c) /\ Rest(e, c) \in q
  <1>0. \A k \in K : k \in Int
    BY KindsAreNumbers
  <1>1. ASSUME NEW t \in K
        PROVE  /\ {t} \in MeldsOf(K)
               /\ Fits({t}, c) <=> c[t] >= 3
               /\ c[t] >= 3 => Rest({t}, c) = [c EXCEPT ![t] = @ - 3]
    <2>1. {t} \in MeldsOf(K)
      BY DEF MeldsOf
    <2>2. \A k \in K : Weight({t}, k) = IF k = t THEN 3 ELSE 0
      BY DEF Weight
    <2>3. Fits({t}, c) <=> c[t] >= 3
      BY <2>2 DEF Fits
    <2>4. ASSUME c[t] >= 3 PROVE Rest({t}, c) = [c EXCEPT ![t] = @ - 3]
      <3>1. PICK d : d = [c EXCEPT ![t] = @ - 3]
        OBVIOUS
      <3>4. d = [k \in K |-> d[k]]
        BY <3>1
      <3>2. \A k \in K : d[k] = c[k] - Weight({t}, k)
        <4> TAKE k \in K
        <4>1. c[k] \in Nat /\ d[k] = IF k = t THEN c[k] - 3 ELSE c[k]
          BY <3>1
        <4>2. Weight({t}, k) = IF k = t THEN 3 ELSE 0
          BY <2>2
        <4> QED BY <4>1, <4>2
      <3>3. Rest({t}, c) = [k \in K |-> c[k] - Weight({t}, k)]
        BY DEF Rest
      <3> QED BY <3>1, <3>2, <3>3, <3>4
    <2> QED BY <2>1, <2>3, <2>4
  <1>2. ASSUME NEW t \in Int, {t, t + 1, t + 2} \subseteq K
        PROVE  /\ {t, t + 1, t + 2} \in MeldsOf(K)
               /\ Fits({t, t + 1, t + 2}, c) <=> HasRun(c, t)
               /\ Rest({t, t + 1, t + 2}, c) = Less(c, t .. t + 2)
    <2>1. {t, t + 1, t + 2} \in Runs
      <3>1. t \in Kinds /\ t + 1 \in Kinds /\ t + 2 \in Kinds
        BY <1>2
      <3> QED BY <3>1, RunOfKinds, RunsAre
    <2>2. PICK e : e = {t, t + 1, t + 2}
      OBVIOUS
    <2>3. \A k \in K : Weight(e, k) = IF k \in e THEN 1 ELSE 0
      <3>1. \A k \in K : e # {k}
        BY <1>2, <2>2
      <3> QED BY <3>1 DEF Weight
    <2>4. t .. t + 2 = e
      BY <1>2, <2>2
    <2>5. Fits(e, c) <=> HasRun(c, t)
      BY <1>2, <2>2, <2>3, <2>4 DEF Fits, HasRun
    <2>6. Rest(e, c) = Less(c, e)
      BY <2>3 DEF Rest, Less
    <2>7. e \in MeldsOf(K)
      BY <1>2, <2>1, <2>2 DEF MeldsOf
    <2> QED BY <2>2, <2>4, <2>5, <2>6, <2>7
  <1>3. ASSUME c \in DfsNext(K, q) PROVE \E e \in MeldsOf(K) : Fits(e, c) /\ Rest(e, c) \in q
    <2>1. PICK t \in K : \/ c[t] >= 3 /\ [c EXCEPT ![t] = @ - 3] \in q
                         \/ HasRun(c, t) /\ Less(c, t .. t + 2) \in q
      BY <1>3 DEF DfsNext
    <2>2. CASE c[t] >= 3 /\ [c EXCEPT ![t] = @ - 3] \in q
      BY <1>1, <2>2
    <2>3. CASE HasRun(c, t) /\ Less(c, t .. t + 2) \in q
      <3>1. t \in Int /\ {t, t + 1, t + 2} \subseteq K
        BY <1>0, <2>3 DEF HasRun
      <3> QED BY <1>2, <2>3, <3>1
    <2> QED BY <2>1, <2>2, <2>3
  <1>4. ASSUME NEW e \in MeldsOf(K), Fits(e, c), Rest(e, c) \in q PROVE c \in DfsNext(K, q)
    <2>1. CASE \E t \in K : e = {t}
      <3>1. PICK t \in K : e = {t}
        BY <2>1
      <3>2. c[t] >= 3 /\ [c EXCEPT ![t] = @ - 3] \in q
        BY <1>1, <1>4, <3>1
      <3> QED BY <3>2 DEF DfsNext
    <2>2. CASE e \in Runs /\ e \subseteq K
      <3>1. PICK t \in 11 .. 37 : e = {t, t + 1, t + 2}
        BY <2>2, RunsAre
      <3>2. HasRun(c, t) /\ Less(c, t .. t + 2) \in q
        <4>1. t \in Int /\ {t, t + 1, t + 2} \subseteq K
          BY <2>2, <3>1
        <4> QED BY <1>2, <1>4, <3>1, <4>1
      <3>3. t \in K
        BY <2>2, <3>1
      <3> QED BY <3>2, <3>3 DEF DfsNext
    <2> QED BY <2>1, <2>2 DEF MeldsOf
  <1> QED BY <1>3, <1>4

(* c counts n tiles of the kinds in K: one cell for each.                  *)
Cells(K, c) == {p \in K \X Nat : 1 <= p[2] /\ p[2] <= c[p[1]]}
Sums(K, c, n) == /\ c \in [K -> Nat] /\ n \in Nat
                 /\ IsFiniteSet(Cells(K, c)) /\ Cardinality(Cells(K, c)) = n

LEMMA SumsNone ==
  ASSUME NEW K, NEW c \in [K -> Nat], \A k \in K : c[k] = 0
  PROVE  Sums(K, c, 0)
  <1>1. Cells(K, c) = {}
    BY DEF Cells
  <1> QED BY <1>1, FS_EmptySet DEF Sums

(* One more of a kind.                                                     *)
OneMore(K, c, d, x) == /\ x \in K /\ d \in [K -> Nat] /\ d[x] = c[x] + 1
                       /\ \A k \in K \ {x} : d[k] = c[k]

LEMMA SumsOneMore ==
  ASSUME NEW K, NEW c, NEW d, NEW x, NEW n, Sums(K, c, n), OneMore(K, c, d, x)
  PROVE  Sums(K, d, n + 1)
  <1>1. c \in [K -> Nat] /\ d \in [K -> Nat] /\ n \in Nat /\ x \in K
    BY DEF Sums, OneMore
  <1>2. PICK y \in Nat : y = c[x] + 1
    BY <1>1
  <1>3. d[x] = y /\ \A k \in K \ {x} : d[k] = c[k]
    BY <1>2 DEF OneMore
  <1>4. PICK B : B = Cells(K, c)
    OBVIOUS
  <1>5. IsFiniteSet(B) /\ Cardinality(B) = n
    BY <1>4 DEF Sums
  <1>6. <<x, y>> \notin B
    BY <1>1, <1>2, <1>4 DEF Cells
  <1>7. ASSUME NEW k \in K, NEW j \in Nat
        PROVE  <<k, j>> \in Cells(K, d) <=> <<k, j>> \in B \/ <<k, j>> = <<x, y>>
    <2>1. CASE k = x
      <3>1. <<k, j>> \in Cells(K, d) <=> 1 <= j /\ j <= y
        BY <1>3, <2>1 DEF Cells
      <3>2. <<k, j>> \in B <=> 1 <= j /\ j <= c[x]
        BY <1>4, <2>1 DEF Cells
      <3>3. c[x] \in Nat
        BY <1>1
      <3>4. j <= y <=> (j <= c[x] \/ j = y)
        BY <1>2, <3>3
      <3>5. 1 <= y
        BY <1>2, <3>3
      <3> QED BY <2>1, <3>1, <3>2, <3>4, <3>5
    <2>2. CASE k # x
      <3>1. d[k] = c[k]
        BY <1>3, <2>2
      <3> QED BY <1>4, <2>2, <3>1 DEF Cells
    <2> QED BY <2>1, <2>2
  <1>8. Cells(K, d) = B \cup {<<x, y>>}
    <2>1. Cells(K, d) \subseteq K \X Nat /\ B \subseteq K \X Nat /\ <<x, y>> \in K \X Nat
      BY <1>1, <1>4 DEF Cells
    <2>2. \A p \in K \X Nat : p \in Cells(K, d) <=> p \in B \/ p = <<x, y>>
      BY <1>7
    <2> QED BY <2>1, <2>2
  <1>9. Cardinality(Cells(K, d)) = n + 1 /\ IsFiniteSet(Cells(K, d))
    BY <1>5, <1>6, <1>8, FS_AddElement
  <1> QED BY <1>1, <1>9 DEF Sums

(* Three more with a meld.                                                 *)
LEMMA SumsMeld ==
  ASSUME NEW K \in SUBSET Kinds, NEW c, NEW n, Sums(K, c, n), NEW e \in MeldsOf(K),
         NEW d \in [K -> Nat], \A k \in K : d[k] = c[k] + Weight(e, k)
  PROVE  Sums(K, d, n + 3)
  <1>1. c \in [K -> Nat] /\ n \in Nat
    BY DEF Sums
  <1>2. ASSUME NEW x \in K, NEW y \in K, NEW z \in K,
               \A k \in K : Weight(e, k) = One(x, k) + One(y, k) + One(z, k)
        PROVE  Sums(K, d, n + 3)
    <2>1. PICK u : u = [k \in K |-> c[k] + One(x, k)]
      OBVIOUS
    <2>2. PICK v : v = [k \in K |-> u[k] + One(y, k)]
      OBVIOUS
    <2>3. u \in [K -> Nat]
      BY <1>1, <2>1 DEF One
    <2>4. v \in [K -> Nat]
      BY <2>2, <2>3 DEF One
    <2>5. OneMore(K, c, u, x)
      BY <1>1, <2>1, <2>3 DEF OneMore, One
    <2>6. OneMore(K, u, v, y)
      BY <2>2, <2>3, <2>4 DEF OneMore, One
    <2>7. \A k \in K : d[k] = v[k] + One(z, k)
      <3> TAKE k \in K
      <3>1. PICK a \in Nat : a = One(x, k)
        BY DEF One
      <3>2. PICK b \in Nat : b = One(y, k)
        BY DEF One
      <3>3. PICK w \in Nat : w = One(z, k)
        BY DEF One
      <3>4. PICK j \in Nat : j = c[k]
        BY <1>1
      <3>5. d[k] = j + (a + b + w)
        BY <1>2, <3>1, <3>2, <3>3, <3>4
      <3>6. v[k] = j + a + b
        BY <2>1, <2>2, <3>1, <3>2, <3>4
      <3> QED BY <3>3, <3>5, <3>6
    <2>8. OneMore(K, v, d, z)
      BY <2>4, <2>7 DEF OneMore, One
    <2>9. Sums(K, u, n + 1)
      BY <2>5, SumsOneMore
    <2>10. Sums(K, v, (n + 1) + 1)
      BY <2>6, <2>9, SumsOneMore
    <2>11. Sums(K, d, ((n + 1) + 1) + 1)
      BY <2>8, <2>10, SumsOneMore
    <2>12. ((n + 1) + 1) + 1 = n + 3
      BY <1>1
    <2> QED BY <2>11, <2>12
  <1>3. CASE \E t \in K : e = {t}
    <2>1. PICK t \in K : e = {t}
      BY <1>3
    <2>2. \A k \in K : Weight(e, k) = One(t, k) + One(t, k) + One(t, k)
      BY <2>1 DEF Weight, One
    <2> QED BY <1>2, <2>2
  <1>4. CASE e \in Runs /\ e \subseteq K
    <2>1. PICK t \in 11 .. 37 : e = {t, t + 1, t + 2}
      BY <1>4, RunsAre
    <2>2. t \in K /\ t + 1 \in K /\ t + 2 \in K
      BY <1>4, <2>1
    <2>3. \A k \in K : Weight(e, k) = One(t, k) + One(t + 1, k) + One(t + 2, k)
      <3> TAKE k \in K
      <3>1. e # {k}
        BY <2>1
      <3> QED BY <2>1, <3>1 DEF Weight, One
    <2> QED BY <1>2, <2>2, <2>3
  <1> QED BY <1>3, <1>4 DEF MeldsOf

(* What melds take is three times their number.                            *)
LEMMA SumsMelds ==
  ASSUME NEW K \in SUBSET Kinds, NEW m \in Nat, NEW f \in [1 .. m -> MeldsOf(K)]
  PROVE  Sums(K, [k \in K |-> InMelds(f, k)], 3 * m)
  <1> DEFINE part(i) == [k \in K |-> TakenBy(f, i, k)]
             G == {i \in 0 .. m : Sums(K, part(i), 3 * i)}
  <1>1. \A k : /\ InMelds(f, k) = TakenBy(f, m, k)
               /\ \A i \in 0 .. m : TakenBy(f, i, k) \in Nat
               /\ TakenBy(f, 0, k) = 0
               /\ \A i \in 1 .. m : TakenBy(f, i, k) = TakenBy(f, i - 1, k) + Weight(f[i], k)
    BY TakenByStep DEF TakenInSteps
  <1>2. \A i \in 0 .. m : part(i) \in [K -> Nat]
    BY <1>1
  <1>3. 0 \in G
    <2>1. part(0) \in [K -> Nat] /\ \A k \in K : part(0)[k] = 0
      BY <1>1, <1>2
    <2>2. Sums(K, part(0), 0)
      <3> HIDE DEF part
      <3> QED BY <2>1, SumsNone
    <2>3. 3 * 0 = 0 /\ 0 \in 0 .. m
      OBVIOUS
    <2> QED BY <2>2, <2>3
  <1>4. ASSUME NEW i \in 1 .. m, i - 1 \in G PROVE i \in G
    <2>1. i - 1 \in 0 .. m /\ i \in 0 .. m /\ f[i] \in MeldsOf(K)
      OBVIOUS
    <2>2. PICK c : c = part(i - 1)
      OBVIOUS
    <2>3. PICK d : d = part(i)
      OBVIOUS
    <2>4. d \in [K -> Nat] /\ \A k \in K : d[k] = c[k] + Weight(f[i], k)
      BY <1>1, <1>2, <2>1, <2>2, <2>3
    <2>5. Sums(K, c, 3 * (i - 1))
      BY <1>4, <2>2
    <2>6. Sums(K, d, 3 * (i - 1) + 3)
      BY <2>1, <2>4, <2>5, SumsMeld
    <2>7. 3 * (i - 1) + 3 = 3 * i
      BY <2>1
    <2> QED BY <2>1, <2>3, <2>6, <2>7
  <1>5. \A i \in 0 .. m : i \in G
    <2> HIDE DEF G
    <2>1. \A i \in 1 .. m : i - 1 \in G => i \in G
      BY <1>4
    <2> QED BY <1>3, <2>1, UpTo
  <1>6. Sums(K, part(m), 3 * m)
    <2>1. m \in 0 .. m
      OBVIOUS
    <2> QED BY <1>5, <2>1
  <1>7. part(m) = [k \in K |-> InMelds(f, k)]
    BY <1>1
  <1> QED BY <1>6, <1>7

(* The counts of a hand are its length.                                    *)
LEMMA SumsHand ==
  ASSUME NEW S, NEW s \in Seq(S)
  PROVE  Sums(ToSet(s), [k \in ToSet(s) |-> CountOf(s, k)], Len(s))
  <1>1. PICK n \in Nat : n = Len(s)
    OBVIOUS
  <1>2. PICK K : K = ToSet(s)
    OBVIOUS
  <1>3. \A i \in 1 .. n : s[i] \in K
    BY <1>1, <1>2 DEF ToSet
  <1> DEFINE part(i) == [k \in K |-> Among(s, i, k)]
             G == {i \in 0 .. n : Sums(K, part(i), i)}
  <1>4. \A i \in Nat, k \in K : Among(s, i, k) \in Nat /\ Among(s, 0, k) = 0
    BY AmongStep
  <1>5. 0 \in G
    <2>1. part(0) \in [K -> Nat] /\ \A k \in K : part(0)[k] = 0
      BY <1>4
    <2>2. Sums(K, part(0), 0)
      <3> HIDE DEF part
      <3> QED BY <2>1, SumsNone
    <2> QED BY <2>2
  <1>6. ASSUME NEW i \in 1 .. n, i - 1 \in G PROVE i \in G
    <2>1. i - 1 \in Nat /\ i \in Nat /\ i > 0 /\ s[i] \in K
      BY <1>3
    <2>2. PICK c : c = part(i - 1)
      OBVIOUS
    <2>3. PICK d : d = part(i)
      OBVIOUS
    <2>4. \A k \in K : Among(s, i, k) = Among(s, i - 1, k) + One(s[i], k)
      BY <2>1, AmongStep
    <2>5. d \in [K -> Nat] /\ c \in [K -> Nat] /\ \A k \in K : d[k] = c[k] + One(s[i], k)
      BY <1>4, <2>1, <2>2, <2>3, <2>4
    <2>6. OneMore(K, c, d, s[i])
      BY <2>1, <2>5 DEF OneMore, One
    <2>7. Sums(K, c, i - 1)
      BY <1>6, <2>2
    <2>8. Sums(K, d, (i - 1) + 1)
      BY <2>6, <2>7, SumsOneMore
    <2>9. (i - 1) + 1 = i
      BY <2>1
    <2> QED BY <2>3, <2>8, <2>9
  <1>7. \A i \in 0 .. n : i \in G
    <2> HIDE DEF G
    <2>1. \A i \in 1 .. n : i - 1 \in G => i \in G
      BY <1>6
    <2> QED BY <1>5, <2>1, UpTo
  <1>8. Sums(K, part(n), n)
    <2>1. n \in 0 .. n
      OBVIOUS
    <2> QED BY <1>7, <2>1
  <1>9. part(n) = [k \in K |-> CountOf(s, k)]
    BY <1>1, CountIsAmong
  <1> QED BY <1>1, <1>2, <1>8, <1>9

(* Of two counts of as many tiles neither is below the other.              *)
LEMMA SumsEqual ==
  ASSUME NEW K, NEW a, NEW b, NEW n, Sums(K, a, n), Sums(K, b, n), \A k \in K : a[k] <= b[k]
  PROVE  \A k \in K : a[k] = b[k]
  <1>1. a \in [K -> Nat] /\ b \in [K -> Nat]
    BY DEF Sums
  <1>2. Cells(K, a) \in SUBSET Cells(K, b)
    <2>1. \A p \in K \X Nat : p[2] <= a[p[1]] => p[2] <= b[p[1]]
      <3> TAKE p \in K \X Nat
      <3>1. p[1] \in K /\ p[2] \in Nat
        OBVIOUS
      <3>2. a[p[1]] \in Nat /\ b[p[1]] \in Nat /\ a[p[1]] <= b[p[1]]
        BY <1>1, <3>1
      <3> QED BY <3>1, <3>2
    <2> QED BY <2>1 DEF Cells
  <1>3. Cells(K, a) = Cells(K, b)
    <2>1. PICK A : A = Cells(K, a)
      OBVIOUS
    <2>2. PICK B : B = Cells(K, b)
      OBVIOUS
    <2>3. IsFiniteSet(B) /\ Cardinality(B) = n /\ Cardinality(A) = n /\ A \in SUBSET B
      BY <1>2, <2>1, <2>2 DEF Sums
    <2>4. A = B
      BY <2>3, FS_Subset
    <2> QED BY <2>1, <2>2, <2>4
  <1>4. ASSUME NEW k \in K, a[k] # b[k] PROVE FALSE
    <2>1. a[k] \in Nat /\ b[k] \in Nat /\ a[k] < b[k]
      BY <1>1, <1>4
    <2>2. <<k, b[k]>> \in K \X Nat /\ <<k, b[k]>>[1] = k /\ <<k, b[k]>>[2] = b[k]
      BY <2>1
    <2>3. <<k, b[k]>> \in Cells(K, b) /\ <<k, b[k]>> \notin Cells(K, a)
      BY <2>1, <2>2 DEF Cells
    <2> QED BY <1>3, <2>3
  <1> QED BY <1>4

(* m melds among the tiles counted by c.                                   *)
Covers(K, c, m) == \E f \in [1 .. m -> MeldsOf(K)] : \A k \in K : InMelds(f, k) <= c[k]

LEMMA CoversNone ==
  ASSUME NEW K, NEW c \in [K -> Nat]
  PROVE  Covers(K, c, 0)
  <1>1. PICK f \in [1 .. 0 -> MeldsOf(K)] : f = [i \in 1 .. 0 |-> {}]
    <2>1. [i \in 1 .. 0 |-> {}] \in [1 .. 0 -> MeldsOf(K)]
      OBVIOUS
    <2> QED BY <2>1
  <1>2. \A k \in K : InMelds(f, k) = 0
    <2> TAKE k \in K
    <2>1. InMelds(f, k) = TakenBy(f, 0, k) /\ TakenBy(f, 0, k) = 0
      <3>1. DOMAIN f = 1 .. 0 /\ 0 \in Nat
        OBVIOUS
      <3> QED BY <3>1, TakenByStep DEF TakenInSteps
    <2> QED BY <2>1
  <1>3. \A k \in K : InMelds(f, k) <= c[k]
    BY <1>2
  <1> QED BY <1>3 DEF Covers

(* Without its last meld f takes so much less.                             *)
LEMMA ButLast ==
  ASSUME NEW m \in Nat, m > 0, NEW f, DOMAIN f = 1 .. m, NEW h, DOMAIN h = 1 .. m - 1,
         \A i \in 1 .. m - 1 : h[i] = f[i], NEW k
  PROVE  InMelds(f, k) = InMelds(h, k) + Weight(f[m], k) /\ InMelds(h, k) \in Nat
  <1>1. m - 1 \in Nat /\ m \in 1 .. m
    OBVIOUS
  <1>2. InMelds(f, k) = TakenBy(f, m - 1, k) + Weight(f[m], k)
    <2>1. TakenInSteps(f, m, k)
      BY TakenByStep
    <2> QED BY <1>1, <2>1 DEF TakenInSteps
  <1>3. InMelds(h, k) = TakenBy(h, m - 1, k) /\ TakenBy(h, m - 1, k) \in Nat
    <2>1. PICK j \in Nat : j = m - 1
      BY <1>1
    <2>2. TakenInSteps(h, j, k)
      BY <2>1, TakenByStep
    <2>3. j \in 0 .. j
      OBVIOUS
    <2> QED BY <2>1, <2>2, <2>3 DEF TakenInSteps
  <1>4. TakenBy(h, m - 1, k) = TakenBy(f, m - 1, k)
    <2>1. {i \in 1 .. m - 1 : h[i] = {k}} = {i \in 1 .. m - 1 : f[i] = {k}}
      OBVIOUS
    <2>2. {i \in 1 .. m - 1 : Mixed(h, k)[i] = 1} = {i \in 1 .. m - 1 : Mixed(f, k)[i] = 1}
      <3>1. \A i \in 1 .. m - 1 : Mixed(h, k)[i] = Mixed(f, k)[i]
        <4> TAKE i \in 1 .. m - 1
        <4>1. i \in DOMAIN f /\ i \in DOMAIN h /\ h[i] = f[i]
          OBVIOUS
        <4> QED BY <4>1 DEF Mixed
      <3> QED BY <3>1
    <2> QED BY <2>1, <2>2 DEF TakenBy, Among
  <1> QED BY <1>2, <1>3, <1>4

(* More melds than none: some meld fits, and the others in what is left.   *)
LEMMA CoversStep ==
  ASSUME NEW K \in SUBSET Kinds, NEW c \in [K -> Nat], NEW m \in Nat, m > 0
  PROVE  Covers(K, c, m) <=> \E e \in MeldsOf(K) : Fits(e, c) /\ Covers(K, Rest(e, c), m - 1)
  <1>0. m - 1 \in Nat /\ m \in 1 .. m /\ DOMAIN c = K
    OBVIOUS
  <1>1. ASSUME NEW f \in [1 .. m -> MeldsOf(K)], \A k \in K : InMelds(f, k) <= c[k]
        PROVE  \E e \in MeldsOf(K) : Fits(e, c) /\ Covers(K, Rest(e, c), m - 1)
    <2>1. PICK e \in MeldsOf(K) : e = f[m]
      BY <1>0
    <2>2. PICK h : h = [i \in 1 .. m - 1 |-> f[i]]
      OBVIOUS
    <2>3. h \in [1 .. m - 1 -> MeldsOf(K)]
      BY <2>2
    <2>4. \A k \in K : /\ InMelds(f, k) = InMelds(h, k) + Weight(e, k) /\ InMelds(h, k) \in Nat
                       /\ Weight(e, k) \in Nat
      <3> TAKE k \in K
      <3>1. DOMAIN f = 1 .. m /\ DOMAIN h = 1 .. m - 1 /\ \A i \in 1 .. m - 1 : h[i] = f[i]
        BY <2>2
      <3>2. InMelds(f, k) = InMelds(h, k) + Weight(f[m], k) /\ InMelds(h, k) \in Nat
        BY <3>1, ButLast
      <3>3. Weight(e, k) \in Nat
        BY DEF Weight
      <3> QED BY <2>1, <3>2, <3>3
    <2>5. \A k \in K : Weight(e, k) <= c[k] /\ InMelds(h, k) <= c[k] - Weight(e, k)
      <3> TAKE k \in K
      <3>1. PICK a \in Nat : a = InMelds(h, k)
        BY <2>4
      <3>2. PICK w \in Nat : w = Weight(e, k)
        BY <2>4
      <3>3. PICK j \in Nat : j = c[k]
        OBVIOUS
      <3>4. a + w <= j
        BY <1>1, <2>4, <3>1, <3>2, <3>3
      <3>5. w <= j /\ a <= j - w
        BY <3>4
      <3> QED BY <3>1, <3>2, <3>3, <3>5
    <2>6. Fits(e, c) /\ \A k \in K : InMelds(h, k) <= Rest(e, c)[k]
      BY <1>0, <2>5 DEF Fits, Rest
    <2> QED BY <2>3, <2>6 DEF Covers
  <1>2. ASSUME NEW e \in MeldsOf(K), Fits(e, c), Covers(K, Rest(e, c), m - 1) PROVE Covers(K, c, m)
    <2>1. PICK h \in [1 .. m - 1 -> MeldsOf(K)] : \A k \in K : InMelds(h, k) <= Rest(e, c)[k]
      BY <1>2 DEF Covers
    <2>2. PICK f : f = [i \in 1 .. m |-> IF i = m THEN e ELSE h[i]]
      OBVIOUS
    <2>3. f \in [1 .. m -> MeldsOf(K)] /\ f[m] = e
      <3>1. \A i \in 1 .. m : i # m => i \in 1 .. m - 1
        OBVIOUS
      <3> QED BY <1>0, <2>2, <3>1
    <2>4. \A i \in 1 .. m - 1 : h[i] = f[i]
      BY <2>2
    <2>5. \A k \in K : InMelds(f, k) = InMelds(h, k) + Weight(e, k) /\ InMelds(h, k) \in Nat
      <3> TAKE k \in K
      <3>1. DOMAIN f = 1 .. m /\ DOMAIN h = 1 .. m - 1
        BY <2>3
      <3>2. InMelds(f, k) = InMelds(h, k) + Weight(f[m], k) /\ InMelds(h, k) \in Nat
        BY <2>4, <3>1, ButLast
      <3> QED BY <2>3, <3>2
    <2>6. \A k \in K : InMelds(f, k) <= c[k]
      <3> TAKE k \in K
      <3>1. PICK a \in Nat : a = InMelds(h, k)
        BY <2>5
      <3>2. PICK w \in Nat : w = Weight(e, k)
        BY DEF Weight
      <3>3. PICK j \in Nat : j = c[k]
        OBVIOUS
      <3>4. a <= j - w
        BY <1>0, <2>1, <3>1, <3>2, <3>3 DEF Rest
      <3>5. a + w <= j
        BY <3>4
      <3> QED BY <2>5, <3>1, <3>2, <3>3, <3>5
    <2> QED BY <2>3, <2>6 DEF Covers
  <1>3. Covers(K, c, m) => \E e \in MeldsOf(K) : Fits(e, c) /\ Covers(K, Rest(e, c), m - 1)
    BY <1>1 DEF Covers
  <1> QED BY <1>2, <1>3

(* The search finds whatever can be found.                                 *)
LEMMA DfsFinds ==
  ASSUME NEW counts, NEW K \in SUBSET Kinds, counts \in [K -> Nat], NEW n \in Nat
  PROVE  Dfs(n, counts) <=> Covers(K, counts, n)
  <1>0. DOMAIN counts = K
    OBVIOUS
  <1>1. PICK at : DfsFollows(K, n, at) /\ (Dfs(n, counts) <=> counts \in at[n])
    BY <1>0, DfsIsFollowed
  <1> DEFINE G == {m \in 0 .. n : \A c \in [K -> Nat] : c \in at[m] <=> Covers(K, c, m)}
  <1>2. 0 \in G
    <2>1. at[0] = [K -> Nat]
      BY <1>1 DEF DfsFollows
    <2>2. \A c \in [K -> Nat] : Covers(K, c, 0)
      BY CoversNone
    <2> QED BY <2>1, <2>2
  <1>3. ASSUME NEW m \in 1 .. n, m - 1 \in G PROVE m \in G
    <2>1. PICK q : q = at[m - 1]
      OBVIOUS
    <2>2. at[m] = DfsNext(K, q)
      BY <1>1, <2>1 DEF DfsFollows
    <2>3. \A d \in [K -> Nat] : d \in q <=> Covers(K, d, m - 1)
      BY <1>3, <2>1
    <2>4. m \in Nat /\ m > 0 /\ m \in 0 .. n
      OBVIOUS
    <2>5. ASSUME NEW c \in [K -> Nat] PROVE c \in DfsNext(K, q) <=> Covers(K, c, m)
      <3>1. \A e \in MeldsOf(K) : Fits(e, c) => Rest(e, c) \in [K -> Nat]
        BY FitsAre
      <3>2. \A e \in MeldsOf(K) : Fits(e, c) => (Rest(e, c) \in q <=> Covers(K, Rest(e, c), m - 1))
        BY <2>3, <3>1
      <3>3. c \in DfsNext(K, q) <=> \E e \in MeldsOf(K) : Fits(e, c) /\ Rest(e, c) \in q
        BY DfsTriesMelds
      <3>4. Covers(K, c, m) <=> \E e \in MeldsOf(K) : Fits(e, c) /\ Covers(K, Rest(e, c), m - 1)
        BY <2>4, CoversStep
      <3> QED BY <3>2, <3>3, <3>4
    <2> QED BY <2>2, <2>4, <2>5
  <1>4. \A m \in 0 .. n : m \in G
    <2> HIDE DEF G
    <2>1. \A m \in 1 .. n : m - 1 \in G => m \in G
      BY <1>3
    <2> QED BY <1>2, <2>1, UpTo
  <1>5. n \in 0 .. n
    OBVIOUS
  <1> QED BY <1>1, <1>4, <1>5

LEMMA ToSetOfKinds ==
  ASSUME NEW s \in Seq(Kinds)
  PROVE  ToSet(s) \in SUBSET Kinds /\ \A k \in ToSet(s) : CountOf(s, k) \in Nat /\ CountOf(s, k) >= 1
  <1>1. DOMAIN s = 1 .. Len(s) /\ Len(s) \in Nat /\ \A i \in DOMAIN s : s[i] \in Kinds
    OBVIOUS
  <1>2. ToSet(s) \in SUBSET Kinds
    BY <1>1 DEF ToSet
  <1>3. ASSUME NEW k \in ToSet(s) PROVE CountOf(s, k) \in Nat /\ CountOf(s, k) >= 1
    <2>1. PICK B : B = {i \in DOMAIN s : s[i] = k}
      OBVIOUS
    <2>2. CountOf(s, k) \in Nat
      BY CountIsAmong
    <2>3. B # {}
      BY <2>1 DEF ToSet
    <2>4. IsFiniteSet(B)
      <3>1. IsFiniteSet(1 .. Len(s))
        BY <1>1, FS_Interval
      <3>2. B \in SUBSET (1 .. Len(s))
        BY <1>1, <2>1
      <3> QED BY <3>1, <3>2, FS_Subset
    <2>5. Cardinality(B) # 0
      BY <2>3, <2>4, FS_EmptySet
    <2> QED BY <2>1, <2>2, <2>5 DEF CountOf
  <1> QED BY <1>2, <1>3

(* Melds as many as there are places for take all that is not the pair.    *)
LEMMA NothingLeft ==
  ASSUME NEW s \in Seq(Kinds), Len(s) % 3 = 2, NEW eye \in ToSet(s), CountOf(s, eye) >= 2,
         NEW f \in [1 .. Len(s) \div 3 -> MeldsOf(ToSet(s))],
         \A k \in ToSet(s) : InMelds(f, k) <= CountOf(s, k) - (IF k = eye THEN 2 ELSE 0)
  PROVE  \A k \in ToSet(s) : CountOf(s, k) = (IF k = eye THEN 2 ELSE 0) + InMelds(f, k)
  <1>1. PICK K : K = ToSet(s)
    OBVIOUS
  <1>2. PICK n : n = Len(s) \div 3
    OBVIOUS
  <1>3. K \in SUBSET Kinds /\ eye \in K /\ \A k \in K : CountOf(s, k) \in Nat
    BY <1>1, ToSetOfKinds
  <1>4. Len(s) = 3 * n + 2 /\ n \in Nat
    <2>1. PICK lq \in Nat : lq = Len(s)
      OBVIOUS
    <2>2. lq = 3 * (lq \div 3) + 2 /\ lq \div 3 \in Nat
      BY <2>1
    <2> QED BY <1>2, <2>1, <2>2
  <1>5. PICK b : b = [k \in K |-> CountOf(s, k)]
    OBVIOUS
  <1>6. Sums(K, b, 3 * n + 2)
    BY <1>1, <1>4, <1>5, SumsHand
  <1>7. PICK a : a = [k \in K |-> InMelds(f, k)]
    OBVIOUS
  <1>8. Sums(K, a, 3 * n)
    <2>1. f \in [1 .. n -> MeldsOf(K)]
      BY <1>1, <1>2
    <2> QED BY <1>3, <1>4, <1>7, <2>1, SumsMelds
  <1>9. a \in [K -> Nat]
    BY <1>8 DEF Sums
  <1>10. PICK u : u = [k \in K |-> IF k = eye THEN a[k] + 1 ELSE a[k]]
    OBVIOUS
  <1>11. PICK v : v = [k \in K |-> IF k = eye THEN u[k] + 1 ELSE u[k]]
    OBVIOUS
  <1>12. u \in [K -> Nat]
    BY <1>9, <1>10
  <1>13. v \in [K -> Nat]
    BY <1>11, <1>12
  <1>14. OneMore(K, a, u, eye)
    BY <1>3, <1>10, <1>12 DEF OneMore
  <1>15. OneMore(K, u, v, eye)
    BY <1>3, <1>11, <1>13 DEF OneMore
  <1>16. Sums(K, v, 3 * n + 2)
    <2>1. Sums(K, u, 3 * n + 1)
      BY <1>8, <1>14, SumsOneMore
    <2>2. Sums(K, v, (3 * n + 1) + 1)
      BY <1>15, <2>1, SumsOneMore
    <2>3. (3 * n + 1) + 1 = 3 * n + 2
      BY <1>4
    <2> QED BY <2>2, <2>3
  <1>17. \A k \in K : v[k] = (IF k = eye THEN 2 ELSE 0) + a[k]
    <2> TAKE k \in K
    <2>1. a[k] \in Nat
      BY <1>9
    <2>2. k = eye => u[k] = a[k] + 1 /\ v[k] = u[k] + 1
      BY <1>10, <1>11
    <2>3. k # eye => u[k] = a[k] /\ v[k] = u[k]
      BY <1>10, <1>11
    <2> QED BY <2>1, <2>2, <2>3
  <1>18. \A k \in K : v[k] <= b[k]
    <2> TAKE k \in K
    <2>1. PICK w \in Nat : w = a[k]
      BY <1>9
    <2>2. PICK j \in Nat : j = CountOf(s, k)
      BY <1>3
    <2>3. w <= j - (IF k = eye THEN 2 ELSE 0)
      BY <1>1, <1>7, <2>1, <2>2
    <2>4. (IF k = eye THEN 2 ELSE 0) + w <= j
      BY <2>3
    <2> QED BY <1>5, <1>17, <2>1, <2>2, <2>4
  <1>19. \A k \in K : v[k] = b[k]
    BY <1>6, <1>16, <1>18, SumsEqual
  <1> QED BY <1>1, <1>5, <1>7, <1>17, <1>19

(* A triplet among the melds is a triplet of the hand.                     *)
LEMMA MeldsAreThere ==
  ASSUME NEW s \in Seq(Kinds), NEW n \in Nat, NEW f \in [1 .. n -> MeldsOf(ToSet(s))],
         \A k \in ToSet(s) : InMelds(f, k) <= CountOf(s, k)
  PROVE  f \in [1 .. n -> Melds(s)]
  <1>1. ASSUME NEW i \in 1 .. n, NEW t \in ToSet(s), f[i] = {t} PROVE CountOf(s, t) >= 3
    <2>1. PICK A : A = {j \in 1 .. n : f[j] = {t}}
      OBVIOUS
    <2>2. IsFiniteSet(A)
      <3>1. IsFiniteSet(1 .. n)
        BY FS_Interval
      <3>2. A \in SUBSET (1 .. n)
        BY <2>1
      <3> QED BY <3>1, <3>2, FS_Subset
    <2>3. A # {}
      BY <1>1, <2>1
    <2>4. Cardinality(A) \in Nat /\ Cardinality(A) # 0
      BY <2>2, <2>3, FS_EmptySet, FS_CardinalityType
    <2>5. PICK x \in Nat : x = Cardinality(A)
      BY <2>4
    <2>6. PICK B : B = {j \in 1 .. n : t \in f[j] /\ f[j] # {t}}
      OBVIOUS
    <2>7. IsFiniteSet(B)
      <3>1. IsFiniteSet(1 .. n)
        BY FS_Interval
      <3>2. B \in SUBSET (1 .. n)
        BY <2>6
      <3> QED BY <3>1, <3>2, FS_Subset
    <2>8. PICK y \in Nat : y = Cardinality(B)
      BY <2>7, FS_CardinalityType
    <2>9. InMelds(f, t) = 3 * x + y
      <3>1. DOMAIN f = 1 .. n
        OBVIOUS
      <3> QED BY <2>1, <2>5, <2>6, <2>8, <3>1 DEF InMelds
    <2>10. x >= 1
      BY <2>4, <2>5
    <2>11. PICK w \in Nat : w = CountOf(s, t)
      BY ToSetOfKinds
    <2>12. 3 * x + y <= w
      BY <2>9, <2>11
    <2>13. w >= 3
      BY <2>10, <2>12
    <2> QED BY <2>11, <2>13
  <1>2. ASSUME NEW i \in 1 .. n PROVE f[i] \in Melds(s)
    <2>1. f[i] \in MeldsOf(ToSet(s))
      OBVIOUS
    <2>2. CASE \E t \in ToSet(s) : f[i] = {t}
      BY <1>1, <2>2 DEF Melds
    <2>3. CASE f[i] \in Runs /\ f[i] \subseteq ToSet(s)
      BY <2>3 DEF Melds
    <2> QED BY <2>1, <2>2, <2>3 DEF MeldsOf
  <1> QED BY <1>2

WithoutPair(s, eye) == [k \in ToSet(s) |-> CountOf(s, k) - (IF k = eye THEN 2 ELSE 0)]

(* check_win without the special hands.                                    *)
LEMMA FindsPairAndMelds ==
  ASSUME NEW s \in Seq(Kinds), Len(s) % 3 = 2
  PROVE  (\E eye \in ToSet(s) : CountOf(s, eye) >= 2 /\ Dfs(Len(s) \div 3, WithoutPair(s, eye)))
           <=> PairAndMelds(s)
  <1>1. ToSet(s) \in SUBSET Kinds /\ \A k \in ToSet(s) : CountOf(s, k) \in Nat
    BY ToSetOfKinds
  <1>2. PICK n \in Nat : n = Len(s) \div 3
    <2>1. Len(s) \in Nat
      OBVIOUS
    <2> QED BY <2>1
  <1>3. ASSUME NEW eye \in ToSet(s), CountOf(s, eye) >= 2
        PROVE  Dfs(n, WithoutPair(s, eye)) <=> Covers(ToSet(s), WithoutPair(s, eye), n)
    <2>1. WithoutPair(s, eye) \in [ToSet(s) -> Nat]
      BY <1>1, <1>3 DEF WithoutPair
    <2> QED BY <1>1, <2>1, DfsFinds
  <1>4. ASSUME NEW eye \in ToSet(s), CountOf(s, eye) >= 2, Dfs(n, WithoutPair(s, eye))
        PROVE  PairAndMelds(s)
    <2>1. Covers(ToSet(s), WithoutPair(s, eye), n)
      BY <1>3, <1>4
    <2>2. PICK f \in [1 .. n -> MeldsOf(ToSet(s))] : \A k \in ToSet(s) : InMelds(f, k) <= WithoutPair(s, eye)[k]
      BY <2>1 DEF Covers
    <2>3. \A k \in ToSet(s) : InMelds(f, k) <= CountOf(s, k) - (IF k = eye THEN 2 ELSE 0)
      BY <2>2 DEF WithoutPair
    <2>4. \A k \in ToSet(s) : CountOf(s, k) = (IF k = eye THEN 2 ELSE 0) + InMelds(f, k)
      BY <1>2, <1>4, <2>3, NothingLeft
    <2>5. \A k \in ToSet(s) : InMelds(f, k) \in Nat
      <3> TAKE k \in ToSet(s)
      <3>1. DOMAIN f = 1 .. n /\ n \in 0 .. n
        OBVIOUS
      <3>2. TakenInSteps(f, n, k)
        BY <3>1, TakenByStep
      <3> QED BY <3>1, <3>2 DEF TakenInSteps
    <2>6. \A k \in ToSet(s) : InMelds(f, k) <= CountOf(s, k)
      <3> TAKE k \in ToSet(s)
      <3>1. PICK x \in Nat : x = InMelds(f, k)
        BY <2>5
      <3>2. CountOf(s, k) = 2 + x \/ CountOf(s, k) = 0 + x
        BY <2>4, <3>1
      <3> QED BY <3>1, <3>2
    <2>7. f \in [1 .. Len(s) \div 3 -> Melds(s)]
      BY <1>2, <2>6, MeldsAreThere
    <2> QED BY <2>4, <2>7 DEF PairAndMelds
  <1>5. ASSUME PairAndMelds(s)
        PROVE  \E eye \in ToSet(s) : CountOf(s, eye) >= 2 /\ Dfs(n, WithoutPair(s, eye))
    <2>1. PICK eye \in ToSet(s) : \E f \in [1 .. n -> Melds(s)] :
            \A k \in ToSet(s) : CountOf(s, k) = (IF k = eye THEN 2 ELSE 0) + InMelds(f, k)
      BY <1>2, <1>5 DEF PairAndMelds
    <2>2. PICK f \in [1 .. n -> Melds(s)] :
            \A k \in ToSet(s) : CountOf(s, k) = (IF k = eye THEN 2 ELSE 0) + InMelds(f, k)
      BY <2>1
    <2>3. \A k \in ToSet(s) : InMelds(f, k) \in Nat
      <3> TAKE k \in ToSet(s)
      <3>1. DOMAIN f = 1 .. n /\ n \in 0 .. n
        OBVIOUS
      <3>2. TakenInSteps(f, n, k)
        BY <3>1, TakenByStep
      <3> QED BY <3>1, <3>2 DEF TakenInSteps
    <2>4. CountOf(s, eye) >= 2
      <3>1. PICK x \in Nat : x = InMelds(f, eye)
        BY <2>3
      <3>2. CountOf(s, eye) = 2 + x
        BY <2>2, <3>1
      <3> QED BY <3>1, <3>2
    <2>5. \A k \in ToSet(s) : InMelds(f, k) <= WithoutPair(s, eye)[k]
      <3> TAKE k \in ToSet(s)
      <3>1. PICK x \in Nat : x = InMelds(f, k)
        BY <2>3
      <3>2. WithoutPair(s, eye)[k] = CountOf(s, k) - (IF k = eye THEN 2 ELSE 0)
        BY DEF WithoutPair
      <3>3. CountOf(s, k) = (IF k = eye THEN 2 ELSE 0) + x
        BY <2>2, <3>1
      <3> QED BY <3>1, <3>2, <3>3
    <2>6. f \in [1 .. n -> MeldsOf(ToSet(s))]
      <3>1. Melds(s) \subseteq MeldsOf(ToSet(s))
        BY DEF Melds, MeldsOf
      <3> QED BY <3>1
    <2>7. Covers(ToSet(s), WithoutPair(s, eye), n)
      BY <2>5, <2>6 DEF Covers
    <2> QED BY <1>3, <2>4, <2>7
  <1> QED BY <1>2, <1>4, <1>5

(* check_qidui, for hands without five of a kind.                          *)
LEMMA PairsAreSeven ==
  ASSUME NEW s \in Seq(Kinds), Len(s) = 14, \A k \in Kinds : CountOf(s, k) <= COPIES
  PROVE  CheckQidui([k \in ToSet(s) |-> CountOf(s, k)]) <=> "qidui" \in Fans /\ SevenPairs(s)
  <1>1. \A k \in ToSet(s) : CountOf(s, k) \in 1 .. 4
    BY ToSetOfKinds DEF COPIES
  <1>2. \A n \in 1 .. 4 : n % 2 = 0 <=> n \in {2, 4}
    OBVIOUS
  <1>3. \A k \in ToSet(s) : CountOf(s, k) % 2 = 0 <=> CountOf(s, k) \in {2, 4}
    BY <1>1, <1>2
  <1> QED BY <1>3 DEF CheckQidui, SevenPairs

(* Of a suit whose ranks are all r modulo three there are three kinds.     *)
AtMost(S, n) == n \in Nat /\ IsFiniteSet(S) /\ Cardinality(S) <= n

LEMMA AtMostOneMore ==
  ASSUME NEW S, NEW n, AtMost(S, n), NEW x
  PROVE  AtMost(S \cup {x}, n + 1)
  <1>1. IsFiniteSet(S) /\ n \in Nat /\ Cardinality(S) <= n
    BY DEF AtMost
  <1>2. /\ IsFiniteSet(S \cup {x})
        /\ Cardinality(S \cup {x}) = IF x \in S THEN Cardinality(S) ELSE Cardinality(S) + 1
    BY <1>1, FS_AddElement
  <1>3. PICK c \in Nat : c = Cardinality(S)
    BY <1>1, FS_CardinalityType
  <1> QED BY <1>1, <1>2, <1>3 DEF AtMost

LEMMA AtMostThreeMore ==
  ASSUME NEW S, NEW n, AtMost(S, n), NEW x, NEW y, NEW z
  PROVE  AtMost(S \cup {x, y, z}, n + 3)
  <1>1. AtMost(S \cup {x}, n + 1)
    BY AtMostOneMore
  <1>2. AtMost((S \cup {x}) \cup {y}, (n + 1) + 1)
    BY <1>1, AtMostOneMore
  <1>3. AtMost(((S \cup {x}) \cup {y}) \cup {z}, ((n + 1) + 1) + 1)
    BY <1>2, AtMostOneMore
  <1>4. ((S \cup {x}) \cup {y}) \cup {z} = S \cup {x, y, z}
    OBVIOUS
  <1>5. ((n + 1) + 1) + 1 = n + 3
    BY DEF AtMost
  <1> QED BY <1>3, <1>4, <1>5

Least(r) == IF r = 0 THEN 3 ELSE r
Third(a, r) == {10 * a + Least(r), 10 * a + Least(r) + 3, 10 * a + Least(r) + 6}
Honours == {41, 43, 45} \cup {47, 51, 53} \cup {55}

LEMMA InItsThird ==
  ASSUME NEW k \in Kinds, k < 40
  PROVE  k \div 10 \in 1 .. 3 /\ (k % 10) % 3 \in 0 .. 2 /\ k \in Third(k \div 10, (k % 10) % 3)
  <1>1. k \in 11 .. 39 /\ k % 10 # 0
    BY DEF Kinds
  <1>2. PICK a \in 1 .. 3, r \in 1 .. 9 : k = 10 * a + r
    <2>1. PICK a \in Int : a = k \div 10
      BY <1>1
    <2>2. PICK r \in Int : r = k % 10
      BY <1>1
    <2>3. k = 10 * a + r /\ r \in 0 .. 9
      BY <1>1, <2>1, <2>2
    <2>4. r \in 1 .. 9 /\ a \in 1 .. 3
      BY <1>1, <2>2, <2>3
    <2> QED BY <2>3, <2>4
  <1>3. k \div 10 = a /\ k % 10 = r
    BY <1>2
  <1>4. r % 3 \in 0 .. 2 /\ (r = Least(r % 3) \/ r = Least(r % 3) + 3 \/ r = Least(r % 3) + 6)
    BY DEF Least
  <1>5. k \in Third(a, r % 3)
    <2>1. Least(r % 3) \in Int
      BY DEF Least
    <2> QED BY <1>2, <1>4, <2>1 DEF Third
  <1> QED BY <1>3, <1>4, <1>5

LEMMA HonourOrSuit ==
  ASSUME NEW k \in Kinds
  PROVE  /\ k < 40 \/ k \in Honours
         /\ k \div 10 \in 1 .. 3 => k < 40
  <1>1. k \in Int /\ (k \in 11 .. 39 \/ k \in Honours)
    BY DEF Kinds, Honours
  <1>2. \A h \in Honours : h >= 40 /\ h \in 41 .. 55
    BY DEF Honours
  <1> QED BY <1>1, <1>2

(* Without a suit the tiles cannot be fourteen.                            *)
LEMMA TwoSuitsAreTooFew ==
  ASSUME NEW K \in SUBSET Kinds, NEW a \in 1 .. 3, NEW b \in 1 .. 3, NEW h,
         \A k \in K : k < 40 => k \div 10 \in {a, b} /\ (k % 10) % 3 = h[k \div 10]
  PROVE  AtMost(K, 13)
  <1> DEFINE B == (({} \cup {41, 43, 45}) \cup {47, 51, 53}) \cup {55}
             U == (B \cup Third(a, h[a])) \cup Third(b, h[b])
  <1>1. AtMost({}, 0)
    BY FS_EmptySet DEF AtMost
  <1>2. AtMost({} \cup {41, 43, 45}, 0 + 3)
    BY <1>1, AtMostThreeMore
  <1>3. AtMost(({} \cup {41, 43, 45}) \cup {47, 51, 53}, (0 + 3) + 3)
    BY <1>2, AtMostThreeMore
  <1>4. AtMost(B, ((0 + 3) + 3) + 1)
    BY <1>3, AtMostOneMore
  <1>5. B = Honours
    BY DEF Honours
  <1> HIDE DEF B
  <1>6. AtMost(B \cup Third(a, h[a]), (((0 + 3) + 3) + 1) + 3)
    BY <1>4, AtMostThreeMore DEF Third
  <1>7. AtMost(U, ((((0 + 3) + 3) + 1) + 3) + 3)
    BY <1>6, AtMostThreeMore DEF Third
  <1>8. K \subseteq U
    <2> SUFFICES ASSUME NEW k \in K PROVE k \in U
      OBVIOUS
    <2>1. CASE k < 40
      <3>1. k \in Third(k \div 10, (k % 10) % 3)
        BY <2>1, InItsThird
      <3>2. k \div 10 = a \/ k \div 10 = b
        BY <2>1
      <3>3. (k % 10) % 3 = h[k \div 10]
        BY <2>1
      <3>4. k \in Third(k \div 10, h[k \div 10])
        BY <3>1, <3>3
      <3> QED BY <3>2, <3>4
    <2>2. CASE ~(k < 40)
      <3>1. k \in Honours
        BY <2>2, HonourOrSuit
      <3> QED BY <1>5, <3>1
    <2> QED BY <2>1, <2>2
  <1>9. ((((0 + 3) + 3) + 1) + 3) + 3 = 13
    OBVIOUS
  <1> HIDE DEF U
  <1>10. IsFiniteSet(U) /\ Cardinality(U) <= 13
    BY <1>7, <1>9 DEF AtMost
  <1>11. IsFiniteSet(K) /\ Cardinality(K) <= Cardinality(U)
    BY <1>8, <1>10, FS_Subset
  <1>12. Cardinality(K) \in Nat /\ Cardinality(U) \in Nat
    BY <1>10, <1>11, FS_CardinalityType
  <1> QED BY <1>10, <1>11, <1>12 DEF AtMost

ResiduesIn(K, a) == {(k % 10) % 3 : k \in {x \in K : x \div 10 = a}}

LEMMA ResidueIn ==
  ASSUME NEW K \in SUBSET Kinds, NEW a \in 1 .. 3
  PROVE  /\ ResiduesIn(K, a) \in SUBSET (0 .. 2) /\ IsFiniteSet(ResiduesIn(K, a))
         /\ \A r : r \in ResiduesIn(K, a) <=> \E k \in K : k < 40 /\ k \div 10 = a /\ r = (k % 10) % 3
  <1>1. \A k \in K : k \div 10 = a => k < 40
    BY HonourOrSuit
  <1>2. \A k \in K : k \div 10 = a => (k % 10) % 3 \in 0 .. 2
    BY <1>1, InItsThird
  <1>3. ResiduesIn(K, a) \in SUBSET (0 .. 2)
    BY <1>2 DEF ResiduesIn
  <1>4. IsFiniteSet(ResiduesIn(K, a))
    <2>1. 0 \in Int /\ 2 \in Int
      OBVIOUS
    <2>2. IsFiniteSet(0 .. 2)
      BY <2>1, FS_Interval
    <2> QED BY <1>3, <2>2, FS_Subset
  <1> QED BY <1>1, <1>3, <1>4 DEF ResiduesIn

(* check_shisanyao sees fourteen tiles that lie apart.                     *)
LEMMA ApartAreSeen ==
  ASSUME NEW s \in Seq(Kinds), Len(s) = 14
  PROVE  CheckShisanyao([k \in ToSet(s) |-> CountOf(s, k)]) <=> "shisanyao" \in Fans /\ AllApart(s)
  <1>1. PICK K \in SUBSET Kinds : K = ToSet(s)
    BY ToSetOfKinds
  <1> DEFINE Shown == /\ \A a \in 1 .. 3 : Cardinality(ResiduesIn(K, a)) = 1
                      /\ UNION {ResiduesIn(K, a) : a \in 1 .. 3} = 0 .. 2
             Thirds(h) == /\ \A a, b \in 1 .. 3 : h[a] = h[b] => a = b
                          /\ \A k \in K : k < 40 => (k % 10) % 3 = h[k \div 10]
  <1>2. CheckShisanyao([k \in ToSet(s) |-> CountOf(s, k)])
          <=> "shisanyao" \in Fans /\ Cardinality(K) = 14 /\ Shown
    BY <1>1 DEF CheckShisanyao, ResiduesIn
  <1>3. AllApart(s) <=> Cardinality(K) = 14 /\ \E h \in [1 .. 3 -> 0 .. 2] : Thirds(h)
    BY <1>1 DEF AllApart
  <1>4. ASSUME Shown PROVE \E h \in [1 .. 3 -> 0 .. 2] : Thirds(h)
    <2>1. \A a \in 1 .. 3 : \E r \in 0 .. 2 : ResiduesIn(K, a) = {r}
      <3> TAKE a \in 1 .. 3
      <3>1. PICK R : R = ResiduesIn(K, a)
        OBVIOUS
      <3>2. R \in SUBSET (0 .. 2) /\ IsFiniteSet(R)
        BY <3>1, ResidueIn
      <3>3. Cardinality(R) = 1
        BY <1>4, <3>1
      <3>4. \E r : R = {r}
        BY <3>2, <3>3, FS_Singleton
      <3> QED BY <3>1, <3>2, <3>4
    <2>2. PICK h : h = [a \in 1 .. 3 |-> CHOOSE r \in 0 .. 2 : ResiduesIn(K, a) = {r}]
      OBVIOUS
    <2>3. \A a \in 1 .. 3 : h[a] \in 0 .. 2 /\ ResiduesIn(K, a) = {h[a]}
      BY <2>1, <2>2
    <2>4. h \in [1 .. 3 -> 0 .. 2]
      BY <2>2, <2>3
    <2>5. \A r \in 0 .. 2 : r = h[1] \/ r = h[2] \/ r = h[3]
      <3>1. \A r \in 0 .. 2 : \E a \in 1 .. 3 : r \in ResiduesIn(K, a)
        BY <1>4
      <3> QED BY <2>3, <3>1
    <2>6. \A a, b \in 1 .. 3 : h[a] = h[b] => a = b
      <3>1. h[1] # h[2] /\ h[1] # h[3] /\ h[2] # h[3]
        BY <2>5
      <3> QED BY <3>1
    <2>7. \A k \in K : k < 40 => (k % 10) % 3 = h[k \div 10]
      <3> SUFFICES ASSUME NEW k \in K, k < 40 PROVE (k % 10) % 3 = h[k \div 10]
        OBVIOUS
      <3>1. PICK a \in 1 .. 3 : a = k \div 10
        BY InItsThird
      <3>2. (k % 10) % 3 \in ResiduesIn(K, a)
        BY <3>1, ResidueIn
      <3> QED BY <2>3, <3>1, <3>2
    <2> QED BY <2>4, <2>6, <2>7
  <1>5. ASSUME Cardinality(K) = 14, NEW h \in [1 .. 3 -> 0 .. 2], Thirds(h) PROVE Shown
    <2>1. ASSUME NEW a \in 1 .. 3, NEW b \in 1 .. 3, NEW c \in 1 .. 3, a # b, a # c, b # c
          PROVE  \E k \in K : k < 40 /\ k \div 10 = a
      <3> SUFFICES ASSUME \A k \in K : k < 40 => k \div 10 # a PROVE FALSE
        OBVIOUS
      <3>1. \A k \in K : k < 40 => k \div 10 \in 1 .. 3
        BY InItsThird
      <3>2. \A x \in 1 .. 3 : x # a => x \in {b, c}
        BY <2>1
      <3>3. \A k \in K : k < 40 => k \div 10 \in {b, c}
        BY <3>1, <3>2
      <3>4. \A k \in K : k < 40 => k \div 10 \in {b, c} /\ (k % 10) % 3 = h[k \div 10]
        BY <1>5, <3>3
      <3>5. AtMost(K, 13)
        BY <3>4, TwoSuitsAreTooFew
      <3> QED BY <1>5, <3>5 DEF AtMost
    <2>2. \A a \in 1 .. 3 : \E k \in K : k < 40 /\ k \div 10 = a
      <3> TAKE a \in 1 .. 3
      <3>1. CASE a = 1
        BY <2>1, <3>1, 2 \in 1 .. 3, 3 \in 1 .. 3
      <3>2. CASE a = 2
        BY <2>1, <3>2, 1 \in 1 .. 3, 3 \in 1 .. 3
      <3>3. CASE a = 3
        BY <2>1, <3>3, 1 \in 1 .. 3, 2 \in 1 .. 3
      <3> QED BY <3>1, <3>2, <3>3
    <2>3. \A a \in 1 .. 3 : ResiduesIn(K, a) = {h[a]}
      <3> TAKE a \in 1 .. 3
      <3>1. \A k \in K : k < 40 /\ k \div 10 = a => (k % 10) % 3 = h[a]
        BY <1>5
      <3>2. \A r : r \in ResiduesIn(K, a) <=> \E k \in K : k < 40 /\ k \div 10 = a /\ r = (k % 10) % 3
        BY ResidueIn
      <3>3. \A r : r \in ResiduesIn(K, a) <=> r = h[a]
        BY <2>2, <3>1, <3>2
      <3> QED BY <3>3
    <2>4. \A a \in 1 .. 3 : Cardinality(ResiduesIn(K, a)) = 1
      BY <2>3, FS_Singleton
    <2>5. \A r \in 0 .. 2 : r = h[1] \/ r = h[2] \/ r = h[3]
      <3>1. h[1] # h[2] /\ h[1] # h[3] /\ h[2] # h[3]
        BY <1>5
      <3>2. h[1] \in 0 .. 2 /\ h[2] \in 0 .. 2 /\ h[3] \in 0 .. 2
        OBVIOUS
      <3> QED BY <3>1, <3>2
    <2>6. UNION {ResiduesIn(K, a) : a \in 1 .. 3} = 0 .. 2
      <3>1. \A r : (\E a \in 1 .. 3 : r \in ResiduesIn(K, a)) <=> r \in 0 .. 2
        <4> TAKE r
        <4>1. ASSUME NEW a \in 1 .. 3, r \in ResiduesIn(K, a) PROVE r \in 0 .. 2
          BY <2>3, <4>1
        <4>2. ASSUME r \in 0 .. 2 PROVE \E a \in 1 .. 3 : r \in ResiduesIn(K, a)
          <5>1. \E a \in 1 .. 3 : r = h[a]
            BY <2>5, <4>2
          <5> QED BY <2>3, <5>1
        <4> QED BY <4>1, <4>2
      <3> QED BY <3>1
    <2> QED BY <2>4, <2>6
  <1> HIDE DEF Shown, Thirds
  <1> QED BY <1>2, <1>3, <1>4, <1>5

(* What check_win_one makes of a hand and a tile.                          *)
LEMMA WinIsMelds ==
  ASSUME NEW s \in Seq(Kinds), Len(s) % 3 = 2, \A k \in Kinds : CountOf(s, k) <= COPIES
  PROVE  CheckWin(s) <=> \/ PairAndMelds(s)
                         \/ "qidui" \in Fans /\ SevenPairs(s)
                         \/ "shisanyao" \in Fans /\ AllApart(s)
  <1>1. PICK counts : counts = [k \in ToSet(s) |-> CountOf(s, k)]
    OBVIOUS
  <1>2. DOMAIN counts = ToSet(s) /\ \A k \in ToSet(s) : counts[k] = CountOf(s, k)
    BY <1>1
  <1>3. CheckWin(s) <=> \/ Len(s) = 14 /\ (CheckQidui(counts) \/ CheckShisanyao(counts))
                        \/ \E eye \in DOMAIN counts :
                             counts[eye] >= 2 /\ Dfs(Len(s) \div 3, [counts EXCEPT ![eye] = @ - 2])
    BY <1>1 DEF CheckWin
  <1>4. \A eye \in ToSet(s) : [counts EXCEPT ![eye] = @ - 2] = WithoutPair(s, eye)
    <2> TAKE eye \in ToSet(s)
    <2>1. PICK d : d = [counts EXCEPT ![eye] = @ - 2]
      OBVIOUS
    <2>2. d = [k \in ToSet(s) |-> d[k]]
      BY <1>1, <2>1
    <2>3. \A k \in ToSet(s) : d[k] = CountOf(s, k) - (IF k = eye THEN 2 ELSE 0)
      <3> TAKE k \in ToSet(s)
      <3>1. CountOf(s, k) \in Nat
        BY ToSetOfKinds
      <3>2. d[k] = IF k = eye THEN CountOf(s, k) - 2 ELSE CountOf(s, k)
        BY <1>1, <2>1
      <3> QED BY <3>1, <3>2
    <2> QED BY <2>1, <2>2, <2>3 DEF WithoutPair
  <1>5. (\E eye \in DOMAIN counts : counts[eye] >= 2 /\ Dfs(Len(s) \div 3, [counts EXCEPT ![eye] = @ - 2]))
          <=> PairAndMelds(s)
    <2>1. (\E eye \in DOMAIN counts : counts[eye] >= 2 /\ Dfs(Len(s) \div 3, [counts EXCEPT ![eye] = @ - 2]))
            <=> \E eye \in ToSet(s) : CountOf(s, eye) >= 2 /\ Dfs(Len(s) \div 3, WithoutPair(s, eye))
      BY <1>2, <1>4
    <2> QED BY <2>1, FindsPairAndMelds
  <1>6. Len(s) = 14 => (CheckQidui(counts) <=> "qidui" \in Fans /\ SevenPairs(s))
    BY <1>1, PairsAreSeven
  <1>7. Len(s) = 14 => (CheckShisanyao(counts) <=> "shisanyao" \in Fans /\ AllApart(s))
    BY <1>1, ApartAreSeen
  <1>8. (SevenPairs(s) => Len(s) = 14) /\ (AllApart(s) => Len(s) = 14)
    BY DEF SevenPairs, AllApart
  <1> QED BY <1>3, <1>5, <1>6, <1>7, <1>8

(* A tile completes a hand if it makes a pair and melds, or a special one. *)
LEMMA WinsAreMelds == HandInv => WinIffMelds
  <1> SUFFICES ASSUME HandInv, phase # "over", NEW t \in Tiles, left[t] > 0, Len(hand) % 3 = 1,
                      NEW s, s = Append(hand, t)
               PROVE  CheckWinOne(hand, t) <=> \/ PairAndMelds(s)
                                               \/ "qidui" \in Fans /\ SevenPairs(s)
                                               \/ "shisanyao" \in Fans /\ AllApart(s)
    BY DEF WinIffMelds
  <1>1. hand \in Seq(Kinds) /\ t \in Kinds
    BY TilesAssumption DEF HandInv, HandOrdered
  <1>2. s \in Seq(Kinds) /\ Len(s) = Len(hand) + 1
    BY <1>1
  <1>3. Len(s) % 3 = 2
    <2>1. PICK n \in Nat : n = Len(hand)
      BY <1>1
    <2>2. n % 3 = 1
      BY <2>1
    <2>3. (n + 1) % 3 = 2
      BY <2>2
    <2> QED BY <1>2, <2>1, <2>3
  <1>4. ASSUME NEW k \in Kinds PROVE CountOf(s, k) <= COPIES
    <2>1. CountOf(s, k) = CountOf(hand, k) + One(t, k)
      BY <1>1, CountOfAppend
    <2>2. CountOf(hand, k) + One(drawn, k) + LeftOf(k) <= COPIES
      BY DEF HandInv, HandOrdered
    <2>3. CountOf(hand, k) \in Nat /\ One(drawn, k) \in Nat /\ LeftOf(k) \in Nat
      BY CountsAreNumbers
    <2>4. k = t => LeftOf(k) >= 1
      <3>1. left[t] \in Int
        BY DEF HandInv
      <3> QED BY <3>1 DEF LeftOf
    <2>5. CASE k = t
      BY <2>1, <2>2, <2>3, <2>4, <2>5 DEF One, COPIES
    <2>6. CASE k # t
      <3>1. One(t, k) = 0
        BY <2>6 DEF One
      <3> QED BY <2>1, <2>2, <2>3, <3>1 DEF COPIES
    <2> QED BY <2>5, <2>6
  <1>5. CheckWin(s) <=> \/ PairAndMelds(s)
                        \/ "qidui" \in Fans /\ SevenPairs(s)
                        \/ "shisanyao" \in Fans /\ AllApart(s)
    BY <1>2, <1>3, <1>4, WinIsMelds
  <1> QED BY <1>5 DEF CheckWinOne

(* HandReadRight: check_pung, check_kong and check_chow offer exactly the  *)
(* claims a hand allows, player_move_tiles_to_hold finds their tiles in    *)
(* it, and check_win accepts it exactly if it is a pair and melds or a     *)
(* special hand, at any time of the round and for any tile there is.       *)
THEOREM HandReadsRight == HandSpec => []HandReadRight
  <1>1. HandInv => HandReadRight
    BY ClaimsAreExact, WinsAreMelds DEF HandReadRight
  <1> QED BY <1>1, InitInOrder, StepInOrder, PTL DEF HandSpec
=============================================================================
