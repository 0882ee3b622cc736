---------------------------- MODULE MahjongScore ----------------------------
(***************************************************************************)
(* The scores of a mahjong round (server/game/logic/logic_majiang.lua):    *)
(* what kongs and melds leave behind while it is played, and what          *)
(* set_end_scores makes of it when it ends with winners.                   *)
(*                                                                         *)
(* Which tiles are moved, and when, is in MahjongHand and MahjongRound.    *)
(* Here any player lays down any meld.  A winner's fan, the factor of his  *)
(* kind of hand, is a choice.                                              *)
(***************************************************************************)
EXTENDS Integers, Sequences, FiniteSets, SequencesExt

CONSTANTS
  Close,     \* claims from one player that make two players answer for each other, 3
  WinOwn, WinOther, MingGang, AnGangRate,   \* base_rule_cfg
  FanValues, \* results of cal_fan
  Bankers,   \* who may be banker
  MaxMelds,  \* bound: melds and kongs of all players
  MaxWinners \* bound: winners of a discard

ASSUME ScoreAssumption ==
  /\ Close \in Nat \ {0} /\ FanValues \subseteq Nat \ {0}
  /\ Bankers \subseteq 1 .. 4 /\ MaxMelds \in Nat /\ MaxWinners \in Nat
  /\ WinOwn \in Nat /\ WinOther \in Nat /\ MingGang \in Nat /\ AnGangRate \in Nat

Seats == 1 .. 4

VARIABLES
  paid,     \* _isUseGold: whether kongs are paid for
  banker,   \* _banker_seatid
  record,   \* seat -> seat -> chipengRecord
  pengs,    \* pengs laid down: seat -> seat claimed from -> how many
  gang,     \* seat -> gang_score
  fin,      \* seat -> end_score
  winners,  \* _last_winners
  melds     \* bound

scoreVars == <<paid, banker, record, pengs, gang, fin, winners, melds>>

Zero == [s \in Seats |-> 0]
Total(f) == f[1] + f[2] + f[3] + f[4]

\* The payers each pay amount to w.
Pay(f, payers, w, amount) ==
  [s \in Seats |-> LET gain == IF s = w THEN amount * Cardinality(payers) ELSE 0
                        loss == IF s \in payers THEN amount ELSE 0
                    IN  f[s] + gain - loss]

ScoreInit ==
  /\ paid \in BOOLEAN /\ banker \in Bankers
  /\ record = [s \in Seats |-> Zero] /\ pengs = [s \in Seats |-> Zero]
  /\ gang = Zero /\ fin = Zero /\ winners = <<>> /\ melds = 0

Playing == winners = <<>> /\ melds < MaxMelds

\* player_move_tiles_to_hold
Claimed(s, from) ==
  /\ Playing /\ s # from
  /\ record' = [record EXCEPT ![s][from] = @ + 1]
  /\ melds' = melds + 1
  /\ UNCHANGED <<paid, banker, fin, winners>>

\* Only the next player may chi.
LayChi(s, from) == s = (from % 4) + 1 /\ Claimed(s, from) /\ UNCHANGED <<pengs, gang>>
LayPeng(s, from) ==
  /\ Claimed(s, from)
  /\ pengs' = [pengs EXCEPT ![s][from] = @ + 1] /\ UNCHANGED gang

\* set_ming_gang_score, which set_peng_gang_score calls
SetMingGangScore(s, from) ==
  gang' = IF paid THEN Pay(gang, {from}, s, MingGang) ELSE gang

LayLightGang(s, from) == Claimed(s, from) /\ SetMingGangScore(s, from) /\ UNCHANGED pengs

LayPengGang(s, from) ==
  /\ Playing /\ pengs[s][from] > 0
  /\ pengs' = [pengs EXCEPT ![s][from] = @ - 1] /\ SetMingGangScore(s, from)
  /\ melds' = melds + 1
  /\ UNCHANGED <<paid, banker, record, fin, winners>>

\* set_an_gang_score
LayAnGang(s) ==
  /\ Playing
  /\ gang' = IF paid THEN Pay(gang, Seats \ {s}, s, AnGangRate) ELSE gang
  /\ melds' = melds + 1
  /\ UNCHANGED <<paid, banker, record, pengs, fin, winners>>

----------------------------------------------------------------------------
\* get_chipeng_seats: s has claimed often from them, or a neighbour from s.
ChipengSeats(s) ==
  {k \in Seats \ {s} : \/ record[s][k] >= Close
                       \/ k \in {(s % 4) + 1, ((s + 2) % 4) + 1} /\ record[k][s] >= Close}

\* The winner drew the tile: everybody pays, or only those who are close to
\* him, for everybody and twice.  The banker pays and is paid more.
OwnScores(w, fan) ==
  LET close == ChipengSeats(w)
      base(k) == (WinOwn + (IF banker \in {w, k} THEN 1 ELSE 0)) * fan
      due == [k \in Seats |-> IF k = w THEN 0
                              ELSE IF close = {} THEN base(k)
                              ELSE IF k \in close THEN base(k) * 2 * 3 ELSE 0]
  IN  [s \in Seats |-> IF s = w THEN Total(due) ELSE -due[s]]

\* Mutant of OtherPayers: the loser also pays among those who are close.
AllClose(w, loser) == ChipengSeats(w)

OtherPayers(w, loser) == ChipengSeats(w) \ {loser}

\* A winner of a discard is paid by whoever is close to him, and by the loser,
\* who pays twice if he is; what the loser owes is kept apart.
Award(acc, w, loser, fan) ==
  LET amount == (WinOther + (IF w = banker THEN 1 ELSE 0)) * fan
      due == amount * (IF loser \in ChipengSeats(w) THEN 2 ELSE 1)
      f == Pay(acc.f, OtherPayers(w, loser), w, amount)
  IN  [f |-> [f EXCEPT ![w] = @ + due], lose |-> acc.lose - due]

\* The winners in their order; the loser's score is written at the end.
OtherScores(ws, fans, loser) ==
  LET acc[i \in 0 .. Len(ws)] ==
        IF i = 0 THEN [f |-> fin, lose |-> 0] ELSE Award(acc[i - 1], ws[i], loser, fans[i])
      end == acc[Len(ws)]
  IN  [end.f EXCEPT ![loser] = end.lose]

Ends(ws, scores) ==
  /\ winners = <<>>
  /\ winners' = ws /\ fin' = scores
  /\ UNCHANGED <<paid, banker, record, pengs, gang, melds>>

WinOwnTile(w) == \E fan \in FanValues : Ends(<<w>>, OwnScores(w, fan))

\* _last_losers of a robbed kong are all the others in order, and the first pays.
FirstLoser(w) == IF w = 1 THEN 2 ELSE 1
RobKong(w) == \E fan \in FanValues : Ends(<<w>>, OtherScores(<<w>>, <<fan>>, FirstLoser(w)))

\* Several may win one discard, in the order of the claims, and the first one
\* may answer again before the others do.
WinDiscard(from) ==
  \E ws \in UNION {[1 .. n -> Seats \ {from}] : n \in 1 .. MaxWinners} :
  \E fans \in [DOMAIN ws -> FanValues] : Ends(ws, OtherScores(ws, fans, from))

ScoreNext ==
  \E s \in Seats :
    \/ \E from \in Seats : \/ LayChi(s, from) \/ LayPeng(s, from)
                          \/ LayLightGang(s, from) \/ LayPengGang(s, from)
    \/ LayAnGang(s) \/ WinOwnTile(s) \/ RobKong(s) \/ WinDiscard(s)

ScoreSpec == ScoreInit /\ [][ScoreNext]_scoreVars

----------------------------------------------------------------------------
(* What is won is what others lose: through the claims that tie players to *)
(* each other, several winners of one discard who are tied among           *)
(* themselves, and the loser's score that is written over, the scores of a *)
(* round add up to zero, as do those of the kongs; and a single winner     *)
(* never pays.                                                             *)
ScoresBalance ==
  /\ Total(fin) = 0 /\ Total(gang) = 0
  /\ Len(winners) = 1 => fin[winners[1]] >= 0 /\ \A s \in Seats \ ToSet(winners) : fin[s] <= 0
=============================================================================
