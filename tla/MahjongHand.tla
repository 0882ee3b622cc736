---------------------------- MODULE MahjongHand -----------------------------
(***************************************************************************)
(* The tiles of one player through a round: what draws, discards, claims   *)
(* and kongs do to the hand (server/game/logic/logic_majiang.lua), and     *)
(* what server/game/logic/majiang_deal.lua reads from it: whether it may   *)
(* peng, kong or chi a tile, and whether a tile completes it.              *)
(*                                                                         *)
(* A tile is its number: suit * 10 + rank for the suits 1..3, honours from *)
(* 41 on, two apart.  p.tiles is a sequence, since the checks stop at the  *)
(* first greater tile and a concealed kong is cut out as a block.          *)
(*                                                                         *)
(* The other players are the environment.  set_deal_shifter has an empty   *)
(* body, so there are no jokers: remove_shifter finds none and `lacks` is  *)
(* zero for no tiles only.  noPeng and robbed kongs are in MahjongRound,   *)
(* and as there a player sends what he was offered or holds.               *)
(***************************************************************************)
EXTENDS Integers, Sequences, FiniteSets, SequencesExt

CONSTANTS
  Tiles,     \* the kinds of tiles drawn, and discarded by others
  Deals,     \* hands to start from, in order
  Fans,      \* of "qidui" and "shisanyao", those with a positive rate
  MaxTurns   \* bound: tiles drawn, and discarded by others

COPIES == 4
CountOf(s, t) == Cardinality({i \in DOMAIN s : s[i] = t})

\* MJ_TILE.
Kinds == {k \in 11 .. 39 : k % 10 # 0} \cup {41, 43, 45, 47, 51, 53, 55}

InOrder(s) == \A i, j \in DOMAIN s : i <= j => s[i] <= s[j]

(* A hand is sorted when it is dealt, from a wall with four of each kind.  *)
ASSUME TilesAssumption ==
  /\ Tiles \subseteq Kinds /\ Deals \subseteq Seq(Kinds) /\ MaxTurns \in Nat
  /\ \A d \in Deals : InOrder(d) /\ \A k \in Kinds : CountOf(d, k) <= COPIES

VARIABLES
  hand,    \* p.tiles
  drawn,   \* p.last_draw_tile, or 0
  holds,   \* p.hold_tiles
  noDeal,  \* p.noDeal
  phase,   \* what the table waits for
  asked,   \* the tile of a question or of a kong that waits, or 0
  offer,   \* the claims offered
  left,    \* tile -> copies neither here nor discarded
  turns    \* bound

handVars == <<hand, drawn, holds, noDeal, phase, asked, offer, left, turns>>

\* The tiles at the positions outside P.
Without(s, P) ==
  LET kept[i \in 0 .. Len(s)] ==
        IF i = 0 THEN <<>> ELSE IF i \in P THEN kept[i - 1] ELSE Append(kept[i - 1], s[i])
  IN  kept[Len(s)]

----------------------------------------------------------------------------
(***************************************************************************)
(* majiang_deal.lua: claims on a discard                                   *)
(***************************************************************************)
\* Both loops stop at the first greater tile.
BeforeGreater(s, t) == {i \in DOMAIN s : \A j \in 1 .. i : s[j] <= t}
CheckPung(s, t) == Cardinality({i \in BeforeGreater(s, t) : s[i] = t}) >= 2
CheckKong(s, t) == Cardinality({i \in BeforeGreater(s, t) : s[i] = t}) >= 3

\* table.sort: at i, the tile with fewer than i below it, and i up to it.
Sorted(s) ==
  [i \in DOMAIN s |-> CHOOSE t \in ToSet(s) : /\ Cardinality({j \in DOMAIN s : s[j] < t}) < i
                                             /\ Cardinality({j \in DOMAIN s : s[j] <= t}) >= i]
FilterOdds(s) == Sorted(Without(s, {i \in 2 .. Len(s) : s[i] = s[i - 1]}))

CheckChow(s, t) ==
  LET odds == FilterOdds(s)
      At(i, v) == i \in DOMAIN odds /\ odds[i] = v
  IN  IF t > 39 THEN {}
      ELSE UNION {   {c \in {<<t - 2, t - 1, t>>} : At(i, t - 2) /\ At(i + 1, t - 1)}
                \cup {c \in {<<t - 1, t + 1, t>>} :
                        At(i, t - 1) /\ (At(i + 1, t + 1) \/ At(i + 2, t + 1))}
                \cup {c \in {<<t + 1, t + 2, t>>} : At(i, t + 1) /\ At(i + 1, t + 2)}
                  : i \in DOMAIN odds}

----------------------------------------------------------------------------
(***************************************************************************)
(* majiang_deal.lua: a complete hand.  tiles_cnt is a function from the    *)
(* kinds in the hand to their numbers.                                     *)
(***************************************************************************)
Less(counts, ts) == [k \in DOMAIN counts |-> IF k \in ts THEN counts[k] - 1 ELSE counts[k]]

\* Mutant of HasRun: the third tile is not looked at.
HasRunOfTwo(counts, t) == \A k \in t .. t + 1 : k \in DOMAIN counts /\ counts[k] >= 1

HasRun(counts, t) == \A k \in t .. t + 2 : k \in DOMAIN counts /\ counts[k] >= 1

\* dfs, with n = max_depth - cnt melds to find: dfs[m] are the counts for which
\* it is true when m are left.  Each try is undone.
Dfs(n, counts) ==
  LET all == [DOMAIN counts -> Nat]
      dfs[m \in 0 .. n] ==
        IF m = 0 THEN all
        ELSE {c \in all : \E t \in DOMAIN counts :
                 \/ c[t] >= 3 /\ [c EXCEPT ![t] = @ - 3] \in dfs[m - 1]
                 \/ HasRun(c, t) /\ Less(c, t .. t + 2) \in dfs[m - 1]}
  IN  counts \in dfs[n]

CheckQidui(counts) == "qidui" \in Fans /\ \A k \in DOMAIN counts : counts[k] % 2 = 0

\* check_shisanyao: no two tiles belong together.
CheckShisanyao(counts) ==
  LET residues(h) == {(k % 10) % 3 : k \in {x \in DOMAIN counts : x \div 10 = h}}
  IN  /\ "shisanyao" \in Fans /\ Cardinality(DOMAIN counts) = 14
      /\ \A h \in 1 .. 3 : Cardinality(residues(h)) = 1
      /\ UNION {residues(h) : h \in 1 .. 3} = 0 .. 2

CheckWin(s) ==
  LET counts == [k \in ToSet(s) |-> CountOf(s, k)]
  IN  \/ Len(s) = 14 /\ (CheckQidui(counts) \/ CheckShisanyao(counts))
      \/ \E eye \in DOMAIN counts :
           counts[eye] >= 2 /\ Dfs(Len(s) \div 3, [counts EXCEPT ![eye] = @ - 2])

\* check_win_one, and check_win_all with a tile; without one (0) check_win_all
\* looks at the hand itself.
CheckWinOne(s, t) == Len(s) % 3 = 1 /\ CheckWin(Append(s, t))
CheckWinAll(s, t) == IF t # 0 THEN CheckWinOne(s, t) ELSE Len(s) % 3 = 2 /\ CheckWin(s)

----------------------------------------------------------------------------
(***************************************************************************)
(* logic_majiang.lua: moving tiles                                         *)
(***************************************************************************)
\* has_tile with a list: the positions of its longest prefix found in order.
HasTiles(s, ts) ==
  LET found[i \in 0 .. Len(s)] ==
        IF i = 0 THEN <<>>
        ELSE LET before == found[i - 1]
             IN  IF Len(before) < Len(ts) /\ s[i] = ts[Len(before) + 1] THEN Append(before, i) ELSE before
  IN  found[Len(s)]

\* Mutant of InsertLastDrawTile: the tile goes to the end.
AppendLastDrawTile(s, t) == IF t = 0 THEN s ELSE Append(s, t)

InsertLastDrawTile(s, t) ==
  IF t = 0 THEN s
  ELSE IF s = <<>> \/ t >= Last(s) THEN Append(s, t)
  ELSE InsertAt(s, CHOOSE i \in DOMAIN s : t <= s[i] /\ \A j \in 1 .. i - 1 : s[j] < t, t)

\* player_move_tiles_to_hold: the positions cut out of the hand for a claim of
\* cnt tiles on the discard t, {} if it refuses.
MovedToHold(s, cards, cnt, t) ==
  LET own == IF Len(cards) = 1 THEN cards \o [i \in 1 .. cnt - 2 |-> t]
             ELSE RemoveAt(cards, CHOOSE i \in DOMAIN cards : cards[i] = t)
      pos == HasTiles(s, own)
  IN  IF Len(pos) = cnt - 1 THEN ToSet(pos) ELSE {}

\* check_player_claim for one player: prev says that the discarder sits before.
Offers(s, t, prev) ==
       {[opttype |-> "gang", cards |-> <<t>>, cnt |-> 4] : x \in {y \in {t} : CheckKong(s, y)}}
  \cup {[opttype |-> "peng", cards |-> <<t>>, cnt |-> 3] : x \in {y \in {t} : CheckPung(s, y)}}
  \cup {[opttype |-> "chi", cards |-> c, cnt |-> 3] : c \in IF prev THEN CheckChow(s, t) ELSE {}}
  \cup {[opttype |-> "win", cards |-> <<t>>, cnt |-> 1] : x \in {y \in {t} : CheckWinOne(s, y)}}

----------------------------------------------------------------------------
TilesInit ==
  /\ hand \in Deals /\ drawn = 0 /\ holds = <<>> /\ noDeal = 0
  /\ phase = "away" /\ asked = 0 /\ offer = {} /\ turns = 0
  /\ left = [t \in Tiles |-> COPIES - CountOf(hand, t)]

Take(t) ==
  /\ left[t] > 0 /\ turns < MaxTurns
  /\ left' = [left EXCEPT ![t] = @ - 1] /\ turns' = turns + 1

\* player_drow.  A tile that was drawn and declined before is lost.
Draw(t) ==
  /\ phase \in {"away", "draw"} /\ Take(t)
  /\ drawn' = t /\ noDeal' = 0 /\ asked' = 0
  /\ IF CheckWinAll(hand, t)
       THEN phase' = "asked" /\ offer' = {[opttype |-> "win", cards |-> <<t>>, cnt |-> 1]}
       ELSE phase' = "own" /\ offer' = {}
  /\ UNCHANGED <<hand, holds>>

\* Another player discards t, and whoever may claim it is asked.
OtherDiscards(t, prev) ==
  /\ phase = "away" /\ Take(t)
  /\ offer' = Offers(hand, t, prev)
  /\ IF offer' = {} THEN UNCHANGED <<phase, asked>> ELSE phase' = "asked" /\ asked' = t
  /\ UNCHANGED <<hand, drawn, holds, noDeal>>

\* player_claim_give_up, or another player has been asked first.
GiveUp ==
  /\ phase = "asked"
  /\ phase' = "away" /\ asked' = 0 /\ offer' = {}
  /\ UNCHANGED <<hand, drawn, holds, noDeal, left, turns>>

\* player_chi, player_peng, player_ming_gang.  noDeal is a chi's tile the
\* player holds himself.
Claim(o) ==
  /\ phase = "asked" /\ asked # 0 /\ o \in offer /\ o.opttype # "win"
  /\ LET cut == MovedToHold(hand, o.cards, o.cnt, asked)
     IN  IF cut = {} THEN UNCHANGED <<hand, holds, noDeal, phase>>
         ELSE /\ hand' = Without(hand, cut)
              /\ holds' = Append(holds, [opttype |-> o.opttype, tile |-> asked])
              /\ noDeal' = IF o.opttype = "chi" /\ asked \in ToSet(hand) THEN asked ELSE noDeal
              /\ phase' = IF o.opttype = "gang" THEN "draw" ELSE "own"
  /\ asked' = 0 /\ offer' = {}
  /\ UNCHANGED <<drawn, left, turns>>

\* discard(p, t), at the player's request (not noDeal) or for a player who is late.
Discard(t) ==
  /\ phase = "own"
  /\ \/ t # noDeal
     \/ hand # <<>> /\ drawn = 0 /\ t = Last(hand)
  /\ IF t = drawn THEN UNCHANGED hand
     ELSE LET pos == {i \in DOMAIN hand : hand[i] = t}
          IN  /\ pos # {}
              /\ hand' = InsertLastDrawTile(Without(hand, {CHOOSE i \in pos : \A j \in pos : i <= j}), drawn)
  /\ drawn' = 0 /\ phase' = "away"
  /\ UNCHANGED <<holds, noDeal, asked, offer, left, turns>>

\* player_an_gang of four equal tiles.  set_an_gang_score then fails, so that no
\* replacement is drawn.
AnGang(t) ==
  LET cnt == IF drawn = t THEN 3 ELSE 4
      at(n) == CHOOSE i \in DOMAIN hand : hand[i] = t /\ CountOf(SubSeq(hand, 1, i), t) = n
  IN  /\ phase = "own" /\ CountOf(hand, t) >= cnt
      /\ hand' = InsertLastDrawTile(Without(hand, at(cnt) - cnt + 1 .. at(cnt)),
                                    IF drawn = t THEN 0 ELSE drawn)
      /\ drawn' = 0 /\ holds' = Append(holds, [opttype |-> "angang", tile |-> t])
      /\ UNCHANGED <<noDeal, phase, asked, offer, left, turns>>

\* player_peng_gang: the kong waits for those who may rob it.
ReqPengGang(t) ==
  /\ phase = "own" /\ [opttype |-> "peng", tile |-> t] \in ToSet(holds)
  /\ drawn = t \/ t \in ToSet(hand)
  /\ phase' = "kong" /\ asked' = t
  /\ UNCHANGED <<hand, drawn, holds, noDeal, offer, left, turns>>

\* peng_gang: nobody has robbed it.  Who draws next is in MahjongRound.
PengGang ==
  /\ phase = "kong"
  /\ \E i \in DOMAIN holds :
       /\ holds[i] = [opttype |-> "peng", tile |-> asked]
       /\ holds' = [holds EXCEPT ![i].opttype = "penggang"]
  /\ hand' = IF drawn = asked THEN hand
             ELSE InsertLastDrawTile(
                    Without(hand, {CHOOSE i \in DOMAIN hand :
                                     hand[i] = asked /\ \A j \in 1 .. i - 1 : hand[j] # asked}), drawn)
  /\ drawn' = 0 /\ asked' = 0 /\ phase' \in {"draw", "away"}
  /\ UNCHANGED <<noDeal, offer, left, turns>>

\* players_win and player_win_all.  The tile that players_win shows with the
\* hand is the last discard, of which asked knows nothing after a draw.
Win ==
  /\ \/ /\ phase = "asked" /\ \E o \in offer : o.opttype = "win"
        /\ \E t \in IF asked # 0 THEN {asked} ELSE Tiles : hand' = Append(hand, t)
     \/ phase = "own" /\ drawn = 0 /\ CheckWinAll(hand, 0) /\ UNCHANGED hand
  /\ phase' = "over" /\ asked' = 0 /\ offer' = {}
  /\ UNCHANGED <<drawn, holds, noDeal, left, turns>>

TilesNext ==
  \/ \E t \in Tiles : Draw(t) \/ \E prev \in BOOLEAN : OtherDiscards(t, prev)
  \/ \E t \in ToSet(hand) \cup ({drawn} \ {0}) : Discard(t) \/ AnGang(t) \/ ReqPengGang(t)
  \/ \E o \in offer : Claim(o)
  \/ GiveUp \/ PengGang \/ Win

HandSpec == TilesInit /\ [][TilesNext]_handVars

----------------------------------------------------------------------------
\* A run of three: the tiles of one suit from x to x + 2.
Run(x) == x .. x + 2
Runs == {Run(x) : x \in {y \in 11 .. 37 : y % 10 \in 1 .. 7}}

(* The checks stop at the first greater tile and look for neighbours, so   *)
(* they are right only while every draw, claim and kong has left the hand  *)
(* in order: a peng or kong is offered for two or three copies, a chi for  *)
(* each run the tile makes, and whatever is offered can be taken from the  *)
(* hand when it is claimed, those tiles and no others.                     *)
ClaimsExact ==
  phase # "over" => \A t \in {x \in Tiles : left[x] > 0} :
    /\ CheckPung(hand, t) <=> CountOf(hand, t) >= 2
    /\ CheckKong(hand, t) <=> CountOf(hand, t) >= 3
    /\ {ToSet(c) : c \in CheckChow(hand, t)} = {r \in Runs : t \in r /\ r \subseteq ToSet(hand) \cup {t}}
    /\ \A o \in {x \in Offers(hand, t, TRUE) : x.opttype # "win"} :
         LET cut == {hand[i] : i \in MovedToHold(hand, o.cards, o.cnt, t)}
         IN  /\ Cardinality(MovedToHold(hand, o.cards, o.cnt, t)) = o.cnt - 1
             /\ cut = IF o.opttype = "chi" THEN ToSet(o.cards) \ {t} ELSE {t}

(* The search of check_win, which tries melds at any tile and undoes them, *)
(* accepts a hand exactly if it is a pair and melds, or one of the special *)
(* hands of fourteen tiles that have a rate.  A meld is a run, or the set  *)
(* of the one kind of a triplet.                                           *)
Melds(s) == {{t} : t \in {x \in ToSet(s) : CountOf(s, x) >= 3}} \cup {r \in Runs : r \subseteq ToSet(s)}
InMelds(f, k) ==
  3 * Cardinality({i \in DOMAIN f : f[i] = {k}}) + Cardinality({i \in DOMAIN f : k \in f[i] /\ f[i] # {k}})
PairAndMelds(s) ==
  \E eye \in ToSet(s) : \E f \in [1 .. Len(s) \div 3 -> Melds(s)] :
    \A k \in ToSet(s) : CountOf(s, k) = (IF k = eye THEN 2 ELSE 0) + InMelds(f, k)
SevenPairs(s) == Len(s) = 14 /\ \A k \in ToSet(s) : CountOf(s, k) \in {2, 4}
(* fourteen different tiles, the suits from one each of 147, 258 and 369   *)
AllApart(s) ==
  /\ Len(s) = 14 /\ Cardinality(ToSet(s)) = 14
  /\ \E h \in [1 .. 3 -> 0 .. 2] :
       /\ \A a, b \in 1 .. 3 : h[a] = h[b] => a = b
       /\ \A k \in ToSet(s) : k < 40 => (k % 10) % 3 = h[k \div 10]
WinIffMelds ==
  phase # "over" => \A t \in {x \in Tiles : left[x] > 0} :
    Len(hand) % 3 = 1 =>
      (CheckWinOne(hand, t) <=> LET s == Append(hand, t) IN
                                  \/ PairAndMelds(s)
                                  \/ "qidui" \in Fans /\ SevenPairs(s)
                                  \/ "shisanyao" \in Fans /\ AllApart(s))

(* The table reads a hand right at any time of the round.                  *)
HandReadRight == ClaimsExact /\ WinIffMelds
=============================================================================
