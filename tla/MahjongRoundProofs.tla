------------------------- MODULE MahjongRoundProofs -------------------------
(* The safety invariants of MahjongRound, for every wall, every number of  *)
(* rounds and any bound of wins and melds.                                 *)
EXTENDS MahjongRound, TLAPS

WinOf(s) == [seat |-> s, opttype |-> WIN]

(* Where the player at _opt_seatid and the last discarder are known, and   *)
(* that a round is begun only if it may be played.                         *)
TurnInv ==
  /\ status \notin {WAITING_START, GAME_STOP, FREED} => played < MaxTimes
  /\ status # WAITING_CLAIM_PLAYER => offer = {}
  /\ status = WAITING_PLAYER => opt # None
  /\ status = CHECK_CLAIM => lastDisc # None
  /\ Playing /\ lastDisc # None /\ status # CHECK_CLAIM => counted
  /\ status = WAITING_CLAIM_PLAYER /\ opt = None => lastDisc = None

(* What init_round_data and deal_tiles leave. *)
DealInv == status = AFTER_START =>
  /\ rob = NoRob /\ wins = [s \in Seats |-> 0] /\ lastDisc = None
  /\ passed = {} /\ liuju = 14 /\ pool = 0 /\ (claims # {} => stale)

(* Before the first discard nobody is asked but a drawer who can win.      *)
BeginInv == Playing /\ lastDisc = None =>
  /\ \A s \in Seats : held[s].pengs = 0
  /\ \A s \in Seats \ passed :
       wins[s] = 0 \/ (status = WAITING_CLAIM_PLAYER /\ opt = s /\ WIN \in offer)
  /\ rob = NoRob
  /\ status = WAITING_CLAIM =>
       \A c, d \in claims : c = d /\ c.opttype = WIN /\ held[c.seat].drawn
  /\ status = WAITING_CLAIM_PLAYER => /\ claims = {} /\ offer \subseteq {WIN}
                                      /\ opt # None => held[opt].drawn

(* A tile is apart from the hand only in the turn of its drawer, or while  *)
(* others are asked about his kong, or he about his win.                   *)
DrawnInv == Playing => \A s \in Seats \ passed : held[s].drawn =>
  \/ status = WAITING_PLAYER /\ opt = s
  \/ rob = [seat |-> s, kind |-> "peng"]
  \/ status = WAITING_CLAIM /\ claims = {WinOf(s)} /\ rob = NoRob
  \/ /\ status = WAITING_CLAIM_PLAYER /\ opt = s /\ offer = {WIN}
     /\ claims = {} /\ rob = NoRob

(* The kong that waits can still be made. *)
RobInv ==
  /\ Playing /\ rob.kind = "peng" => /\ held[rob.seat].pengs > 0
                                     /\ CanGive(held[rob.seat], 1)
  /\ \A c, d \in claims : c.opttype = QIANG_GANG_WIN => d.opttype = QIANG_GANG_WIN

(* A claim to win by a discard belongs to a seat that has not answered; it *)
(* is gone when the round ends.  Claims that are left over when a turn is  *)
(* played are those of an earlier round.                                   *)
ClaimInv ==
  /\ \A s \in Seats : WinOf(s) \in claims =>
       /\ ~stale
       /\ \/ status \in {GAME_STOP, FREED}
          \/ /\ status \in {WAITING_CLAIM, WAITING_CLAIM_PLAYER} /\ rob = NoRob
             /\ \/ counted /\ s \in canDian /\ (status = WAITING_CLAIM_PLAYER => s # opt)
                \/ status = WAITING_CLAIM /\ claims = {WinOf(s)}
  /\ WIN \in offer => ~stale
  /\ status \in {PLAYER_OPT, WAITING_PLAYER, CHECK_CLAIM} /\ claims # {}
       => \A s \in Seats : held[s].pengs = 0

(* HandSize leaves out who declined a drawn tile; he has no less tiles.    *)
EnoughInv == Playing => \A s \in Seats :
  /\ held[s].hand + 3 * held[s].melds + held[s].dark >= 13 + (IF OneMore(s) THEN 1 ELSE 0)
  /\ status = CHECK_CLAIM /\ lastDisc = s /\ ~lastTile => held[s].hand = 0 /\ ~held[s].drawn

(* Where the table stands when the tick has ended. *)
EndInv == ~alive =>
  \/ lastDisc = None /\ status \notin {WAITING_PLAYER, CHECK_CLAIM}
  \/ /\ status \in {CHECK_CLAIM, GAME_STOP, FREED}
     /\ \E s \in Seats : held[s].hand = 0 /\ (held[s].dark >= 2 \/ held[s].melds >= 5)

LiujuInv == liuju % 2 = 0 /\ liuju >= 14

CoreInv == /\ TypeOK /\ TurnInv /\ DealInv /\ BeginInv /\ DrawnInv /\ RobInv /\ RobPending
           /\ ClaimInv /\ HandSize /\ EnoughInv /\ LiujuInv

IInv == CoreInv /\ EndInv

USE DEF FREED, WAITING_START, BEFORE_START, AFTER_START, PLAYER_OPT, WAITING_PLAYER,
        CHECK_CLAIM, WAITING_CLAIM, WAITING_CLAIM_PLAYER, GAME_END, GAME_REST_WAITING,
        GAME_REST, GAME_STOP, CHI, PENG, LIGHT_GANG, WIN, QIANG_GANG_WIN, None

-----------------------------------------------------------------------------
(* TypeOK, by the groups of variables that steps leave alone.              *)
RoomOK == gold \in BOOLEAN /\ ready \subseteq Seats /\ played \in 0..MaxTimes /\ trust \subseteq Away
TurnOK == opt \in 0..4 /\ lastDisc \in 0..4 /\ lastTile \in BOOLEAN
AskOK == /\ claims \subseteq Claim /\ stale \in BOOLEAN /\ cached \in BOOLEAN
         /\ offer \subseteq {CHI, PENG, LIGHT_GANG, WIN, QIANG_GANG_WIN}
EndsOK == /\ canDian \subseteq Seats /\ counted \in BOOLEAN /\ passed \subseteq Seats
          /\ wins \in [Seats -> 0..MaxWins]
          /\ winType \in {NOWIN, BY_OWN, BY_OTHER, BY_GANG, NOWINERS}
TilesOK == held \in [Seats -> Hands] /\ pool \in Nat /\ wall \in Nat /\ liuju \in Nat

(* The groups together are TypeOK.                                         *)
LEMMA TypeParts ==
  ASSUME RoomOK', TurnOK', AskOK', EndsOK', TilesOK', alive' \in BOOLEAN, status' \in 0..12,
         rob' \in Robs
  PROVE  TypeOK'
  BY DEF TypeOK, RoomOK, TurnOK, AskOK, EndsOK, TilesOK

(* A group whose variables a step leaves alone stays well typed.           *)
LEMMA PartsStay ==
  ASSUME TypeOK
  PROVE  /\ UNCHANGED room => RoomOK'
         /\ UNCHANGED turn => TurnOK'
         /\ UNCHANGED ask => AskOK'
         /\ UNCHANGED ends => EndsOK'
         /\ UNCHANGED tiles => TilesOK'
  <1>1. UNCHANGED room => RoomOK'
    BY DEF TypeOK, room, RoomOK
  <1>2. UNCHANGED turn => TurnOK'
    BY DEF TypeOK, turn, TurnOK
  <1>3. UNCHANGED ask => AskOK'
    BY DEF TypeOK, ask, AskOK
  <1>4. UNCHANGED ends => EndsOK'
    BY DEF TypeOK, ends, EndsOK
  <1>5. UNCHANGED tiles => TilesOK'
    BY DEF TypeOK, tiles, TilesOK
  <1> QED BY <1>1, <1>2, <1>3, <1>4, <1>5

-----------------------------------------------------------------------------
(* The hand of one seat changes: its new size, drawn tile, melds, pengs    *)
(* and concealed kongs.                                                    *)
Becomes(p, h, d, m, g, k) ==
  /\ held' \in [Seats -> Hands]
  /\ held'[p].hand = h /\ held'[p].drawn = d /\ held'[p].melds = m
  /\ held'[p].pengs = g /\ held'[p].dark = k
  /\ \A s \in Seats : s # p => held'[s] = held[s]

(* The fields of a hand, and that it is made of them.                      *)
LEMMA FieldTypes == ASSUME NEW h \in Hands
  PROVE /\ h.hand \in Nat /\ h.drawn \in BOOLEAN /\ h.melds \in Nat
        /\ h.pengs \in Nat /\ h.dark \in Nat
        /\ h = [hand |-> h.hand, drawn |-> h.drawn, melds |-> h.melds,
                pengs |-> h.pengs, dark |-> h.dark]
  BY DEF Hands

(* A hand is replaced by another.                                          *)
LEMMA Update ==
  ASSUME held \in [Seats -> Hands], NEW p \in Seats,
         NEW h \in Nat, NEW d \in BOOLEAN, NEW m \in Nat, NEW g \in Nat, NEW k \in Nat,
         held' = [held EXCEPT ![p] = [hand |-> h, drawn |-> d, melds |-> m,
                                      pengs |-> g, dark |-> k]]
  PROVE  Becomes(p, h, d, m, g, k)
  <1> DEFINE r == [hand |-> h, drawn |-> d, melds |-> m, pengs |-> g, dark |-> k]
  <1>1. r \in Hands /\ r.hand = h /\ r.drawn = d /\ r.melds = m /\ r.pengs = g /\ r.dark = k
    BY DEF Hands
  <1>2. held' = [held EXCEPT ![p] = r]
    OBVIOUS
  <1> HIDE DEF r
  <1>3. /\ held' \in [Seats -> Hands] /\ held'[p] = r
        /\ \A s \in Seats : s # p => held'[s] = held[s]
    BY <1>1, <1>2
  <1> QED BY <1>1, <1>3 DEF Becomes

(* What a seat holds is a hand.                                            *)
LEMMA SeatHeld == ASSUME TypeOK, NEW p \in Seats
  PROVE /\ held \in [Seats -> Hands] /\ held[p] \in Hands
        /\ held[p].hand \in Nat /\ held[p].drawn \in BOOLEAN /\ held[p].melds \in Nat
        /\ held[p].pengs \in Nat /\ held[p].dark \in Nat
  <1>1. held \in [Seats -> Hands] /\ held[p] \in Hands
    BY DEF TypeOK
  <1> QED BY <1>1, FieldTypes

(* EXCEPT on a hand, field by field. *)
LEMMA SetHand == ASSUME NEW h \in Hands, NEW n \in Nat
  PROVE [h EXCEPT !.hand = n]
          = [hand |-> n, drawn |-> h.drawn, melds |-> h.melds, pengs |-> h.pengs, dark |-> h.dark]
  BY DEF Hands

(* EXCEPT on the tile drawn.                                               *)
LEMMA SetDrawn == ASSUME NEW h \in Hands, NEW d \in BOOLEAN
  PROVE [h EXCEPT !.drawn = d]
          = [hand |-> h.hand, drawn |-> d, melds |-> h.melds, pengs |-> h.pengs, dark |-> h.dark]
  BY DEF Hands

(* The size of a hand when it gives up n tiles. *)
Left(h, n) == IF h.drawn THEN h.hand + 1 - n ELSE h.hand - n

(* Tiles that a hand can give up leave a hand.                             *)
LEMMA GiveIs ==
  ASSUME NEW h \in Hands, NEW n \in {1, 4}, CanGive(h, n)
  PROVE  /\ Give(h, n) \in Hands /\ Left(h, n) \in Nat
         /\ Give(h, n) = [hand |-> Left(h, n), drawn |-> FALSE, melds |-> h.melds,
                          pengs |-> h.pengs, dark |-> h.dark]
  <1>1. Left(h, n) \in Nat
    BY FieldTypes DEF CanGive, Left
  <1>2. Give(h, n) = [hand |-> Left(h, n), drawn |-> FALSE, melds |-> h.melds,
                      pengs |-> h.pengs, dark |-> h.dark]
    BY DEF Give, Left
  <1> QED BY <1>1, <1>2, FieldTypes DEF Hands

(* player_drow: a tile apart from the hand.                                *)
LEMMA DrawHeld ==
  ASSUME TypeOK, NEW p \in Seats, held' = [held EXCEPT ![p].drawn = TRUE]
  PROVE  Becomes(p, held[p].hand, TRUE, held[p].melds, held[p].pengs, held[p].dark)
  <1> DEFINE h == held[p]
  <1>1. [h EXCEPT !.drawn = TRUE] = [hand |-> h.hand, drawn |-> TRUE, melds |-> h.melds,
                                     pengs |-> h.pengs, dark |-> h.dark]
    BY SeatHeld, SetDrawn
  <1>2. held' = [held EXCEPT ![p] = [h EXCEPT !.drawn = TRUE]]
    OBVIOUS
  <1>3. held \in [Seats -> Hands] /\ h.hand \in Nat /\ h.melds \in Nat /\ h.pengs \in Nat
        /\ h.dark \in Nat
    BY SeatHeld
  <1> HIDE DEF h
  <1>4. Becomes(p, h.hand, TRUE, h.melds, h.pengs, h.dark)
    BY <1>1, <1>2, <1>3, Update
  <1> QED BY <1>4 DEF h

(* players_win puts the tile that was won into the hand.                   *)
LEMMA WinHeld ==
  ASSUME TypeOK, NEW p \in Seats, held' = [held EXCEPT ![p].hand = @ + 1]
  PROVE  Becomes(p, held[p].hand + 1, held[p].drawn, held[p].melds, held[p].pengs, held[p].dark)
  <1> DEFINE h == held[p]
             x == h.hand + 1
  <1>1. [h EXCEPT !.hand = h.hand + 1]
          = [hand |-> h.hand + 1, drawn |-> h.drawn, melds |-> h.melds,
             pengs |-> h.pengs, dark |-> h.dark]
    BY SeatHeld DEF Hands
  <1>2. held' = [held EXCEPT ![p] = [h EXCEPT !.hand = h.hand + 1]]
    OBVIOUS
  <1>3. held' = [held EXCEPT ![p] = [hand |-> x, drawn |-> h.drawn, melds |-> h.melds,
                                     pengs |-> h.pengs, dark |-> h.dark]]
    BY <1>1, <1>2
  <1>4. held \in [Seats -> Hands] /\ x \in Nat /\ h.melds \in Nat /\ h.pengs \in Nat
        /\ h.dark \in Nat /\ h.drawn \in BOOLEAN
    BY SeatHeld
  <1> HIDE DEF h, x
  <1>5. Becomes(p, x, h.drawn, h.melds, h.pengs, h.dark)
    BY <1>3, <1>4, Update
  <1> QED BY <1>5 DEF h, x

(* player_discard takes one tile.                                          *)
LEMMA DiscardHeld ==
  ASSUME TypeOK, opt \in Seats, CanGive(held[opt], 1),
         held' = [held EXCEPT ![opt] = Give(@, 1)]
  PROVE  Becomes(opt, Left(held[opt], 1), FALSE, held[opt].melds, held[opt].pengs, held[opt].dark)
  BY GiveIs, Update, SeatHeld

(* player_an_gang lays four tiles down.                                    *)
LEMMA BlackGangHeld ==
  ASSUME TypeOK, opt \in Seats, CanGive(held[opt], 4),
         held' = [held EXCEPT ![opt] = LayDown(Give(@, 4), 0, 0, 1)]
  PROVE  Becomes(opt, Left(held[opt], 4), FALSE, held[opt].melds + 1, held[opt].pengs,
                 held[opt].dark + 1)
  <1>1. /\ Left(held[opt], 4) \in Nat /\ held[opt].melds + 1 \in Nat
        /\ held[opt].dark + 1 \in Nat
    BY GiveIs, SeatHeld
  <1>2. Left(held[opt], 4) - 0 = Left(held[opt], 4) /\ held[opt].pengs + 0 = held[opt].pengs
    BY <1>1, SeatHeld
  <1>3. /\ Give(held[opt], 4).hand = Left(held[opt], 4) /\ Give(held[opt], 4).drawn = FALSE
        /\ Give(held[opt], 4).melds = held[opt].melds
        /\ Give(held[opt], 4).pengs = held[opt].pengs
        /\ Give(held[opt], 4).dark = held[opt].dark
    BY DEF Give, Left
  <1>4. LayDown(Give(held[opt], 4), 0, 0, 1)
          = [hand |-> Left(held[opt], 4), drawn |-> FALSE, melds |-> held[opt].melds + 1,
             pengs |-> held[opt].pengs, dark |-> held[opt].dark + 1]
    BY <1>2, <1>3 DEF LayDown
  <1> QED BY <1>1, <1>4, Update, SeatHeld

(* peng_gang adds a tile to a peng.                                        *)
LEMMA PengGangHeld ==
  ASSUME TypeOK, NEW p \in Seats, CanGive(held[p], 1), held[p].pengs > 0,
         held' = [held EXCEPT ![p] = AddToPeng(Give(@, 1))]
  PROVE  Becomes(p, Left(held[p], 1), FALSE, held[p].melds, held[p].pengs - 1, held[p].dark)
  <1>1. Left(held[p], 1) \in Nat /\ held[p].pengs - 1 \in Nat
    BY GiveIs, SeatHeld
  <1>2. AddToPeng(Give(held[p], 1))
          = [hand |-> Left(held[p], 1), drawn |-> FALSE, melds |-> held[p].melds,
             pengs |-> held[p].pengs - 1, dark |-> held[p].dark]
    BY DEF Give, Left, AddToPeng
  <1> QED BY <1>1, <1>2, Update, SeatHeld

(* player_move_tiles_to_hold: n tiles are laid down with a claimed one.    *)
LEMMA LayDownHeld ==
  ASSUME TypeOK, NEW p \in Seats, NEW n \in Nat, NEW g \in Nat, held[p].hand >= n,
         held' = [held EXCEPT ![p] = LayDown(@, n, g, 0)]
  PROVE  Becomes(p, held[p].hand - n, held[p].drawn, held[p].melds + 1, held[p].pengs + g,
                 held[p].dark)
  <1>1. held[p].hand - n \in Nat /\ held[p].melds + 1 \in Nat /\ held[p].pengs + g \in Nat
    BY SeatHeld
  <1>2. LayDown(held[p], n, g, 0)
          = [hand |-> held[p].hand - n, drawn |-> held[p].drawn, melds |-> held[p].melds + 1,
             pengs |-> held[p].pengs + g, dark |-> held[p].dark]
    BY SeatHeld DEF LayDown
  <1> QED BY <1>1, <1>2, Update, SeatHeld

(* A question is its seat and its opttype. *)
LEMMA ClaimIs == ASSUME NEW c \in Claim
  PROVE /\ c.seat \in Seats /\ c.opttype \in {CHI, PENG, LIGHT_GANG, WIN, QIANG_GANG_WIN}
        /\ c.opttype = WIN => c = WinOf(c.seat)
  BY DEF Claim, WinOf

(* The question whether a seat wins by the discard.                        *)
LEMMA WinOfIs ==
  ASSUME NEW s \in Seats
  PROVE  WinOf(s) \in Claim /\ WinOf(s).seat = s /\ WinOf(s).opttype = WIN
  BY DEF WinOf, Claim

-----------------------------------------------------------------------------
(* Steps that leave the round as it is: readiness, trusteeship, refused    *)
(* answers, and errors in the tick.                                        *)
LEMMA QuietStep ==
  ASSUME CoreInv, TypeOK', UNCHANGED <<played, status, turn, claims, stale, offer, ends, rob, tiles>>
  PROVE  CoreInv'
  <1> USE DEF CoreInv, turn, ends, tiles
  <1>1. Playing' = Playing /\ \A s \in Seats : OneMore(s)' = OneMore(s)
    BY DEF Playing, OneMore
  <1>2. TurnInv' /\ DealInv' /\ BeginInv' /\ LiujuInv'
    BY <1>1 DEF TurnInv, DealInv, BeginInv, LiujuInv
  <1>3. DrawnInv' /\ RobInv' /\ RobPending'
    BY <1>1 DEF DrawnInv, RobInv, RobPending
  <1>4. ClaimInv'
    BY DEF ClaimInv
  <1>5. HandSize' /\ EnoughInv'
    BY <1>1 DEF HandSize, EnoughInv
  <1> QED BY <1>2, <1>3, <1>4, <1>5

(* The tick ends in check_kong; nobody can claim any more.                 *)
LEMMA CheckClaimFailsStep ==
  ASSUME CoreInv, CheckClaimFails
  PROVE  CoreInv'
  <1> USE DEF CoreInv, turn, ask, ends, tiles, room, CheckClaimFails, Ticking
  <1>1. Playing' = Playing /\ \A s \in Seats : OneMore(s)' = OneMore(s)
    BY DEF Playing, OneMore
  <1>2. TypeOK' /\ TurnInv' /\ DealInv' /\ BeginInv' /\ LiujuInv'
    BY <1>1 DEF TypeOK, TurnInv, DealInv, BeginInv, LiujuInv, room
  <1>3. DrawnInv' /\ RobInv' /\ RobPending'
    BY <1>1 DEF DrawnInv, RobInv, RobPending
  <1>4. ClaimInv'
    BY DEF ClaimInv
  <1>5. HandSize' /\ EnoughInv'
    BY <1>1 DEF HandSize, EnoughInv
  <1> QED BY <1>2, <1>3, <1>4, <1>5

(* Steps into a state without a round, with no claim to win left over.     *)
LEMMA OverStep ==
  ASSUME TypeOK', LiujuInv', status' \notin {WAITING_START, GAME_STOP, FREED} => played' < MaxTimes,
         status' \notin AFTER_START..WAITING_CLAIM_PLAYER, offer' = {},
         \A c, d \in claims' : c.opttype = QIANG_GANG_WIN => d.opttype = QIANG_GANG_WIN,
         \A s \in Seats : WinOf(s) \in claims' => ~stale' /\ status' \in {GAME_STOP, FREED}
  PROVE  CoreInv'
  <1>1. ~Playing'
    BY DEF Playing, TypeOK
  <1>2. TurnInv' /\ DealInv' /\ BeginInv'
    BY <1>1 DEF TurnInv, DealInv, BeginInv
  <1>3. DrawnInv' /\ RobInv' /\ RobPending' /\ ClaimInv'
    BY <1>1 DEF DrawnInv, RobInv, RobPending, ClaimInv
  <1>4. HandSize' /\ EnoughInv'
    BY <1>1 DEF HandSize, EnoughInv
  <1> QED BY <1>2, <1>3, <1>4 DEF CoreInv

(* No claim to win stays when a turn is played or when the round is over.  *)
LEMMA NoOldWin ==
  ASSUME CoreInv, NEW s \in Seats,
         status \notin {WAITING_CLAIM, WAITING_CLAIM_PLAYER, GAME_STOP, FREED}
  PROVE  WinOf(s) \notin claims
  BY DEF CoreInv, ClaimInv

(* _last_winners when a round begins, and with one winner.                 *)
LEMMA WinsType ==
  /\ \A o \in 0..4 : [s \in Seats |-> IF s = o THEN 1 ELSE 0] \in [Seats -> 0..MaxWins]
  /\ [s \in Seats |-> 0] \in [Seats -> 0..MaxWins]
  BY MahjongAssumption DEF Seats

(* init_round_data leaves a well-typed table.                              *)
LEMMA InitRoundType ==
  ASSUME NEW o \in 0..4, NEW n \in Nat, InitRoundData(o, n), TypeOK, offer' = {}, liuju' \in Nat
  PROVE  TurnOK' /\ AskOK' /\ EndsOK' /\ TilesOK' /\ rob' \in Robs
  <1>1. NoTiles \in Hands
    BY DEF NoTiles, Hands
  <1>2. held' \in [Seats -> Hands]
    BY <1>1 DEF InitRoundData
  <1>3. TilesOK'
    BY <1>2 DEF InitRoundData, TilesOK
  <1>4. wins' \in [Seats -> 0..MaxWins]
    BY WinsType DEF InitRoundData
  <1>5. EndsOK'
    BY <1>4 DEF InitRoundData, TypeOK, EndsOK
  <1>6. lastTile' \in BOOLEAN
    BY DEF InitRoundData
  <1>7. TurnOK'
    BY <1>6 DEF InitRoundData, TurnOK
  <1>8. AskOK'
    BY DEF InitRoundData, TypeOK, AskOK
  <1>9. rob' \in Robs
    BY DEF InitRoundData, Robs
  <1> QED BY <1>3, <1>5, <1>7, <1>8, <1>9

(* The end of the wall or of a turn, the rest between two rounds, and the  *)
(* steps before the deal and after the last round.                         *)
LEMMA BetweenRounds ==
  ASSUME CoreInv,
         \/ DealWaitingStart \/ WallExhausted \/ ReqOwnWin \/ DealGameRestWaiting
         \/ DealGameRest \/ DealGameStop
  PROVE  CoreInv'
  <1> USE DEF DealWaitingStart, WallExhausted, ReqOwnWin, DealGameRestWaiting, DealGameRest,
              DealGameStop, NextStatus, CanDraw, Ticking, Go
  <1>1. TypeOK'
    <2>1. CASE ReqOwnWin
      <3>1. wins' \in [Seats -> 0..MaxWins]
        BY <2>1, WinsType DEF CoreInv, TypeOK
      <3> QED BY <2>1, <3>1 DEF CoreInv, TypeOK, room, turn, tiles, BY_OWN
    <2>2. CASE WallExhausted
      BY <2>2 DEF CoreInv, TypeOK, room, tiles, Drawer, NextSeat, NOWINERS
    <2> QED BY <2>1, <2>2 DEF CoreInv, TypeOK, room, turn, tiles, ends
  <1>2. LiujuInv' /\ claims' = claims /\ stale' = stale /\ offer' = {}
    BY DEF CoreInv, LiujuInv, tiles
  <1>3. /\ status' \in {BEFORE_START, GAME_END, GAME_REST, FREED}
        /\ status' # FREED => played' < MaxTimes
    BY DEF CoreInv, TurnInv, room
  <1>4. \A s \in Seats : WinOf(s) \in claims' => ~stale' /\ status' = FREED
    BY <1>2, NoOldWin DEF CoreInv, ClaimInv
  <1> QED BY <1>1, <1>2, <1>3, <1>4, OverStep DEF CoreInv, RobInv

(* A dissolved table keeps nothing that is used again.                     *)
LEMMA DissolveStep ==
  ASSUME CoreInv, DissolveTable
  PROVE  CoreInv'
  <1>1. TypeOK' /\ LiujuInv'
    BY DEF DissolveTable, Go, CoreInv, TypeOK, LiujuInv, room, turn, ends, tiles
  <1>2. status' \in {GAME_STOP, FREED} /\ offer' = {} /\ UNCHANGED <<claims, stale>>
    BY DEF DissolveTable, Go
  <1> QED BY <1>1, <1>2, OverStep DEF CoreInv, ClaimInv, RobInv

(* Who robs a kong ends the round and takes all questions away.            *)
LEMMA RobWinStep ==
  ASSUME CoreInv, ReqRobWin
  PROVE  CoreInv'
  <1>1. opt \in Seats
    BY DEF ReqRobWin, Asked, CoreInv, TypeOK, Seats
  <1>2. Becomes(opt, held[opt].hand + 1, held[opt].drawn, held[opt].melds, held[opt].pengs,
                held[opt].dark)
    BY <1>1, WinHeld DEF ReqRobWin, CoreInv
  <1>3. TypeOK' /\ LiujuInv'
    <2>1. wins' \in [Seats -> 0..MaxWins]
      BY WinsType DEF ReqRobWin, CoreInv, TypeOK
    <2>2. EndsOK'
      BY <2>1 DEF ReqRobWin, EndsOK, CoreInv, TypeOK
    <2>3. TilesOK' /\ LiujuInv'
      BY <1>2 DEF ReqRobWin, TilesOK, CoreInv, TypeOK, Becomes, LiujuInv
    <2>4. AskOK'
      BY DEF ReqRobWin, Go, AskOK
    <2>5. UNCHANGED <<room, turn, alive, rob>> /\ status' = GAME_END
      BY DEF ReqRobWin, Go
    <2>6. RoomOK' /\ TurnOK'
      BY <2>5, PartsStay DEF CoreInv
    <2>7. alive' \in BOOLEAN /\ status' \in 0..12 /\ rob' \in Robs
      BY <2>5 DEF CoreInv, TypeOK
    <2> QED BY <2>2, <2>3, <2>4, <2>6, <2>7, TypeParts
  <1>4. status' = GAME_END /\ offer' = {} /\ claims' = {} /\ played' < MaxTimes
    BY DEF ReqRobWin, Asked, Go, CoreInv, TurnInv, room
  <1> QED BY <1>3, <1>4, OverStep

(* deal_game_end clears a gold table, and keeps a private one for the next *)
(* round, or stops it.                                                     *)
LEMMA GameEndStep ==
  ASSUME CoreInv, DealGameEnd
  PROVE  CoreInv'
  <1> USE DEF DealGameEnd, Ticking, Go, InitRoundData
  <1>1. TypeOK'
    <2>1. TypeOK /\ played' \in 0..MaxTimes
      BY MahjongAssumption DEF CoreInv, TypeOK, TurnInv
    <2>2. CASE gold
      <3> HIDE DEF InitRoundData
      <3>1. InitRoundData(0, 0) /\ offer' = {} /\ liuju' = liuju /\ ready' = {} /\ trust' = {}
            /\ UNCHANGED <<gold, alive>> /\ status' = WAITING_START
        BY <2>2
      <3>2. RoomOK'
        BY <2>1, <3>1 DEF TypeOK, RoomOK
      <3>3. liuju' \in Nat /\ status' \in 0..12
        BY <2>1, <3>1 DEF TypeOK
      <3>4. alive' \in BOOLEAN
        BY <2>1, <3>1 DEF TypeOK
      <3>5. TurnOK' /\ AskOK' /\ EndsOK' /\ TilesOK' /\ rob' \in Robs
        BY <2>1, <3>1, <3>3, InitRoundType
      <3> QED BY <3>2, <3>3, <3>4, <3>5, TypeParts
    <2>3. CASE ~gold
      BY <2>1, <2>3 DEF TypeOK, turn, ends
    <2> QED BY <2>2, <2>3
  <1>2. /\ status' \in {WAITING_START, GAME_STOP, GAME_REST_WAITING} /\ offer' = {}
        /\ claims' = claims /\ status' = GAME_REST_WAITING => played' < MaxTimes
    BY MahjongAssumption DEF CoreInv, TypeOK
  <1>3. LiujuInv'
    BY DEF CoreInv, LiujuInv
  <1>4. \A s \in Seats : WinOf(s) \notin claims
    BY NoOldWin
  <1> QED BY <1>1, <1>2, <1>3, <1>4, OverStep DEF CoreInv, RobInv

(* new_game: what is left of the last round is questions, none of them a   *)
(* win by a discard.                                                       *)
LEMMA DealBeforeStep ==
  ASSUME CoreInv, DealBeforeStart
  PROVE  CoreInv'
  <1> USE DEF DealBeforeStart, Ticking, Go, InitRoundData
  <1>1. TypeOK'
    <2>1. PICK banker \in Bankers : InitRoundData(banker, Total)
      OBVIOUS
    <2>2. banker \in 0..4 /\ Total \in Nat /\ TypeOK
      BY MahjongAssumption DEF Total, Seats, CoreInv
    <2>3. UNCHANGED room /\ alive' = alive /\ status' = AFTER_START /\ liuju' \in Nat /\ offer' = {}
      OBVIOUS
    <2>4. RoomOK'
      BY <2>2, <2>3, PartsStay
    <2>5. TurnOK' /\ AskOK' /\ EndsOK' /\ TilesOK' /\ rob' \in Robs
      BY <2>1, <2>2, <2>3, InitRoundType
    <2>6. alive' \in BOOLEAN /\ status' \in 0..12
      BY <2>2, <2>3 DEF TypeOK
    <2> QED BY <2>4, <2>5, <2>6, TypeParts
  <1>2. status' = AFTER_START /\ offer' = {} /\ claims' = claims /\ ~Playing'
    BY DEF Playing
  <1>3. TurnInv' /\ BeginInv' /\ LiujuInv'
    BY <1>2 DEF CoreInv, TurnInv, BeginInv, LiujuInv, room
  <1>7. DealInv'
    BY DEF DealInv
  <1>4. \A s \in Seats : WinOf(s) \notin claims
    BY NoOldWin
  <1>5. DrawnInv' /\ RobInv' /\ RobPending' /\ ClaimInv'
    BY <1>2, <1>4 DEF CoreInv, DrawnInv, RobInv, RobPending, ClaimInv
  <1>6. HandSize' /\ EnoughInv'
    BY <1>2 DEF HandSize, EnoughInv
  <1> QED BY <1>1, <1>3, <1>5, <1>6, <1>7 DEF CoreInv

(* deal_tiles: thirteen tiles for each seat.                               *)
LEMMA DealAfterStep ==
  ASSUME CoreInv, DealAfterStart
  PROVE  CoreInv'
  <1> DEFINE h == [hand |-> 13, drawn |-> FALSE, melds |-> 0, pengs |-> 0, dark |-> 0]
  <1>1. held' = [s \in Seats |-> h]
    <2>1. NoTiles \in Hands
      BY DEF NoTiles, Hands
    <2>2. [NoTiles EXCEPT !.hand = 13] = h
      BY <2>1, SetHand DEF NoTiles
    <2> QED BY <2>2 DEF DealAfterStart
  <1>2. h \in Hands /\ h.hand = 13 /\ h.drawn = FALSE /\ h.melds = 0 /\ h.pengs = 0 /\ h.dark = 0
    BY DEF Hands
  <1> HIDE DEF h
  <1>3. held' \in [Seats -> Hands] /\ \A s \in Seats : held'[s] = h
    BY <1>1, <1>2
  <1> USE DEF DealAfterStart, Ticking, Go
  <1>4. TypeOK'
    BY <1>3, MahjongAssumption DEF CoreInv, TypeOK, room, turn, ends
  <1>5. /\ rob' = NoRob /\ lastDisc' = None /\ passed' = {} /\ status' = PLAYER_OPT /\ offer' = {}
        /\ claims' = claims /\ stale' = stale /\ \A s \in Seats : wins'[s] = 0
    BY DEF CoreInv, DealInv, turn, ends
  <1>6. DealInv' /\ LiujuInv'
    BY <1>5 DEF CoreInv, DealInv, LiujuInv
  <1>11. TurnInv'
    BY <1>5 DEF CoreInv, TurnInv, Playing, room
  <1>12. BeginInv'
    BY <1>2, <1>3, <1>5 DEF BeginInv
  <1>7. \A s \in Seats : WinOf(s) \notin claims
    BY NoOldWin
  <1>8. DrawnInv' /\ RobInv' /\ RobPending'
    BY <1>2, <1>3, <1>5 DEF CoreInv, DealInv, DrawnInv, RobInv, RobPending, NoRob
  <1>9. ClaimInv'
    BY <1>2, <1>3, <1>5, <1>7 DEF ClaimInv
  <1>10. HandSize' /\ EnoughInv'
    BY <1>2, <1>3, <1>5 DEF HandSize, EnoughInv, OneMore, NoRob
  <1> QED BY <1>4, <1>6, <1>8, <1>9, <1>10, <1>11, <1>12 DEF CoreInv

-----------------------------------------------------------------------------
(* Steps within a round. *)
LEMMA DrawStep ==
  ASSUME CoreInv, Draw
  PROVE  CoreInv'
  <1> DEFINE d == Drawer
  <1>1. TypeOK /\ d \in Seats /\ opt' = d /\ held' = [held EXCEPT ![d].drawn = TRUE]
    BY DEF Draw, CanDraw, Drawer, NextSeat, CoreInv, TypeOK, Seats
  <1>2. /\ status = PLAYER_OPT /\ wall > liuju /\ wall' = wall - 1 /\ UNCHANGED <<room, alive, rob, cached, ends>>
        /\ lastDisc' = lastDisc /\ lastTile' = lastTile /\ pool' = pool /\ liuju' = liuju
        /\ status' \in {WAITING_PLAYER, WAITING_CLAIM} /\ offer' = {}
        /\ status' = WAITING_PLAYER => UNCHANGED <<claims, stale>>
        /\ status' = WAITING_CLAIM => claims' = {WinOf(d)} /\ ~stale'
    BY DEF Draw, CanDraw, Ticking, Go, WinOf
  <1> HIDE DEF d
  <1>3. Becomes(d, held[d].hand, TRUE, held[d].melds, held[d].pengs, held[d].dark)
    BY <1>1, DrawHeld
  <1>4. /\ Playing /\ Playing' /\ rob = NoRob
        /\ \A s \in Seats \ passed : ~held[s].drawn
        /\ \A s \in Seats : WinOf(s) \notin claims
    BY <1>2, NoOldWin DEF CoreInv, Playing, RobPending, DrawnInv, NoRob
  <1>5. TypeOK'
    <2>1. TilesOK'
      BY <1>1, <1>2, <1>3 DEF TypeOK, TilesOK, Becomes
    <2>2. AskOK'
      BY <1>1, <1>2, WinOfIs DEF TypeOK, AskOK, Draw, Go
    <2>3. TurnOK'
      BY <1>1, <1>2 DEF TypeOK, TurnOK, Seats
    <2>4. alive' \in BOOLEAN /\ status' \in 0..12 /\ rob' \in Robs
      BY <1>1, <1>2 DEF TypeOK
    <2>5. RoomOK' /\ EndsOK'
      BY <1>1, <1>2, PartsStay
    <2> QED BY <2>1, <2>2, <2>3, <2>4, <2>5, TypeParts
  <1>6. TurnInv' /\ DealInv' /\ LiujuInv'
    BY <1>1, <1>2, <1>4 DEF CoreInv, TurnInv, DealInv, LiujuInv, room, ends, Seats
  <1>7. BeginInv'
    BY <1>1, <1>2, <1>3, <1>4, WinOfIs DEF CoreInv, BeginInv, ends, Becomes
  <1>8. DrawnInv'
    BY <1>1, <1>2, <1>3, <1>4 DEF DrawnInv, ends, Becomes
  <1>9. RobInv' /\ RobPending'
    BY <1>1, <1>2, <1>4, WinOfIs DEF CoreInv, RobInv, RobPending, NoRob
  <1>10. ClaimInv'
    <2>1. \A s \in Seats : WinOf(s) \in claims' => status' = WAITING_CLAIM /\ s = d
      BY <1>1, <1>2, <1>4, WinOfIs
    <2>2. status' # WAITING_CLAIM => \A s \in Seats : held'[s].pengs = held[s].pengs
      BY <1>3 DEF Becomes
    <2> QED BY <1>2, <1>4, <2>1, <2>2 DEF CoreInv, ClaimInv
  <1>11. \A s \in Seats : /\ ~OneMore(s)' /\ ~OneMore(s) /\ held'[s].hand = held[s].hand
                          /\ held'[s].melds = held[s].melds /\ held'[s].dark = held[s].dark
    BY <1>1, <1>2, <1>3, <1>4 DEF OneMore, Becomes, NoRob
  <1>12. HandSize' /\ EnoughInv'
    BY <1>2, <1>4, <1>11 DEF CoreInv, HandSize, EnoughInv, ends
  <1> QED BY <1>5, <1>6, <1>7, <1>8, <1>9, <1>10, <1>12 DEF CoreInv

(* A turn ends without a discard only with an empty hand and no tile       *)
(* drawn.                                                                  *)
LEMMA DiscardNothingStep ==
  ASSUME CoreInv, AutoDiscardNothing
  PROVE  CoreInv'
  <1>1. opt \in Seats /\ TypeOK
    BY DEF CoreInv, TypeOK, TurnInv, AutoDiscardNothing, Ticking, Seats
  <1>2. /\ status = WAITING_PLAYER /\ status' = CHECK_CLAIM /\ offer' = {} /\ lastDisc' = opt
        /\ lastTile' = FALSE /\ opt' = NextSeat(opt)
        /\ UNCHANGED <<gold, ready, played, alive, claims, stale, cached, ends, rob, tiles>>
    BY DEF AutoDiscardNothing, Ticking, Go
  <1>3. ~held[opt].drawn /\ held[opt].hand = 0
    BY <1>1, SeatHeld DEF AutoDiscardNothing, CanGive
  <1>4. Playing /\ Playing' /\ rob = NoRob
    BY <1>2 DEF CoreInv, RobPending, Playing
  <1>5. TypeOK'
    <2>1. RoomOK'
      BY <1>1, <1>2, MahjongAssumption DEF TypeOK, RoomOK, AutoDiscardNothing, AutoTrust
    <2>6. lastTile' \in BOOLEAN
      BY <1>2
    <2>2. TurnOK'
      BY <1>1, <1>2, <2>6 DEF TurnOK, NextSeat, Seats
    <2>3. AskOK'
      BY <1>1, <1>2 DEF TypeOK, AskOK
    <2>4. alive' \in BOOLEAN /\ status' \in 0..12 /\ rob' \in Robs
      BY <1>1, <1>2 DEF TypeOK
    <2>5. TilesOK' /\ EndsOK'
      BY <1>1, <1>2, PartsStay
    <2> QED BY <2>1, <2>2, <2>3, <2>4, <2>5, TypeParts
  <1>6. TurnInv' /\ DealInv' /\ LiujuInv'
    BY <1>1, <1>2 DEF CoreInv, TurnInv, DealInv, LiujuInv, tiles, Seats
  <1>7. BeginInv'
    BY <1>1, <1>2 DEF BeginInv, Seats
  <1>8. DrawnInv'
    BY <1>2, <1>3, <1>4 DEF CoreInv, DrawnInv, ends, tiles, NoRob
  <1>9. RobInv' /\ RobPending'
    BY <1>2, <1>4 DEF CoreInv, RobInv, RobPending, NoRob
  <1>10. ClaimInv'
    BY <1>2 DEF CoreInv, ClaimInv, tiles
  <1>11. \A s \in Seats : OneMore(s)' = OneMore(s)
    BY <1>1, <1>2, <1>3, <1>4 DEF OneMore, tiles, NoRob
  <1>12. HandSize'
    BY <1>1, <1>2, <1>4, <1>11 DEF CoreInv, HandSize, BeginInv, ends, tiles, Seats
  <1>13. EnoughInv'
    BY <1>2, <1>3, <1>4, <1>11 DEF CoreInv, EnoughInv, ends, tiles
  <1> QED BY <1>5, <1>6, <1>7, <1>8, <1>9, <1>10, <1>12, <1>13 DEF CoreInv

(* A concealed kong: its player has a tile too few from now on.            *)
LEMMA BlackGangStep ==
  ASSUME CoreInv, ReqBlackGang
  PROVE  CoreInv'
  <1>1. opt \in Seats /\ TypeOK
    BY DEF CoreInv, TypeOK, TurnInv, ReqBlackGang, Seats
  <1>2. Becomes(opt, Left(held[opt], 4), FALSE, held[opt].melds + 1, held[opt].pengs,
                held[opt].dark + 1)
    BY <1>1, BlackGangHeld DEF ReqBlackGang
  <1>3. /\ status = WAITING_PLAYER /\ liuju' = liuju + 2
        /\ UNCHANGED <<room, alive, status, turn, ask, ends, rob, pool, wall>>
    BY DEF ReqBlackGang
  <1>4. Playing /\ Playing' /\ rob = NoRob
    BY <1>3 DEF CoreInv, RobPending, Playing
  <1>5. TypeOK'
    <2>1. TilesOK'
      BY <1>1, <1>2, <1>3 DEF TypeOK, TilesOK, Becomes
    <2>2. alive' \in BOOLEAN /\ status' \in 0..12 /\ rob' \in Robs
      BY <1>1, <1>3 DEF TypeOK
    <2>3. RoomOK' /\ TurnOK' /\ AskOK' /\ EndsOK'
      BY <1>1, <1>3, PartsStay
    <2> QED BY <2>1, <2>2, <2>3, TypeParts
  <1>6. TurnInv' /\ DealInv'
    BY <1>3, <1>4 DEF CoreInv, TurnInv, DealInv, room, turn, ask, ends
  <1>14. LiujuInv'
    BY <1>1, <1>3 DEF CoreInv, LiujuInv, TypeOK
  <1>7. BeginInv'
    BY <1>1, <1>2, <1>3, <1>4 DEF CoreInv, BeginInv, turn, ask, ends, Becomes
  <1>8. DrawnInv'
    BY <1>1, <1>2, <1>3, <1>4 DEF CoreInv, DrawnInv, turn, ask, ends, Becomes
  <1>9. RobInv' /\ RobPending'
    BY <1>3, <1>4 DEF CoreInv, RobInv, RobPending, NoRob, turn, ask
  <1>10. ClaimInv'
    BY <1>1, <1>2, <1>3 DEF CoreInv, ClaimInv, turn, ask, ends, Becomes
  <1>11. \A s \in Seats : /\ OneMore(s) <=> s = opt /\ ~held[s].drawn
                          /\ OneMore(s)' <=> s = opt
    BY <1>1, <1>2, <1>3, <1>4 DEF OneMore, turn, Becomes, NoRob
  <1>12. \A s \in Seats : held'[s].hand + 3 * held'[s].melds + held'[s].dark
                            = held[s].hand + 3 * held[s].melds + held[s].dark
                              + (IF s = opt /\ held[s].drawn THEN 1 ELSE 0)
    <2> SUFFICES ASSUME NEW s \in Seats
                 PROVE  held'[s].hand + 3 * held'[s].melds + held'[s].dark
                            = held[s].hand + 3 * held[s].melds + held[s].dark
                              + (IF s = opt /\ held[s].drawn THEN 1 ELSE 0)
      OBVIOUS
    <2> QED BY <1>1, <1>2, SeatHeld DEF Becomes, Left
  <1>13. HandSize' /\ EnoughInv'
    <2>1. ASSUME NEW s \in Seats
          PROVE  /\ s \notin passed' => held'[s].hand + 3 * held'[s].melds + held'[s].dark
                      = 13 + (IF OneMore(s)' THEN 1 ELSE 0) + (IF lastDisc' = None THEN 0 ELSE wins'[s])
                 /\ held'[s].hand + 3 * held'[s].melds + held'[s].dark >= 13 + (IF OneMore(s)' THEN 1 ELSE 0)
      <3>1. held[s].hand \in Nat /\ held[s].melds \in Nat /\ held[s].dark \in Nat /\ wins[s] \in Nat
        BY <1>1, <2>1, SeatHeld DEF TypeOK
      <3>2. passed' = passed /\ wins' = wins /\ lastDisc' = lastDisc
        BY <1>3 DEF ends, turn
      <3>3. /\ s \notin passed => held[s].hand + 3 * held[s].melds + held[s].dark
                      = 13 + (IF OneMore(s) THEN 1 ELSE 0) + (IF lastDisc = None THEN 0 ELSE wins[s])
            /\ held[s].hand + 3 * held[s].melds + held[s].dark >= 13 + (IF OneMore(s) THEN 1 ELSE 0)
        BY <1>4, <2>1 DEF CoreInv, HandSize, EnoughInv
      <3> QED BY <2>1, <1>11, <1>12, <3>1, <3>2, <3>3
    <2> QED BY <2>1, <1>3 DEF HandSize, EnoughInv
  <1> QED BY <1>5, <1>6, <1>7, <1>8, <1>9, <1>10, <1>13, <1>14 DEF CoreInv

(* A discard brings the hand back to its size, whether a tile was drawn or *)
(* taken by a claim.                                                       *)
LEMMA DiscardStep ==
  ASSUME CoreInv, Discard, trust' \subseteq Away
  PROVE  CoreInv'
  <1>1. opt \in Seats /\ TypeOK
    BY DEF CoreInv, TypeOK, TurnInv, Discard, Seats
  <1>2. Becomes(opt, Left(held[opt], 1), FALSE, held[opt].melds, held[opt].pengs, held[opt].dark)
    BY <1>1, DiscardHeld DEF Discard
  <1>3. rob = NoRob
    BY DEF CoreInv, RobPending, Playing, Discard
  <1>4. TypeOK'
    BY <1>1, <1>2 DEF Discard, TypeOK, Becomes, ask, ends, Go, NextSeat, Seats
  <1>5. TurnInv'
    BY <1>1 DEF CoreInv, TypeOK, TurnInv, Discard, ends, Go, Playing, Seats
  <1>6. DealInv'
    BY DEF DealInv, Discard, Go
  <1>7. BeginInv'
    BY <1>1 DEF BeginInv, Discard, Seats
  <1>8. DrawnInv'
    BY <1>1, <1>2, <1>3 DEF CoreInv, DrawnInv, Discard, ends, Go, Playing, Becomes, NoRob
  <1>9. RobInv' /\ RobPending'
    BY <1>3 DEF CoreInv, RobInv, RobPending, Discard, Go, Playing, NoRob
  <1>10. ClaimInv'
    BY <1>1, <1>2, <1>3 DEF CoreInv, ClaimInv, Discard, Go, WinOf, Becomes
  <1>11. HandSize'
    <2> SUFFICES ASSUME NEW s \in Seats, s \notin passed
                 PROVE  held'[s].hand + 3 * held'[s].melds + held'[s].dark = 13 + wins[s]
      BY <1>1, <1>3 DEF HandSize, Discard, ends, Go, OneMore, NoRob, Seats
    <2>1. /\ held[s].hand + 3 * held[s].melds + held[s].dark
               = 13 + (IF OneMore(s) THEN 1 ELSE 0) + (IF lastDisc = None THEN 0 ELSE wins[s])
          /\ lastDisc = None => wins[s] = 0
      BY DEF CoreInv, HandSize, BeginInv, Playing, Discard
    <2>2. OneMore(s) <=> s = opt /\ ~held[s].drawn
      BY <1>3 DEF OneMore, Discard, NoRob
    <2>3. /\ held[s].hand \in Nat /\ held[s].melds \in Nat /\ held[s].dark \in Nat
          /\ wins[s] \in Nat
      BY <1>1, SeatHeld DEF TypeOK
    <2> QED BY <1>1, <1>2, <2>1, <2>2, <2>3 DEF Becomes, Left
  <1>12. EnoughInv'
    <2> SUFFICES ASSUME NEW s \in Seats
                 PROVE  held'[s].hand + 3 * held'[s].melds + held'[s].dark >= 13
      BY <1>1, <1>3 DEF EnoughInv, Discard, Go, OneMore, NoRob, Seats
    <2>1. held[s].hand + 3 * held[s].melds + held[s].dark >= 13 + (IF OneMore(s) THEN 1 ELSE 0)
      BY DEF CoreInv, EnoughInv, Playing, Discard
    <2>2. s = opt /\ ~held[s].drawn => OneMore(s)
      BY DEF OneMore, Discard
    <2>3. held[s].hand \in Nat /\ held[s].melds \in Nat /\ held[s].dark \in Nat
      BY <1>1, SeatHeld
    <2> QED BY <1>1, <1>2, <2>1, <2>2, <2>3 DEF Becomes, Left
  <1>13. LiujuInv'
    BY DEF CoreInv, LiujuInv, Discard
  <1> QED BY <1>4, <1>5, <1>6, <1>7, <1>8, <1>9, <1>10, <1>11, <1>12, <1>13 DEF CoreInv

(* The kong that waits is its seat and its kind.                           *)
LEMMA RobIs ==
  ASSUME rob \in Robs
  PROVE  /\ rob.kind = "none" <=> rob = NoRob
         /\ rob # NoRob => rob.seat \in Seats /\ rob = [seat |-> rob.seat, kind |-> rob.kind]
         /\ rob.kind \in {"none", "peng", "light", "old"}
  BY DEF Robs, NoRob

(* A kong begins to wait.                                                  *)
LEMMA NewRob ==
  ASSUME NEW s \in Seats, NEW k \in {"peng", "light", "old"}, rob' = [seat |-> s, kind |-> k]
  PROVE  rob' \in Robs /\ rob' # NoRob /\ rob'.seat = s /\ rob'.kind = k
  BY DEF Robs, NoRob

(* check_qiangganghu asks others than the player of the kong. *)
LEMMA RobQuestions ==
  ASSUME NEW p, NEW R \in SUBSET {s \in Seats \ {p} : Waiting(s)},
         claims' = {[seat |-> s, opttype |-> QIANG_GANG_WIN] : s \in R}
  PROVE  /\ claims' \subseteq Claim
         /\ \A c \in claims' : c.opttype = QIANG_GANG_WIN /\ c.seat # p
  <1>1. \A s \in R : s \in Seats /\ s # p
    OBVIOUS
  <1>2. \A c \in claims' : \E s \in R : c = [seat |-> s, opttype |-> QIANG_GANG_WIN]
    OBVIOUS
  <1>3. ASSUME NEW s \in Seats
        PROVE  /\ [seat |-> s, opttype |-> QIANG_GANG_WIN] \in Claim
               /\ [seat |-> s, opttype |-> QIANG_GANG_WIN].seat = s
               /\ [seat |-> s, opttype |-> QIANG_GANG_WIN].opttype = QIANG_GANG_WIN
    BY DEF Claim
  <1> QED BY <1>1, <1>2, <1>3

(* player_peng_gang: there are no older questions, for a player who has a  *)
(* peng.                                                                   *)
LEMMA PengGangAskStep ==
  ASSUME CoreInv, ReqPengGang
  PROVE  CoreInv'
  <1>1. opt \in Seats /\ TypeOK
    BY DEF CoreInv, TypeOK, TurnInv, ReqPengGang, Seats
  <1>2. /\ status = WAITING_PLAYER /\ status' = WAITING_CLAIM /\ offer' = {}
        /\ rob' = [seat |-> opt, kind |-> "peng"] /\ held[opt].pengs > 0 /\ CanGive(held[opt], 1)
        /\ UNCHANGED <<room, alive, turn, cached, ends, tiles>>
    BY DEF ReqPengGang, Go
  <1>3. rob' \in Robs /\ rob' # NoRob /\ rob'.seat = opt /\ rob'.kind = "peng"
    BY <1>1, <1>2, NewRob
  <1>4. Playing /\ Playing' /\ rob = NoRob /\ lastDisc # None /\ claims = {}
    <2>1. Playing /\ Playing' /\ held[opt].pengs # 0
      BY <1>1, <1>2, SeatHeld DEF Playing
    <2> QED BY <1>1, <1>2, <2>1 DEF CoreInv, RobPending, BeginInv, ClaimInv
  <1>5. /\ claims' \subseteq Claim /\ stale' \in BOOLEAN
        /\ \A c \in claims' : c.opttype = QIANG_GANG_WIN /\ c.seat # opt
    <2>1. CASE UNCHANGED <<claims, stale>>
      BY <1>1, <1>4, <2>1 DEF TypeOK
    <2>2. CASE ~UNCHANGED <<claims, stale>>
      <3>1. PICK R \in SUBSET {s \in Seats \ {opt} : Waiting(s)} :
              /\ claims' = {[seat |-> s, opttype |-> QIANG_GANG_WIN] : s \in R} /\ stale' = FALSE
        BY <2>2 DEF ReqPengGang
      <3>2. stale' \in BOOLEAN
        BY <3>1
      <3> QED BY <3>1, <3>2, RobQuestions
    <2> QED BY <2>1, <2>2
  <1>6. TypeOK'
    <2>1. AskOK'
      BY <1>1, <1>2, <1>5 DEF TypeOK, AskOK
    <2>2. alive' \in BOOLEAN /\ status' \in 0..12
      BY <1>1, <1>2 DEF TypeOK
    <2>3. RoomOK' /\ TurnOK' /\ EndsOK' /\ TilesOK'
      BY <1>1, <1>2, PartsStay
    <2> QED BY <1>3, <2>1, <2>2, <2>3, TypeParts
  <1>7. TurnInv' /\ DealInv' /\ BeginInv' /\ LiujuInv'
    BY <1>2, <1>4 DEF CoreInv, TurnInv, DealInv, BeginInv, LiujuInv, room, turn, ends, tiles
  <1>8. DrawnInv'
    BY <1>2, <1>4 DEF CoreInv, DrawnInv, ends, turn, tiles, NoRob
  <1>9. RobInv'
    BY <1>2, <1>3, <1>5 DEF RobInv, tiles, CanGive
  <1>10. RobPending'
    BY <1>2, <1>3, <1>5 DEF RobPending
  <1>11. ClaimInv'
    BY <1>2, <1>5, WinOfIs DEF ClaimInv
  <1>12. \A s \in Seats : OneMore(s)' = OneMore(s)
    BY <1>1, <1>2, <1>4 DEF OneMore, turn, tiles, NoRob
  <1>13. HandSize' /\ EnoughInv'
    BY <1>2, <1>4, <1>12 DEF CoreInv, HandSize, EnoughInv, turn, ends, tiles
  <1> QED BY <1>6, <1>7, <1>8, <1>9, <1>10, <1>11, <1>13 DEF CoreInv

(* check_player_claim asks only seats it puts into _can_dian_player to     *)
(* win, and never about a kong.                                            *)
LEMMA CheckClaimStep ==
  ASSUME CoreInv, DealCheckClaim
  PROVE  CoreInv'
  <1>1. /\ TypeOK /\ status = CHECK_CLAIM /\ lastTile /\ status' = WAITING_CLAIM /\ offer' = {}
        /\ counted' = TRUE /\ UNCHANGED <<room, alive, turn, cached, wins, winType, passed, rob, tiles>>
    BY DEF CoreInv, DealCheckClaim, Ticking, Go
  <1>2. PICK W \in SUBSET Seats :
          /\ canDian' = W
          /\ \/ UNCHANGED <<claims, stale>>
             \/ /\ stale' = FALSE /\ claims' \subseteq Claim
                /\ \A c \in claims' : /\ c.opttype # QIANG_GANG_WIN
                                      /\ c.opttype = WIN => c.seat \in W
    <2>1. PICK W \in SUBSET {s \in Seats \ {lastDisc} : Waiting(s)},
               P \in SUBSET {s \in Seats \ {lastDisc} : CanMeld(s)},
               C \in SUBSET {s \in {NextSeat(lastDisc)} : CanMeld(s)} :
            /\ \E G \in SUBSET {s \in P : held[s].hand >= 3} :
                 LET cs == [seat : W, opttype : {WIN}] \cup [seat : G, opttype : {LIGHT_GANG}]
                             \cup [seat : P, opttype : {PENG}] \cup [seat : C, opttype : {CHI}]
                 IN  IF cs = {} THEN UNCHANGED <<claims, stale>>
                                ELSE claims' = cs /\ stale' = FALSE
            /\ canDian' = W
      BY DEF DealCheckClaim
    <2>2. PICK G \in SUBSET {s \in P : held[s].hand >= 3} :
            \/ UNCHANGED <<claims, stale>>
            \/ /\ stale' = FALSE
               /\ claims' = [seat : W, opttype : {WIN}] \cup [seat : G, opttype : {LIGHT_GANG}]
                              \cup [seat : P, opttype : {PENG}] \cup [seat : C, opttype : {CHI}]
      BY <2>1
    <2>3. W \subseteq Seats /\ P \subseteq Seats /\ G \subseteq Seats /\ C \subseteq Seats
      BY <1>1, <2>1, <2>2 DEF TypeOK, NextSeat, Seats
    <2>4. CASE UNCHANGED <<claims, stale>>
      BY <2>1, <2>3, <2>4
    <2>5. CASE ~UNCHANGED <<claims, stale>>
      <3>1. claims' \subseteq Claim
        BY <2>2, <2>3, <2>5 DEF Claim
      <3>2. \A c \in claims' : c.opttype # QIANG_GANG_WIN /\ (c.opttype = WIN => c.seat \in W)
        BY <2>2, <2>5
      <3> QED BY <2>1, <2>2, <2>3, <2>5, <3>1, <3>2
    <2> QED BY <2>4, <2>5
  <1>3. /\ Playing /\ Playing' /\ rob = NoRob /\ lastDisc # None
        /\ \A s \in Seats \ passed : ~held[s].drawn
        /\ \A s \in Seats : WinOf(s) \notin claims
    BY <1>1, NoOldWin DEF CoreInv, Playing, RobPending, DrawnInv, TurnInv, NoRob
  <1>4. TypeOK'
    <2>1. AskOK'
      BY <1>1, <1>2 DEF TypeOK, AskOK
    <2>2. EndsOK'
      BY <1>1, <1>2 DEF TypeOK, EndsOK
    <2>3. alive' \in BOOLEAN /\ status' \in 0..12 /\ rob' \in Robs
      BY <1>1 DEF TypeOK
    <2>4. RoomOK' /\ TurnOK' /\ TilesOK'
      BY <1>1, PartsStay
    <2> QED BY <2>1, <2>2, <2>3, <2>4, TypeParts
  <1>5. TurnInv' /\ DealInv' /\ BeginInv' /\ LiujuInv'
    BY <1>1, <1>3 DEF CoreInv, TurnInv, DealInv, BeginInv, LiujuInv, room, turn, tiles
  <1>6. DrawnInv'
    BY <1>1, <1>3 DEF DrawnInv, tiles
  <1>7. RobInv' /\ RobPending'
    BY <1>1, <1>2, <1>3 DEF CoreInv, RobInv, RobPending, NoRob
  <1>8. ClaimInv'
    BY <1>1, <1>2, <1>3, WinOfIs DEF ClaimInv
  <1>9. \A s \in Seats : ~OneMore(s)' /\ ~OneMore(s)
    BY <1>1, <1>3 DEF OneMore, NoRob
  <1>10. HandSize' /\ EnoughInv'
    BY <1>1, <1>3, <1>9 DEF CoreInv, HandSize, EnoughInv, turn, tiles
  <1> QED BY <1>4, <1>5, <1>6, <1>7, <1>8, <1>10 DEF CoreInv

(* order_claims_players has a first claim. *)
LEMMA FirstIs ==
  ASSUME claims \subseteq Claim, claims # {}
  PROVE  First \in claims /\ \A d \in claims : d # First => Before(First, d)
  <1>1. PICK o \in {CHI, PENG, LIGHT_GANG, WIN, QIANG_GANG_WIN} :
          /\ \E c \in claims : c.opttype = o
          /\ \A d \in claims : d.opttype <= o
    <2>1. \A d \in claims : d.opttype \in {3, 4, 5, 8, 9}
      BY DEF Claim
    <2>2. CASE \E c \in claims : c.opttype = 9
      BY <2>1, <2>2
    <2>3. CASE ~(\E c \in claims : c.opttype = 9) /\ \E c \in claims : c.opttype = 8
      BY <2>1, <2>3
    <2>4. CASE ~(\E c \in claims : c.opttype \in {8, 9}) /\ \E c \in claims : c.opttype = 5
      BY <2>1, <2>4
    <2>5. CASE ~(\E c \in claims : c.opttype \in {5, 8, 9}) /\ \E c \in claims : c.opttype = 4
      BY <2>1, <2>5
    <2>6. CASE ~(\E c \in claims : c.opttype \in {4, 5, 8, 9})
      BY <2>1, <2>6
    <2> QED BY <2>2, <2>3, <2>4, <2>5, <2>6
  <1>2. PICK c \in claims : /\ c.opttype = o
                            /\ \A d \in claims : d.opttype = o => c.seat % 4 <= d.seat % 4
    <2> DEFINE T == {d.seat : d \in {x \in claims : x.opttype = o}}
    <2>1. T \subseteq {1, 2, 3, 4} /\ T # {}
      BY <1>1 DEF Claim, Seats
    <2>2. PICK s \in T : \A t \in T : s % 4 <= t % 4
      <3> HIDE DEF T
      <3>1. CASE 4 \in T
        BY <2>1, <3>1
      <3>2. CASE 4 \notin T /\ 1 \in T
        BY <2>1, <3>2
      <3>3. CASE 4 \notin T /\ 1 \notin T /\ 2 \in T
        BY <2>1, <3>3
      <3>4. CASE T = {3}
        BY <3>4
      <3> QED BY <2>1, <3>1, <3>2, <3>3, <3>4
    <2> QED BY <2>2
  <1>3. \A d \in claims : d.opttype = c.opttype /\ d.seat = c.seat => d = c
    BY DEF Claim
  <1>4. \A d \in claims \ {c} : Before(c, d)
    BY <1>1, <1>2, <1>3 DEF Before, Claim, Seats
  <1> QED BY <1>4 DEF First

(* tick_claim_player takes the questions of the first seat out of the      *)
(* list: a claim to win is the first of its seat, so that none is left for *)
(* the seat that is asked.                                                 *)
LEMMA AskClaimStep ==
  ASSUME CoreInv, AskClaim
  PROVE  CoreInv'
  <1>1. /\ TypeOK /\ status = WAITING_CLAIM /\ claims # {} /\ opt' = First.seat
        /\ offer' = {c.opttype : c \in Front} /\ claims' = claims \ Front
        /\ cached' = TRUE /\ status' = WAITING_CLAIM_PLAYER
        /\ UNCHANGED <<room, alive, lastDisc, lastTile, stale, ends, rob, tiles>>
    BY DEF CoreInv, AskClaim, Ticking
  <1>2. claims \subseteq Claim /\ Playing /\ Playing'
    BY <1>1 DEF TypeOK, Playing
  <1>3. First \in claims /\ \A d \in claims : d # First => Before(First, d)
    BY <1>1, <1>2, FirstIs
  <1>4. /\ First \in Front /\ Front \subseteq claims /\ opt' \in Seats
        /\ \A c \in Front : c.seat = opt'
    BY <1>1, <1>2, <1>3, ClaimIs DEF Front
  <1>5. ASSUME NEW s \in Seats, WinOf(s) \in claims, s = opt'
        PROVE  WinOf(s) \in Front
    <2>1. First = WinOf(s) \/ Before(First, WinOf(s))
      BY <1>3, <1>5
    <2>2. First.seat = s /\ First.opttype # QIANG_GANG_WIN /\ First.opttype \in Nat
      BY <1>1, <1>2, <1>3, <1>5, ClaimIs, WinOfIs DEF CoreInv, RobInv
    <2>3. First.opttype \in {CHI, PENG, LIGHT_GANG, WIN}
      BY <1>2, <1>3, <2>2, ClaimIs
    <2>4. ~Before(First, WinOf(s))
      BY <2>2, <2>3, WinOfIs DEF Before, Seats
    <2> QED BY <1>4, <2>1, <2>4
  <1>6. \A o \in offer' : \E c \in Front : c.opttype = o
    BY <1>1
  <1>7. TypeOK'
    <2>1. cached' \in BOOLEAN /\ stale' \in BOOLEAN
      BY <1>1 DEF TypeOK
    <2>2. AskOK'
      BY <1>1, <1>2, <1>4, <1>6, <2>1, ClaimIs DEF AskOK
    <2>3. alive' \in BOOLEAN /\ status' \in 0..12 /\ rob' \in Robs
      BY <1>1 DEF TypeOK
    <2>4. TurnOK'
      BY <1>1, <1>4 DEF TurnOK, TypeOK, Seats
    <2>5. RoomOK' /\ EndsOK' /\ TilesOK'
      BY <1>1, PartsStay
    <2> QED BY <2>2, <2>3, <2>4, <2>5, TypeParts
  <1>8. TurnInv' /\ DealInv' /\ LiujuInv'
    BY <1>1, <1>2, <1>4 DEF CoreInv, TurnInv, DealInv, LiujuInv, room, ends, tiles, Seats
  <1>9. BeginInv'
    <2>1. SUFFICES ASSUME lastDisc = None
                   PROVE  BeginInv'
      BY <1>1 DEF BeginInv
    <2>2. /\ \A s \in Seats : held[s].pengs = 0
          /\ \A s \in Seats \ passed : wins[s] = 0
          /\ \A c, d \in claims : c = d /\ c.opttype = WIN /\ held[c.seat].drawn
          /\ rob = NoRob
      BY <1>1, <1>2, <2>1 DEF CoreInv, BeginInv
    <2>3. claims' = {} /\ offer' \subseteq {WIN} /\ held[opt'].drawn
      BY <1>1, <1>3, <1>4, <1>6, <2>2
    <2> QED BY <1>1, <2>2, <2>3 DEF BeginInv, ends, tiles
  <1>10. DrawnInv'
    <2> SUFFICES ASSUME NEW s \in Seats \ passed, held[s].drawn
                 PROVE  \/ rob = [seat |-> s, kind |-> "peng"]
                        \/ opt' = s /\ offer' = {WIN} /\ claims' = {} /\ rob = NoRob
      BY <1>1 DEF DrawnInv, ends, tiles
    <2>1. rob = [seat |-> s, kind |-> "peng"] \/ (claims = {WinOf(s)} /\ rob = NoRob)
      BY <1>1, <1>2 DEF CoreInv, DrawnInv
    <2>2. CASE claims = {WinOf(s)} /\ rob = NoRob
      <3>1. Front = {WinOf(s)} /\ opt' = s
        BY <1>4, <2>2, WinOfIs
      <3> QED BY <1>1, <2>2, <3>1, WinOfIs
    <2> QED BY <2>1, <2>2
  <1>11. RobInv' /\ RobPending'
    <2>1. RobInv'
      BY <1>1, <1>2 DEF CoreInv, RobInv, tiles, CanGive
    <2>2. /\ rob # NoRob => (\A c \in claims : c.opttype = QIANG_GANG_WIN)
          /\ ~stale => \A c \in claims : c.opttype = QIANG_GANG_WIN => rob # NoRob /\ c.seat # rob.seat
      BY <1>2 DEF CoreInv, RobPending
    <2>3. rob # NoRob => offer' \subseteq {QIANG_GANG_WIN}
      BY <1>4, <1>6, <2>2
    <2>4. ~stale /\ QIANG_GANG_WIN \in offer' => rob # NoRob /\ opt' # rob.seat
      BY <1>4, <1>6, <2>2
    <2> QED BY <1>1, <2>1, <2>2, <2>3, <2>4 DEF RobPending
  <1>12. ClaimInv'
    <2>1. ASSUME NEW s \in Seats, WinOf(s) \in claims'
          PROVE  ~stale /\ rob = NoRob /\ counted /\ s \in canDian /\ s # opt'
      <3>1. WinOf(s) \in claims /\ WinOf(s) \notin Front
        BY <1>1, <2>1
      <3>2. s # opt'
        BY <1>5, <3>1
      <3>3. claims # {WinOf(s)}
        BY <1>4, <3>1
      <3> QED BY <1>1, <3>1, <3>2, <3>3 DEF CoreInv, ClaimInv
    <2>2. WIN \in offer' => ~stale
      <3> SUFFICES ASSUME NEW c \in Front, c.opttype = WIN
                   PROVE  ~stale
        BY <1>6
      <3> QED BY <1>2, <1>4, ClaimIs DEF CoreInv, ClaimInv
    <2> QED BY <1>1, <2>1, <2>2 DEF ClaimInv, ends
  <1>13. \A s \in Seats : OneMore(s)' = OneMore(s)
    BY <1>1 DEF OneMore, tiles
  <1>14. HandSize' /\ EnoughInv'
    BY <1>1, <1>2, <1>13 DEF CoreInv, HandSize, EnoughInv, ends, tiles
  <1> QED BY <1>7, <1>8, <1>9, <1>10, <1>11, <1>12, <1>14 DEF CoreInv

(* peng_gang once nobody robs it: the peng and the tile are still there.   *)
LEMMA PengGangStep ==
  ASSUME CoreInv, PengGang
  PROVE  CoreInv'
  <1> DEFINE r == rob.seat
  <1>1. /\ TypeOK /\ status = WAITING_CLAIM /\ claims = {} /\ rob.kind = "peng"
        /\ liuju' = liuju + 2 /\ rob' = NoRob /\ status' = PLAYER_OPT /\ offer' = {}
        /\ UNCHANGED <<room, alive, turn, claims, stale, cached, ends, pool, wall>>
    BY DEF CoreInv, PengGang, Ticking, Go
  <1>2. /\ Playing /\ Playing' /\ r \in Seats /\ rob = [seat |-> r, kind |-> "peng"] /\ rob # NoRob
        /\ held[r].pengs > 0 /\ CanGive(held[r], 1)
    BY <1>1, RobIs DEF CoreInv, RobInv, TypeOK, Playing
  <1>3. Becomes(r, Left(held[r], 1), FALSE, held[r].melds, held[r].pengs - 1, held[r].dark)
    <2>1. held' = [held EXCEPT ![r] = AddToPeng(Give(@, 1))]
      BY DEF PengGang
    <2> HIDE DEF r
    <2> QED BY <1>1, <1>2, <2>1, PengGangHeld
  <1> HIDE DEF r
  <1>4. lastDisc # None
    BY <1>1, <1>2 DEF CoreInv, BeginInv
  <1>5. TypeOK'
    <2>1. TilesOK'
      BY <1>1, <1>3 DEF TypeOK, TilesOK, Becomes
    <2>2. alive' \in BOOLEAN /\ status' \in 0..12 /\ rob' \in Robs
      BY <1>1 DEF TypeOK, Robs
    <2>3. AskOK'
      BY <1>1 DEF TypeOK, AskOK
    <2>4. RoomOK' /\ TurnOK' /\ EndsOK'
      BY <1>1, PartsStay
    <2> QED BY <2>1, <2>2, <2>3, <2>4, TypeParts
  <1>6. TurnInv' /\ DealInv' /\ BeginInv'
    BY <1>1, <1>2, <1>4 DEF CoreInv, TurnInv, DealInv, BeginInv, room, turn, ends
  <1>7. LiujuInv'
    BY <1>1 DEF CoreInv, LiujuInv, TypeOK
  <1>8. DrawnInv'
    <2> SUFFICES ASSUME NEW s \in Seats \ passed
                 PROVE  ~held'[s].drawn
      BY <1>1 DEF DrawnInv, ends
    <2>1. s # r => rob # [seat |-> s, kind |-> "peng"]
      BY <1>2
    <2>2. s # r => held'[s] = held[s]
      BY <1>3 DEF Becomes
    <2>3. s # r => ~held[s].drawn
      BY <1>1, <1>2, <2>1 DEF CoreInv, DrawnInv
    <2> QED BY <1>3, <2>2, <2>3 DEF Becomes
  <1>9. RobInv' /\ RobPending' /\ ClaimInv'
    BY <1>1 DEF RobInv, RobPending, ClaimInv, NoRob
  <1>10. \A s \in Seats : (OneMore(s) <=> s = r /\ ~held[s].drawn) /\ ~OneMore(s)'
    BY <1>1, <1>2 DEF OneMore, NoRob
  <1>11. HandSize' /\ EnoughInv'
    <2>1. ASSUME NEW s \in Seats
          PROVE  /\ s \notin passed => held'[s].hand + 3 * held'[s].melds + held'[s].dark = 13 + wins[s]
                 /\ held'[s].hand + 3 * held'[s].melds + held'[s].dark >= 13
      <3>1. held[s].hand \in Nat /\ held[s].melds \in Nat /\ held[s].dark \in Nat /\ wins[s] \in Nat
        BY <1>1, <2>1, SeatHeld DEF TypeOK
      <3>2. /\ s \notin passed => held[s].hand + 3 * held[s].melds + held[s].dark
                      = 13 + (IF OneMore(s) THEN 1 ELSE 0) + wins[s]
            /\ held[s].hand + 3 * held[s].melds + held[s].dark >= 13 + (IF OneMore(s) THEN 1 ELSE 0)
        BY <1>2, <1>4, <2>1 DEF CoreInv, HandSize, EnoughInv
      <3> QED BY <1>3, <1>10, <3>1, <3>2 DEF Becomes, Left
    <2> QED BY <1>1, <1>4, <1>10, <2>1 DEF HandSize, EnoughInv, turn, ends
  <1> QED BY <1>5, <1>6, <1>7, <1>8, <1>9, <1>11 DEF CoreInv

(* player_ming_gang leaves every hand its size. *)
LEMMA MingGangIs ==
  ASSUME TypeOK, NEW p \in Seats, MingGang(p)
  PROVE  /\ TilesOK' /\ opt' = p /\ status' = PLAYER_OPT /\ offer' = {} /\ liuju' = liuju + 2
         /\ \A s \in Seats : /\ held'[s].drawn = held[s].drawn /\ held'[s].pengs = held[s].pengs
                             /\ held'[s].hand + 3 * held'[s].melds + held'[s].dark
                                  = held[s].hand + 3 * held[s].melds + held[s].dark
  <1>1. /\ held[p].hand >= 3 /\ pool > 0 /\ pool' = pool - 1 /\ wall' = wall
        /\ held' = [held EXCEPT ![p] = LayDown(@, 3, 0, 0)]
        /\ opt' = p /\ status' = PLAYER_OPT /\ offer' = {} /\ liuju' = liuju + 2
    BY DEF MingGang, MoveTilesToHold, Go
  <1>2. Becomes(p, held[p].hand - 3, held[p].drawn, held[p].melds + 1, held[p].pengs + 0, held[p].dark)
    BY <1>1, LayDownHeld
  <1>3. TilesOK'
    BY <1>1, <1>2 DEF TypeOK, TilesOK, Becomes
  <1>4. ASSUME NEW s \in Seats
        PROVE  /\ held'[s].drawn = held[s].drawn /\ held'[s].pengs = held[s].pengs
               /\ held'[s].hand + 3 * held'[s].melds + held'[s].dark
                    = held[s].hand + 3 * held[s].melds + held[s].dark
    BY <1>2, SeatHeld DEF Becomes
  <1> QED BY <1>1, <1>3, <1>4

(* A light kong that nobody robs, or that fails because its claim is old.  *)
LEMMA LightGangStep ==
  ASSUME CoreInv, LightGang
  PROVE  CoreInv'
  <1>1. /\ TypeOK /\ status = WAITING_CLAIM /\ claims = {} /\ rob.kind \in {"light", "old"}
        /\ rob' = NoRob
        /\ UNCHANGED <<room, alive, lastDisc, lastTile, claims, stale, cached, ends>>
    BY DEF CoreInv, LightGang, Ticking
  <1>2. /\ Playing /\ rob.seat \in Seats /\ rob # NoRob
        /\ \A s \in Seats : ~OneMore(s)
        /\ \A s \in Seats \ passed : ~held[s].drawn
    <2>1. Playing /\ rob.seat \in Seats /\ rob # NoRob
      BY <1>1, RobIs DEF TypeOK, Playing
    <2>2. \A s \in Seats : rob # [seat |-> s, kind |-> "peng"]
      BY <1>1
    <2> QED BY <1>1, <2>1, <2>2 DEF CoreInv, DrawnInv, OneMore
  <1>3. /\ lastDisc # None /\ counted
        /\ \A s \in Seats \ passed : held[s].hand + 3 * held[s].melds + held[s].dark = 13 + wins[s]
        /\ \A s \in Seats : held[s].hand + 3 * held[s].melds + held[s].dark >= 13
    <2>1. lastDisc # None /\ counted
      BY <1>1, <1>2 DEF CoreInv, BeginInv, TurnInv
    <2>2. \A s \in Seats : wins[s] \in Nat
      BY <1>1 DEF TypeOK
    <2> QED BY <1>2, <2>1, <2>2 DEF CoreInv, HandSize, EnoughInv
  <1>4. /\ TilesOK' /\ opt' \in 0..4 /\ offer' = {} /\ liuju' \in {liuju, liuju + 2}
        /\ status' \in {WAITING_CLAIM, PLAYER_OPT}
        /\ \A s \in Seats : /\ held'[s].drawn = held[s].drawn
                            /\ held'[s].hand + 3 * held'[s].melds + held'[s].dark
                                 = held[s].hand + 3 * held[s].melds + held[s].dark
    <2>1. CASE MingGang(rob.seat)
      BY <1>1, <1>2, <2>1, MingGangIs DEF Seats
    <2>2. CASE NoMingGang
      <3>1. TilesOK'
        BY <1>1, <2>2, PartsStay DEF NoMingGang
      <3> QED BY <1>1, <2>2, <3>1 DEF NoMingGang, tiles, CoreInv, TurnInv, TypeOK
    <2> QED BY <2>1, <2>2 DEF LightGang
  <1>5. TypeOK'
    <2>1. alive' \in BOOLEAN /\ status' \in 0..12 /\ rob' \in Robs
      BY <1>1, <1>4 DEF TypeOK, Robs
    <2>2. AskOK'
      BY <1>1, <1>4 DEF TypeOK, AskOK
    <2>3. TurnOK'
      BY <1>1, <1>4 DEF TypeOK, TurnOK
    <2>4. RoomOK' /\ EndsOK'
      BY <1>1, PartsStay
    <2> QED BY <1>4, <2>1, <2>2, <2>3, <2>4, TypeParts
  <1>6. TurnInv' /\ DealInv' /\ BeginInv'
    BY <1>1, <1>2, <1>3, <1>4 DEF CoreInv, TurnInv, DealInv, BeginInv, room, ends
  <1>7. LiujuInv'
    BY <1>1, <1>4 DEF CoreInv, LiujuInv, TypeOK
  <1>8. DrawnInv'
    BY <1>1, <1>2, <1>4 DEF DrawnInv, ends
  <1>9. RobInv' /\ RobPending' /\ ClaimInv'
    BY <1>1, <1>4 DEF RobInv, RobPending, ClaimInv, NoRob
  <1>10. \A s \in Seats : ~OneMore(s)'
    BY <1>1, <1>4 DEF OneMore, NoRob
  <1>11. HandSize' /\ EnoughInv'
    BY <1>1, <1>3, <1>4, <1>10 DEF HandSize, EnoughInv, ends, TypeOK
  <1> QED BY <1>5, <1>6, <1>7, <1>8, <1>9, <1>11 DEF CoreInv

(* No claim and no kong: the next seat draws.                              *)
LEMMA NobodyClaimsStep ==
  ASSUME CoreInv, NobodyClaims
  PROVE  CoreInv'
  <1>1. /\ TypeOK /\ status = WAITING_CLAIM /\ claims = {} /\ rob = NoRob
        /\ status' = PLAYER_OPT /\ offer' = {}
        /\ UNCHANGED <<room, alive, turn, claims, stale, cached, ends, rob, tiles>>
    BY DEF CoreInv, NobodyClaims, Ticking, Go
  <1>2. Playing /\ Playing' /\ \A s \in Seats : ~OneMore(s) /\ ~OneMore(s)'
    BY <1>1 DEF Playing, OneMore, NoRob
  <1>3. TypeOK'
    <2>1. alive' \in BOOLEAN /\ status' \in 0..12 /\ rob' \in Robs
      BY <1>1 DEF TypeOK
    <2>2. AskOK'
      BY <1>1 DEF TypeOK, AskOK
    <2>3. RoomOK' /\ TurnOK' /\ EndsOK' /\ TilesOK'
      BY <1>1, PartsStay
    <2> QED BY <2>1, <2>2, <2>3, TypeParts
  <1>4. TurnInv' /\ DealInv' /\ BeginInv' /\ LiujuInv'
    BY <1>1, <1>2 DEF CoreInv, TurnInv, DealInv, BeginInv, LiujuInv, room, turn, ends, tiles
  <1>5. DrawnInv'
    BY <1>1, <1>2 DEF CoreInv, DrawnInv, ends, tiles, NoRob
  <1>6. RobInv' /\ RobPending' /\ ClaimInv'
    BY <1>1 DEF RobInv, RobPending, ClaimInv, NoRob
  <1>7. HandSize' /\ EnoughInv'
    BY <1>1, <1>2 DEF CoreInv, HandSize, EnoughInv, turn, ends, tiles
  <1> QED BY <1>3, <1>4, <1>5, <1>6, <1>7 DEF CoreInv

(* What is asked besides a win by a discard: no kong waits unless it is to *)
(* be robbed, and nobody has a tile apart.                                 *)
LEMMA AskedIs ==
  ASSUME CoreInv, Asked
  PROVE  /\ TypeOK /\ status = WAITING_CLAIM_PLAYER /\ opt \in Seats /\ Playing
         /\ played < MaxTimes
         /\ WIN \in offer => ~stale /\ rob = NoRob
         /\ \A s \in Seats : WinOf(s) \in claims =>
              ~stale /\ rob = NoRob /\ counted /\ s \in canDian /\ s # opt
         /\ offer \cap {CHI, PENG, LIGHT_GANG} # {} =>
              /\ rob = NoRob /\ lastDisc # None /\ counted
              /\ \A s \in Seats \ passed : ~held[s].drawn
  <1>1. TypeOK /\ status = WAITING_CLAIM_PLAYER /\ opt \in Seats /\ Playing /\ played < MaxTimes
    BY DEF CoreInv, Asked, TypeOK, TurnInv, Playing, Seats
  <1>2. WIN \in offer => ~stale /\ rob = NoRob
    BY <1>1 DEF CoreInv, ClaimInv, RobPending
  <1>3. \A s \in Seats : WinOf(s) \in claims =>
          ~stale /\ rob = NoRob /\ counted /\ s \in canDian /\ s # opt
    BY <1>1 DEF CoreInv, ClaimInv
  <1>4. ASSUME offer \cap {CHI, PENG, LIGHT_GANG} # {}
        PROVE  rob = NoRob /\ lastDisc # None /\ counted
    BY <1>1, <1>4 DEF CoreInv, RobPending, BeginInv, TurnInv
  <1>5. ASSUME offer \cap {CHI, PENG, LIGHT_GANG} # {}, NEW s \in Seats \ passed
        PROVE  ~held[s].drawn
    <2>1. offer # {WIN} /\ rob # [seat |-> s, kind |-> "peng"]
      BY <1>4, <1>5 DEF NoRob
    <2> QED BY <1>1, <2>1 DEF CoreInv, DrawnInv
  <1> QED BY <1>1, <1>2, <1>3, <1>4, <1>5

(* player_claim_give_up: when _can_dian_player is used up nobody is left   *)
(* to be asked for a win; before the first discard of the table the        *)
(* request only forgets who was asked.                                     *)
LEMMA GiveUpStep ==
  ASSUME CoreInv, Asked, GiveUp, alive' \in BOOLEAN
  PROVE  CoreInv'
  <1>1. /\ TypeOK /\ status = WAITING_CLAIM_PLAYER /\ opt \in Seats /\ Playing
        /\ played < MaxTimes
        /\ WIN \in offer => ~stale /\ rob = NoRob
        /\ \A s \in Seats : WinOf(s) \in claims =>
             ~stale /\ rob = NoRob /\ counted /\ s \in canDian /\ s # opt
    BY AskedIs
  <1>2. /\ opt' = None /\ cached' = FALSE
        /\ passed' = IF held[opt].drawn THEN passed \cup {opt} ELSE passed
        /\ UNCHANGED <<room, lastDisc, lastTile, claims, stale, counted, wins, winType, rob, tiles>>
    BY DEF GiveUp
  <1>5. TypeOK' /\ LiujuInv'
    <2>1. /\ canDian' \subseteq Seats /\ status' \in 0..12
          /\ offer' \subseteq {CHI, PENG, LIGHT_GANG, WIN, QIANG_GANG_WIN}
      <3>1. CASE counted
        <4>1. canDian' = canDian \ {opt} /\ status' \in {GAME_END, WAITING_CLAIM} /\ offer' = {}
          BY <3>1 DEF GiveUp, Go
        <4> QED BY <1>1, <4>1 DEF TypeOK
      <3>2. CASE ~counted
        BY <1>1, <3>2 DEF GiveUp, TypeOK
      <3> QED BY <3>1, <3>2
    <2>2. passed' \subseteq Seats
      BY <1>1, <1>2 DEF TypeOK
    <2>3. EndsOK'
      BY <1>1, <1>2, <2>1, <2>2 DEF TypeOK, EndsOK
    <2>4. AskOK'
      BY <1>1, <1>2, <2>1 DEF TypeOK, AskOK
    <2>5. TurnOK' /\ rob' \in Robs
      BY <1>1, <1>2 DEF TypeOK, TurnOK
    <2>6. RoomOK' /\ TilesOK'
      BY <1>1, <1>2, PartsStay
    <2>7. LiujuInv'
      BY <1>2 DEF CoreInv, LiujuInv, tiles
    <2> QED BY <2>1, <2>3, <2>4, <2>5, <2>6, <2>7, TypeParts
  <1>3. CASE counted /\ canDian = {opt}
    <2>1. status' = GAME_END /\ offer' = {}
      BY <1>3 DEF GiveUp, Go
    <2>3. \A s \in Seats : WinOf(s) \notin claims'
      BY <1>1, <1>2, <1>3
    <2> QED BY <1>1, <1>2, <1>5, <2>1, <2>3, OverStep DEF CoreInv, RobInv, room
  <1>4. CASE ~(counted /\ canDian = {opt})
    <2>1. \/ counted /\ canDian' = canDian \ {opt} /\ status' = WAITING_CLAIM /\ offer' = {}
          \/ ~counted /\ lastDisc = None /\ UNCHANGED <<canDian, status, offer>>
      BY <1>1, <1>4 DEF GiveUp, Go, CoreInv, TurnInv
    <2>2. Playing' /\ passed \subseteq passed' /\ passed' \subseteq Seats
          /\ \A s \in Seats \ passed' : s \notin passed /\ ~(s = opt /\ held[s].drawn)
      BY <1>1, <1>2, <2>1 DEF Playing, TypeOK
    <2>4. TurnInv' /\ DealInv'
      BY <1>1, <1>2, <2>1, <2>2 DEF CoreInv, TurnInv, DealInv, room, tiles
    <2>5. BeginInv'
      <3> SUFFICES ASSUME lastDisc = None
                   PROVE  BeginInv'
        BY <1>2 DEF BeginInv
      <3>1. /\ \A s \in Seats : held[s].pengs = 0
            /\ \A s \in Seats \ passed : wins[s] = 0 \/ s = opt
            /\ rob = NoRob /\ claims = {} /\ offer \subseteq {WIN} /\ held[opt].drawn
        BY <1>1 DEF CoreInv, BeginInv, Seats
      <3>2. \A s \in Seats \ passed' : wins[s] = 0
        BY <2>2, <3>1
      <3> QED BY <1>2, <2>1, <3>1, <3>2 DEF BeginInv, tiles
    <2>6. DrawnInv'
      <3> SUFFICES ASSUME NEW s \in Seats \ passed', held[s].drawn
                   PROVE  rob = [seat |-> s, kind |-> "peng"]
        BY <1>2 DEF DrawnInv, tiles
      <3> QED BY <1>1, <2>2 DEF CoreInv, DrawnInv
    <2>7. RobInv' /\ RobPending'
      <3>1. RobInv'
        BY <1>1, <1>2, <2>2 DEF CoreInv, RobInv, tiles, CanGive
      <3>2. lastDisc = None => claims = {} /\ offer \subseteq {WIN} /\ rob = NoRob
        BY <1>1 DEF CoreInv, BeginInv
      <3> QED BY <1>1, <1>2, <2>1, <3>1, <3>2 DEF CoreInv, RobPending
    <2>8. ClaimInv'
      BY <1>1, <1>2, <2>1 DEF ClaimInv
    <2>9. \A s \in Seats : OneMore(s)' = OneMore(s)
      BY <1>1, <1>2, <2>1 DEF OneMore, tiles
    <2>10. HandSize' /\ EnoughInv'
      BY <1>1, <1>2, <2>1, <2>2, <2>9 DEF CoreInv, HandSize, EnoughInv, tiles
    <2> QED BY <1>5, <2>4, <2>5, <2>6, <2>7, <2>8, <2>10 DEF CoreInv
  <1> QED BY <1>3, <1>4

(* One more win in _last_winners.                                          *)
LEMMA WinsMore ==
  ASSUME TypeOK, NEW p \in Seats, wins[p] < MaxWins, wins' = [wins EXCEPT ![p] = @ + 1]
  PROVE  /\ wins' \in [Seats -> 0..MaxWins]
         /\ \A s \in Seats : wins[s] \in Nat /\ wins'[s] = wins[s] + (IF s = p THEN 1 ELSE 0)
  BY MahjongAssumption DEF TypeOK

(* players_win: the tile is in the hand and the seat no longer in          *)
(* _can_dian_player; without a discard only _last_winners has changed.     *)
LEMMA PlayersWinStep ==
  ASSUME CoreInv, PlayersWin, alive' \in BOOLEAN
  PROVE  CoreInv'
  <1>1. /\ Asked /\ WIN \in offer /\ wins[opt] < MaxWins
        /\ wins' = [wins EXCEPT ![opt] = @ + 1] /\ cached' = FALSE
        /\ UNCHANGED <<room, turn, claims, stale, counted, passed, rob, pool, wall, liuju>>
    BY DEF PlayersWin
  <1>2. /\ TypeOK /\ status = WAITING_CLAIM_PLAYER /\ opt \in Seats /\ Playing
        /\ played < MaxTimes /\ ~stale /\ rob = NoRob
        /\ \A s \in Seats : WinOf(s) \in claims =>
             ~stale /\ rob = NoRob /\ counted /\ s \in canDian /\ s # opt
    BY <1>1, AskedIs
  <1>3. /\ wins' \in [Seats -> 0..MaxWins]
        /\ \A s \in Seats : wins[s] \in Nat /\ wins'[s] = wins[s] + (IF s = opt THEN 1 ELSE 0)
    BY <1>1, <1>2, WinsMore
  <1>4. CASE lastDisc = None
    <2>1. UNCHANGED <<status, offer, held, canDian, winType>>
      BY <1>4 DEF PlayersWin
    <2>2. TypeOK'
      <3>1. EndsOK'
        BY <1>1, <1>2, <1>3, <2>1 DEF TypeOK, EndsOK
      <3>2. AskOK'
        BY <1>1, <1>2, <2>1 DEF TypeOK, AskOK
      <3>3. TilesOK'
        BY <1>1, <1>2, <2>1 DEF TypeOK, TilesOK
      <3>4. status' \in 0..12 /\ rob' \in Robs
        BY <1>1, <1>2, <2>1 DEF TypeOK
      <3>5. RoomOK' /\ TurnOK'
        BY <1>1, <1>2, PartsStay
      <3> QED BY <3>1, <3>2, <3>3, <3>4, <3>5, TypeParts
    <2>3. Playing' /\ \A s \in Seats : OneMore(s)' = OneMore(s)
      BY <1>1, <1>2, <2>1 DEF Playing, OneMore, turn
    <2>4. TurnInv' /\ DealInv' /\ LiujuInv'
      BY <1>1, <1>2, <2>1, <2>3 DEF CoreInv, TurnInv, DealInv, LiujuInv, room, turn
    <2>5. BeginInv'
      BY <1>1, <1>2, <1>3, <2>1 DEF CoreInv, BeginInv, turn
    <2>6. DrawnInv' /\ RobInv' /\ RobPending' /\ ClaimInv'
      BY <1>1, <1>2, <2>1 DEF CoreInv, DrawnInv, RobInv, RobPending, ClaimInv, turn, NoRob
    <2>7. HandSize' /\ EnoughInv'
      BY <1>1, <1>2, <1>4, <2>1, <2>3 DEF CoreInv, HandSize, EnoughInv, turn
    <2> QED BY <2>2, <2>4, <2>5, <2>6, <2>7 DEF CoreInv
  <1>5. CASE lastDisc # None
    <2>1. /\ winType' = BY_OTHER /\ canDian' = canDian \ {opt}
          /\ held' = [held EXCEPT ![opt].hand = @ + 1]
          /\ IF canDian \ {opt} = {} THEN status' = GAME_END /\ offer' = {}
                                     ELSE UNCHANGED <<status, offer>>
      BY <1>5 DEF PlayersWin, Go
    <2>2. Becomes(opt, held[opt].hand + 1, held[opt].drawn, held[opt].melds, held[opt].pengs,
                  held[opt].dark)
      BY <1>2, <2>1, WinHeld
    <2>3. TypeOK' /\ LiujuInv'
      <3>1. EndsOK'
        BY <1>1, <1>2, <1>3, <2>1 DEF TypeOK, EndsOK
      <3>2. AskOK'
        BY <1>1, <1>2, <2>1 DEF TypeOK, AskOK
      <3>3. TilesOK' /\ LiujuInv'
        BY <1>1, <1>2, <2>2 DEF TypeOK, TilesOK, Becomes, CoreInv, LiujuInv
      <3>4. status' \in 0..12 /\ rob' \in Robs
        BY <1>1, <1>2, <2>1 DEF TypeOK
      <3>5. RoomOK' /\ TurnOK'
        BY <1>1, <1>2, PartsStay
      <3> QED BY <3>1, <3>2, <3>3, <3>4, <3>5, TypeParts
    <2>4. CASE canDian \ {opt} = {}
      <3>1. \A s \in Seats : WinOf(s) \notin claims'
        BY <1>1, <1>2, <2>4
      <3> QED BY <1>1, <1>2, <2>1, <2>3, <2>4, <3>1, OverStep DEF CoreInv, RobInv, room
    <2>5. CASE canDian \ {opt} # {}
      <3>1. UNCHANGED <<status, offer>> /\ Playing'
        BY <1>2, <2>1, <2>5 DEF Playing
      <3>2. TurnInv' /\ DealInv' /\ BeginInv'
        BY <1>1, <1>2, <1>5, <3>1 DEF CoreInv, TurnInv, DealInv, BeginInv, room, turn, Playing
      <3>3. DrawnInv'
        BY <1>1, <1>2, <2>2, <3>1 DEF CoreInv, DrawnInv, turn, Becomes
      <3>4. RobInv' /\ RobPending'
        BY <1>1, <1>2, <3>1 DEF CoreInv, RobInv, RobPending, turn, NoRob
      <3>5. ClaimInv'
        BY <1>1, <1>2, <2>1, <3>1 DEF ClaimInv, turn
      <3>6. \A s \in Seats : ~OneMore(s)' /\ ~OneMore(s)
        BY <1>1, <1>2, <3>1 DEF OneMore, NoRob
      <3>7. ASSUME NEW s \in Seats
            PROVE  /\ s \notin passed => held'[s].hand + 3 * held'[s].melds + held'[s].dark
                                          = 13 + wins'[s]
                   /\ held'[s].hand + 3 * held'[s].melds + held'[s].dark >= 13
        <4>1. held[s].hand \in Nat /\ held[s].melds \in Nat /\ held[s].dark \in Nat
          BY <1>2, SeatHeld
        <4>2. /\ s \notin passed => held[s].hand + 3 * held[s].melds + held[s].dark = 13 + wins[s]
              /\ held[s].hand + 3 * held[s].melds + held[s].dark >= 13
          BY <1>2, <1>3, <1>5, <3>6 DEF CoreInv, HandSize, EnoughInv
        <4> QED BY <1>3, <2>2, <4>1, <4>2 DEF Becomes
      <3>8. HandSize' /\ EnoughInv'
        BY <1>1, <1>2, <1>3, <1>5, <3>1, <3>6, <3>7 DEF HandSize, EnoughInv, turn
      <3> QED BY <2>3, <3>2, <3>3, <3>4, <3>5, <3>8 DEF CoreInv
    <2> QED BY <2>4, <2>5
  <1> QED BY <1>4, <1>5

(* player_chi and player_peng, done or failed because the claim is old.    *)
LEMMA ChiPengStep ==
  ASSUME CoreInv, NEW o \in {CHI, PENG}, ReqChiPeng(o)
  PROVE  CoreInv'
  <1>1. /\ Asked /\ o \in offer /\ claims' = {} /\ cached' = FALSE
        /\ stale' = (stale /\ status' = status)
        /\ UNCHANGED <<room, alive, turn, ends, rob, wall, liuju>>
    BY DEF ReqChiPeng
  <1>2. /\ TypeOK /\ status = WAITING_CLAIM_PLAYER /\ opt \in Seats /\ Playing
        /\ rob = NoRob /\ lastDisc # None /\ counted
        /\ \A s \in Seats \ passed : ~held[s].drawn
        /\ \A s \in Seats : ~OneMore(s)
    <2>1. offer \cap {CHI, PENG, LIGHT_GANG} # {}
      BY <1>1
    <2>2. /\ TypeOK /\ status = WAITING_CLAIM_PLAYER /\ opt \in Seats /\ Playing
          /\ rob = NoRob /\ lastDisc # None /\ counted
          /\ \A s \in Seats \ passed : ~held[s].drawn
      BY <1>1, <2>1, AskedIs
    <2> QED BY <2>2 DEF OneMore, NoRob
  <1>3. /\ stale' \in BOOLEAN
        /\ stale /\ status' = status => stale'
    BY <1>1
  <1>4. CASE Meld(IF o = PENG THEN 1 ELSE 0)
    <2> DEFINE g == IF o = PENG THEN 1 ELSE 0
    <2>1. /\ held[opt].hand >= 2 /\ pool > 0 /\ pool' = pool - 1
          /\ status' = WAITING_PLAYER /\ offer' = {} /\ g \in Nat
          /\ held' = [held EXCEPT ![opt] = LayDown(@, 2, g, 0)]
      BY <1>4 DEF Meld, MoveTilesToHold, Go
    <2> HIDE DEF g
    <2>2. Becomes(opt, held[opt].hand - 2, held[opt].drawn, held[opt].melds + 1,
                  held[opt].pengs + g, held[opt].dark)
      BY <1>2, <2>1, LayDownHeld
    <2>3. TypeOK'
      <3>1. AskOK'
        BY <1>1, <1>3, <2>1 DEF AskOK
      <3>2. TilesOK'
        BY <1>1, <1>2, <2>1, <2>2 DEF TypeOK, TilesOK, Becomes
      <3>3. alive' \in BOOLEAN /\ status' \in 0..12 /\ rob' \in Robs
        BY <1>1, <1>2, <2>1 DEF TypeOK
      <3>4. RoomOK' /\ TurnOK' /\ EndsOK'
        BY <1>1, <1>2, PartsStay
      <3> QED BY <3>1, <3>2, <3>3, <3>4, TypeParts
    <2>4. TurnInv' /\ DealInv' /\ BeginInv' /\ LiujuInv'
      BY <1>1, <1>2, <2>1 DEF CoreInv, TurnInv, DealInv, BeginInv, LiujuInv, room, turn, ends, Seats
    <2>5. DrawnInv'
      <3>1. \A s \in Seats : held'[s].drawn = held[s].drawn
        BY <2>2 DEF Becomes
      <3> QED BY <1>1, <1>2, <3>1 DEF DrawnInv, ends
    <2>6. RobInv' /\ RobPending' /\ ClaimInv'
      BY <1>1, <1>2, <2>1 DEF RobInv, RobPending, ClaimInv, NoRob
    <2>7. \A s \in Seats : OneMore(s)' <=> s = opt /\ ~held[s].drawn
      BY <1>1, <1>2, <2>1, <2>2 DEF OneMore, turn, Becomes, NoRob
    <2>8. ASSUME NEW s \in Seats
          PROVE  /\ s \notin passed => held'[s].hand + 3 * held'[s].melds + held'[s].dark
                                         = 13 + (IF s = opt THEN 1 ELSE 0) + wins[s]
                 /\ held'[s].hand + 3 * held'[s].melds + held'[s].dark
                                         >= 13 + (IF s = opt THEN 1 ELSE 0)
      <3>1. held[s].hand \in Nat /\ held[s].melds \in Nat /\ held[s].dark \in Nat /\ wins[s] \in Nat
        BY <1>2, SeatHeld DEF TypeOK
      <3>2. /\ s \notin passed => held[s].hand + 3 * held[s].melds + held[s].dark = 13 + wins[s]
            /\ held[s].hand + 3 * held[s].melds + held[s].dark >= 13
        BY <1>2, <3>1 DEF CoreInv, HandSize, EnoughInv
      <3>3. CASE s = opt
        <4>1. /\ held'[s].hand = held[s].hand - 2 /\ held'[s].melds = held[s].melds + 1
              /\ held'[s].dark = held[s].dark
          BY <2>2, <3>3 DEF Becomes
        <4> QED BY <3>1, <3>2, <3>3, <4>1
      <3>4. CASE s # opt
        <4>1. held'[s] = held[s]
          BY <2>2, <3>4 DEF Becomes
        <4> QED BY <3>1, <3>2, <3>4, <4>1
      <3> QED BY <3>3, <3>4
    <2>9. HandSize'
      BY <1>1, <1>2, <2>7, <2>8 DEF HandSize, turn, ends
    <2>10. EnoughInv'
      <3>1. ASSUME NEW s \in Seats
            PROVE  held'[s].hand + 3 * held'[s].melds + held'[s].dark
                     >= 13 + (IF OneMore(s)' THEN 1 ELSE 0)
        <4>1. held'[s].hand \in Nat /\ held'[s].melds \in Nat /\ held'[s].dark \in Nat
          BY <2>2, FieldTypes DEF Becomes
        <4> QED BY <2>7, <2>8, <4>1
      <3> QED BY <2>1, <3>1 DEF EnoughInv
    <2> QED BY <2>3, <2>4, <2>5, <2>6, <2>9, <2>10 DEF CoreInv
  <1>5. CASE stale /\ UNCHANGED <<held, pool, status, offer>>
    <2>1. /\ stale' = TRUE /\ UNCHANGED tiles /\ Playing'
          /\ \A s \in Seats : ~OneMore(s)'
      BY <1>1, <1>2, <1>5 DEF tiles, Playing, OneMore, turn
    <2>2. TypeOK'
      <3>1. AskOK'
        BY <1>1, <1>2, <1>3, <1>5 DEF TypeOK, AskOK
      <3>2. alive' \in BOOLEAN /\ status' \in 0..12 /\ rob' \in Robs
        BY <1>1, <1>2, <1>5 DEF TypeOK
      <3>3. RoomOK' /\ TurnOK' /\ EndsOK' /\ TilesOK'
        BY <1>1, <1>2, <2>1, PartsStay
      <3> QED BY <3>1, <3>2, <3>3, TypeParts
    <2>3. TurnInv' /\ DealInv' /\ BeginInv' /\ LiujuInv'
      BY <1>1, <1>2, <1>5, <2>1 DEF CoreInv, TurnInv, DealInv, BeginInv, LiujuInv, room, turn, ends, tiles
    <2>4. DrawnInv'
      BY <1>1, <1>2, <2>1 DEF DrawnInv, ends, tiles
    <2>5. RobInv' /\ RobPending' /\ ClaimInv'
      BY <1>1, <1>2, <1>5, <2>1 DEF CoreInv, RobInv, RobPending, ClaimInv, NoRob
    <2>6. HandSize' /\ EnoughInv'
      BY <1>1, <1>2, <1>5, <2>1 DEF CoreInv, HandSize, EnoughInv, turn, ends, tiles
    <2> QED BY <2>2, <2>3, <2>4, <2>5, <2>6 DEF CoreInv
  <1> QED BY <1>4, <1>5 DEF ReqChiPeng

(* player_ming_gang: the others are asked to rob the kong, or it is made   *)
(* at once, or fails because the claim is old.                             *)
LEMMA LightGangAskStep ==
  ASSUME CoreInv, ReqLightGang
  PROVE  CoreInv'
  <1>1. /\ Asked /\ LIGHT_GANG \in offer /\ cached' = FALSE
        /\ UNCHANGED <<room, alive, lastDisc, lastTile, ends>>
    BY DEF ReqLightGang
  <1>2. /\ TypeOK /\ status = WAITING_CLAIM_PLAYER /\ opt \in Seats /\ Playing
        /\ rob = NoRob /\ lastDisc # None /\ counted
        /\ \A s \in Seats \ passed : ~held[s].drawn
        /\ \A s \in Seats : ~OneMore(s)
    <2>1. offer \cap {CHI, PENG, LIGHT_GANG} # {}
      BY <1>1
    <2>2. /\ TypeOK /\ status = WAITING_CLAIM_PLAYER /\ opt \in Seats /\ Playing
          /\ rob = NoRob /\ lastDisc # None /\ counted
          /\ \A s \in Seats \ passed : ~held[s].drawn
      BY <1>1, <2>1, AskedIs
    <2> QED BY <2>2 DEF OneMore, NoRob
  <1>3. PICK R \in SUBSET {s \in Seats \ {opt} : Waiting(s)} :
          IF R # {}
          THEN /\ claims' = {[seat |-> s, opttype |-> QIANG_GANG_WIN] : s \in R}
               /\ rob' = [seat |-> opt, kind |-> IF stale THEN "old" ELSE "light"]
               /\ stale' = FALSE /\ Go(WAITING_CLAIM) /\ UNCHANGED <<tiles, opt>>
          ELSE /\ claims' = {} /\ UNCHANGED rob
               /\ \/ MingGang(opt) /\ stale' = FALSE
                  \/ stale /\ NoMingGang /\ UNCHANGED stale
    BY DEF ReqLightGang
  <1>4. /\ TilesOK' /\ opt' = opt /\ claims' \subseteq Claim /\ stale' \in BOOLEAN
        /\ liuju' \in {liuju, liuju + 2}
        /\ \/ status' \in {WAITING_CLAIM, PLAYER_OPT} /\ offer' = {} /\ stale' = FALSE
           \/ status' = WAITING_CLAIM_PLAYER /\ offer' = offer /\ stale' = stale /\ stale
        /\ \/ rob' = NoRob /\ claims' = {}
           \/ /\ status' = WAITING_CLAIM /\ rob' \in Robs /\ rob'.seat = opt
              /\ rob'.kind \in {"old", "light"}
              /\ \A c \in claims' : c.opttype = QIANG_GANG_WIN /\ c.seat # opt
        /\ \A s \in Seats : /\ held'[s].drawn = held[s].drawn
                            /\ held'[s].hand + 3 * held'[s].melds + held'[s].dark
                                 = held[s].hand + 3 * held[s].melds + held[s].dark
    <2>1. CASE R # {}
      <3> DEFINE k == IF stale THEN "old" ELSE "light"
      <3>1. k \in {"old", "light"}
        OBVIOUS
      <3>2. /\ claims' = {[seat |-> s, opttype |-> QIANG_GANG_WIN] : s \in R}
            /\ rob' = [seat |-> opt, kind |-> k]
            /\ stale' = FALSE /\ status' = WAITING_CLAIM /\ offer' = {} /\ UNCHANGED <<tiles, opt>>
        BY <1>3, <2>1 DEF Go
      <3> HIDE DEF k
      <3>3. rob' \in Robs /\ rob'.seat = opt /\ rob'.kind = k
        BY <1>2, <3>1, <3>2, NewRob
      <3>4. claims' \subseteq Claim /\ \A c \in claims' : c.opttype = QIANG_GANG_WIN /\ c.seat # opt
        BY <3>2, RobQuestions
      <3>5. TilesOK' /\ held' = held /\ liuju' = liuju
        BY <1>2, <3>2, PartsStay DEF tiles
      <3>6. stale' \in BOOLEAN
        BY <3>2
      <3> QED BY <3>1, <3>2, <3>3, <3>4, <3>5, <3>6
    <2>2. CASE R = {} /\ MingGang(opt) /\ stale' = FALSE
      <3>1. claims' = {} /\ rob' = NoRob /\ stale' \in BOOLEAN
        BY <1>2, <1>3, <2>2
      <3> QED BY <1>2, <2>2, <3>1, MingGangIs
    <2>3. CASE R = {} /\ stale /\ NoMingGang /\ UNCHANGED stale
      <3>1. TilesOK' /\ held' = held /\ liuju' = liuju
        BY <1>2, <2>3, PartsStay DEF NoMingGang, tiles
      <3>2. stale' \in BOOLEAN
        BY <1>2, <2>3 DEF TypeOK
      <3> QED BY <1>2, <1>3, <2>3, <3>1, <3>2 DEF NoMingGang
    <2> QED BY <1>3, <2>1, <2>2, <2>3
  <1>5. Playing'
    BY <1>4 DEF Playing
  <1>6. TypeOK'
    <2>1. AskOK'
      BY <1>1, <1>2, <1>4 DEF TypeOK, AskOK
    <2>2. TurnOK'
      BY <1>1, <1>2, <1>4 DEF TypeOK, TurnOK
    <2>3. alive' \in BOOLEAN /\ status' \in 0..12 /\ rob' \in Robs
      BY <1>1, <1>2, <1>4 DEF TypeOK, Robs
    <2>4. RoomOK' /\ EndsOK'
      BY <1>1, <1>2, PartsStay
    <2> QED BY <1>4, <2>1, <2>2, <2>3, <2>4, TypeParts
  <1>7. TurnInv' /\ DealInv' /\ BeginInv'
    BY <1>1, <1>2, <1>4 DEF CoreInv, TurnInv, DealInv, BeginInv, room, ends, Seats
  <1>8. LiujuInv'
    BY <1>2, <1>4 DEF CoreInv, LiujuInv, TypeOK
  <1>9. DrawnInv'
    BY <1>1, <1>2, <1>4 DEF DrawnInv, ends
  <1>10. RobInv' /\ RobPending'
    BY <1>2, <1>4 DEF RobInv, RobPending, NoRob
  <1>11. ClaimInv'
    <2>1. \A s \in Seats : WinOf(s) \notin claims'
      BY <1>4, WinOfIs
    <2>2. WIN \in offer' => ~stale'
      BY <1>2, <1>4 DEF CoreInv, ClaimInv
    <2>3. status' \in {PLAYER_OPT, WAITING_PLAYER, CHECK_CLAIM} => claims' = {}
      BY <1>4
    <2> QED BY <2>1, <2>2, <2>3 DEF ClaimInv
  <1>12. \A s \in Seats : ~OneMore(s)'
    BY <1>4 DEF OneMore, NoRob
  <1>13. HandSize' /\ EnoughInv'
    <2>1. \A s \in Seats : wins[s] \in Nat
      BY <1>2 DEF TypeOK
    <2>2. /\ \A s \in Seats \ passed : held[s].hand + 3 * held[s].melds + held[s].dark = 13 + wins[s]
          /\ \A s \in Seats : held[s].hand + 3 * held[s].melds + held[s].dark >= 13
      BY <1>2, <2>1 DEF CoreInv, HandSize, EnoughInv
    <2>3. \A s \in Seats :
            IF lastDisc' = None THEN FALSE ELSE wins'[s] = wins[s]
      BY <1>1, <1>2 DEF ends
    <2> QED BY <1>1, <1>2, <1>4, <1>12, <2>1, <2>2, <2>3 DEF HandSize, EnoughInv, ends
  <1> QED BY <1>6, <1>7, <1>8, <1>9, <1>10, <1>11, <1>13 DEF CoreInv

-----------------------------------------------------------------------------
(* A new table.                                                            *)
LEMMA InitCore == Init => CoreInv /\ EndInv
  <1> SUFFICES ASSUME Init PROVE CoreInv /\ EndInv
    OBVIOUS
  <1> USE DEF Init
  <1>1. TypeOK
    <2>1. NoTiles \in Hands
      BY DEF NoTiles, Hands
    <2>2. held \in [Seats -> Hands]
      BY <2>1
    <2>3. wins \in [Seats -> 0..MaxWins]
      BY WinsType
    <2>4. rob \in Robs /\ winType \in {NOWIN, BY_OWN, BY_OTHER, BY_GANG, NOWINERS}
      BY DEF Robs
    <2>5. alive \in BOOLEAN /\ lastTile \in BOOLEAN /\ stale \in BOOLEAN
          /\ cached \in BOOLEAN /\ counted \in BOOLEAN
      OBVIOUS
    <2> QED BY <2>2, <2>3, <2>4, <2>5, MahjongAssumption DEF TypeOK
  <1>2. ~Playing /\ alive
    BY DEF Playing
  <1>3. TurnInv /\ DealInv /\ BeginInv /\ DrawnInv /\ LiujuInv
    BY <1>2 DEF TurnInv, DealInv, BeginInv, DrawnInv, LiujuInv
  <1>4. RobInv /\ RobPending /\ ClaimInv /\ HandSize /\ EnoughInv /\ EndInv
    BY <1>2 DEF RobInv, RobPending, ClaimInv, HandSize, EnoughInv, EndInv
  <1> QED BY <1>1, <1>3, <1>4 DEF CoreInv

(* Steps that change nothing but who is ready, who is in trusteeship,      *)
(* whether the tick runs and whether a question is cached.                 *)
LEMMA QuietSteps ==
  ASSUME CoreInv,
         \/ UNCHANGED vars \/ DrawFails \/ AskedNobody \/ Refused
         \/ \E s \in Seats : ReqReady(s) \/ LandTrusteeship(s)
  PROVE  CoreInv'
  <1>1. UNCHANGED <<gold, played, status, turn, claims, stale, offer, ends, rob, tiles>>
    BY DEF vars, room, turn, ask, DrawFails, AskedNobody, Refused, ReqReady, LandTrusteeship
  <1>2. /\ ready' \subseteq Seats /\ trust' \subseteq Away
        /\ alive' \in BOOLEAN /\ cached' \in BOOLEAN
    BY DEF vars, room, ask, DrawFails, AskedNobody, Refused, ReqReady, LandTrusteeship, CoreInv, TypeOK
  <1>3. RoomOK' /\ AskOK'
    BY <1>1, <1>2 DEF CoreInv, TypeOK, RoomOK, AskOK
  <1>4. TurnOK' /\ EndsOK' /\ TilesOK'
    BY <1>1, PartsStay DEF CoreInv
  <1>5. status' \in 0..12 /\ rob' \in Robs
    BY <1>1 DEF CoreInv, TypeOK
  <1> QED BY <1>1, <1>2, <1>3, <1>4, <1>5, TypeParts, QuietStep

(* Every step keeps the core of the invariant.                             *)
LEMMA CoreStep == CoreInv /\ [Next]_vars => CoreInv'
  <1> SUFFICES ASSUME CoreInv, [Next]_vars PROVE CoreInv'
    OBVIOUS
  <1>1. CASE UNCHANGED vars
    BY <1>1, QuietSteps
  <1>2. CASE Tick
    <2>1. CASE AutoDiscard
      <3>1. trust' \subseteq Away
        BY <2>1 DEF AutoDiscard, AutoTrust, CoreInv, TypeOK
      <3> QED BY <2>1, <3>1, DiscardStep DEF AutoDiscard
    <2>2. CASE ClaimTimeout
      <3>1. alive' \in BOOLEAN
        BY <2>2 DEF ClaimTimeout, CoreInv, TypeOK
      <3> QED BY <2>2, <3>1, GiveUpStep DEF ClaimTimeout
    <2>3. CASE AutoWin
      <3>1. alive' \in BOOLEAN
        BY <2>3 DEF AutoWin
      <3> QED BY <2>3, <3>1, PlayersWinStep DEF AutoWin
    <2>4. CASE DealWaitingStart \/ WallExhausted \/ DealGameRestWaiting \/ DealGameRest \/ DealGameStop
      BY <2>4, BetweenRounds
    <2>5. CASE DrawFails \/ AskedNobody
      BY <2>5, QuietSteps
    <2>6. CASE DealBeforeStart \/ DealAfterStart \/ Draw \/ AutoDiscardNothing \/ CheckClaimFails
      BY <2>6, DealBeforeStep, DealAfterStep, DrawStep, DiscardNothingStep, CheckClaimFailsStep
    <2>7. CASE DealCheckClaim \/ AskClaim \/ PengGang \/ LightGang \/ NobodyClaims \/ DealGameEnd
      BY <2>7, CheckClaimStep, AskClaimStep, PengGangStep, LightGangStep, NobodyClaimsStep, GameEndStep
    <2> QED BY <1>2, <2>1, <2>2, <2>3, <2>4, <2>5, <2>6, <2>7 DEF Tick
  <1>3. CASE Request
    <2>1. CASE \E s \in Seats : ReqReady(s) \/ LandTrusteeship(s)
      BY <2>1, QuietSteps
    <2>2. CASE ReqDiscard
      <3>1. trust' \subseteq Away
        BY <2>2 DEF ReqDiscard, CoreInv, TypeOK
      <3> QED BY <2>2, <3>1, DiscardStep DEF ReqDiscard
    <2>3. CASE ReqPass \/ ReqWin
      <3>1. alive' \in BOOLEAN
        BY <2>3 DEF ReqPass, ReqWin, CoreInv, TypeOK
      <3> QED BY <2>3, <3>1, GiveUpStep, PlayersWinStep DEF ReqPass, ReqWin
    <2>4. CASE ReqBlackGang \/ ReqPengGang \/ ReqOwnWin \/ ReqRobWin \/ ReqLightGang
      BY <2>4, BlackGangStep, PengGangAskStep, BetweenRounds, RobWinStep, LightGangAskStep
    <2>5. CASE Refused
      BY <2>5, QuietSteps
    <2>6. CASE \E o \in {CHI, PENG} : ReqChiPeng(o)
      BY <2>6, ChiPengStep
    <2>7. CASE DissolveTable
      BY <2>7, DissolveStep
    <2> QED BY <1>3, <2>1, <2>2, <2>3, <2>4, <2>5, <2>6, <2>7 DEF Request
  <1> QED BY <1>1, <1>2, <1>3 DEF Next

(* The tick ends before the first discard of a round, or with the empty    *)
(* hand of a seat whose kongs and melds account for fourteen tiles;        *)
(* requests that still come do not bring a turn back.                      *)
LEMMA EndStep == CoreInv /\ EndInv /\ [Next]_vars => EndInv'
  <1> SUFFICES ASSUME CoreInv, EndInv, [Next]_vars, ~alive'
               PROVE  EndInv'
    BY DEF EndInv
  <1>1. CASE UNCHANGED vars
    BY <1>1 DEF EndInv, vars, turn, tiles
  <1>2. CASE Tick /\ alive
    <2>1. CASE DrawFails
      BY <2>1 DEF EndInv, DrawFails, Ticking, turn
    <2>2. CASE CheckClaimFails
      <3> DEFINE s == lastDisc
      <3>1. s \in Seats /\ status = CHECK_CLAIM /\ ~lastTile /\ Playing
        BY <2>2 DEF CheckClaimFails, Ticking, CoreInv, TypeOK, TurnInv, Playing, Seats
      <3>2. /\ held[s].hand = 0 /\ ~held[s].drawn
            /\ held[s].hand + 3 * held[s].melds + held[s].dark >= 13 + (IF OneMore(s) THEN 1 ELSE 0)
        BY <3>1 DEF CoreInv, EnoughInv
      <3>3. OneMore(s)
        BY <3>1, <3>2 DEF OneMore
      <3>4. held[s].melds \in Nat /\ held[s].dark \in Nat
        BY <3>1, SeatHeld DEF CoreInv
      <3>5. held[s].dark >= 2 \/ held[s].melds >= 5
        BY <3>2, <3>3, <3>4
      <3> QED BY <2>2, <3>1, <3>2, <3>5 DEF EndInv, CheckClaimFails, tiles
    <2>3. CASE ClaimTimeout
      <3>1. ~counted /\ status = WAITING_CLAIM_PLAYER /\ lastDisc' = lastDisc
            /\ status' = status
        BY <2>3 DEF ClaimTimeout, Asked, GiveUp
      <3> QED BY <3>1 DEF EndInv, CoreInv, TurnInv, Playing
    <2>4. CASE AskedNobody
      BY <2>4 DEF EndInv, AskedNobody, Ticking, CoreInv, TurnInv, turn
    <2>5. CASE AutoWin
      <3>1. status = WAITING_CLAIM_PLAYER /\ lastDisc = None
        BY <2>5 DEF AutoWin, PlayersWin, Asked
      <3>2. lastDisc' = None /\ status' = status
        BY <2>5, <3>1 DEF AutoWin, PlayersWin, turn
      <3> QED BY <3>1, <3>2 DEF EndInv
    <2>6. ~(DealWaitingStart \/ DealBeforeStart \/ DealAfterStart \/ Draw \/ WallExhausted \/ AutoDiscard)
      BY <1>2 DEF DealWaitingStart, DealBeforeStart, DealAfterStart, Draw, WallExhausted,
                  AutoDiscard, Discard
    <2>7. ~(AutoDiscardNothing \/ DealCheckClaim \/ AskClaim \/ PengGang \/ LightGang \/ NobodyClaims)
      BY <1>2 DEF AutoDiscardNothing, DealCheckClaim, AskClaim, PengGang, LightGang, NobodyClaims
    <2>8. ~(DealGameEnd \/ DealGameRestWaiting \/ DealGameRest \/ DealGameStop)
      BY <1>2 DEF DealGameEnd, DealGameRestWaiting, DealGameRest, DealGameStop, NextStatus
    <2> QED BY <1>2, <2>1, <2>2, <2>3, <2>4, <2>5, <2>6, <2>7, <2>8 DEF Tick
  <1>3. CASE Tick /\ ~alive
    <2>1. ~(DealWaitingStart \/ DealBeforeStart \/ DealAfterStart \/ Draw \/ WallExhausted
             \/ DrawFails \/ AutoDiscard \/ AutoDiscardNothing)
      BY <1>3 DEF DealWaitingStart, DealBeforeStart, DealAfterStart, Draw, CanDraw, WallExhausted,
                  DrawFails, AutoDiscard, AutoDiscardNothing, Ticking
    <2>2. ~(CheckClaimFails \/ DealCheckClaim \/ AskClaim \/ PengGang \/ LightGang \/ NobodyClaims
             \/ ClaimTimeout \/ AskedNobody \/ AutoWin)
      BY <1>3 DEF CheckClaimFails, DealCheckClaim, AskClaim, PengGang, LightGang, NobodyClaims,
                  ClaimTimeout, AskedNobody, AutoWin, Ticking
    <2>3. ~(DealGameEnd \/ DealGameRestWaiting \/ DealGameRest \/ DealGameStop)
      BY <1>3 DEF DealGameEnd, DealGameRestWaiting, DealGameRest, DealGameStop, NextStatus, Ticking
    <2> QED BY <1>3, <2>1, <2>2, <2>3 DEF Tick
  <1>4. CASE Request
    <2>1. ~alive
      BY <1>4 DEF Request, ReqReady, LandTrusteeship, ReqDiscard, Discard, ReqBlackGang, ReqPengGang,
                  ReqOwnWin, ReqPass, ReqWin, ReqRobWin, ReqLightGang, Refused, ReqChiPeng, DissolveTable
    <2>2. CASE \E s \in Seats : ReqReady(s) \/ LandTrusteeship(s)
      BY <2>1, <2>2 DEF EndInv, ReqReady, LandTrusteeship, turn, tiles
    <2>3. CASE ReqDiscard \/ ReqBlackGang \/ ReqPengGang \/ ReqOwnWin
      BY <2>1, <2>3 DEF EndInv, ReqDiscard, Discard, ReqBlackGang, ReqPengGang, ReqOwnWin
    <2>4. CASE ReqPass \/ ReqWin \/ ReqRobWin
      BY <2>1, <2>4 DEF EndInv, ReqPass, GiveUp, ReqWin, PlayersWin, ReqRobWin, Asked, Go, turn
    <2>5. CASE ReqLightGang \/ \E o \in {CHI, PENG} : ReqChiPeng(o)
      <3>1. Asked /\ offer \cap {CHI, PENG, LIGHT_GANG} # {}
        BY <2>5 DEF ReqLightGang, ReqChiPeng
      <3>2. lastDisc # None /\ status = WAITING_CLAIM_PLAYER
        BY <3>1, AskedIs
      <3> QED BY <2>1, <3>2 DEF EndInv
    <2>6. CASE Refused
      BY <2>1, <2>6 DEF EndInv, Refused, turn, tiles
    <2>7. CASE DissolveTable
      BY <2>1, <2>7 DEF EndInv, DissolveTable, Go, turn, tiles
    <2> QED BY <1>4, <2>2, <2>3, <2>4, <2>5, <2>6, <2>7 DEF Request
  <1> QED BY <1>1, <1>2, <1>3, <1>4 DEF Next

-----------------------------------------------------------------------------
(* The invariant holds in every reachable state.                           *)
LEMMA Invariance == Spec => []IInv
  <1>1. Init => IInv
    BY InitCore DEF IInv
  <1>2. IInv /\ [Next]_vars => IInv'
    BY CoreStep, EndStep DEF IInv
  <1> QED BY <1>1, <1>2, PTL DEF Spec

(* TypeOK: every variable of the table keeps its type.                     *)
THEOREM TypeCorrect == Spec => []TypeOK
  <1>1. IInv => TypeOK
    BY DEF IInv, CoreInv
  <1> QED BY <1>1, Invariance, PTL

(* HandSize: every hand that player_drow checks has its thirteen tiles,    *)
(* however claims, kongs and wins interleave, but for one each concealed   *)
(* kong.                                                                   *)
THEOREM HandsKeepTheirSize == Spec => []HandSize
  <1>1. IInv => HandSize
    BY DEF IInv, CoreInv
  <1> QED BY <1>1, Invariance, PTL

(* RobPending: check_qiangganghu asks about a kong that still waits, and   *)
(* nobody is asked anything else meanwhile.                                *)
THEOREM RobsArePending == Spec => []RobPending
  <1>1. IInv => RobPending
    BY DEF IInv, CoreInv
  <1> QED BY <1>1, Invariance, PTL

(* StaleNeverWins: no claim on a discard to win survives the round it was  *)
(* made in, though claims of other kinds do.                               *)
THEOREM NoStaleWin == Spec => []StaleNeverWins
  <1>1. IInv => StaleNeverWins
    <2> SUFFICES ASSUME CoreInv, stale PROVE StaleNeverWins
      BY DEF IInv, StaleNeverWins
    <2>1. ASSUME NEW c \in claims PROVE c.opttype # WIN
      <3>1. c \in Claim
        BY DEF CoreInv, TypeOK
      <3> QED BY <3>1, ClaimIs DEF CoreInv, ClaimInv
    <2> QED BY <2>1 DEF StaleNeverWins, CoreInv, ClaimInv
  <1> QED BY <1>1, Invariance, PTL

(* TickEndsOnly: the errors that stop a table come before the first        *)
(* discard, or when concealed kongs or five melds have used up a hand.     *)
THEOREM TickEnds == Spec => []TickEndsOnly
  <1>1. IInv => TickEndsOnly
    BY DEF IInv, EndInv, TickEndsOnly
  <1> QED BY <1>1, Invariance, PTL

----------------------------------------------------------------------------
(* No tile of a mahjong round is lost or made: TilesConserved, from the    *)
(* invariant above.                                                        *)

(* What a seat holds, what it was given as a winner, and the fourth tiles  *)
(* of kongs, in TilesConserved.                                            *)
Weight(s) == held[s].hand + 3 * held[s].melds + (IF held[s].drawn THEN 1 ELSE 0)
Won(s) == IF lastDisc = None THEN 0 ELSE wins[s]
Kongs == (liuju - 14) \div 2

Balanced == wall + pool + Kongs + (Weight(1) + Weight(2) + Weight(3) + Weight(4))
              = Total + (Won(1) + Won(2) + Won(3) + Won(4))

(* TilesConserved, seat by seat.                                           *)
LEMMA BalancedIs ==
  /\ TilesConserved <=> (Playing /\ passed = {} => Balanced)
  /\ TilesConserved' <=> (Playing' /\ passed' = {} => Balanced')
  BY DEF TilesConserved, Balanced, SumOver, Weight, Won, Kongs, Seats

(* All that is counted is an integer.                                      *)
LEMMA CountsAreIntegers ==
  /\ TypeOK => /\ wall \in Int /\ pool \in Int /\ Kongs \in Int
               /\ \A s \in Seats : Weight(s) \in Int /\ Won(s) \in Int
  /\ TypeOK' => /\ wall' \in Int /\ pool' \in Int /\ Kongs' \in Int
                /\ \A s \in Seats : Weight(s)' \in Int /\ Won(s)' \in Int
  <1>1. ASSUME TypeOK
        PROVE  /\ wall \in Int /\ pool \in Int /\ Kongs \in Int
               /\ \A s \in Seats : Weight(s) \in Int /\ Won(s) \in Int
    BY <1>1, SeatHeld DEF TypeOK, Weight, Won, Kongs
  <1>2. TypeOK' => /\ wall' \in Int /\ pool' \in Int /\ Kongs' \in Int
    BY DEF TypeOK, Kongs
  <1>3. ASSUME TypeOK', NEW s \in Seats
        PROVE  Weight(s)' \in Int /\ Won(s)' \in Int
    <2>1. held'[s] \in Hands /\ wins'[s] \in Int
      BY <1>3 DEF TypeOK
    <2> QED BY <2>1, FieldTypes DEF Weight, Won
  <1> QED BY <1>1, <1>2, <1>3

(* The tiles of one seat change, and what it adds is taken elsewhere. *)
LEMMA OneSeat ==
  ASSUME TypeOK, TypeOK', TilesConserved, Playing, passed' = {} => passed = {}, NEW p \in Seats,
         \A s \in Seats : s # p => Weight(s)' = Weight(s) /\ Won(s)' = Won(s),
         passed' = {} => wall' + pool' + Kongs' + Weight(p)' - Won(p)'
                           = wall + pool + Kongs + Weight(p) - Won(p)
  PROVE  TilesConserved'
  <1> SUFFICES ASSUME passed' = {}
               PROVE  Balanced'
    BY BalancedIs
  <1>1. Balanced
    BY BalancedIs
  <1>2. /\ wall \in Int /\ pool \in Int /\ Kongs \in Int /\ wall' \in Int /\ pool' \in Int /\ Kongs' \in Int
        /\ \A s \in Seats : Weight(s) \in Int /\ Won(s) \in Int /\ Weight(s)' \in Int /\ Won(s)' \in Int
    BY CountsAreIntegers
  <1>3. Total \in Int /\ Total' = Total
    BY MahjongAssumption DEF Total
  <1>4. /\ 1 \in Seats /\ 2 \in Seats /\ 3 \in Seats /\ 4 \in Seats
        /\ p = 1 \/ p = 2 \/ p = 3 \/ p = 4
    BY DEF Seats
  <1> DEFINE Net(s) == Weight(s) - Won(s)
             other == wall + pool + Kongs
  <1>5. /\ Net(1) \in Int /\ Net(2) \in Int /\ Net(3) \in Int /\ Net(4) \in Int
        /\ Net(1)' \in Int /\ Net(2)' \in Int /\ Net(3)' \in Int /\ Net(4)' \in Int
        /\ other \in Int /\ other' \in Int
    BY <1>2, <1>4
  <1>6. other + Net(1) + Net(2) + Net(3) + Net(4) = Total
    <2>1. /\ Weight(1) \in Int /\ Weight(2) \in Int /\ Weight(3) \in Int /\ Weight(4) \in Int
          /\ Won(1) \in Int /\ Won(2) \in Int /\ Won(3) \in Int /\ Won(4) \in Int
      BY <1>2, <1>4
    <2>2. wall \in Int /\ pool \in Int /\ Kongs \in Int /\ Total \in Int
      BY <1>2, <1>3
    <2>3. wall + pool + Kongs + (Weight(1) + Weight(2) + Weight(3) + Weight(4))
            = Total + (Won(1) + Won(2) + Won(3) + Won(4))
      BY <1>1 DEF Balanced
    <2> DEFINE w == Weight(1) + Weight(2) + Weight(3) + Weight(4)
               v == Won(1) + Won(2) + Won(3) + Won(4)
    <2>4. w \in Int /\ v \in Int /\ other \in Int
      BY <2>1, <2>2
    <2>5. other + Net(1) + Net(2) + Net(3) + Net(4) = other + w - v
      BY <2>1, <2>4
    <2>6. other + w = Total + v
      BY <2>3
    <2> HIDE DEF w, v, Net, other
    <2> QED BY <2>2, <2>4, <2>5, <2>6
  <1>7. /\ \A s \in Seats : s # p => Net(s)' = Net(s)
        /\ other' + Net(p)' = other + Net(p)
    BY <1>2
  <1>8. (other + Net(1) + Net(2) + Net(3) + Net(4) = Total)' => Balanced'
    BY <1>2, <1>4 DEF Balanced
  <1> HIDE DEF Net, other
  <1>9. other' + Net(1)' + Net(2)' + Net(3)' + Net(4)' = Total
    BY <1>3, <1>4, <1>5, <1>6, <1>7
  <1> QED BY <1>3, <1>8, <1>9

(* Only p's hand changes. *)
LEMMA WeightIs ==
  ASSUME TypeOK, NEW p \in Seats, NEW h \in Nat, NEW d \in BOOLEAN, NEW m \in Nat, NEW g, NEW k,
         Becomes(p, h, d, m, g, k)
  PROVE  /\ Weight(p)' = h + 3 * m + (IF d THEN 1 ELSE 0)
         /\ \A s \in Seats : s # p => Weight(s)' = Weight(s)
  BY DEF Becomes, Weight

(* What a hand has left when it gave up n tiles, a drawn one among them.   *)
LEMMA LeftIs ==
  ASSUME TypeOK, NEW p \in Seats, NEW n \in {1, 4}
  PROVE  Left(held[p], n) = held[p].hand + (IF held[p].drawn THEN 1 ELSE 0) - n
  BY SeatHeld DEF Left

(* No tile moves and no win is counted.                                    *)
LEMMA SameTiles ==
  ASSUME CoreInv, CoreInv', TilesConserved, Playing, passed' = {} => passed = {},
         UNCHANGED tiles, \A s \in Seats : Won(s)' = Won(s)
  PROVE  TilesConserved'
  <1>1. /\ Kongs' = Kongs /\ wall' = wall /\ pool' = pool
        /\ \A s \in Seats : Weight(s)' = Weight(s)
    BY DEF tiles, Kongs, Weight
  <1>2. 1 \in Seats /\ TypeOK /\ TypeOK'
    BY DEF Seats, CoreInv
  <1> QED BY <1>1, <1>2, OneSeat

(* A kong keeps two tiles more in the wall.                                *)
LEMMA KongsMore ==
  ASSUME CoreInv, liuju' = liuju + 2
  PROVE  Kongs' = Kongs + 1
  BY DEF CoreInv, LiujuInv, TypeOK, Kongs

(* In the turn of a player who has not discarded yet nobody has won. *)
LEMMA WonStays ==
  ASSUME CoreInv, Playing, wins' = wins, passed' = {} => passed = {},
         lastDisc' = lastDisc \/ (status = WAITING_PLAYER /\ lastDisc' # None)
  PROVE  passed' = {} => \A s \in Seats : Won(s)' = Won(s)
  BY DEF CoreInv, BeginInv, Won

(* new_game builds the wall and deal_tiles takes four hands from it.       *)
LEMMA DealTiles ==
  ASSUME CoreInv, DealAfterStart
  PROVE  TilesConserved'
  <1> DEFINE h == [hand |-> 13, drawn |-> FALSE, melds |-> 0, pengs |-> 0, dark |-> 0]
  <1>1. held' = [s \in Seats |-> h]
    <2>1. NoTiles \in Hands
      BY DEF NoTiles, Hands
    <2>2. [NoTiles EXCEPT !.hand = 13] = h
      BY <2>1, SetHand DEF NoTiles
    <2> QED BY <2>2 DEF DealAfterStart
  <1>2. \A s \in Seats : Weight(s)' = 13
    BY <1>1 DEF Weight
  <1>3. wall' = WallSize /\ pool' = 0 /\ liuju' = 14 /\ lastDisc' = None
    BY DEF DealAfterStart, Ticking, CoreInv, DealInv, turn
  <1>4. Kongs' = 0 /\ \A s \in Seats : Won(s)' = 0
    BY <1>3 DEF Kongs, Won
  <1>5. Balanced'
    BY <1>2, <1>3, <1>4, MahjongAssumption DEF Balanced, Total, Seats
  <1> QED BY <1>5, BalancedIs

(* A tile of the wall is drawn by a seat that has none apart.              *)
LEMMA DrawTiles ==
  ASSUME CoreInv, CoreInv', TilesConserved, Draw
  PROVE  TilesConserved'
  <1>0. PICK d \in Seats : d = Drawer
    BY DEF Draw, CanDraw, Drawer, NextSeat, CoreInv, TypeOK, Seats
  <1>1. TypeOK /\ TypeOK' /\ held' = [held EXCEPT ![d].drawn = TRUE]
    BY <1>0 DEF Draw, CoreInv
  <1>2. /\ status = PLAYER_OPT /\ wall' = wall - 1 /\ pool' = pool /\ liuju' = liuju
        /\ UNCHANGED <<rob, ends, lastDisc>> /\ Playing
    BY DEF Draw, CanDraw, Ticking, Playing
  <1>3. Becomes(d, held[d].hand, TRUE, held[d].melds, held[d].pengs, held[d].dark)
    BY <1>1, DrawHeld
  <1>4. passed = {} => ~held[d].drawn
    BY <1>1, <1>2 DEF CoreInv, RobPending, DrawnInv, NoRob
  <1>5. /\ Kongs' = Kongs /\ passed' = passed /\ \A s \in Seats : Won(s)' = Won(s)
    BY <1>2, <1>3 DEF Kongs, Won, ends
  <1>6. /\ Weight(d)' = held[d].hand + 3 * held[d].melds + 1
        /\ \A s \in Seats : s # d => Weight(s)' = Weight(s)
    BY <1>1, <1>3, SeatHeld, WeightIs
  <1>7. /\ wall \in Int /\ pool \in Int /\ Kongs \in Int /\ Weight(d) \in Int /\ Won(d) \in Int
    BY <1>1, CountsAreIntegers
  <1>8. CASE passed' = {}
    <2>1. Weight(d)' = Weight(d) + 1
      BY <1>1, <1>4, <1>5, <1>6, <1>8, SeatHeld DEF Weight
    <2>2. wall' + pool' + Kongs' + Weight(d)' - Won(d)' = wall + pool + Kongs + Weight(d) - Won(d)
      BY <1>2, <1>5, <1>7, <2>1
    <2> QED BY <1>1, <1>2, <1>5, <1>6, <2>2, OneSeat
  <1>9. CASE passed' # {}
    BY <1>9 DEF TilesConserved
  <1> QED BY <1>8, <1>9

(* A tile of a hand goes to the discards; before the first discard nobody  *)
(* has won.                                                                *)
LEMMA DiscardTiles ==
  ASSUME CoreInv, CoreInv', TilesConserved, Discard
  PROVE  TilesConserved'
  <1>0. PICK p \in Seats : p = opt
    BY DEF CoreInv, TypeOK, TurnInv, Discard, Seats
  <1>1. TypeOK /\ TypeOK' /\ CanGive(held[p], 1) /\ Left(held[p], 1) \in Nat
    BY <1>0, SeatHeld, GiveIs DEF CoreInv, Discard
  <1>2. Becomes(p, Left(held[p], 1), FALSE, held[p].melds, held[p].pengs, held[p].dark)
    BY <1>0, <1>1, DiscardHeld DEF Discard
  <1>3. /\ status = WAITING_PLAYER /\ wall' = wall /\ pool' = pool + 1 /\ liuju' = liuju
        /\ UNCHANGED ends /\ lastDisc' = p /\ Playing
    BY <1>0 DEF Discard, Playing
  <1>4. passed' = passed /\ wins' = wins /\ lastDisc' # None /\ Kongs' = Kongs
    BY <1>0, <1>3 DEF ends, Seats, Kongs
  <1>5. /\ Weight(p)' = Left(held[p], 1) + 3 * held[p].melds + (IF FALSE THEN 1 ELSE 0)
        /\ \A s \in Seats : s # p => Weight(s)' = Weight(s)
    BY <1>1, <1>2, SeatHeld, WeightIs
  <1>6. Weight(p)' = Weight(p) - 1
    <2>1. Left(held[p], 1) = held[p].hand + (IF held[p].drawn THEN 1 ELSE 0) - 1
      BY <1>1, LeftIs
    <2>2. Weight(p) = held[p].hand + 3 * held[p].melds + (IF held[p].drawn THEN 1 ELSE 0)
      BY DEF Weight
    <2>3. /\ held[p].hand \in Nat /\ held[p].melds \in Nat
          /\ (IF held[p].drawn THEN 1 ELSE 0) \in Nat
      BY <1>1, SeatHeld
    <2> QED BY <1>1, <1>5, <2>1, <2>2, <2>3
  <1>7. /\ wall \in Int /\ pool \in Int /\ Kongs \in Int /\ Weight(p) \in Int /\ Won(p) \in Int
    BY <1>1, CountsAreIntegers
  <1>8. CASE passed' = {}
    <2>1. \A s \in Seats : Won(s)' = Won(s)
      BY <1>3, <1>4, <1>8, WonStays
    <2>2. wall' + pool' + Kongs' + Weight(p)' - Won(p)' = wall + pool + Kongs + Weight(p) - Won(p)
      BY <1>3, <1>4, <1>6, <1>7, <2>1
    <2> QED BY <1>1, <1>3, <1>4, <1>5, <2>1, <2>2, OneSeat
  <1>9. CASE passed' # {}
    BY <1>9 DEF TilesConserved
  <1> QED BY <1>8, <1>9

(* Four tiles are laid down, the fourth counted as a kong.                 *)
LEMMA BlackGangTiles ==
  ASSUME CoreInv, CoreInv', TilesConserved, ReqBlackGang
  PROVE  TilesConserved'
  <1>0. PICK p \in Seats : p = opt
    BY DEF CoreInv, TypeOK, TurnInv, ReqBlackGang, Seats
  <1>1. TypeOK /\ TypeOK' /\ CanGive(held[p], 4) /\ Left(held[p], 4) \in Nat
    BY <1>0, SeatHeld, GiveIs DEF CoreInv, ReqBlackGang
  <1>9. held[p].melds + 1 \in Nat
    BY <1>1, SeatHeld
  <1>2. Becomes(p, Left(held[p], 4), FALSE, held[p].melds + 1, held[p].pengs, held[p].dark + 1)
    BY <1>0, <1>1, BlackGangHeld DEF ReqBlackGang
  <1>3. /\ wall' = wall /\ pool' = pool /\ Playing /\ UNCHANGED <<turn, ends>>
        /\ Kongs' = Kongs + 1
    BY KongsMore DEF ReqBlackGang, Playing
  <1>4. passed' = passed /\ \A s \in Seats : Won(s)' = Won(s)
    BY <1>3 DEF Won, turn, ends
  <1>5. /\ Weight(p)' = Left(held[p], 4) + 3 * (held[p].melds + 1) + (IF FALSE THEN 1 ELSE 0)
        /\ \A s \in Seats : s # p => Weight(s)' = Weight(s)
    BY <1>1, <1>2, <1>9, SeatHeld, WeightIs
  <1>6. Weight(p)' = Weight(p) - 1
    <2>1. Left(held[p], 4) = held[p].hand + (IF held[p].drawn THEN 1 ELSE 0) - 4
      BY <1>1, LeftIs
    <2>2. Weight(p) = held[p].hand + 3 * held[p].melds + (IF held[p].drawn THEN 1 ELSE 0)
      BY DEF Weight
    <2>3. /\ held[p].hand \in Nat /\ held[p].melds \in Nat
          /\ (IF held[p].drawn THEN 1 ELSE 0) \in Nat
      BY <1>1, SeatHeld
    <2> QED BY <1>1, <1>5, <2>1, <2>2, <2>3
  <1>7. /\ wall \in Int /\ pool \in Int /\ Kongs \in Int /\ Weight(p) \in Int /\ Won(p) \in Int
    BY <1>1, CountsAreIntegers
  <1>8. wall' + pool' + Kongs' + Weight(p)' - Won(p)' = wall + pool + Kongs + Weight(p) - Won(p)
    BY <1>3, <1>4, <1>6, <1>7
  <1> QED BY <1>1, <1>3, <1>4, <1>5, <1>8, OneSeat

(* A tile is added to a peng, and counted as a kong.                       *)
LEMMA PengGangTiles ==
  ASSUME CoreInv, CoreInv', TilesConserved, PengGang
  PROVE  TilesConserved'
  <1>0. PICK p \in Seats : p = rob.seat
    BY RobIs DEF PengGang, CoreInv, TypeOK
  <1>1. /\ TypeOK /\ TypeOK' /\ status = WAITING_CLAIM /\ rob.kind = "peng"
        /\ liuju' = liuju + 2 /\ UNCHANGED <<turn, ends, pool, wall>> /\ Playing
    BY DEF CoreInv, PengGang, Ticking, Playing
  <1>2. held[p].pengs > 0 /\ CanGive(held[p], 1)
    BY <1>0, <1>1 DEF CoreInv, RobInv
  <1>3. Left(held[p], 1) \in Nat /\ held[p].pengs - 1 \in Nat
    BY <1>1, <1>2, SeatHeld, GiveIs
  <1>4. Becomes(p, Left(held[p], 1), FALSE, held[p].melds, held[p].pengs - 1, held[p].dark)
    BY <1>0, <1>1, <1>2, PengGangHeld DEF PengGang
  <1>5. passed' = passed /\ Kongs' = Kongs + 1 /\ \A s \in Seats : Won(s)' = Won(s)
    BY <1>1, KongsMore DEF Won, turn, ends
  <1>6. /\ Weight(p)' = Left(held[p], 1) + 3 * held[p].melds + (IF FALSE THEN 1 ELSE 0)
        /\ \A s \in Seats : s # p => Weight(s)' = Weight(s)
    BY <1>1, <1>3, <1>4, SeatHeld, WeightIs
  <1>7. Weight(p)' = Weight(p) - 1
    <2>1. Left(held[p], 1) = held[p].hand + (IF held[p].drawn THEN 1 ELSE 0) - 1
      BY <1>1, LeftIs
    <2>2. Weight(p) = held[p].hand + 3 * held[p].melds + (IF held[p].drawn THEN 1 ELSE 0)
      BY DEF Weight
    <2>3. /\ held[p].hand \in Nat /\ held[p].melds \in Nat
          /\ (IF held[p].drawn THEN 1 ELSE 0) \in Nat
      BY <1>1, SeatHeld
    <2> QED BY <1>1, <1>3, <1>6, <2>1, <2>2, <2>3
  <1>8. /\ wall \in Int /\ pool \in Int /\ Kongs \in Int /\ Weight(p) \in Int /\ Won(p) \in Int
    BY <1>1, CountsAreIntegers
  <1>9. wall' + pool' + Kongs' + Weight(p)' - Won(p)' = wall + pool + Kongs + Weight(p) - Won(p)
    BY <1>1, <1>5, <1>7, <1>8
  <1> QED BY <1>1, <1>5, <1>6, <1>9, OneSeat

(* n tiles of a hand and the last discard are laid down, for a kong with a *)
(* fourth of the hand. *)
LEMMA LaidDownTiles ==
  ASSUME CoreInv, CoreInv', TilesConserved, Playing, NEW p \in Seats, NEW g \in Nat, NEW n \in {2, 3},
         held[p].hand >= n, held' = [held EXCEPT ![p] = LayDown(@, n, g, 0)],
         pool' = pool - 1, wall' = wall, liuju' = liuju + 2 * (n - 2),
         UNCHANGED <<lastDisc, ends>>
  PROVE  TilesConserved'
  <1>1. Becomes(p, held[p].hand - n, held[p].drawn, held[p].melds + 1, held[p].pengs + g, held[p].dark)
    BY LayDownHeld DEF CoreInv
  <1>2. /\ passed' = passed
        /\ \A s \in Seats : Won(s)' = Won(s) /\ (s # p => Weight(s)' = Weight(s))
    BY <1>1 DEF Won, Weight, Becomes, ends
  <1>3. Weight(p)' = Weight(p) + 3 - n
    BY <1>1, SeatHeld DEF CoreInv, Weight, Becomes
  <1>4. Kongs' = Kongs + n - 2
    <2>1. CASE n = 2
      <3>1. liuju' = liuju /\ Kongs \in Int
        BY <2>1, CountsAreIntegers DEF CoreInv, TypeOK
      <3> QED BY <2>1, <3>1 DEF Kongs
    <2>2. CASE n = 3
      <3>1. liuju' = liuju + 2 /\ Kongs \in Int
        BY <2>2, CountsAreIntegers DEF CoreInv, TypeOK
      <3> QED BY <2>2, <3>1, KongsMore
    <2> QED BY <2>1, <2>2
  <1>5. /\ wall \in Int /\ pool \in Int /\ Kongs \in Int /\ Weight(p) \in Int /\ Won(p) \in Int
        /\ TypeOK /\ TypeOK'
    BY CountsAreIntegers DEF CoreInv
  <1> QED BY <1>2, <1>3, <1>4, <1>5, OneSeat

(* Three tiles and the last discard make a kong.                           *)
LEMMA MingGangTiles ==
  ASSUME CoreInv, CoreInv', TilesConserved, Playing, NEW p \in Seats, MingGang(p),
         UNCHANGED <<lastDisc, ends>>
  PROVE  TilesConserved'
  <1>1. /\ held[p].hand >= 3 /\ pool' = pool - 1 /\ wall' = wall
        /\ held' = [held EXCEPT ![p] = LayDown(@, 3, 0, 0)] /\ liuju' = liuju + 2 * (3 - 2)
    BY DEF MingGang, MoveTilesToHold
  <1> QED BY <1>1, LaidDownTiles

(* A winner is given a copy of the last discard.                           *)
LEMMA PlayersWinTiles ==
  ASSUME CoreInv, CoreInv', TilesConserved, PlayersWin
  PROVE  TilesConserved'
  <1>0. PICK p \in Seats : p = opt
    BY AskedIs DEF PlayersWin
  <1>1. /\ Asked /\ wins[p] < MaxWins /\ wins' = [wins EXCEPT ![p] = @ + 1]
        /\ UNCHANGED <<turn, passed, pool, wall, liuju>>
    BY <1>0 DEF PlayersWin
  <1>2. TypeOK /\ TypeOK' /\ Playing
    BY <1>1, AskedIs DEF CoreInv
  <1>3. \A s \in Seats : wins[s] \in Nat /\ wins'[s] = wins[s] + (IF s = p THEN 1 ELSE 0)
    BY <1>1, <1>2, WinsMore
  <1>4. CASE lastDisc = None
    <2>1. UNCHANGED tiles
      BY <1>1, <1>4 DEF PlayersWin, tiles
    <2>2. \A s \in Seats : Won(s)' = Won(s)
      BY <1>1, <1>4 DEF Won, turn
    <2> QED BY <1>1, <1>2, <2>1, <2>2, SameTiles
  <1>5. CASE lastDisc # None
    <2>1. Becomes(p, held[p].hand + 1, held[p].drawn, held[p].melds, held[p].pengs, held[p].dark)
      BY <1>0, <1>2, <1>5, WinHeld DEF PlayersWin
    <2>2. /\ Kongs' = Kongs /\ Won(p)' = Won(p) + 1
          /\ \A s \in Seats : s # p => Won(s)' = Won(s)
      BY <1>1, <1>2, <1>3, <1>5 DEF Kongs, Won, turn
    <2>3. /\ Weight(p)' = held[p].hand + 1 + 3 * held[p].melds + (IF held[p].drawn THEN 1 ELSE 0)
          /\ \A s \in Seats : s # p => Weight(s)' = Weight(s)
      BY <1>2, <2>1, SeatHeld, WeightIs
    <2>4. Weight(p)' = Weight(p) + 1
      BY <1>2, <2>3, SeatHeld DEF Weight
    <2>5. /\ wall \in Int /\ pool \in Int /\ Kongs \in Int /\ Weight(p) \in Int /\ Won(p) \in Int
      BY <1>2, CountsAreIntegers
    <2>6. wall' + pool' + Kongs' + Weight(p)' - Won(p)' = wall + pool + Kongs + Weight(p) - Won(p)
      BY <1>1, <2>2, <2>4, <2>5
    <2> QED BY <1>1, <1>2, <2>2, <2>3, <2>6, OneSeat
  <1> QED BY <1>4, <1>5

(* Every step keeps the tiles.                                             *)
LEMMA TilesStep == CoreInv /\ CoreInv' /\ TilesConserved /\ [Next]_vars => TilesConserved'
  <1> SUFFICES ASSUME CoreInv, CoreInv', TilesConserved, [Next]_vars, Playing'
               PROVE  TilesConserved'
    BY DEF TilesConserved
  <1>1. ASSUME UNCHANGED <<tiles, wins, passed, lastDisc>>, Playing
        PROVE  TilesConserved'
    <2>1. \A s \in Seats : Won(s)' = Won(s)
      BY <1>1 DEF Won
    <2> QED BY <1>1, <2>1, SameTiles
  <1>2. CASE UNCHANGED vars
    BY <1>1, <1>2 DEF vars, turn, ends, Playing
  <1>3. CASE Tick
    <2>1. CASE DealAfterStart
      BY <2>1, DealTiles
    <2>2. CASE Draw
      BY <2>2, DrawTiles
    <2>3. CASE AutoDiscard
      BY <2>3, DiscardTiles DEF AutoDiscard
    <2>4. CASE AutoDiscardNothing
      <3>1. /\ status = WAITING_PLAYER /\ Playing /\ UNCHANGED <<tiles, wins, passed>>
            /\ lastDisc' # None
        BY <2>4 DEF AutoDiscardNothing, Ticking, Playing, CoreInv, TurnInv, ends
      <3>2. CASE passed' = {}
        BY <3>1, <3>2, WonStays, SameTiles
      <3>3. CASE passed' # {}
        BY <3>3 DEF TilesConserved
      <3> QED BY <3>2, <3>3
    <2>5. CASE PengGang
      BY <2>5, PengGangTiles
    <2>6. CASE LightGang
      <3>1. rob.seat \in Seats /\ Playing /\ UNCHANGED <<lastDisc, ends>>
        BY <2>6, RobIs DEF LightGang, Ticking, Playing, CoreInv, TypeOK
      <3>2. CASE MingGang(rob.seat)
        BY <3>1, <3>2, MingGangTiles
      <3>3. CASE NoMingGang
        BY <1>1, <3>1, <3>3 DEF NoMingGang, ends
      <3> QED BY <2>6, <3>2, <3>3 DEF LightGang
    <2>7. CASE ClaimTimeout
      <3>1. GiveUp /\ Asked
        BY <2>7 DEF ClaimTimeout
      <3>2. Playing /\ UNCHANGED <<tiles, wins, lastDisc>> /\ (passed' = {} => passed = {})
        BY <3>1 DEF GiveUp, Asked, Playing
      <3>3. \A s \in Seats : Won(s)' = Won(s)
        BY <3>2 DEF Won
      <3> QED BY <3>2, <3>3, SameTiles
    <2>8. CASE AutoWin
      BY <2>8, PlayersWinTiles DEF AutoWin
    <2>9. CASE DrawFails \/ CheckClaimFails \/ DealCheckClaim \/ AskClaim \/ NobodyClaims \/ AskedNobody
      <3>1. UNCHANGED <<tiles, wins, passed, lastDisc>> /\ Playing
        BY <2>9 DEF DrawFails, CheckClaimFails, DealCheckClaim, AskClaim, NobodyClaims, AskedNobody,
                    Ticking, Playing, turn, ends
      <3> QED BY <1>1, <3>1
    <2>10. ~(DealWaitingStart \/ DealBeforeStart \/ WallExhausted \/ DealGameEnd
              \/ DealGameRestWaiting \/ DealGameRest \/ DealGameStop)
      BY DEF DealWaitingStart, DealBeforeStart, WallExhausted, DealGameEnd, DealGameRestWaiting,
             DealGameRest, DealGameStop, NextStatus, Go, Playing
    <2> QED BY <1>3, <2>1, <2>2, <2>3, <2>4, <2>5, <2>6, <2>7, <2>8, <2>9, <2>10 DEF Tick
  <1>4. CASE Request
    <2>1. CASE \E s \in Seats : ReqReady(s) \/ LandTrusteeship(s)
      BY <1>1, <2>1 DEF ReqReady, LandTrusteeship, turn, ends, Playing
    <2>2. CASE ReqDiscard
      BY <2>2, DiscardTiles DEF ReqDiscard
    <2>3. CASE ReqBlackGang
      BY <2>3, BlackGangTiles
    <2>4. CASE ReqPengGang \/ Refused
      <3>1. UNCHANGED <<tiles, wins, passed, lastDisc>> /\ Playing
        BY <2>4 DEF ReqPengGang, Refused, Asked, Playing, turn, ends
      <3> QED BY <1>1, <3>1
    <2>5. CASE ReqPass
      <3>1. GiveUp /\ Asked
        BY <2>5 DEF ReqPass
      <3>2. Playing /\ UNCHANGED <<tiles, wins, lastDisc>> /\ (passed' = {} => passed = {})
        BY <3>1 DEF GiveUp, Asked, Playing
      <3>3. \A s \in Seats : Won(s)' = Won(s)
        BY <3>2 DEF Won
      <3> QED BY <3>2, <3>3, SameTiles
    <2>6. CASE ReqWin
      BY <2>6, PlayersWinTiles DEF ReqWin
    <2>7. CASE ReqLightGang
      <3>1. Playing /\ opt \in Seats /\ UNCHANGED <<lastDisc, ends>>
        BY <2>7, AskedIs DEF ReqLightGang
      <3>2. CASE MingGang(opt)
        BY <3>1, <3>2, MingGangTiles
      <3>3. CASE UNCHANGED tiles
        BY <1>1, <3>1, <3>3 DEF ends
      <3> QED BY <2>7, <3>2, <3>3 DEF ReqLightGang, NoMingGang
    <2>8. CASE \E o \in {CHI, PENG} : ReqChiPeng(o)
      <3>1. PICK o \in {CHI, PENG} : ReqChiPeng(o)
        BY <2>8
      <3>2. Playing /\ opt \in Seats /\ UNCHANGED <<lastDisc, ends, wall, liuju>>
        BY <3>1, AskedIs DEF ReqChiPeng, turn
      <3>3. CASE Meld(IF o = PENG THEN 1 ELSE 0)
        <4> DEFINE g == IF o = PENG THEN 1 ELSE 0
        <4>1. /\ held[opt].hand >= 2 /\ pool' = pool - 1 /\ g \in Nat
              /\ held' = [held EXCEPT ![opt] = LayDown(@, 2, g, 0)]
          BY <3>3 DEF Meld, MoveTilesToHold
        <4>2. liuju' = liuju + 2 * (2 - 2)
          BY <3>2 DEF CoreInv, TypeOK
        <4> HIDE DEF g
        <4> QED BY <3>2, <4>1, <4>2, LaidDownTiles
      <3>4. CASE UNCHANGED <<held, pool, status, offer>>
        BY <1>1, <3>2, <3>4 DEF tiles, ends
      <3> QED BY <3>1, <3>3, <3>4 DEF ReqChiPeng
    <2>9. ~(ReqOwnWin \/ ReqRobWin \/ DissolveTable)
      BY DEF ReqOwnWin, ReqRobWin, DissolveTable, Go, Playing
    <2> QED BY <1>4, <2>1, <2>2, <2>3, <2>4, <2>5, <2>6, <2>7, <2>8, <2>9 DEF Request
  <1> QED BY <1>2, <1>3, <1>4 DEF Next

(* The tiles are kept wherever the invariant holds.                        *)
LEMMA TilesInvariance == Spec => [](IInv /\ TilesConserved)
  <1>1. Init => IInv /\ TilesConserved
    BY InitCore DEF IInv, Init, TilesConserved, Playing
  <1>2. IInv /\ TilesConserved /\ [Next]_vars => (IInv /\ TilesConserved)'
    BY CoreStep, EndStep, TilesStep DEF IInv
  <1> QED BY <1>1, <1>2, PTL DEF Spec

(* TilesConserved: wall, hands, melds, kongs and discards are the tiles    *)
(* that build_wall made, and the copies of a discard given to its winners. *)
THEOREM NoTileLost == Spec => []TilesConserved
  BY TilesInvariance, PTL

==============================================================================
