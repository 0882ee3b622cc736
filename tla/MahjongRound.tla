---------------------------- MODULE MahjongRound ----------------------------
(***************************************************************************)
(* The rounds of a mahjong table (server/game/logic/logic_majiang.lua),    *)
(* with its four players seated: ready, deal, draw, discard, the claims on *)
(* a discard or a kong, the end of the round, the next one.                *)
(*                                                                         *)
(* The tick of the table calls the handler of _game_status ten times a     *)
(* second; requests of the player at _opt_seatid come in between.  Waits   *)
(* are by a timer that each status restarts: here a wait may end at any    *)
(* tick.  The tick has no pcall (table.lua:65), so an error in a handler   *)
(* ends it for good; an error in a request leaves what it changed so far.  *)
(*                                                                         *)
(* Tiles are counted.  Who can chi, peng, kong or win is a choice among    *)
(* the seats that hold tiles enough (a win needs #tiles % 3 = 1, a claimed *)
(* tile has at most one seat with a pair).  A request names tiles that its *)
(* sender was offered or holds; one that noPeng, noDeal or check_opt turns *)
(* down is Refused.  Scores, which kind of hand won, the end of the wall a *)
(* tile comes from, robots, the dissolve vote and the test tiles of        *)
(* MJGMSetNextCard are left out.                                           *)
(***************************************************************************)
EXTENDS Integers, FiniteSets

CONSTANTS
  WallSize,  \* tiles in the wall once the hands are dealt
  MaxTimes,  \* _max_times of a private room; bound: rounds of a gold table
  MaxWins,   \* bound: how often a seat is put in _last_winners in a round
  MaxMelds,  \* bound: once so many are laid down in a round nobody can chi or peng
  Bankers,   \* the seats get_banker_seatid picks from
  Away       \* bound: the seats whose players let the table play for them

Seats == 1..4   \* max_player; order_claims_players and others write 4
None == 0

ASSUME MahjongAssumption == /\ WallSize \in Nat /\ MaxTimes \in Nat \ {0}
                            /\ MaxWins \in Nat \ {0} /\ Away \subseteq Seats
                            /\ MaxMelds \in Nat /\ Bankers \subseteq Seats

VARIABLES
  gold,      \* _isUseGold: a gold table, else a private room
  ready,     \* seats whose player is ready
  played,    \* _played_times
  alive,     \* whether the tick coroutine still runs
  trust,     \* seats with p.trusteeship = 1
  status,    \* _game_status
  opt,       \* _opt_seatid
  lastDisc,  \* _last_discard_seatid
  lastTile,  \* whether _last_discard_tile is a tile
  claims,    \* _claim_players_new; its order is Before
  stale,     \* whether those claims were made in an earlier round
  offer,     \* opttypes in p.info of the player who is asked
  cached,    \* whether _claim_cache_data holds that question
  canDian,   \* _can_dian_player
  counted,   \* whether check_player_claim has made that list once
  rob,       \* _qianggang_info or _qiangminggang_info
  wins,      \* how often a seat is in _last_winners
  winType,   \* _win_type
  held,      \* seat -> its tiles, see Hands
  pool,      \* tiles in the discards of all seats
  wall,      \* #_wall
  liuju,     \* _liuju_num: tiles that stay in the wall
  passed     \* history: seats that declined a tile they drew and could win by

room  == <<gold, ready, played, trust>>
turn  == <<opt, lastDisc, lastTile>>
ask   == <<claims, stale, offer, cached>>
ends  == <<canDian, counted, wins, winType, passed>>
tiles == <<held, pool, wall, liuju>>
vars  == <<room, alive, status, turn, ask, ends, rob, tiles>>

(* MJ_STATUS; FREED is logic.free, which sets _game_status to nil *)
FREED == 0
WAITING_START == 1
BEFORE_START == 2
AFTER_START == 3
PLAYER_OPT == 4
WAITING_PLAYER == 5
CHECK_CLAIM == 6
WAITING_CLAIM == 7
WAITING_CLAIM_PLAYER == 8
GAME_END == 9
GAME_REST_WAITING == 10
GAME_REST == 11
GAME_STOP == 12

(* OPT_TYPE and WIN_TYPE *)
CHI == 3
PENG == 4
LIGHT_GANG == 5
WIN == 8
QIANG_GANG_WIN == 9

NOWIN == 0
BY_OWN == 1
BY_OTHER == 2
BY_GANG == 4
NOWINERS == 6

Claim == [seat : Seats, opttype : {CHI, PENG, LIGHT_GANG, WIN, QIANG_GANG_WIN}]
NoRob == [seat |-> None, kind |-> "none"]
(* "old" is a kong on the last discard by a claim of an earlier round *)
Robs == {NoRob} \cup [seat : Seats, kind : {"peng", "light", "old"}]

(* hand: #p.tiles; drawn: last_draw_tile; melds: #hold_tiles, of which     *)
(* pengs are PENG and dark are BLACK_GANG.                                 *)
Hands == [hand : Nat, drawn : BOOLEAN, melds : Nat, pengs : Nat, dark : Nat]
NoTiles == [hand |-> 0, drawn |-> FALSE, melds |-> 0, pengs |-> 0, dark |-> 0]

Total == WallSize + 52   \* the tiles of build_wall; four hands of 13 are dealt

TypeOK ==
  /\ gold \in BOOLEAN /\ ready \subseteq Seats /\ played \in 0..MaxTimes
  /\ trust \subseteq Away /\ alive \in BOOLEAN /\ status \in 0..12
  /\ opt \in 0..4 /\ lastDisc \in 0..4 /\ lastTile \in BOOLEAN
  /\ claims \subseteq Claim /\ stale \in BOOLEAN
  /\ offer \subseteq {CHI, PENG, LIGHT_GANG, WIN, QIANG_GANG_WIN} /\ cached \in BOOLEAN
  /\ canDian \subseteq Seats /\ counted \in BOOLEAN /\ rob \in Robs
  /\ wins \in [Seats -> 0..MaxWins] /\ winType \in {NOWIN, BY_OWN, BY_OTHER, BY_GANG, NOWINERS}
  /\ held \in [Seats -> Hands] /\ pool \in Nat /\ wall \in Nat /\ liuju \in Nat
  /\ passed \subseteq Seats

NextSeat(s) == IF s + 1 <= 4 THEN s + 1 ELSE 1

HasStart == status \notin {FREED, WAITING_START}
Ticking(st) == alive /\ status = st
Asked == status = WAITING_CLAIM_PLAYER /\ opt # None

(* mj_deal.check_win_one, and check_win_all with a tile: only then may the *)
(* hand be complete with that tile.                                        *)
Waiting(s) == held[s].hand % 3 = 1

SumOver(f) == f[1] + f[2] + f[3] + f[4]

(* mj_deal.check_pung and check_chow *)
CanMeld(s) == held[s].hand >= 2 /\ SumOver([t \in Seats |-> held[t].melds]) < MaxMelds

(* change_game_status.  An offer is only read while its player is asked. *)
Go(st) == status' = st /\ offer' = {}

(* order_claims_players: a higher opttype first, then the distance from 4. *)
Before(c, d) == \/ c.opttype > d.opttype
                \/ c.opttype = d.opttype /\ c.seat % 4 < d.seat % 4
First == CHOOSE c \in claims : \A d \in claims \ {c} : Before(c, d)
(* The entries of the first seat that no other seat interrupts. *)
Front == {c \in claims : /\ c.seat = First.seat
                         /\ \A d \in claims : d.seat # c.seat => Before(c, d)}

(* Mutant: the drawn tile is not put in. *)
GiveLosing(h, n) == [h EXCEPT !.hand = @ - n, !.drawn = FALSE]

(* p.tiles less n, or less n - 1 and the drawn tile put in *)
Give(h, n) == [hand |-> IF h.drawn THEN h.hand + 1 - n ELSE h.hand - n, drawn |-> FALSE,
               melds |-> h.melds, pengs |-> h.pengs, dark |-> h.dark]
CanGive(h, n) == (IF h.drawn THEN h.hand + 1 ELSE h.hand) >= n

(* n tiles of p.tiles laid down as a meld, and a tile added to a peng *)
LayDown(h, n, peng, dark) ==
  [hand |-> h.hand - n, drawn |-> h.drawn, melds |-> h.melds + 1,
   pengs |-> h.pengs + peng, dark |-> h.dark + dark]
AddToPeng(h) == [hand |-> h.hand, drawn |-> h.drawn, melds |-> h.melds,
                 pengs |-> h.pengs - 1, dark |-> h.dark]

-----------------------------------------------------------------------------
(* A table: four seats taken, nobody ready, no round played. *)
Init ==
  /\ gold \in BOOLEAN /\ ready = {} /\ played = 0 /\ trust = {} /\ alive = TRUE
  /\ status = WAITING_START /\ opt = None /\ lastDisc = None /\ lastTile = FALSE
  /\ claims = {} /\ stale = FALSE /\ offer = {} /\ cached = FALSE
  /\ canDian = {} /\ counted = FALSE /\ rob = NoRob
  /\ wins = [s \in Seats |-> 0] /\ winType = NOWIN /\ passed = {}
  /\ held = [s \in Seats |-> NoTiles] /\ pool = 0 /\ wall = 0 /\ liuju = 14

ReqReady(s) ==
  /\ status = WAITING_START /\ s \notin ready
  /\ ready' = ready \cup {s}
  /\ UNCHANGED <<gold, played, trust, alive, status, turn, ask, ends, rob, tiles>>

(* LandTrusteeship, and the `resume` that ends it *)
LandTrusteeship(s) ==
  /\ s \in Away /\ status # FREED
  /\ trust' = IF s \in trust THEN trust \ {s} ELSE trust \cup {s}
  /\ UNCHANGED <<gold, ready, played, alive, status, turn, ask, ends, rob, tiles>>

DealWaitingStart ==
  /\ Ticking(WAITING_START) /\ ready = Seats /\ played < MaxTimes
  /\ Go(BEFORE_START)
  /\ UNCHANGED <<room, alive, turn, claims, stale, cached, ends, rob, tiles>>

(* init_round_data, then the first player o and a wall of n tiles.  It     *)
(* leaves _claim_players_new and _can_dian_player as they are.             *)
InitRoundData(o, n) ==
  /\ opt' = o /\ lastDisc' = None /\ lastTile' = FALSE /\ stale' = (claims # {})
  /\ rob' = NoRob /\ wins' = [s \in Seats |-> 0] /\ winType' = NOWIN
  /\ held' = [s \in Seats |-> NoTiles] /\ pool' = 0 /\ wall' = n /\ passed' = {}
  /\ UNCHANGED <<claims, cached, canDian, counted>>

(* new_game picks the banker, who draws first. *)
DealBeforeStart ==
  /\ Ticking(BEFORE_START)
  /\ \E banker \in Bankers : InitRoundData(banker, Total)
  /\ liuju' = 14 /\ Go(AFTER_START)
  /\ UNCHANGED <<room, alive>>

DealAfterStart ==
  /\ Ticking(AFTER_START)
  /\ held' = [s \in Seats |-> [NoTiles EXCEPT !.hand = 13]]
  /\ wall' = WallSize /\ Go(PLAYER_OPT)
  /\ UNCHANGED <<room, alive, turn, claims, stale, cached, ends, rob, pool, liuju>>

-----------------------------------------------------------------------------
(* player_drow *)
Drawer == IF opt # None THEN opt ELSE NextSeat(lastDisc)
CanDraw == Ticking(PLAYER_OPT) /\ (opt # None \/ lastDisc # None)

(* A tile that completes the hand is claimed like a discard. *)
Draw ==
  /\ CanDraw /\ wall > liuju
  /\ wall' = wall - 1 /\ held' = [held EXCEPT ![Drawer].drawn = TRUE] /\ opt' = Drawer
  /\ \/ /\ Waiting(Drawer)
        /\ claims' = {[seat |-> Drawer, opttype |-> WIN]} /\ stale' = FALSE
        /\ Go(WAITING_CLAIM)
     \/ Go(WAITING_PLAYER) /\ UNCHANGED <<claims, stale>>
  /\ UNCHANGED <<room, alive, lastDisc, lastTile, cached, ends, rob, pool, liuju>>

WallExhausted ==
  /\ CanDraw /\ wall <= liuju
  /\ opt' = Drawer /\ winType' = NOWINERS /\ Go(GAME_END)
  /\ UNCHANGED <<room, alive, lastDisc, lastTile, claims, stale, cached,
                 canDian, counted, wins, passed, rob, tiles>>

(* get_next_seatid(nil): the tick ends *)
DrawFails ==
  /\ Ticking(PLAYER_OPT) /\ opt = None /\ lastDisc = None
  /\ alive' = FALSE
  /\ UNCHANGED <<room, status, turn, ask, ends, rob, tiles>>

Discard ==
  /\ status = WAITING_PLAYER /\ CanGive(held[opt], 1)
  /\ held' = [held EXCEPT ![opt] = Give(@, 1)] /\ pool' = pool + 1
  /\ lastDisc' = opt /\ lastTile' = TRUE /\ opt' = NextSeat(opt) /\ Go(CHECK_CLAIM)
  /\ UNCHANGED <<gold, ready, played, alive, claims, stale, cached, ends, rob, wall, liuju>>

ReqDiscard == Discard /\ UNCHANGED trust

(* deal_waiting_player: the time is up, or the player is in trusteeship;   *)
(* auto_out_cnt, after which he is, is a choice.                           *)
AutoTrust == \E s \in SUBSET ({opt} \cap Away) : trust' = trust \cup s
AutoDiscard == alive /\ Discard /\ AutoTrust

(* Without tiles it discards none, and check_kong cannot compare that. *)
AutoDiscardNothing ==
  /\ Ticking(WAITING_PLAYER) /\ ~CanGive(held[opt], 1)
  /\ lastDisc' = opt /\ lastTile' = FALSE /\ opt' = NextSeat(opt) /\ Go(CHECK_CLAIM)
  /\ AutoTrust
  /\ UNCHANGED <<gold, ready, played, alive, claims, stale, cached, ends, rob, tiles>>

CheckClaimFails ==
  /\ Ticking(CHECK_CLAIM) /\ ~lastTile
  /\ alive' = FALSE /\ canDian' = {} /\ counted' = TRUE
  /\ UNCHANGED <<room, status, turn, ask, wins, winType, passed, rob, tiles>>

(* player_an_gang: set_an_gang_score reads _players_sit[nil], so the       *)
(* request ends in an error and never gets to change_game_status.          *)
ReqBlackGang ==
  /\ status = WAITING_PLAYER /\ CanGive(held[opt], 4)
  /\ held' = [held EXCEPT ![opt] = LayDown(Give(@, 4), 0, 0, 1)]
  /\ liuju' = liuju + 2
  /\ UNCHANGED <<room, alive, status, turn, ask, ends, rob, pool, wall>>

(* player_peng_gang and check_qiangganghu: the others may rob the kong. *)
ReqPengGang ==
  /\ status = WAITING_PLAYER /\ held[opt].pengs > 0 /\ CanGive(held[opt], 1)
  /\ rob' = [seat |-> opt, kind |-> "peng"] /\ Go(WAITING_CLAIM)
  /\ \/ UNCHANGED <<claims, stale>>
     \/ \E R \in SUBSET {s \in Seats \ {opt} : Waiting(s)} :
          /\ R # {} /\ claims' = {[seat |-> s, opttype |-> QIANG_GANG_WIN] : s \in R}
          /\ stale' = FALSE
  /\ UNCHANGED <<room, alive, turn, cached, ends, tiles>>

(* player_win_all on one's own turn, after a chi or peng: with a drawn     *)
(* tile check_win_all has just said no.                                    *)
ReqOwnWin ==
  /\ status = WAITING_PLAYER /\ ~held[opt].drawn /\ held[opt].hand % 3 = 2
  /\ wins' = [s \in Seats |-> IF s = opt THEN 1 ELSE 0] /\ winType' = BY_OWN
  /\ Go(GAME_END)
  /\ UNCHANGED <<room, alive, turn, claims, stale, cached,
                 canDian, counted, passed, rob, tiles>>

-----------------------------------------------------------------------------
(* check_player_claim: W can win the discard, P can peng it, G can kong    *)
(* it, C can chi it.                                                       *)
DealCheckClaim ==
  /\ Ticking(CHECK_CLAIM) /\ lastTile
  /\ \E W \in SUBSET {s \in Seats \ {lastDisc} : Waiting(s)},
        P \in SUBSET {s \in Seats \ {lastDisc} : CanMeld(s)},
        C \in SUBSET {s \in {NextSeat(lastDisc)} : CanMeld(s)} :
       /\ Cardinality(P) <= 1
       /\ \E G \in SUBSET {s \in P : held[s].hand >= 3} :
            LET cs == [seat : W, opttype : {WIN}] \cup [seat : G, opttype : {LIGHT_GANG}]
                        \cup [seat : P, opttype : {PENG}] \cup [seat : C, opttype : {CHI}]
            IN  IF cs = {} THEN UNCHANGED <<claims, stale>>
                           ELSE claims' = cs /\ stale' = FALSE
       /\ canDian' = W /\ counted' = TRUE
  /\ Go(WAITING_CLAIM)
  /\ UNCHANGED <<room, alive, turn, cached, wins, winType, passed, rob, tiles>>

(* Mutant: the questions are not taken out of the list. *)
AskClaimAgain ==
  /\ Ticking(WAITING_CLAIM) /\ claims # {}
  /\ opt' = First.seat /\ offer' = {c.opttype : c \in Front} /\ cached' = TRUE
  /\ status' = WAITING_CLAIM_PLAYER
  /\ UNCHANGED <<room, alive, lastDisc, lastTile, claims, stale, ends, rob, tiles>>

(* tick_claim_player *)
AskClaim ==
  /\ Ticking(WAITING_CLAIM) /\ claims # {}
  /\ opt' = First.seat /\ offer' = {c.opttype : c \in Front} /\ cached' = TRUE
  /\ claims' = claims \ Front
  /\ status' = WAITING_CLAIM_PLAYER
  /\ UNCHANGED <<room, alive, lastDisc, lastTile, stale, ends, rob, tiles>>

(* Mutant: _qianggang_info is not reset. *)
PengGangKept ==
  /\ Ticking(WAITING_CLAIM) /\ claims = {} /\ rob.kind = "peng"
  /\ held' = [held EXCEPT ![rob.seat] = AddToPeng(Give(@, 1))]
  /\ liuju' = liuju + 2 /\ Go(PLAYER_OPT)
  /\ UNCHANGED <<room, alive, turn, claims, stale, cached, ends, rob, pool, wall>>

(* peng_gang: nobody robbed the kong.  _opt_seatid stays as it is. *)
PengGang ==
  /\ Ticking(WAITING_CLAIM) /\ claims = {} /\ rob.kind = "peng"
  /\ held' = [held EXCEPT ![rob.seat] = AddToPeng(Give(@, 1))]
  /\ liuju' = liuju + 2 /\ rob' = NoRob /\ Go(PLAYER_OPT)
  /\ UNCHANGED <<room, alive, turn, claims, stale, cached, ends, pool, wall>>

(* Mutant: the claimed tile stays in the discards. *)
CopyTilesToHold(p, n) ==
  /\ held[p].hand >= n /\ pool > 0
  /\ pool' = pool

(* player_move_tiles_to_hold: n tiles of p and the last discard *)
MoveTilesToHold(p, n) ==
  /\ held[p].hand >= n /\ pool > 0
  /\ pool' = pool - 1

(* player_ming_gang *)
MingGang(p) ==
  /\ MoveTilesToHold(p, 3)
  /\ held' = [held EXCEPT ![p] = LayDown(@, 3, 0, 0)]
  /\ opt' = p /\ liuju' = liuju + 2 /\ Go(PLAYER_OPT)
  /\ UNCHANGED wall

NoMingGang == UNCHANGED <<tiles, opt, status, offer>>

LightGang ==
  /\ Ticking(WAITING_CLAIM) /\ claims = {} /\ rob.kind \in {"light", "old"}
  /\ MingGang(rob.seat) \/ (rob.kind = "old" /\ NoMingGang)
  /\ rob' = NoRob
  /\ UNCHANGED <<room, alive, lastDisc, lastTile, claims, stale, cached, ends>>

NobodyClaims ==
  /\ Ticking(WAITING_CLAIM) /\ claims = {} /\ rob = NoRob
  /\ Go(PLAYER_OPT)
  /\ UNCHANGED <<room, alive, turn, claims, stale, cached, ends, rob, tiles>>

-----------------------------------------------------------------------------
(* Answers of the player who is asked.  Each clears _claim_cache_data. *)

(* Mutant: the status changes only when the list is used up. *)
GiveUpWaiting ==
  /\ opt' = None /\ cached' = FALSE /\ canDian' = canDian \ {opt}
  /\ passed' = IF held[opt].drawn THEN passed \cup {opt} ELSE passed
  /\ IF canDian = {opt} THEN Go(GAME_END) ELSE UNCHANGED <<status, offer>>
  /\ UNCHANGED <<room, lastDisc, lastTile, claims, stale, counted, wins, winType, rob, tiles>>

(* player_claim_give_up: the round ends when the last of _can_dian_player  *)
(* has answered, whether anyone has won or not.  Before the first discard  *)
(* of the table that list is nil, and indexof fails.                       *)
GiveUp ==
  /\ opt' = None /\ cached' = FALSE
  /\ passed' = IF held[opt].drawn THEN passed \cup {opt} ELSE passed
  /\ IF counted
       THEN /\ canDian' = canDian \ {opt}
            /\ Go(IF canDian = {opt} THEN GAME_END ELSE WAITING_CLAIM)
       ELSE UNCHANGED <<canDian, status, offer>>
  /\ UNCHANGED <<room, lastDisc, lastTile, claims, stale, counted, wins, winType, rob, tiles>>

ReqPass == Asked /\ GiveUp /\ UNCHANGED alive

(* deal_waiting_claim_player answers with a win for a player in            *)
(* trusteeship.                                                            *)
AutoAnswer == opt \in trust /\ cached /\ offer \cap {WIN, QIANG_GANG_WIN} # {}

ClaimTimeout == alive /\ Asked /\ ~AutoAnswer /\ GiveUp /\ alive' = counted

(* _players_sit[nil].trusteeship: the tick ends *)
AskedNobody ==
  /\ Ticking(WAITING_CLAIM_PLAYER) /\ opt = None
  /\ alive' = FALSE
  /\ UNCHANGED <<room, status, turn, ask, ends, rob, tiles>>

(* Mutant: the round ends with the first winner. *)
FirstWin ==
  /\ Asked /\ WIN \in offer /\ wins[opt] < MaxWins /\ lastDisc # None
  /\ wins' = [wins EXCEPT ![opt] = @ + 1] /\ cached' = FALSE
  /\ winType' = BY_OTHER /\ canDian' = canDian \ {opt}
  /\ held' = [held EXCEPT ![opt].hand = @ + 1] /\ Go(GAME_END)
  /\ UNCHANGED <<room, turn, claims, stale, counted, passed, rob, pool, wall, liuju>>

(* players_win: the discarder pays, also for a tile that was drawn; without*)
(* a discard the call ends in an error.                                    *)
PlayersWin ==
  /\ Asked /\ WIN \in offer /\ wins[opt] < MaxWins
  /\ wins' = [wins EXCEPT ![opt] = @ + 1] /\ cached' = FALSE
  /\ IF lastDisc = None
       THEN UNCHANGED <<status, offer, held, canDian, winType>>
       ELSE /\ winType' = BY_OTHER /\ canDian' = canDian \ {opt}
            /\ held' = [held EXCEPT ![opt].hand = @ + 1]
            /\ IF canDian \ {opt} = {} THEN Go(GAME_END) ELSE UNCHANGED <<status, offer>>
  /\ UNCHANGED <<room, turn, claims, stale, counted, passed, rob, pool, wall, liuju>>

ReqWin == PlayersWin /\ UNCHANGED alive

AutoWin == alive /\ AutoAnswer /\ PlayersWin /\ alive' = (lastDisc # None)

(* player_win_all with the tile of the kong.  The tick cannot do this for  *)
(* a player in trusteeship: it sends no cards, and every opt but PASS and  *)
(* WIN is refused without them.                                            *)
ReqRobWin ==
  /\ Asked /\ QIANG_GANG_WIN \in offer
  /\ claims' = {} /\ stale' = FALSE /\ cached' = FALSE
  /\ wins' = [s \in Seats |-> IF s = opt THEN 1 ELSE 0] /\ winType' = BY_GANG
  /\ held' = [held EXCEPT ![opt].hand = @ + 1] /\ Go(GAME_END)
  /\ UNCHANGED <<room, alive, turn, canDian, counted, passed, rob, pool, wall, liuju>>

(* player_chi and player_peng, then ask_player_discard.  A claim of an     *)
(* earlier round may fail on the tiles of this one.                        *)
Meld(pengs) ==
  /\ MoveTilesToHold(opt, 2)
  /\ held' = [held EXCEPT ![opt] = LayDown(@, 2, pengs, 0)]
  /\ Go(WAITING_PLAYER)

ReqChiPeng(o) ==
  /\ Asked /\ o \in offer
  /\ \/ (o = CHI => opt = NextSeat(lastDisc)) /\ Meld(IF o = PENG THEN 1 ELSE 0)
     \/ stale /\ UNCHANGED <<held, pool, status, offer>>
  /\ claims' = {} /\ stale' = (stale /\ status' = status) /\ cached' = FALSE
  /\ UNCHANGED <<room, alive, turn, ends, rob, wall, liuju>>

(* check_qiangminggang, else player_ming_gang *)
ReqLightGang ==
  /\ Asked /\ LIGHT_GANG \in offer /\ cached' = FALSE
  /\ \E R \in SUBSET {s \in Seats \ {opt} : Waiting(s)} :
       IF R # {}
         THEN /\ claims' = {[seat |-> s, opttype |-> QIANG_GANG_WIN] : s \in R}
              /\ rob' = [seat |-> opt, kind |-> IF stale THEN "old" ELSE "light"]
              /\ stale' = FALSE /\ Go(WAITING_CLAIM) /\ UNCHANGED <<tiles, opt>>
         ELSE /\ claims' = {} /\ UNCHANGED rob
              /\ \/ MingGang(opt) /\ stale' = FALSE
                 \/ stale /\ NoMingGang /\ UNCHANGED stale
  /\ UNCHANGED <<room, alive, lastDisc, lastTile, ends>>

(* A peng that noPeng forbids, or an opt that was not offered: player_drow *)
(* tells the player to discard before it finds that the tile wins.         *)
Refused ==
  /\ Asked /\ cached
  /\ cached' = FALSE
  /\ UNCHANGED <<room, alive, status, turn, claims, stale, offer, ends, rob, tiles>>

-----------------------------------------------------------------------------
(* deal_game_end *)
DealGameEnd ==
  /\ Ticking(GAME_END)
  /\ trust' = {} /\ played' = played + 1
  /\ \/ /\ gold /\ ready' = {} /\ InitRoundData(None, 0) /\ Go(WAITING_START)
     \/ /\ ~gold /\ Go(IF played' >= MaxTimes THEN GAME_STOP ELSE GAME_REST_WAITING)
        /\ UNCHANGED <<ready, turn, claims, stale, cached, ends, rob, held, pool, wall>>
  /\ UNCHANGED <<gold, alive, liuju>>

(* deal_game_rest_waiting, then deal_game_rest *)
NextStatus(from, to) ==
  /\ Ticking(from) /\ Go(to)
  /\ UNCHANGED <<room, alive, turn, claims, stale, cached, ends, rob, tiles>>

DealGameRestWaiting == NextStatus(GAME_REST_WAITING, GAME_REST)
DealGameRest == NextStatus(GAME_REST, BEFORE_START)
DealGameStop == NextStatus(GAME_STOP, FREED)

(* dissolve_table, by vote, by the creator or from outside *)
DissolveTable ==
  /\ ~gold /\ status \notin {GAME_STOP, FREED}
  /\ Go(IF HasStart THEN GAME_STOP ELSE FREED)
  /\ UNCHANGED <<room, alive, turn, claims, stale, cached, ends, rob, tiles>>

Tick ==
  \/ DealWaitingStart \/ DealBeforeStart \/ DealAfterStart
  \/ Draw \/ WallExhausted \/ DrawFails \/ AutoDiscard
  \/ AutoDiscardNothing \/ CheckClaimFails \/ DealCheckClaim \/ AskClaim \/ PengGang \/ LightGang \/ NobodyClaims
  \/ ClaimTimeout \/ AskedNobody \/ AutoWin
  \/ DealGameEnd \/ DealGameRestWaiting \/ DealGameRest \/ DealGameStop

Request ==
  \/ \E s \in Seats : ReqReady(s) \/ LandTrusteeship(s)
  \/ ReqDiscard \/ ReqBlackGang \/ ReqPengGang \/ ReqOwnWin
  \/ ReqPass \/ ReqWin \/ ReqRobWin \/ ReqLightGang \/ Refused
  \/ \E o \in {CHI, PENG} : ReqChiPeng(o)
  \/ DissolveTable

Next == Tick \/ Request

Spec == Init /\ [][Next]_vars

(* The tick comes ten times a second, and every wait has a timer. *)
FairSpec == Spec /\ WF_vars(Tick)

-----------------------------------------------------------------------------
Playing == status \in PLAYER_OPT..WAITING_CLAIM_PLAYER

(* The player whose turn it is has a tile too many: a drawn one, or after  *)
(* a chi or peng one more in the hand, which it may be unable to discard.  *)
OneMore(s) == /\ ~held[s].drawn
              /\ \/ status = WAITING_PLAYER /\ opt = s
                 \/ status = CHECK_CLAIM /\ lastDisc = s /\ ~lastTile
                 \/ rob = [seat |-> s, kind |-> "peng"]

(* Through draws, discards, claims, robbed and completed kongs every hand  *)
(* has the 13 tiles of player_drow's check, less one for each concealed    *)
(* kong, whose tile is never replaced, and more by the tiles it has won.   *)
HandSize == Playing => \A s \in Seats \ passed :
  held[s].hand + 3 * held[s].melds + held[s].dark
    = 13 + (IF OneMore(s) THEN 1 ELSE 0) + (IF lastDisc = None THEN 0 ELSE wins[s])

(* No handler loses a tile or makes one: the wall, the hands, the melds    *)
(* with a fourth tile for each kong and the discards are the tiles built,  *)
(* and the copies of a discard that were given to its winners, unless      *)
(* somebody declined a winning tile he drew.                               *)
TilesConserved == Playing /\ passed = {} =>
  wall + pool + (liuju - 14) \div 2
    + SumOver([s \in Seats |-> held[s].hand + 3 * held[s].melds
                                 + IF held[s].drawn THEN 1 ELSE 0])
    = Total + IF lastDisc = None THEN 0 ELSE SumOver(wins)

(* A kong waits only while the others are asked to rob it, and they are    *)
(* asked for nothing else; whoever is asked to rob, unless by a question   *)
(* that is left over from an earlier round, is asked for the kong of       *)
(* another player that still waits.                                        *)
RobPending == Playing =>
  /\ rob # NoRob => /\ status \in {WAITING_CLAIM, WAITING_CLAIM_PLAYER}
                    /\ \A c \in claims : c.opttype = QIANG_GANG_WIN
                    /\ offer \subseteq {QIANG_GANG_WIN}
  /\ ~stale => \A c \in claims : c.opttype = QIANG_GANG_WIN => rob # NoRob /\ c.seat # rob.seat
  /\ ~stale /\ QIANG_GANG_WIN \in offer => rob # NoRob /\ opt # rob.seat

(* players_win does not look at the tiles: a claim that is left over from  *)
(* an earlier round must never be a win by a discard.                      *)
StaleNeverWins == stale => /\ \A c \in claims : c.opttype # WIN
                           /\ WIN \notin offer

(* The errors that end the tick come before the first discard of a round,  *)
(* when get_next_seatid, players_win and indexof find nil, or when two     *)
(* concealed kongs or five melds have used up a hand: never else.          *)
TickEndsOnly == ~alive =>
  \/ lastDisc = None
  \/ \E s \in Seats : held[s].hand = 0 /\ (held[s].dark >= 2 \/ held[s].melds >= 5)

(* A round that is dealt ends, whatever its players do, unless the tick    *)
(* has ended or asks a player in trusteeship to rob a kong.                *)
RobNeverAnswered == Asked /\ AutoAnswer /\ QIANG_GANG_WIN \in offer
RoundEnds == Playing ~> (~Playing \/ ~alive \/ RobNeverAnswered)

(* One round ends before another begins, and only with a reason: somebody  *)
(* has won or the wall is used up.                                         *)
EndHasReason == status = GAME_END => winType # NOWIN

(* CLAIM_TIME bounds the wait for an answer, and the table answers for a   *)
(* player who stays in trusteeship.                                        *)
TrusteeAnswered ==
  (Asked /\ opt \in trust) ~> (~Asked \/ opt \notin trust \/ ~alive)
=============================================================================
