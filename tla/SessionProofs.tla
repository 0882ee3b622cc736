---------------------------- MODULE SessionProofs ----------------------------
(***************************************************************************)
(* Login and logout, for any gates, players and connections and whatever   *)
(* calls fail: the login lock, the types, userdata's view of its agents,   *)
(* the two counters and the one session of a player.                       *)
(*                                                                         *)
(* SessionInv is the invariant the later ones rest on: the lock, the types *)
(* and the Flow of a login, by which each request is on its way once and   *)
(* only while its sender waits for it.  GhostInv, GateCountInv, OnlineInv  *)
(* and OneLogin with ClaimInv are proved on top of it, each on its own.    *)
(***************************************************************************)
EXTENDS Session, FiniteSetTheorems, TLAPS

(* Where do_auth is while it holds its player's lock. *)
Holding == {"register", "squeeze", "squeezing", "forward", "newservice", "start"}

LockType ==
  /\ loginning \in [Gate -> [User -> ConnOrNone]]
  /\ auth \in [Conn -> AuthStates]

(* The lock names a login of its own gate and player, which is under way: the *)
(* first part is what makes EndAuth release no lock but the login's own.      *)
LockInv ==
  \A g \in Gate, u \in User :
    loginning[g][u] # None =>
      /\ GateOf(loginning[g][u]) = g /\ UserOf(loginning[g][u]) = u
      /\ auth[loginning[g][u]] \in Holding

IInv == LockType /\ LockInv

lockVars == <<loginning, auth>>

-----------------------------------------------------------------------------
LEMMA LockInit == Init => IInv
  BY ConnAssumption DEF Init, IInv, LockType, LockInv, ConnOrNone, AuthStates

(* A login that goes on to a place where it still holds the lock. *)
LEMMA GoOn ==
  ASSUME IInv, NEW c \in Conn, NEW s \in Holding,
         auth' = [auth EXCEPT ![c] = s], UNCHANGED loginning
  PROVE  IInv'
<1>1. LockType'
  BY DEF IInv, LockType, Holding, AuthStates
<1>2. LockInv'
  BY ConnAssumption DEF IInv, LockType, LockInv, ConnOrNone
<1> QED BY <1>1, <1>2 DEF IInv

(* The end of a login clears the one entry that may name it. *)
LEMMA EndAuthStep ==
  ASSUME IInv, NEW c \in Conn, NEW ok \in BOOLEAN, EndAuth(c, ok)
  PROVE  IInv'
<1>1. GateOf(c) \in Gate /\ UserOf(c) \in User /\ None \notin Conn
  BY ConnAssumption
<1>2. LockType'
  BY <1>1 DEF IInv, LockType, EndAuth, AuthStates, ConnOrNone
<1>3. ASSUME NEW g \in Gate, NEW u \in User, loginning'[g][u] # None
      PROVE  /\ loginning'[g][u] = loginning[g][u]
             /\ loginning[g][u] # c
  BY <1>1, <1>3 DEF IInv, LockType, LockInv, EndAuth
<1>4. LockInv'
  <2> SUFFICES ASSUME NEW g \in Gate, NEW u \in User, loginning'[g][u] # None
               PROVE  /\ GateOf(loginning'[g][u]) = g /\ UserOf(loginning'[g][u]) = u
                      /\ auth'[loginning'[g][u]] \in Holding
    BY DEF LockInv
  <2>1. loginning[g][u] \in Conn \ {c}
    BY <1>3 DEF IInv, LockType, ConnOrNone
  <2>2. auth'[loginning[g][u]] = auth[loginning[g][u]]
    BY <2>1 DEF EndAuth, IInv, LockType
  <2> QED BY <1>3, <2>1, <2>2 DEF IInv, LockInv
<1> QED BY <1>2, <1>4 DEF IInv

LEMMA LockUnchanged ==
  ASSUME IInv, UNCHANGED lockVars
  PROVE  IInv'
  BY DEF IInv, LockType, LockInv, lockVars

LEMMA ReqLoginStep ==
  ASSUME IInv, NEW c \in Conn, ReqLogin(c)
  PROVE  IInv'
<1>1. LockType'
  BY DEF IInv, LockType, ReqLogin, AuthStates
<1>2. \A g \in Gate, u \in User : loginning[g][u] # c
  BY ConnAssumption DEF IInv, LockInv, ReqLogin, Holding
<1>3. LockInv'
  BY <1>2 DEF IInv, LockType, LockInv, ReqLogin, ConnOrNone
<1> QED BY <1>1, <1>3 DEF IInv

(* Only a login that finds the lock free takes it; one that is refused never *)
(* had it.                                                                   *)
LEMMA TokenReplyStep ==
  ASSUME IInv, NEW c \in Conn, TokenReply(c)
  PROVE  IInv'
<1> DEFINE g0 == GateOf(c)
           u0 == UserOf(c)
<1>1. g0 \in Gate /\ u0 \in User /\ None \notin Conn
  BY ConnAssumption
<1>2. \A g \in Gate, u \in User : loginning[g][u] # c
  BY <1>1 DEF IInv, LockInv, TokenReply, Holding
<1>3. CASE /\ loginning' = [loginning EXCEPT ![g0][u0] = c]
           /\ auth' = [auth EXCEPT ![c] = "register"]
  <2>1. LockType'
    BY <1>1, <1>3 DEF IInv, LockType, AuthStates, ConnOrNone
  <2>2. ASSUME NEW g \in Gate, NEW u \in User, loginning'[g][u] # None
        PROVE  /\ GateOf(loginning'[g][u]) = g /\ UserOf(loginning'[g][u]) = u
               /\ auth'[loginning'[g][u]] \in Holding
    <3>1. CASE g = g0 /\ u = u0
      BY <1>1, <1>3, <3>1 DEF IInv, LockType, Holding
    <3>2. CASE ~(g = g0 /\ u = u0)
      <4>1. loginning'[g][u] = loginning[g][u]
        BY <1>1, <1>3, <3>2 DEF IInv, LockType
      <4>2. loginning[g][u] \in Conn \ {c}
        BY <1>2, <2>2, <4>1 DEF IInv, LockType, ConnOrNone
      <4>3. auth'[loginning[g][u]] = auth[loginning[g][u]]
        BY <1>3, <4>2 DEF IInv, LockType
      <4> QED BY <2>2, <4>1, <4>3 DEF IInv, LockInv
    <3> QED BY <3>1, <3>2
  <2> QED BY <2>1, <2>2 DEF IInv, LockInv
<1>4. CASE auth' = [auth EXCEPT ![c] = "done"] /\ UNCHANGED loginning
  <2>1. LockType'
    BY <1>4 DEF IInv, LockType, AuthStates
  <2>2. LockInv'
    BY <1>2, <1>4 DEF IInv, LockType, LockInv, ConnOrNone
  <2> QED BY <2>1, <2>2 DEF IInv
<1> QED BY <1>3, <1>4 DEF TokenReply

-----------------------------------------------------------------------------
LEMMA ServiceStep ==
  ASSUME IInv, NEW c \in Conn, Service(c)
  PROVE  IInv'
<1>1. CASE TokenReply(c)  BY <1>1, TokenReplyStep
<1>2. CASE LoginTimeout(c) \/ UserOffline(c) \/ DataOnline(c) \/ KickDisplaced(c)
           \/ DisplacedGone(c) \/ DataOffline(c) \/ AgentKick(c) \/ AgentStop(c)
           \/ OfflineLost(c) \/ \E ok \in BOOLEAN : Loaded(c, ok)
  <2>1. UNCHANGED lockVars
    BY <1>2 DEF LoginTimeout, UserOffline, DataOnline, KickDisplaced, DisplacedGone,
                DataOffline, AgentKick, AgentStop, OfflineLost, Loaded, authVars, lockVars
  <2> QED BY <2>1, LockUnchanged
<1>3. CASE UserOnline(c)
  <2>1. PICK s \in {"forward", "squeeze"} :
          auth' = [auth EXCEPT ![c] = s] /\ UNCHANGED loginning
    BY <1>3 DEF UserOnline, SetOnlineMap
  <2> QED BY <2>1, GoOn DEF Holding
<1>4. CASE Squeeze(c)
  BY <1>4, GoOn DEF Squeeze, Holding
<1>5. CASE SqueezeDone(c)
  BY <1>5, GoOn DEF SqueezeDone, SetOnlineMap, Holding
<1>6. CASE Forward(c)
  <2>1. PICK s \in {"start", "newservice"} :
          auth' = [auth EXCEPT ![c] = s] /\ UNCHANGED loginning
    BY <1>6 DEF Forward, StartAgent
  <2> QED BY <2>1, GoOn DEF Holding
<1>7. CASE ForwardNew(c)
  BY <1>7, GoOn DEF ForwardNew, StartAgent, Holding
<1>8. CASE LoginLost(c) \/ ForwardFails(c) \/ GateForward(c)
  BY <1>8, EndAuthStep DEF LoginLost, ForwardFails, GateForward
<1>9. CASE OnlineReply(c)
  <2>1. CASE EndAuth(c, FALSE)  BY <2>1, EndAuthStep
  <2>2. CASE UNCHANGED lockVars  BY <2>2, LockUnchanged
  <2> QED BY <1>9, <2>1, <2>2 DEF OnlineReply, lockVars
<1> QED BY <1>1, <1>2, <1>3, <1>4, <1>5, <1>6, <1>7, <1>8, <1>9 DEF Service

LEMMA LockStep == IInv /\ [Next]_vars => IInv'
<1> SUFFICES ASSUME IInv, [Next]_vars PROVE IInv'
  OBVIOUS
<1>1. CASE \E c \in Conn : Connect(c) \/ HeartTimeout(c) \/ Disconnect(c)
  BY <1>1, LockUnchanged DEF Connect, HeartTimeout, Disconnect, authVars, lockVars
<1>2. CASE \E c \in Conn : ReqLogin(c)
  BY <1>2, ReqLoginStep
<1>3. CASE \E c \in Conn : Service(c)
  BY <1>3, ServiceStep
<1>4. CASE \E g \in Gate : ConnectToLogin(g)
  BY <1>4, LockUnchanged DEF ConnectToLogin, lockVars
<1>5. CASE UNCHANGED vars
  BY <1>5, LockUnchanged DEF vars, authVars, lockVars
<1> QED BY <1>1, <1>2, <1>3, <1>4, <1>5 DEF Next, Client

-----------------------------------------------------------------------------
(* LockHasOwner holds for any gates, players and connections: every way out  *)
(* of do_auth (auth.lua:157-237) releases the lock, whichever call failed,   *)
(* and none releases the lock of a login of another player or gate.          *)
THEOREM LockReleased == Spec => []LockHasOwner
<1>1. IInv => LockHasOwner
  BY DEF IInv, LockInv, LockHasOwner, Holding
<1> QED BY LockInit, LockStep, <1>1, PTL DEF Spec

-----------------------------------------------------------------------------
(* The queues.                                                             *)

Kinds == {"online", "offline"}
Queues == [Gate -> Seq(Requests)]

(* A request of connection c is on its way. *)
Waits(q, kind, c) ==
  \E i \in 1..Len(q[GateOf(c)]) : q[GateOf(c)][i] = [kind |-> kind, conn |-> c]

Once(q, kind) ==
  \A g \in Gate : \A i, j \in 1..Len(q[g]) :
    q[g][i].kind = kind /\ q[g][i] = q[g][j] => i = j

LEMMA SendEffect ==
  ASSUME NEW q \in Queues, NEW c \in Conn, NEW kind \in Kinds,
         NEW n, n = Send(q, GateOf(c), kind, c)
  PROVE  /\ n \in Queues
         /\ \A k \in Kinds, d \in Conn : Waits(n, k, d) => Waits(q, k, d) \/ (k = kind /\ d = c)
         /\ \A k \in Kinds : Once(q, k) /\ (k = kind => ~Waits(q, kind, c)) => Once(n, k)
  <1> DEFINE g == GateOf(c)
             r == [kind |-> kind, conn |-> c]
  <1>1. g \in Gate /\ r \in Requests
    BY ConnAssumption DEF Requests, Kinds
  <1>2. /\ n[g] = Append(q[g], r) /\ q[g] \in Seq(Requests)
        /\ \A h \in Gate \ {g} : n[h] = q[h]
        /\ n = [q EXCEPT ![g] = Append(@, r)]
    BY <1>1 DEF Queues, Send
  <1>3. n \in Queues
    BY <1>1, <1>2 DEF Queues
  <1>4. /\ Len(n[g]) = Len(q[g]) + 1 /\ n[g][Len(q[g]) + 1] = r /\ Len(q[g]) \in Nat
        /\ \A i \in 1..Len(q[g]) : n[g][i] = q[g][i]
    BY <1>1, <1>2
  <1>5. r.kind = kind /\ r.conn = c
    OBVIOUS
  <1>6. \A k, d : r = [kind |-> k, conn |-> d] => k = kind /\ d = c
    OBVIOUS
  <1>7. Waits(q, kind, c) <=> \E i \in 1..Len(q[g]) : q[g][i] = r
    BY DEF Waits
  <1> HIDE DEF g, r
  <1>8. ASSUME NEW k \in Kinds, NEW d \in Conn, Waits(n, k, d)
        PROVE  Waits(q, k, d) \/ (k = kind /\ d = c)
    <2>1. PICK i \in 1..Len(n[GateOf(d)]) : n[GateOf(d)][i] = [kind |-> k, conn |-> d]
      BY <1>8 DEF Waits
    <2>2. GateOf(d) \in Gate
      BY ConnAssumption
    <2>3. CASE GateOf(d) # g
      BY <1>2, <2>1, <2>2, <2>3 DEF Waits
    <2>4. CASE GateOf(d) = g
      <3>1. CASE i = Len(q[g]) + 1
        BY <1>4, <1>6, <2>1, <2>4, <3>1
      <3>2. CASE i # Len(q[g]) + 1
        BY <1>4, <2>1, <2>4, <3>2 DEF Waits
      <3> QED BY <3>1, <3>2
    <2> QED BY <2>3, <2>4
  <1>9. ASSUME NEW k \in Kinds, Once(q, k), k = kind => ~Waits(q, kind, c) PROVE Once(n, k)
    <2> SUFFICES ASSUME NEW h \in Gate, NEW i \in 1..Len(n[h]), NEW j \in 1..Len(n[h]),
                        n[h][i].kind = k, n[h][i] = n[h][j]
                 PROVE  i = j
      BY DEF Once
    <2>1. CASE h # g
      BY <1>2, <1>9, <2>1 DEF Once
    <2>2. CASE h = g
      <3>1. CASE i # Len(q[g]) + 1 /\ j # Len(q[g]) + 1
        <4>1. i \in 1..Len(q[g]) /\ j \in 1..Len(q[g])
          BY <1>4, <2>2, <3>1
        <4> QED BY <1>1, <1>4, <1>9, <2>2, <4>1 DEF Once
      <3>2. CASE i = Len(q[g]) + 1 \/ j = Len(q[g]) + 1
        <4>1. n[h][i] = r /\ n[h][j] = r /\ k = kind
          BY <1>4, <1>5, <2>2, <3>2
        <4> QED BY <1>4, <1>7, <1>9, <2>2, <4>1
      <3> QED BY <3>1, <3>2
    <2> QED BY <2>1, <2>2
  <1> QED BY <1>3, <1>8, <1>9

Received(q, n, kind, c) ==
  /\ q[GateOf(c)] # <<>> /\ Head(q[GateOf(c)]) = [kind |-> kind, conn |-> c]
  /\ n = [q EXCEPT ![GateOf(c)] = Tail(@)]

LEMMA ReceiveEffect ==
  ASSUME NEW q \in Queues, NEW c \in Conn, NEW kind \in Kinds, NEW n, Received(q, n, kind, c)
  PROVE  /\ n \in Queues /\ Waits(q, kind, c)
         /\ \A k \in Kinds, d \in Conn : Waits(n, k, d) => Waits(q, k, d)
         /\ \A k \in Kinds : Once(q, k) => Once(n, k)
         /\ Once(q, kind) => ~Waits(n, kind, c)
  <1> DEFINE g == GateOf(c)
             r == [kind |-> kind, conn |-> c]
  <1>1. g \in Gate
    BY ConnAssumption
  <1>2. /\ n[g] = Tail(q[g]) /\ q[g] \in Seq(Requests) /\ q[g] # <<>> /\ q[g][1] = r
        /\ \A h \in Gate \ {g} : n[h] = q[h]
        /\ n = [q EXCEPT ![g] = Tail(@)]
    BY <1>1 DEF Queues, Received
  <1>3. n \in Queues
    BY <1>1, <1>2 DEF Queues
  <1>4. /\ Len(q[g]) \in Nat \ {0} /\ Len(n[g]) = Len(q[g]) - 1
        /\ \A i \in 1..Len(n[g]) : n[g][i] = q[g][i + 1] /\ i + 1 \in 1..Len(q[g])
    <2>1. ASSUME NEW s \in Seq(Requests), s # <<>>
          PROVE  /\ Len(s) \in Nat \ {0} /\ Len(Tail(s)) = Len(s) - 1
                 /\ \A i \in 1..Len(Tail(s)) : Tail(s)[i] = s[i + 1] /\ i + 1 \in 1..Len(s)
      BY <2>1
    <2> QED BY <1>2, <2>1
  <1>5. r.kind = kind
    OBVIOUS
  <1>6. /\ Waits(q, kind, c) <=> \E i \in 1..Len(q[g]) : q[g][i] = r
        /\ Waits(n, kind, c) <=> \E i \in 1..Len(n[g]) : n[g][i] = r
    BY DEF Waits
  <1> HIDE DEF g, r
  <1>7. Waits(q, kind, c)
    BY <1>2, <1>4, <1>6
  <1>8. ASSUME NEW k \in Kinds, NEW d \in Conn, Waits(n, k, d) PROVE Waits(q, k, d)
    <2>1. PICK i \in 1..Len(n[GateOf(d)]) : n[GateOf(d)][i] = [kind |-> k, conn |-> d]
      BY <1>8 DEF Waits
    <2>2. GateOf(d) \in Gate
      BY ConnAssumption
    <2>3. CASE GateOf(d) # g
      BY <1>2, <2>1, <2>2, <2>3 DEF Waits
    <2>4. CASE GateOf(d) = g
      BY <1>4, <2>1, <2>4 DEF Waits
    <2> QED BY <2>3, <2>4
  <1>9. ASSUME NEW k \in Kinds, Once(q, k) PROVE Once(n, k)
    <2> SUFFICES ASSUME NEW h \in Gate, NEW i \in 1..Len(n[h]), NEW j \in 1..Len(n[h]),
                        n[h][i].kind = k, n[h][i] = n[h][j]
                 PROVE  i = j
      BY DEF Once
    <2>1. CASE h # g
      BY <1>2, <1>9, <2>1 DEF Once
    <2>2. CASE h = g
      <3>1. /\ i + 1 \in 1..Len(q[g]) /\ j + 1 \in 1..Len(q[g])
            /\ q[g][i + 1].kind = k /\ q[g][i + 1] = q[g][j + 1]
        BY <1>4, <2>2
      <3>2. i + 1 = j + 1
        BY <1>1, <1>9, <3>1 DEF Once
      <3> QED BY <3>2
    <2> QED BY <2>1, <2>2
  <1>10. ASSUME Once(q, kind), Waits(n, kind, c) PROVE FALSE
    <2>1. PICK i \in 1..Len(n[g]) : n[g][i] = r
      BY <1>6, <1>10
    <2>2. i + 1 \in 1..Len(q[g]) /\ q[g][i + 1] = r /\ 1 \in 1..Len(q[g]) /\ q[g][1] = r
      BY <1>2, <1>4, <2>1
    <2>3. i + 1 = 1
      BY <1>1, <1>5, <1>10, <2>2 DEF Once
    <2> QED BY <2>3
  <1> QED BY <1>3, <1>7, <1>8, <1>9, <1>10

(* The same of the two channels of the model. *)
LEMMA LoginSent ==
  ASSUME toLogin \in Queues, NEW c \in Conn, NEW kind \in Kinds,
         toLogin' = Send(toLogin, GateOf(c), kind, c)
  PROVE  /\ toLogin' \in Queues
         /\ \A k \in Kinds, d \in Conn :
              Waits(toLogin', k, d) => Waits(toLogin, k, d) \/ (k = kind /\ d = c)
         /\ \A k \in Kinds :
              Once(toLogin, k) /\ (k = kind => ~Waits(toLogin, kind, c)) => Once(toLogin', k)
  BY SendEffect

LEMMA DbsSent ==
  ASSUME toDbs \in Queues, NEW c \in Conn, NEW kind \in Kinds,
         toDbs' = Send(toDbs, GateOf(c), kind, c)
  PROVE  /\ toDbs' \in Queues
         /\ \A k \in Kinds, d \in Conn :
              Waits(toDbs', k, d) => Waits(toDbs, k, d) \/ (k = kind /\ d = c)
         /\ \A k \in Kinds :
              Once(toDbs, k) /\ (k = kind => ~Waits(toDbs, kind, c)) => Once(toDbs', k)
  BY SendEffect

LEMMA LoginReceived ==
  ASSUME toLogin \in Queues, NEW c \in Conn, NEW kind \in Kinds,
         Receive(toLogin, GateOf(c), kind, c)
  PROVE  /\ toLogin' \in Queues /\ Waits(toLogin, kind, c)
         /\ \A k \in Kinds, d \in Conn : Waits(toLogin', k, d) => Waits(toLogin, k, d)
         /\ \A k \in Kinds : Once(toLogin, k) => Once(toLogin', k)
         /\ Once(toLogin, kind) => ~Waits(toLogin', kind, c)
  <1>1. Received(toLogin, toLogin', kind, c)
    BY DEF Receive, Received
  <1> QED BY <1>1, ReceiveEffect

LEMMA DbsReceived ==
  ASSUME toDbs \in Queues, NEW c \in Conn, NEW kind \in Kinds,
         Receive(toDbs, GateOf(c), kind, c)
  PROVE  /\ toDbs' \in Queues /\ Waits(toDbs, kind, c)
         /\ \A k \in Kinds, d \in Conn : Waits(toDbs', k, d) => Waits(toDbs, k, d)
         /\ \A k \in Kinds : Once(toDbs, k) => Once(toDbs', k)
         /\ Once(toDbs, kind) => ~Waits(toDbs', kind, c)
  <1>1. Received(toDbs, toDbs', kind, c)
    BY DEF Receive, Received
  <1> QED BY <1>1, ReceiveEffect

-----------------------------------------------------------------------------
(* The type.                                                               *)

LEMMA QueueTypes ==
  ASSUME toLogin \in Queues, toDbs \in Queues, Next
  PROVE  toLogin' \in Queues /\ toDbs' \in Queues
  <1>1. ASSUME NEW c \in Conn, NEW kind \in Kinds, toLogin' = Send(toLogin, GateOf(c), kind, c)
        PROVE  toLogin' \in Queues
    BY <1>1, LoginSent
  <1>2. ASSUME NEW c \in Conn, NEW kind \in Kinds, toDbs' = Send(toDbs, GateOf(c), kind, c)
        PROVE  toDbs' \in Queues
    BY <1>2, DbsSent
  <1>3. ASSUME NEW c \in Conn, NEW kind \in Kinds, Receive(toLogin, GateOf(c), kind, c)
        PROVE  toLogin' \in Queues
    BY <1>3, LoginReceived
  <1>4. ASSUME NEW c \in Conn, NEW kind \in Kinds, Receive(toDbs, GateOf(c), kind, c)
        PROVE  toDbs' \in Queues
    BY <1>4, DbsReceived
  <1>5. "online" \in Kinds /\ "offline" \in Kinds
    BY DEF Kinds
  <1>6. CASE UNCHANGED <<toLogin, toDbs>>
    BY <1>6
  <1>7. ASSUME NEW c \in Conn, TokenReply(c) \/ Disconnect(c) PROVE toLogin' \in Queues /\ UNCHANGED toDbs
    BY <1>1, <1>5, <1>7 DEF TokenReply, Disconnect, dataVars
  <1>8. ASSUME NEW c \in Conn, UserOnline(c) \/ UserOffline(c) \/ LoginLost(c) \/ OfflineLost(c)
        PROVE  toLogin' \in Queues /\ UNCHANGED toDbs
    BY <1>3, <1>5, <1>8 DEF UserOnline, UserOffline, LoginLost, OfflineLost, dataVars
  <1>9. ASSUME NEW c \in Conn, Forward(c) \/ ForwardNew(c) \/ AgentKick(c) \/ HeartTimeout(c)
        PROVE  toDbs' \in Queues /\ UNCHANGED toLogin
    BY <1>2, <1>5, <1>9 DEF Forward, ForwardNew, StartAgent, AgentKick, HeartTimeout, Leave, loginVars
  <1>10. ASSUME NEW c \in Conn, DataOnline(c) \/ DataOffline(c)
         PROVE  toDbs' \in Queues /\ UNCHANGED toLogin
    BY <1>4, <1>5, <1>10 DEF DataOnline, DataOffline, loginVars
  <1>11. ASSUME NEW c \in Conn, Connect(c) \/ ReqLogin(c) \/ LoginTimeout(c) \/ Squeeze(c)
                \/ SqueezeDone(c) \/ KickDisplaced(c) \/ DisplacedGone(c) \/ OnlineReply(c)
                \/ GateForward(c) \/ AgentStop(c) \/ ForwardFails(c)
         PROVE  UNCHANGED <<toLogin, toDbs>>
    BY <1>11 DEF Connect, ReqLogin, LoginTimeout, Squeeze, SqueezeDone, KickDisplaced, DisplacedGone,
                 OnlineReply, GateForward, AgentStop, ForwardFails, loginVars, dataVars
  <1>12. ASSUME NEW c \in Conn, NEW ok \in BOOLEAN, Loaded(c, ok) PROVE UNCHANGED <<toLogin, toDbs>>
    BY <1>12 DEF Loaded, loginVars
  <1>13. ASSUME NEW g \in Gate, ConnectToLogin(g) PROVE UNCHANGED <<toLogin, toDbs>>
    BY <1>13 DEF ConnectToLogin, loginVars, dataVars
  <1> QED BY <1>6, <1>7, <1>8, <1>9, <1>10, <1>11, <1>12, <1>13 DEF Next, Client, Service


(* Where a login is, and its agent and its call of userdata with it. *)
Login(c) ==
  /\ Waits(toLogin, "online", c) => auth[c] = "register"
  /\ auth[c] \in {"idle", "token", "register", "squeeze", "squeezing", "forward", "newservice"}
       => agent[c] = "none"
  /\ agent[c] = "online" \/ c \in forwards => auth[c] = "start"

Agent(c) ==
  /\ agent[c] = "forward" => c \in forwards
  /\ c \in forwards => agent[c] \in {"forward", "leaving", "stopping"}
  /\ Waits(toDbs, "online", c) => agent[c] = "online" /\ logon[c] = "none"
  /\ Waits(toDbs, "offline", c) => agent[c] = "leaving"

Logon(c) ==
  /\ logon[c] \in {"kick", "kicking", "load"} => agent[c] = "online"
  /\ IF agent[c] = "none" THEN userdata[c] = None /\ logon[c] = "none" ELSE userdata[c] \in Conn

(* Each step of a login is taken once: a request is on its way once, and   *)
(* only while its sender waits for it.                                     *)
Flow == /\ Once(toLogin, "online") /\ Once(toDbs, "online") /\ Once(toDbs, "offline")
        /\ \A c \in Conn : Login(c) /\ Agent(c) /\ Logon(c)

GateType ==
  /\ sock \in [Conn -> {"none", "open", "closing", "closed"}]
  /\ bound \in [Conn -> BOOLEAN] /\ gateCnt \in [Gate -> Int]
  /\ forwards \subseteq Conn /\ unlogined \subseteq Conn /\ kicks \subseteq Conn
AuthType ==
  /\ loginning \in [Gate -> [User -> ConnOrNone]]
  /\ active \in [Gate -> BOOLEAN] /\ connecting \subseteq Gate
  /\ auth \in [Conn -> AuthStates] /\ agent \in [Conn -> AgentStates]
LoginType ==
  /\ onlineMap \in [User -> ConnOrNone] /\ onlineCnt \in Int
  /\ squeezed \in [Conn -> ConnOrNone]
DataType ==
  /\ userMap \in [User -> ConnOrNone] /\ userdata \in [Conn -> ConnOrNone]
  /\ online \in [Conn -> BOOLEAN] /\ haveData \in [Conn -> BOOLEAN]
  /\ agaddr \in [Conn -> ConnOrNone] /\ logon \in [Conn -> LogonStates]
  /\ displaced \in [Conn -> ConnOrNone] /\ strayed \subseteq Conn

LEMMA TypeParts ==
  TypeOK <=> /\ GateType /\ AuthType /\ LoginType /\ DataType
             /\ toLogin \in Queues /\ toDbs \in Queues
  BY DEF TypeOK, GateType, AuthType, LoginType, DataType, Queues

LEMMA GateTypes == ASSUME GateType, Next PROVE GateType'
  <1> USE DEF GateType
  <1>1. ASSUME NEW c \in Conn, Connect(c) \/ LoginTimeout(c) \/ ReqLogin(c) \/ TokenReply(c)
        PROVE  GateType'
    BY <1>1 DEF Connect, LoginTimeout, ReqLogin, TokenReply, StopFd, agentVars, gateVars
  <1>2. ASSUME NEW c \in Conn, NEW ok \in BOOLEAN, EndAuth(c, ok),
               UNCHANGED <<bound, gateCnt, unlogined, kicks>>,
               UNCHANGED forwards \/ forwards' = forwards \cup {c}
        PROVE  GateType'
    BY <1>2 DEF EndAuth, StopFd
  <1>3. ASSUME NEW c \in Conn, LoginLost(c) \/ ForwardFails(c) \/ OnlineReply(c) PROVE GateType'
    BY <1>2, <1>3 DEF LoginLost, ForwardFails, OnlineReply, agentVars
  <1>4. ASSUME NEW c \in Conn, Disconnect(c) \/ Squeeze(c) \/ AgentKick(c) PROVE GateType'
    <2>1. CASE Disconnect(c)
      <3>1. /\ sock' \in [Conn -> {"none", "open", "closing", "closed"}]
            /\ bound' \in [Conn -> BOOLEAN] /\ UNCHANGED <<gateCnt, forwards, unlogined>>
        BY <2>1 DEF Disconnect, authVars
      <3>2. kicks' \subseteq Conn
        BY <2>1 DEF Disconnect
      <3> QED BY <3>1, <3>2
    <2>2. CASE Squeeze(c)
      <3>1. sock' \in [Conn -> {"none", "open", "closing", "closed"}] /\ kicks' \subseteq Conn
        BY <2>2 DEF Squeeze, Victims, SameFd
      <3> QED BY <2>2, <3>1 DEF Squeeze
    <2>3. CASE AgentKick(c)
      BY <2>3 DEF AgentKick, gateVars, authVars
    <2> QED BY <1>4, <2>1, <2>2, <2>3
  <1>5. ASSUME NEW c \in Conn, GateForward(c) \/ AgentStop(c) PROVE GateType'
    <2>1. gateCnt' \in [Gate -> Int]
      <3>1. PICK n \in {gateCnt[GateOf(c)] + 1, gateCnt[GateOf(c)] - 1} :
              gateCnt' = [gateCnt EXCEPT ![GateOf(c)] = n]
        BY <1>5 DEF GateForward, AgentStop
      <3>2. gateCnt \in [Gate -> Int] /\ gateCnt[GateOf(c)] \in Int
        BY ConnAssumption
      <3>3. n \in Int
        BY <3>2
      <3> HIDE DEF GateType
      <3> QED BY <3>1, <3>2, <3>3
    <2>2. sock' \in [Conn -> {"none", "open", "closing", "closed"}]
      BY <1>5 DEF GateForward, AgentStop, EndAuth, StopFd
    <2>3. bound' \in [Conn -> BOOLEAN]
      BY <1>5 DEF GateForward, AgentStop
    <2>4. forwards' \subseteq Conn /\ unlogined' \subseteq Conn /\ kicks' \subseteq Conn
      BY <1>5 DEF GateForward, AgentStop, authVars
    <2> QED BY <2>1, <2>2, <2>3, <2>4
  <1>6. CASE UNCHANGED <<sock, bound, gateCnt, forwards, unlogined, kicks>>
    BY <1>6
  <1>7. ASSUME NEW c \in Conn, UserOnline(c) \/ SqueezeDone(c) \/ UserOffline(c) \/ Forward(c)
               \/ ForwardNew(c) \/ DataOnline(c) \/ KickDisplaced(c) \/ DisplacedGone(c)
               \/ DataOffline(c) \/ OfflineLost(c) \/ HeartTimeout(c)
               \/ \E ok \in BOOLEAN : Loaded(c, ok)
        PROVE  UNCHANGED <<sock, bound, gateCnt, forwards, unlogined, kicks>>
    BY <1>7 DEF UserOnline, SqueezeDone, UserOffline, Forward, ForwardNew, DataOnline, KickDisplaced,
        DisplacedGone, DataOffline, OfflineLost, HeartTimeout, Loaded, agentVars, gateVars, authVars
  <1>8. ASSUME NEW g \in Gate, ConnectToLogin(g)
        PROVE  UNCHANGED <<sock, bound, gateCnt, forwards, unlogined, kicks>>
    BY <1>8 DEF ConnectToLogin, gateVars, agentVars
  <1> QED BY <1>1, <1>3, <1>4, <1>5, <1>6, <1>7, <1>8 DEF Next, Client, Service

LEMMA AuthTypes == ASSUME IInv, AuthType, Next PROVE AuthType'
  <1> USE ConnAssumption
  <1>1. loginning' \in [Gate -> [User -> ConnOrNone]] /\ auth' \in [Conn -> AuthStates]
    BY LockStep DEF IInv, LockType
  <1> DEFINE Rest == /\ active' \in [Gate -> BOOLEAN] /\ connecting' \subseteq Gate
                     /\ agent' \in [Conn -> AgentStates]
  <1> SUFFICES Rest
    BY <1>1 DEF AuthType
  <1> USE DEF AuthType, AgentStates
  <1>2. ASSUME NEW c \in Conn, LoginLost(c) \/ OfflineLost(c) PROVE Rest
    BY <1>2 DEF LoginLost, OfflineLost, agentVars
  <1>3. ASSUME NEW g \in Gate, ConnectToLogin(g) PROVE Rest
    BY <1>3 DEF ConnectToLogin, agentVars
  <1>4. ASSUME NEW c \in Conn, OnlineReply(c) \/ GateForward(c) \/ Forward(c) \/ ForwardNew(c) PROVE Rest
    BY <1>4 DEF OnlineReply, GateForward, Forward, ForwardNew, StartAgent, ready
  <1>5. ASSUME NEW c \in Conn, KickDisplaced(c) \/ DataOffline(c) PROVE Rest
    BY <1>5 DEF KickDisplaced, DataOffline, authVars, ready
  <1>6. ASSUME NEW c \in Conn, AgentKick(c) \/ HeartTimeout(c) \/ AgentStop(c) PROVE Rest
    BY <1>6 DEF AgentKick, HeartTimeout, AgentStop, Leave, authVars, ready
  <1>7. ASSUME NEW c \in Conn, Connect(c) \/ ReqLogin(c) \/ Disconnect(c) \/ TokenReply(c)
               \/ LoginTimeout(c) \/ UserOnline(c) \/ Squeeze(c) \/ SqueezeDone(c) \/ UserOffline(c)
               \/ DataOnline(c) \/ DisplacedGone(c) \/ ForwardFails(c)
               \/ \E ok \in BOOLEAN : Loaded(c, ok)
        PROVE  UNCHANGED <<active, connecting, agent>>
    BY <1>7 DEF Connect, ReqLogin, Disconnect, TokenReply, LoginTimeout, UserOnline, Squeeze, SqueezeDone,
        UserOffline, DataOnline, DisplacedGone, ForwardFails, Loaded, authVars, ready, agentVars
  <1>8. CASE UNCHANGED <<active, connecting, agent>>
    BY <1>8
  <1> HIDE DEF Rest
  <1> QED BY <1>2, <1>3, <1>4, <1>5, <1>6, <1>7, <1>8 DEF Next, Client, Service

LEMMA LoginTypes == ASSUME LoginType, Next PROVE LoginType'
  <1> USE ConnAssumption DEF LoginType, ConnOrNone
  <1>1. ASSUME NEW c \in Conn, UserOnline(c) \/ SqueezeDone(c) PROVE LoginType'
    BY <1>1 DEF UserOnline, SqueezeDone, SetOnlineMap
  <1>2. ASSUME NEW c \in Conn, UserOffline(c) PROVE LoginType'
    BY <1>2 DEF UserOffline
  <1>3. CASE UNCHANGED <<onlineMap, onlineCnt, squeezed>>
    BY <1>3
  <1>4. ASSUME NEW c \in Conn, Connect(c) \/ ReqLogin(c) \/ HeartTimeout(c) \/ Disconnect(c)
               \/ TokenReply(c) \/ LoginTimeout(c) \/ Squeeze(c) \/ Forward(c) \/ ForwardNew(c)
               \/ DataOnline(c) \/ KickDisplaced(c) \/ DisplacedGone(c) \/ DataOffline(c)
               \/ OnlineReply(c) \/ GateForward(c) \/ AgentKick(c) \/ AgentStop(c)
               \/ LoginLost(c) \/ OfflineLost(c) \/ ForwardFails(c)
               \/ \E ok \in BOOLEAN : Loaded(c, ok)
        PROVE  UNCHANGED <<onlineMap, onlineCnt, squeezed>>
    BY <1>4 DEF Connect, ReqLogin, HeartTimeout, Disconnect, TokenReply, LoginTimeout, Squeeze, Forward,
        ForwardNew, DataOnline, KickDisplaced, DisplacedGone, DataOffline, OnlineReply, GateForward,
        AgentKick, AgentStop, LoginLost, OfflineLost, ForwardFails, Loaded, loginVars
  <1>5. ASSUME NEW g \in Gate, ConnectToLogin(g) PROVE UNCHANGED <<onlineMap, onlineCnt, squeezed>>
    BY <1>5 DEF ConnectToLogin, loginVars
  <1> QED BY <1>1, <1>2, <1>3, <1>4, <1>5 DEF Next, Client, Service

LEMMA DataTypes == ASSUME DataType, Flow, toDbs \in Queues, Next PROVE DataType'
  <1> USE ConnAssumption DEF DataType, ConnOrNone, LogonStates
  <1>1. ASSUME NEW c \in Conn, Forward(c) \/ ForwardNew(c) PROVE DataType'
    BY <1>1 DEF Forward, ForwardNew, StartAgent
  <1>2. ASSUME NEW c \in Conn, SetOnline(c)
        PROVE  /\ online' \in [Conn -> BOOLEAN] /\ agaddr' \in [Conn -> ConnOrNone]
               /\ logon' \in [Conn -> LogonStates]
    BY <1>2 DEF SetOnline
  <1>3. ASSUME NEW c \in Conn, DataOnline(c) PROVE DataType'
    <2>1. CASE SetOnline(c) /\ UNCHANGED displaced
      BY <1>2, <1>3, <2>1 DEF DataOnline
    <2>2. CASE /\ logon' = [logon EXCEPT ![c] = "kick"]
               /\ displaced' = [displaced EXCEPT ![c] = agaddr[userdata[c]]]
               /\ UNCHANGED <<online, agaddr>>
      <3>1. Waits(toDbs, "online", c)
        BY <1>3, DbsReceived DEF DataOnline, Kinds
      <3>2. userdata[c] \in Conn
        BY <3>1 DEF Flow, Agent, Logon
      <3>3. agaddr[userdata[c]] \in ConnOrNone
        BY <3>2
      <3> QED BY <1>3, <2>2, <3>3 DEF DataOnline
    <2> QED BY <1>3, <2>1, <2>2 DEF DataOnline
  <1>4. ASSUME NEW c \in Conn, KickDisplaced(c) \/ DisplacedGone(c) PROVE DataType'
    <2>1. CASE SetOnline(c)
      BY <1>2, <1>4, <2>1 DEF KickDisplaced, DisplacedGone
    <2>2. CASE logon' = [logon EXCEPT ![c] = "kicking"] /\ UNCHANGED <<online, agaddr>>
      BY <1>4, <2>2 DEF KickDisplaced, DisplacedGone
    <2> QED BY <1>4, <2>1, <2>2 DEF KickDisplaced, DisplacedGone
  <1>5. ASSUME NEW c \in Conn, NEW ok \in BOOLEAN, Loaded(c, ok) PROVE DataType'
    BY <1>5 DEF Loaded
  <1>6. ASSUME NEW c \in Conn, DataOffline(c) PROVE DataType'
    <2>1. Waits(toDbs, "offline", c)
      BY <1>6, DbsReceived DEF DataOffline, Kinds
    <2>2. userdata[c] \in Conn
      BY <2>1 DEF Flow, Agent, Logon
    <2> QED BY <1>6, <2>2 DEF DataOffline
  <1>7. ASSUME NEW c \in Conn, Connect(c) \/ ReqLogin(c) \/ HeartTimeout(c) \/ Disconnect(c)
               \/ TokenReply(c) \/ LoginTimeout(c) \/ UserOnline(c) \/ Squeeze(c) \/ SqueezeDone(c)
               \/ UserOffline(c) \/ OnlineReply(c) \/ GateForward(c) \/ AgentKick(c) \/ AgentStop(c)
               \/ LoginLost(c) \/ OfflineLost(c) \/ ForwardFails(c)
        PROVE  UNCHANGED <<userMap, userdata, online, haveData, agaddr, logon, displaced, strayed>>
    BY <1>7 DEF Connect, ReqLogin, HeartTimeout, Disconnect, TokenReply, LoginTimeout, UserOnline, Squeeze,
        SqueezeDone, UserOffline, OnlineReply, GateForward, AgentKick, AgentStop, LoginLost, OfflineLost,
        ForwardFails, dataVars
  <1>8. ASSUME NEW g \in Gate, ConnectToLogin(g)
        PROVE  UNCHANGED <<userMap, userdata, online, haveData, agaddr, logon, displaced, strayed>>
    BY <1>8 DEF ConnectToLogin, dataVars
  <1> QED BY <1>1, <1>3, <1>4, <1>5, <1>6, <1>7, <1>8 DEF Next, Client, Service

-----------------------------------------------------------------------------
(* The flow of a login.                                                    *)

FlowTypes == GateType /\ AuthType /\ DataType /\ toLogin \in Queues /\ toDbs \in Queues

(* A step of connection c only. *)
OnlyFor(c) ==
  \A d \in Conn \ {c} :
    /\ auth'[d] = auth[d] /\ agent'[d] = agent[d] /\ logon'[d] = logon[d]
    /\ userdata'[d] = userdata[d] /\ (d \in forwards' <=> d \in forwards)

LEMMA FlowMoves ==
  ASSUME Flow, NEW c \in Conn, OnlyFor(c), Login(c)', Agent(c)', Logon(c)',
         Once(toLogin', "online"), Once(toDbs', "online"), Once(toDbs', "offline"),
         \A d \in Conn \ {c} : /\ Waits(toLogin', "online", d) => Waits(toLogin, "online", d)
                               /\ Waits(toDbs', "online", d) => Waits(toDbs, "online", d)
                               /\ Waits(toDbs', "offline", d) => Waits(toDbs, "offline", d)
  PROVE  Flow'
  <1>1. ASSUME NEW d \in Conn \ {c} PROVE Login(d)' /\ Agent(d)' /\ Logon(d)'
    <2>1. Login(d) /\ Agent(d) /\ Logon(d)
      BY DEF Flow
    <2>2. Login(d)'
      BY <2>1 DEF Login, OnlyFor
    <2>3. Agent(d)'
      BY <2>1 DEF Agent, OnlyFor
    <2>4. Logon(d)'
      BY <2>1 DEF Logon, OnlyFor
    <2> QED BY <2>2, <2>3, <2>4
  <1> QED BY <1>1 DEF Flow

(* A step that sends and receives nothing. *)
LEMMA SilentMoves ==
  ASSUME Flow, NEW c \in Conn, OnlyFor(c), Login(c)', Agent(c)', Logon(c)',
         UNCHANGED <<toLogin, toDbs>>
  PROVE  Flow'
  BY FlowMoves DEF Flow

LEMMA FlowFrame ==
  ASSUME Flow, UNCHANGED <<toLogin, toDbs, auth, agent, forwards, logon, userdata>>
  PROVE  Flow'
  BY DEF Flow, Login, Agent, Logon

(* do_auth. *)
LEMMA AuthFlow ==
  ASSUME FlowTypes, Flow, NEW c \in Conn,
         \/ ReqLogin(c) \/ TokenReply(c) \/ UserOnline(c) \/ Squeeze(c) \/ SqueezeDone(c)
         \/ LoginLost(c) \/ ForwardFails(c)
  PROVE  Flow'
  <1> USE DEF FlowTypes
  <1>0. Login(c) /\ Agent(c) /\ Logon(c)
    BY DEF Flow
  <1>1. /\ UNCHANGED <<agent, forwards, logon, userdata, toDbs>>
        /\ \E s \in AuthStates : auth' = [auth EXCEPT ![c] = s]
    BY DEF ReqLogin, TokenReply, UserOnline, Squeeze, SqueezeDone, LoginLost, ForwardFails, SetOnlineMap,
           EndAuth, gateVars, agentVars, dataVars, AuthStates
  <1>2. OnlyFor(c)
    BY <1>1 DEF OnlyFor, AuthType
  <1>3. Logon(c)' /\ Agent(c)'
    BY <1>0, <1>1 DEF Logon, Agent
  <1>4. CASE ReqLogin(c) \/ Squeeze(c) \/ SqueezeDone(c) \/ ForwardFails(c)
    <2>1. /\ auth[c] \in {"idle", "squeeze", "squeezing", "forward"} /\ auth'[c] # "register"
          /\ UNCHANGED toLogin
      BY <1>4 DEF ReqLogin, Squeeze, SqueezeDone, ForwardFails, SetOnlineMap, EndAuth, AuthType, loginVars
    <2>2. Login(c)'
      BY <1>0, <1>1, <2>1 DEF Login
    <2> QED BY <1>1, <1>2, <1>3, <2>1, <2>2, SilentMoves
  <1>5. CASE TokenReply(c)
    <2>1. auth[c] = "token" /\ agent[c] = "none" /\ c \notin forwards /\ ~Waits(toLogin, "online", c)
      BY <1>0, <1>5 DEF TokenReply, Login
    <2>2. CASE toLogin' = Send(toLogin, GateOf(c), "online", c) /\ auth' = [auth EXCEPT ![c] = "register"]
      <3>1. auth'[c] = "register"
        BY <2>2 DEF AuthType
      <3>2. Login(c)'
        BY <1>1, <2>1, <3>1 DEF Login
      <3>3. /\ Once(toLogin', "online")
            /\ \A d \in Conn \ {c} : Waits(toLogin', "online", d) => Waits(toLogin, "online", d)
        BY <2>1, <2>2, LoginSent DEF Kinds, Flow
      <3> QED BY <1>1, <1>2, <1>3, <3>2, <3>3, FlowMoves DEF Flow
    <2>3. CASE UNCHANGED toLogin /\ auth' = [auth EXCEPT ![c] = "done"]
      <3>1. Login(c)'
        BY <1>1, <2>1, <2>3 DEF Login, AuthType
      <3> QED BY <1>1, <1>2, <1>3, <2>3, <3>1, SilentMoves
    <2> QED BY <1>5, <2>2, <2>3 DEF TokenReply
  <1>6. CASE UserOnline(c) \/ LoginLost(c)
    <2>1. Receive(toLogin, GateOf(c), "online", c) /\ auth'[c] \in {"forward", "squeeze", "done"}
      BY <1>6 DEF UserOnline, LoginLost, SetOnlineMap, EndAuth, AuthType
    <2>2. /\ Once(toLogin', "online") /\ ~Waits(toLogin', "online", c) /\ Waits(toLogin, "online", c)
          /\ \A d \in Conn \ {c} : Waits(toLogin', "online", d) => Waits(toLogin, "online", d)
      BY <2>1, LoginReceived DEF Kinds, Flow
    <2>3. agent[c] = "none" /\ c \notin forwards
      BY <1>0, <2>2 DEF Login
    <2>4. Login(c)'
      BY <1>1, <2>1, <2>2, <2>3 DEF Login
    <2> QED BY <1>1, <1>2, <1>3, <2>2, <2>4, FlowMoves DEF Flow
  <1> QED BY <1>4, <1>5, <1>6

(* The usermanager starts an agent. *)
LEMMA ForwardFlow ==
  ASSUME FlowTypes, Flow, NEW c \in Conn, Forward(c) \/ ForwardNew(c)
  PROVE  Flow'
  <1> USE DEF FlowTypes
  <1>0. Login(c) /\ Agent(c) /\ Logon(c)
    BY DEF Flow
  <1>1. /\ UNCHANGED <<forwards, logon, toLogin>> /\ auth[c] \in {"forward", "newservice"}
    BY DEF Forward, ForwardNew, gateVars, loginVars
  <1>2. /\ agent[c] = "none" /\ c \notin forwards /\ logon[c] = "none"
        /\ ~Waits(toLogin, "online", c) /\ ~Waits(toDbs, "online", c) /\ ~Waits(toDbs, "offline", c)
    BY <1>0, <1>1 DEF Login, Agent, Logon
  <1>3. ASSUME NEW s \in Conn, StartAgent(c, s) PROVE Flow'
    <2>1. /\ auth'[c] = "start" /\ agent'[c] = "online" /\ userdata'[c] = s
          /\ OnlyFor(c) /\ toDbs' = Send(toDbs, GateOf(c), "online", c)
      BY <1>1, <1>3 DEF StartAgent, OnlyFor, AuthType, DataType
    <2>2. /\ Once(toDbs', "online") /\ Once(toDbs', "offline") /\ ~Waits(toDbs', "offline", c)
          /\ \A d \in Conn \ {c} : /\ Waits(toDbs', "online", d) => Waits(toDbs, "online", d)
                                   /\ Waits(toDbs', "offline", d) => Waits(toDbs, "offline", d)
      BY <1>2, <2>1, DbsSent DEF Kinds, Flow
    <2>3. Login(c)' /\ Agent(c)' /\ Logon(c)'
      BY <1>1, <1>2, <2>1, <2>2 DEF Login, Agent, Logon
    <2> QED BY <1>1, <2>1, <2>2, <2>3, FlowMoves DEF Flow
  <1>4. CASE auth' = [auth EXCEPT ![c] = "newservice"] /\ UNCHANGED <<userdata, agent, toDbs>>
    <2>1. OnlyFor(c) /\ auth'[c] = "newservice"
      BY <1>1, <1>4 DEF OnlyFor, AuthType
    <2>2. Login(c)' /\ Agent(c)' /\ Logon(c)'
      BY <1>0, <1>1, <1>2, <1>4, <2>1 DEF Login, Agent, Logon
    <2> QED BY <1>1, <1>4, <2>1, <2>2, SilentMoves
  <1>5. userMap[UserOf(c)] # None => userMap[UserOf(c)] \in Conn
    BY ConnAssumption DEF DataType, ConnOrNone
  <1> QED BY <1>3, <1>4, <1>5 DEF Forward, ForwardNew

(* userdata.online. *)
LEMMA LogonFlow ==
  ASSUME FlowTypes, Flow, NEW c \in Conn,
         DataOnline(c) \/ KickDisplaced(c) \/ DisplacedGone(c) \/ \E ok \in BOOLEAN : Loaded(c, ok)
  PROVE  Flow'
  <1> USE DEF FlowTypes
  <1>0. Login(c) /\ Agent(c) /\ Logon(c)
    BY DEF Flow
  <1>1. /\ UNCHANGED <<auth, forwards, userdata, toLogin>>
        /\ \E s \in LogonStates : logon' = [logon EXCEPT ![c] = s]
    BY DEF DataOnline, KickDisplaced, DisplacedGone, Loaded, SetOnline, LogonStates, authVars, gateVars,
           loginVars
  <1>2. \A d \in Conn \ {c} : logon'[d] = logon[d]
    BY <1>1 DEF DataType
  <1>3. CASE DataOnline(c)
    <2>1. Receive(toDbs, GateOf(c), "online", c) /\ UNCHANGED agent /\ logon'[c] # "none"
      BY <1>3 DEF DataOnline, SetOnline, agentVars, DataType
    <2>2. /\ Once(toDbs', "online") /\ Once(toDbs', "offline") /\ Waits(toDbs, "online", c)
          /\ ~Waits(toDbs', "online", c) /\ (Waits(toDbs', "offline", c) => Waits(toDbs, "offline", c))
          /\ \A d \in Conn \ {c} : /\ Waits(toDbs', "online", d) => Waits(toDbs, "online", d)
                                   /\ Waits(toDbs', "offline", d) => Waits(toDbs, "offline", d)
      BY <2>1, DbsReceived DEF Kinds, Flow
    <2>3. OnlyFor(c)
      BY <1>1, <1>2, <2>1 DEF OnlyFor
    <2>4. Login(c)' /\ Agent(c)' /\ Logon(c)'
      BY <1>0, <1>1, <2>1, <2>2 DEF Login, Agent, Logon
    <2> QED BY <1>1, <2>2, <2>3, <2>4, FlowMoves DEF Flow
  <1>4. CASE DisplacedGone(c) \/ \E ok \in BOOLEAN : Loaded(c, ok)
    <2>1. /\ UNCHANGED <<agent, toDbs>> /\ logon[c] \in {"kicking", "load"}
      BY <1>4 DEF DisplacedGone, Loaded, agentVars
    <2>2. OnlyFor(c)
      BY <1>1, <1>2, <2>1 DEF OnlyFor
    <2>3. Login(c)' /\ Agent(c)' /\ Logon(c)'
      BY <1>0, <1>1, <2>1 DEF Login, Agent, Logon
    <2> QED BY <1>1, <2>1, <2>2, <2>3, SilentMoves
  <1>5. CASE KickDisplaced(c)
    <2>1. /\ UNCHANGED toDbs /\ logon[c] = "kick" /\ agent[c] = "online"
      BY <1>0, <1>5 DEF KickDisplaced, Logon
    <2>2. ASSUME NEW d \in Conn
          PROVE  agent'[d] = agent[d] \/ (agent'[d] = "stopping" /\ agent[d] \in {"forward", "up"})
      BY <1>5 DEF KickDisplaced, Active, AuthType
    <2>3. ASSUME NEW d \in Conn PROVE Login(d)' /\ Agent(d)' /\ Logon(d)'
      <3>1. Login(d) /\ Agent(d) /\ Logon(d)
        BY DEF Flow
      <3>2. Login(d)'
        BY <1>1, <2>2, <3>1 DEF Login
      <3>3. d # c => logon'[d] = logon[d]
        BY <1>2
      <3>4. agent'[c] = "online"
        BY <2>1, <2>2
      <3>5. Agent(d)'
        <4>1. ~Waits(toDbs, "online", c) /\ ~Waits(toDbs, "offline", c)
          BY <1>0, <2>1 DEF Agent
        <4> QED BY <1>1, <2>1, <2>2, <3>1, <3>3, <4>1 DEF Agent
      <3>6. Logon(d)'
        BY <1>1, <2>2, <3>1, <3>3, <3>4 DEF Logon
      <3> QED BY <3>2, <3>5, <3>6
    <2> QED BY <1>1, <2>1, <2>3 DEF Flow
  <1> QED BY <1>3, <1>4, <1>5

(* The agent, its gate and its end. *)
LEMMA AgentFlow ==
  ASSUME FlowTypes, Flow, NEW c \in Conn,
         \/ OnlineReply(c) \/ GateForward(c) \/ AgentKick(c) \/ HeartTimeout(c) \/ AgentStop(c)
         \/ DataOffline(c)
  PROVE  Flow'
  <1> USE DEF FlowTypes
  <1>0. Login(c) /\ Agent(c) /\ Logon(c)
    BY DEF Flow
  <1>1. UNCHANGED <<logon, userdata, toLogin>>
    BY DEF OnlineReply, GateForward, AgentKick, HeartTimeout, AgentStop, DataOffline, loginVars, dataVars
  <1>2. CASE OnlineReply(c)
    <2>1. /\ UNCHANGED toDbs /\ agent[c] = "online" /\ auth[c] = "start" /\ c \notin forwards
          /\ logon[c] \in {"ok", "refused"}
      BY <1>0, <1>2 DEF OnlineReply, dataVars, Login, Agent
    <2>2. CASE /\ agent' = [agent EXCEPT ![c] = "forward"] /\ forwards' = forwards \cup {c}
               /\ UNCHANGED auth
      <3>1. OnlyFor(c) /\ agent'[c] = "forward"
        BY <1>1, <2>2 DEF OnlyFor, AuthType
      <3>2. Login(c)' /\ Agent(c)' /\ Logon(c)'
        BY <1>0, <1>1, <2>1, <2>2, <3>1 DEF Login, Agent, Logon
      <3> QED BY <1>1, <2>1, <3>1, <3>2, SilentMoves
    <2>3. CASE /\ agent' = [agent EXCEPT ![c] = "failed"] /\ UNCHANGED forwards
               /\ auth' = [auth EXCEPT ![c] = "done"]
      <3>1. OnlyFor(c) /\ agent'[c] = "failed" /\ auth'[c] = "done"
        BY <1>1, <2>3 DEF OnlyFor, AuthType
      <3>2. Login(c)' /\ Agent(c)' /\ Logon(c)'
        BY <1>0, <1>1, <2>1, <2>3, <3>1 DEF Login, Agent, Logon
      <3> QED BY <1>1, <2>1, <3>1, <3>2, SilentMoves
    <2> QED BY <1>2, <2>2, <2>3 DEF OnlineReply, EndAuth
  <1>3. CASE GateForward(c)
    <2>1. /\ UNCHANGED toDbs /\ c \in forwards /\ forwards' = forwards \ {c} /\ auth[c] = "start"
          /\ agent' = [agent EXCEPT ![c] = IF @ = "forward" THEN "up" ELSE @]
          /\ auth' = [auth EXCEPT ![c] = "done"]
      BY <1>0, <1>3 DEF GateForward, EndAuth, dataVars, Login
    <2>2. /\ OnlyFor(c) /\ agent'[c] = (IF agent[c] = "forward" THEN "up" ELSE agent[c])
          /\ auth'[c] = "done" /\ c \notin forwards'
      BY <1>1, <2>1 DEF OnlyFor, AuthType
    <2>3. Login(c)' /\ Agent(c)' /\ Logon(c)'
      BY <1>0, <1>1, <2>1, <2>2 DEF Login, Agent, Logon
    <2> QED BY <1>1, <2>1, <2>2, <2>3, SilentMoves
  <1>4. CASE AgentKick(c) \/ HeartTimeout(c)
    <2>1. UNCHANGED <<auth, forwards>>
      BY <1>4 DEF AgentKick, HeartTimeout, gateVars, authVars
    <2>2. CASE UNCHANGED <<agent, toDbs>>
      BY <1>1, <2>1, <2>2, FlowFrame
    <2>3. CASE Leave(c) /\ Active(c)
      <3>1. /\ agent'[c] = "leaving" /\ OnlyFor(c) /\ toDbs' = Send(toDbs, GateOf(c), "offline", c)
            /\ agent[c] \in {"forward", "up"}
        BY <1>1, <2>1, <2>3 DEF Leave, Active, OnlyFor, AuthType
      <3>2. ~Waits(toDbs, "offline", c) /\ ~Waits(toDbs, "online", c) /\ auth[c] \notin
              {"idle", "token", "register", "squeeze", "squeezing", "forward", "newservice"}
        BY <1>0, <3>1 DEF Agent, Login
      <3>3. /\ Once(toDbs', "online") /\ Once(toDbs', "offline") /\ ~Waits(toDbs', "online", c)
            /\ \A d \in Conn \ {c} : /\ Waits(toDbs', "online", d) => Waits(toDbs, "online", d)
                                     /\ Waits(toDbs', "offline", d) => Waits(toDbs, "offline", d)
        BY <3>1, <3>2, DbsSent DEF Kinds, Flow
      <3>4. Login(c)' /\ Agent(c)' /\ Logon(c)'
        BY <1>0, <1>1, <2>1, <3>1, <3>2, <3>3 DEF Login, Agent, Logon
      <3> QED BY <1>1, <3>1, <3>3, <3>4, FlowMoves DEF Flow
    <2> QED BY <1>4, <2>2, <2>3 DEF AgentKick, HeartTimeout, Active
  <1>5. CASE AgentStop(c)
    <2>1. /\ UNCHANGED <<auth, forwards, toDbs>> /\ agent[c] = "stopping" /\ c \notin forwards
          /\ agent' = [agent EXCEPT ![c] = "gone"]
      BY <1>5 DEF AgentStop, authVars, dataVars
    <2>2. OnlyFor(c) /\ agent'[c] = "gone"
      BY <1>1, <2>1 DEF OnlyFor, AuthType
    <2>3. Login(c)' /\ Agent(c)' /\ Logon(c)'
      BY <1>0, <1>1, <2>1, <2>2 DEF Login, Agent, Logon
    <2> QED BY <1>1, <2>1, <2>2, <2>3, SilentMoves
  <1>6. CASE DataOffline(c)
    <2>1. /\ UNCHANGED <<auth, forwards>> /\ agent' = [agent EXCEPT ![c] = "stopping"]
          /\ Receive(toDbs, GateOf(c), "offline", c)
      BY <1>6 DEF DataOffline, authVars, gateVars
    <2>2. OnlyFor(c) /\ agent'[c] = "stopping"
      BY <1>1, <2>1 DEF OnlyFor, AuthType
    <2>3. /\ Once(toDbs', "online") /\ Once(toDbs', "offline") /\ Waits(toDbs, "offline", c)
          /\ ~Waits(toDbs', "offline", c) /\ (Waits(toDbs', "online", c) => Waits(toDbs, "online", c))
          /\ \A d \in Conn \ {c} : /\ Waits(toDbs', "online", d) => Waits(toDbs, "online", d)
                                   /\ Waits(toDbs', "offline", d) => Waits(toDbs, "offline", d)
      BY <2>1, DbsReceived DEF Kinds, Flow
    <2>4. Login(c)' /\ Agent(c)' /\ Logon(c)'
      BY <1>0, <1>1, <2>1, <2>2, <2>3 DEF Login, Agent, Logon
    <2> QED BY <1>1, <2>2, <2>3, <2>4, FlowMoves DEF Flow
  <1> QED BY <1>2, <1>3, <1>4, <1>5, <1>6

(* What else passes the login service's queue. *)
LEMMA OfflineFlow ==
  ASSUME FlowTypes, Flow, NEW c \in Conn, Disconnect(c) \/ UserOffline(c) \/ OfflineLost(c)
  PROVE  Flow'
  <1> USE DEF FlowTypes
  <1>1. UNCHANGED <<toDbs, auth, agent, forwards, logon, userdata>>
    BY DEF Disconnect, UserOffline, OfflineLost, gateVars, authVars, agentVars, dataVars
  <1>2. /\ Once(toLogin', "online")
        /\ \A d \in Conn : Waits(toLogin', "online", d) => Waits(toLogin, "online", d)
    <2>1. CASE UNCHANGED toLogin
      BY <2>1 DEF Flow
    <2>2. CASE toLogin' = Send(toLogin, GateOf(c), "offline", c)
      BY <2>2, LoginSent DEF Kinds, Flow
    <2>3. CASE Receive(toLogin, GateOf(c), "offline", c)
      BY <2>3, LoginReceived DEF Kinds, Flow
    <2> QED BY <2>1, <2>2, <2>3 DEF Disconnect, UserOffline, OfflineLost
  <1>3. OnlyFor(c) /\ Login(c)' /\ Agent(c)' /\ Logon(c)'
    BY <1>1, <1>2 DEF OnlyFor, Flow, Login, Agent, Logon
  <1> QED BY <1>1, <1>2, <1>3, FlowMoves DEF Flow

LEMMA FlowStep == ASSUME FlowTypes, Flow, Next PROVE Flow'
  <1>1. ASSUME NEW c \in Conn, Connect(c) \/ LoginTimeout(c) PROVE Flow'
    BY <1>1, FlowFrame DEF Connect, LoginTimeout, agentVars, loginVars, dataVars
  <1>2. ASSUME NEW g \in Gate, ConnectToLogin(g) PROVE Flow'
    BY <1>2, FlowFrame DEF ConnectToLogin, gateVars, agentVars, loginVars, dataVars
  <1> QED BY <1>1, <1>2, AuthFlow, ForwardFlow, LogonFlow, AgentFlow, OfflineFlow
          DEF Next, Client, Service

SessionInv == IInv /\ TypeOK /\ Flow

LEMMA InitSessionInv == Init => SessionInv
  <1> SUFFICES ASSUME Init PROVE TypeOK /\ Flow
    BY LockInit DEF SessionInv
  <1>1. toLogin \in Queues /\ toDbs \in Queues
    BY DEF Init, Queues
  <1>2. GateType /\ AuthType /\ LoginType /\ DataType
    BY DEF Init, GateType, AuthType, LoginType, DataType, ConnOrNone, AuthStates, AgentStates, LogonStates
  <1>3. \A c \in Conn : GateOf(c) \in Gate
    BY ConnAssumption
  <1>4. /\ \A k \in Kinds : Once(toLogin, k) /\ Once(toDbs, k)
        /\ \A k \in Kinds, c \in Conn : ~Waits(toLogin, k, c) /\ ~Waits(toDbs, k, c)
    BY <1>3 DEF Init, Once, Waits
  <1>5. Flow
    BY <1>4 DEF Init, Flow, Login, Agent, Logon, Kinds
  <1> QED BY <1>1, <1>2, <1>5, TypeParts

LEMMA NextSessionInv == SessionInv /\ [Next]_vars => SessionInv'
  <1>1. ASSUME SessionInv, Next PROVE SessionInv'
    <2>1. GateType /\ AuthType /\ LoginType /\ DataType /\ toLogin \in Queues /\ toDbs \in Queues
      BY <1>1, TypeParts DEF SessionInv
    <2>2. GateType' /\ AuthType' /\ LoginType' /\ DataType' /\ toLogin' \in Queues /\ toDbs' \in Queues
      BY <1>1, <2>1, GateTypes, AuthTypes, LoginTypes, DataTypes, QueueTypes DEF SessionInv
    <2>3. TypeOK'
      BY <2>2 DEF TypeOK, GateType, AuthType, LoginType, DataType, Queues
    <2>4. Flow' /\ IInv'
      BY <1>1, <2>1, FlowStep, LockStep DEF SessionInv, FlowTypes
    <2> QED BY <2>3, <2>4 DEF SessionInv
  <1>2. ASSUME SessionInv, UNCHANGED vars PROVE SessionInv'
    <2>1. IInv'
      BY <1>2, LockStep DEF SessionInv
    <2>2. TypeOK'
      BY <1>2 DEF SessionInv, TypeOK, vars, gateVars, authVars, ready, agentVars, loginVars, dataVars
    <2>3. Flow'
      BY <1>2, FlowFrame DEF SessionInv, vars, gateVars, authVars, ready, agentVars, loginVars, dataVars
    <2> QED BY <2>1, <2>2, <2>3 DEF SessionInv
  <1> QED BY <1>1, <1>2

(* Every variable keeps its type.  That userdata never works for an agent  *)
(* it was not given takes the whole flow of a login: each call is answered *)
(* once, and only while do_auth or the agent waits for it.                 *)
THEOREM SessionTypeCorrect == Spec => []TypeOK
  <1>1. SessionInv => TypeOK
    BY DEF SessionInv
  <1> QED BY InitSessionInv, NextSessionInv, <1>1, PTL DEF Spec

-----------------------------------------------------------------------------
(* Who userdata is online for.                                             *)

Displacing(e) == logon[e] \in {"kick", "kicking"}

Serves(s, c) == c \in Conn /\ agent[c] # "none" /\ userdata[c] = s

(* A userdata service talks of its own agents only.                        *)
AddrInv ==
  /\ \A s \in Conn : /\ agaddr[s] # None => Serves(s, agaddr[s])
                     /\ online[s] => agaddr[s] # None
  /\ \A e \in Conn : Displacing(e) => Serves(userdata[e], displaced[e])

Present(c) == agent[c] \in {"online", "forward", "up", "leaving", "failed"}

GhostInv == AddrInv /\ NoGhostOnline

(* Steps that neither set nor clear online, and take no agent away but one *)
(* that a login displaces.                                                 *)
LEMMA GhostFrame ==
  ASSUME GhostInv, DataType, UNCHANGED <<online, agaddr>>,
         \A c \in Conn : agent[c] # "none" => agent'[c] # "none" /\ userdata'[c] = userdata[c],
         \A e \in Conn : Displacing(e)' => /\ Displacing(e) /\ userdata'[e] = userdata[e]
                                           /\ displaced'[e] = displaced[e],
         \A c \in Conn : Present(c) => Present(c)' \/ Takeover(c)',
         \A c \in Conn : Takeover(c) => Takeover(c)'
  PROVE  GhostInv'
  <1>1. AddrInv'
    <2>1. ASSUME NEW s \in Conn PROVE /\ agaddr'[s] # None => Serves(s, agaddr[s])'
                                      /\ online'[s] => agaddr'[s] # None
      <3>1. agaddr[s] # None => agaddr[s] \in Conn
        BY DEF DataType, ConnOrNone
      <3>2. PICK a : a = agaddr[s]
        OBVIOUS
      <3>3. a # None => Serves(s, a)'
        BY <3>1, <3>2 DEF GhostInv, AddrInv, Serves
      <3>4. agaddr'[s] = a /\ online'[s] = online[s]
        BY <3>2
      <3> QED BY <3>2, <3>3, <3>4 DEF GhostInv, AddrInv, Serves
    <2>2. ASSUME NEW e \in Conn, Displacing(e)' PROVE Serves(userdata[e], displaced[e])'
      <3>1. PICK s, a : s = userdata[e] /\ a = displaced[e]
        OBVIOUS
      <3>2. Displacing(e) /\ userdata'[e] = s /\ displaced'[e] = a
        BY <2>2, <3>1
      <3>3. Serves(s, a)
        BY <3>1, <3>2 DEF GhostInv, AddrInv
      <3> QED BY <3>2, <3>3 DEF Serves
    <2> QED BY <2>1, <2>2 DEF AddrInv, Serves
  <1>2. NoGhostOnline'
    <2> SUFFICES ASSUME NEW s \in Conn, online'[s] PROVE Present(agaddr[s])' \/ Takeover(agaddr[s])'
      BY DEF NoGhostOnline, Present
    <2>1. PICK a : a = agaddr[s]
      OBVIOUS
    <2>2. a \in Conn /\ (Present(a) \/ Takeover(a))
      BY <2>1 DEF GhostInv, AddrInv, NoGhostOnline, Serves, Present
    <2>3. Present(a)' \/ Takeover(a)'
      BY <2>2
    <2> QED BY <2>1, <2>3 DEF Present, Takeover
  <1> QED BY <1>1, <1>2 DEF GhostInv

(* userdata.online sets the address of its caller, whom it has not been    *)
(* told of before.                                                         *)
LEMMA GhostSet ==
  ASSUME GhostInv, DataType, NEW c \in Conn, agent[c] = "online", userdata[c] \in Conn,
         SetOnline(c), UNCHANGED <<agent, userdata, displaced>>
  PROVE  GhostInv'
  <1>1. PICK s \in Conn : s = userdata[c]
    OBVIOUS
  <1>2. /\ agaddr'[s] = c /\ \A x \in Conn \ {s} : agaddr'[x] = agaddr[x] /\ online'[x] = online[x]
        /\ ~Displacing(c)' /\ \A e \in Conn \ {c} : logon'[e] = logon[e]
    BY <1>1 DEF SetOnline, DataType, Displacing
  <1>3. AddrInv'
    <2>1. ASSUME NEW x \in Conn PROVE /\ agaddr'[x] # None => Serves(x, agaddr'[x])
                                      /\ online'[x] => agaddr'[x] # None
      <3>1. CASE x = s
        BY <1>1, <1>2, <3>1, ConnAssumption DEF Serves
      <3>2. CASE x # s
        BY <1>2, <3>2 DEF GhostInv, AddrInv
      <3> QED BY <3>1, <3>2
    <2>2. \A e \in Conn : Displacing(e)' => Serves(userdata[e], displaced[e])
      BY <1>2 DEF GhostInv, AddrInv, Displacing
    <2> QED BY <2>1, <2>2 DEF AddrInv, Serves
  <1>4. ASSUME NEW x \in Conn, online'[x]
        PROVE  Present(agaddr'[x]) \/ \E d \in Conn : displaced[d] = agaddr'[x] /\ Displacing(d)'
    <2>1. CASE x = s
      BY <1>2, <2>1 DEF Present
    <2>2. CASE x # s
      <3>1. PICK a \in Conn : a = agaddr[x] /\ Serves(x, a) /\ agaddr'[x] = a
        BY <1>2, <1>4, <2>2 DEF GhostInv, AddrInv, Serves
      <3>2. Present(a) \/ Takeover(a)
        BY <1>2, <1>4, <2>2, <3>1 DEF GhostInv, NoGhostOnline, Present
      <3>3. CASE Takeover(a)
        <4>1. PICK d \in Conn : displaced[d] = a /\ Displacing(d)
          BY <3>3 DEF Takeover, Displacing
        <4>2. d # c
          BY <1>1, <2>2, <3>1, <4>1 DEF GhostInv, AddrInv, Serves
        <4>3. Displacing(d)'
          BY <1>2, <4>1, <4>2 DEF Displacing
        <4> QED BY <3>1, <4>1, <4>3
      <3> QED BY <3>1, <3>2, <3>3
    <2> QED BY <2>1, <2>2
  <1>5. NoGhostOnline'
    BY <1>4 DEF NoGhostOnline, Present, Takeover, Displacing
  <1> QED BY <1>3, <1>5 DEF GhostInv

(* Steps that leave the userdata services alone. *)
LEMMA GhostQuiet ==
  ASSUME GhostInv, DataType, UNCHANGED <<online, agaddr, logon, displaced>>,
         \A c \in Conn : agent[c] # "none" => agent'[c] # "none" /\ userdata'[c] = userdata[c],
         \A c \in Conn : Displacing(c) => agent[c] # "none",
         \A c \in Conn : Present(c) => Present(c)'
  PROVE  GhostInv'
  <1>1. \A e \in Conn : Displacing(e)' <=> Displacing(e)
    BY DEF Displacing
  <1>2. \A c \in Conn : Takeover(c) => Takeover(c)'
    BY DEF Takeover
  <1> QED BY <1>1, <1>2, GhostFrame

LEMMA GhostStep == ASSUME SessionInv, GhostInv, Next PROVE GhostInv'
  <1> DEFINE Safe == GhostInv'
  <1>0. /\ GateType /\ AuthType /\ DataType /\ toLogin \in Queues /\ toDbs \in Queues
        /\ \A c \in Conn : Login(c) /\ Agent(c) /\ Logon(c)
    BY TypeParts DEF SessionInv, Flow
  <1>1. \A c \in Conn : Displacing(c) => agent[c] # "none"
    BY <1>0 DEF Displacing, Logon
  <1>2. CASE UNCHANGED <<online, agaddr, logon, displaced, agent, userdata>>
    BY <1>0, <1>1, <1>2, GhostQuiet DEF Present
  <1>3. ASSUME NEW c \in Conn, Connect(c) \/ ReqLogin(c) \/ LoginTimeout(c) \/ TokenReply(c)
               \/ Disconnect(c) \/ UserOnline(c) \/ Squeeze(c) \/ SqueezeDone(c) \/ UserOffline(c)
               \/ LoginLost(c) \/ OfflineLost(c) \/ ForwardFails(c)
        PROVE  UNCHANGED <<online, agaddr, logon, displaced, agent, userdata>>
    BY <1>3 DEF Connect, ReqLogin, LoginTimeout, TokenReply, Disconnect, UserOnline, Squeeze, SqueezeDone,
        UserOffline, LoginLost, OfflineLost, ForwardFails, agentVars, dataVars
  <1>4. ASSUME NEW g \in Gate, ConnectToLogin(g)
        PROVE  UNCHANGED <<online, agaddr, logon, displaced, agent, userdata>>
    BY <1>4 DEF ConnectToLogin, agentVars, dataVars
  <1>5. ASSUME NEW c \in Conn, Forward(c) \/ ForwardNew(c) PROVE Safe
    <2>1. UNCHANGED <<online, agaddr, logon, displaced>> /\ agent[c] = "none"
      BY <1>0, <1>5 DEF Forward, ForwardNew, Login
    <2>2. ASSUME NEW d \in Conn
          PROVE  /\ agent[d] # "none" => agent'[d] = agent[d] /\ userdata'[d] = userdata[d]
      BY <1>0, <1>5, <2>1 DEF Forward, ForwardNew, StartAgent, AuthType, DataType
    <2>3. \A d \in Conn : Present(d) => Present(d)'
      BY <2>2 DEF Present
    <2> QED BY <1>0, <1>1, <2>1, <2>2, <2>3, GhostQuiet
  <1>6. ASSUME NEW c \in Conn, OnlineReply(c) \/ GateForward(c) \/ AgentKick(c) \/ HeartTimeout(c)
               \/ AgentStop(c)
        PROVE  Safe
    <2>1. UNCHANGED <<online, agaddr, logon, displaced, userdata>>
      BY <1>6 DEF OnlineReply, GateForward, AgentKick, HeartTimeout, AgentStop, dataVars
    <2>2. \A d \in Conn : /\ agent[d] # "none" => agent'[d] # "none"
                          /\ Present(d) => Present(d)'
      BY <1>0, <1>6 DEF OnlineReply, GateForward, AgentKick, HeartTimeout, AgentStop, Leave, Present,
          Active, AuthType, AgentStates
    <2> QED BY <1>0, <1>1, <2>1, <2>2, GhostQuiet
  <1>7. ASSUME NEW c \in Conn, NEW ok \in BOOLEAN, Loaded(c, ok) PROVE Safe
    <2>1. UNCHANGED <<online, agaddr, displaced, agent, userdata>>
      BY <1>7 DEF Loaded, agentVars
    <2>2. \A d \in Conn : Displacing(d)' <=> Displacing(d)
      BY <1>0, <1>7 DEF Loaded, Displacing, DataType
    <2>3. \A d \in Conn : Takeover(d) => Takeover(d)'
      BY <2>1, <2>2 DEF Takeover, Displacing
    <2> QED BY <1>0, <2>1, <2>2, <2>3, GhostFrame DEF Present
  <1>8. ASSUME NEW c \in Conn, DataOnline(c) PROVE Safe
    <2>1. UNCHANGED <<agent, userdata>> /\ Waits(toDbs, "online", c)
      BY <1>0, <1>8, DbsReceived DEF DataOnline, agentVars, Kinds
    <2>2. agent[c] = "online" /\ logon[c] = "none" /\ userdata[c] \in Conn
      BY <1>0, <2>1 DEF Agent, Logon
    <2>3. CASE SetOnline(c) /\ UNCHANGED displaced
      BY <1>0, <2>1, <2>2, <2>3, GhostSet
    <2>4. CASE /\ agaddr[userdata[c]] # None
               /\ logon' = [logon EXCEPT ![c] = "kick"]
               /\ displaced' = [displaced EXCEPT ![c] = agaddr[userdata[c]]]
               /\ UNCHANGED <<online, agaddr>>
      <3>1. PICK s, a : s = userdata[c] /\ a = agaddr[s]
        OBVIOUS
      <3>2. Serves(s, a)
        BY <2>2, <2>4, <3>1 DEF GhostInv, AddrInv
      <3>3. ASSUME NEW e \in Conn
            PROVE  /\ Displacing(e)' => e = c \/ Displacing(e)
                   /\ Displacing(e) => Displacing(e)' /\ displaced'[e] = displaced[e]
                   /\ displaced'[e] = (IF e = c THEN a ELSE displaced[e])
        BY <1>0, <2>2, <2>4, <3>1 DEF Displacing, DataType
      <3>4. \A e \in Conn : Displacing(e)' => Serves(userdata[e], displaced'[e])
        BY <3>1, <3>2, <3>3 DEF GhostInv, AddrInv
      <3>5. AddrInv'
        BY <2>1, <2>4, <3>4 DEF GhostInv, AddrInv, Serves
      <3>6. \A d \in Conn : Takeover(d) => Takeover(d)'
        BY <3>3 DEF Takeover, Displacing
      <3>7. NoGhostOnline'
        <4> SUFFICES ASSUME NEW x \in Conn, online[x]
                     PROVE  Present(agaddr[x]) \/ \E d \in Conn : displaced'[d] = agaddr[x] /\ Displacing(d)'
          BY <2>1, <2>4 DEF NoGhostOnline, Present, Takeover, Displacing
        <4>1. Present(agaddr[x]) \/ \E d \in Conn : displaced[d] = agaddr[x] /\ Displacing(d)
          BY DEF GhostInv, NoGhostOnline, Present, Takeover, Displacing
        <4> QED BY <3>3, <4>1
      <3> QED BY <3>5, <3>7 DEF GhostInv
    <2> QED BY <1>8, <2>3, <2>4 DEF DataOnline
  <1>9. ASSUME NEW c \in Conn, DisplacedGone(c) PROVE Safe
    <2>1. /\ UNCHANGED <<agent, userdata, displaced>> /\ SetOnline(c) /\ logon[c] = "kicking"
      BY <1>9 DEF DisplacedGone, agentVars
    <2>2. agent[c] = "online" /\ userdata[c] \in Conn
      BY <1>0, <2>1 DEF Logon
    <2> QED BY <1>0, <2>1, <2>2, GhostSet
  <1>10. ASSUME NEW c \in Conn, KickDisplaced(c) PROVE Safe
    <2>1. UNCHANGED <<userdata, displaced>> /\ logon[c] = "kick" /\ Displacing(c)
      BY <1>10 DEF KickDisplaced, Displacing
    <2>2. agent[c] = "online" /\ userdata[c] \in Conn
      BY <1>0, <2>1 DEF Logon
    <2>3. CASE SetOnline(c) /\ UNCHANGED agent
      BY <1>0, <2>1, <2>2, <2>3, GhostSet
    <2>4. CASE /\ agent' = [agent EXCEPT ![displaced[c]] = "stopping"]
               /\ logon' = [logon EXCEPT ![c] = "kicking"]
               /\ UNCHANGED <<online, agaddr>>
      <3>1. \A e \in Conn : Displacing(e)' <=> Displacing(e)
        BY <1>0, <2>1, <2>4 DEF Displacing, DataType
      <3>2. \A d \in Conn : Takeover(d) <=> Takeover(d)'
        BY <2>1, <3>1 DEF Takeover, Displacing
      <3>3. Takeover(displaced[c])
        BY <2>1 DEF Takeover
      <3>4. \A d \in Conn : /\ agent[d] # "none" => agent'[d] # "none"
                            /\ d # displaced[c] => agent'[d] = agent[d]
        BY <1>0, <2>4 DEF AuthType
      <3>5. \A d \in Conn : Present(d) => Present(d)' \/ Takeover(d)'
        BY <3>2, <3>3, <3>4 DEF Present
      <3> QED BY <1>0, <2>1, <2>4, <3>1, <3>2, <3>4, <3>5, GhostFrame
    <2> QED BY <1>10, <2>3, <2>4 DEF KickDisplaced
  <1>11. ASSUME NEW c \in Conn, DataOffline(c) PROVE Safe
    <2>1. UNCHANGED <<userdata, displaced, logon, agaddr>> /\ Waits(toDbs, "offline", c)
      BY <1>0, <1>11, DbsReceived DEF DataOffline, Kinds
    <2>2. agent[c] = "leaving" /\ userdata[c] \in Conn
      BY <1>0, <2>1 DEF Agent, Logon
    <2>3. /\ agent'[c] = "stopping" /\ \A d \in Conn \ {c} : agent'[d] = agent[d]
          /\ ~online'[userdata[c]] /\ \A x \in Conn \ {userdata[c]} : online'[x] = online[x]
      BY <1>0, <1>11, <2>2 DEF DataOffline, AuthType, DataType
    <2>4. \A x, d \in Conn : Serves(x, d) => Serves(x, d)'
      BY <2>1, <2>3 DEF Serves
    <2>5. AddrInv'
      BY <2>1, <2>2, <2>3 DEF GhostInv, AddrInv, Serves, Displacing
    <2>6. NoGhostOnline'
      <3> SUFFICES ASSUME NEW x \in Conn, online'[x]
                   PROVE  agent'[agaddr[x]] \in {"online", "forward", "up", "leaving", "failed"}
                          \/ Takeover(agaddr[x])
        BY <2>1 DEF NoGhostOnline, Takeover
      <3>1. x # userdata[c] /\ online[x]
        BY <2>3
      <3>2. agaddr[x] \in Conn \ {c}
        BY <3>1 DEF GhostInv, AddrInv, Serves
      <3> QED BY <2>3, <3>1, <3>2 DEF GhostInv, NoGhostOnline
    <2> QED BY <2>5, <2>6 DEF GhostInv
  <1> HIDE DEF Safe
  <1> QED BY <1>2, <1>3, <1>4, <1>5, <1>6, <1>7, <1>8, <1>9, <1>10, <1>11 DEF Next, Client, Service, Safe

(* userdata.lua is not left online for an agent that is gone, in whatever  *)
(* order the kicks of the gate, of the heart beat and of a second login    *)
(* (kick(7) of userdata.online) meet, on any number of gates: whichever    *)
(* ends an agent either clears `online` or has a login take it over.       *)
THEOREM NoGhosts == Spec => []NoGhostOnline
  <1>1. Init => SessionInv /\ GhostInv
    <2>1. Init => GhostInv
      BY DEF Init, GhostInv, AddrInv, NoGhostOnline, Displacing
    <2> QED BY <2>1, InitSessionInv
  <1>2. SessionInv /\ GhostInv /\ [Next]_vars => (SessionInv /\ GhostInv)'
    <2>1. ASSUME GhostInv, UNCHANGED vars PROVE GhostInv'
      BY <2>1 DEF vars, agentVars, dataVars, GhostInv, AddrInv, NoGhostOnline, Displacing, Serves, Takeover
    <2> QED BY <2>1, GhostStep, NextSessionInv
  <1>3. SessionInv /\ GhostInv => NoGhostOnline
    BY DEF GhostInv
  <1> QED BY <1>1, <1>2, <1>3, PTL DEF Spec

-----------------------------------------------------------------------------
(* The counters.                                                           *)

(* The agents that gate g counts.                                          *)
Counted(g) == {c \in Conn : GateOf(c) = g /\ Forwarded(c)}

GateCountInv ==
  \A g \in Gate : IsFiniteSet(Counted(g)) /\ gateCnt[g] = Cardinality(Counted(g))

LEMMA GateCountFrame ==
  ASSUME GateCountInv, UNCHANGED gateCnt, \A d \in Conn : Forwarded(d)' <=> Forwarded(d)
  PROVE  GateCountInv'
  <1>1. \A g \in Gate : Counted(g)' = Counted(g)
    BY DEF Counted
  <1> QED BY <1>1 DEF GateCountInv

(* The set and the counter of c's gate move together. *)
LEMMA GateCountMoves ==
  ASSUME GateCountInv, GateType, NEW c \in Conn, NEW n \in {1, -1},
         gateCnt' = [gateCnt EXCEPT ![GateOf(c)] = @ + n],
         Forwarded(c) <=> n = -1, Forwarded(c)' <=> n = 1,
         \A d \in Conn \ {c} : Forwarded(d)' <=> Forwarded(d)
  PROVE  GateCountInv'
  <1>1. PICK h \in Gate : h = GateOf(c)
    BY ConnAssumption
  <1>2. /\ gateCnt[h] \in Int /\ gateCnt'[h] = gateCnt[h] + n
        /\ \A g \in Gate \ {h} : gateCnt'[g] = gateCnt[g]
    BY <1>1 DEF GateType
  <1>3. ASSUME NEW g \in Gate \ {h} PROVE Counted(g)' = Counted(g)
    BY <1>1 DEF Counted
  <1>4. IsFiniteSet(Counted(h)) /\ gateCnt[h] = Cardinality(Counted(h))
    BY DEF GateCountInv
  <1>5. CASE n = 1
    <2>1. Counted(h)' = Counted(h) \cup {c} /\ c \notin Counted(h)
      BY <1>1, <1>5 DEF Counted
    <2>2. /\ IsFiniteSet(Counted(h) \cup {c})
          /\ Cardinality(Counted(h) \cup {c}) = Cardinality(Counted(h)) + 1
      BY <1>4, <2>1, FS_AddElement
    <2>3. IsFiniteSet(Counted(h)') /\ gateCnt'[h] = Cardinality(Counted(h)')
      BY <1>2, <1>4, <1>5, <2>1, <2>2
    <2> QED BY <1>2, <1>3, <2>3 DEF GateCountInv
  <1>6. CASE n = -1
    <2>1. Counted(h)' = Counted(h) \ {c} /\ c \in Counted(h)
      BY <1>1, <1>6 DEF Counted
    <2>2. /\ IsFiniteSet(Counted(h) \ {c})
          /\ Cardinality(Counted(h) \ {c}) = Cardinality(Counted(h)) - 1
      BY <1>4, <2>1, FS_RemoveElement
    <2>3. IsFiniteSet(Counted(h)') /\ gateCnt'[h] = Cardinality(Counted(h)')
      BY <1>2, <1>4, <1>6, <2>1, <2>2
    <2> QED BY <1>2, <1>3, <2>3 DEF GateCountInv
  <1> QED BY <1>5, <1>6

LEMMA GateCountStep == ASSUME SessionInv, GateCountInv, Next PROVE GateCountInv'
  <1> DEFINE Same == \A d \in Conn : Forwarded(d)' <=> Forwarded(d)
  <1>0. /\ GateType /\ AuthType /\ DataType /\ toLogin \in Queues /\ toDbs \in Queues
        /\ \A c \in Conn : Login(c) /\ Agent(c) /\ Logon(c)
    BY TypeParts DEF SessionInv, Flow
  <1>1. CASE UNCHANGED gateCnt /\ Same
    BY <1>1, GateCountFrame
  <1>2. ASSUME NEW c \in Conn, Connect(c) \/ ReqLogin(c) \/ LoginTimeout(c) \/ TokenReply(c)
               \/ Disconnect(c) \/ UserOnline(c) \/ Squeeze(c) \/ SqueezeDone(c) \/ UserOffline(c)
               \/ LoginLost(c) \/ OfflineLost(c) \/ ForwardFails(c) \/ DataOnline(c)
               \/ DisplacedGone(c) \/ \E ok \in BOOLEAN : Loaded(c, ok)
        PROVE  UNCHANGED gateCnt /\ Same
    BY <1>2 DEF Connect, ReqLogin, LoginTimeout, TokenReply, Disconnect, UserOnline, Squeeze, SqueezeDone,
        UserOffline, LoginLost, OfflineLost, ForwardFails, DataOnline, DisplacedGone, Loaded, gateVars,
        agentVars, Forwarded
  <1>3. ASSUME NEW g \in Gate, ConnectToLogin(g) PROVE UNCHANGED gateCnt /\ Same
    BY <1>3 DEF ConnectToLogin, gateVars, agentVars, Forwarded
  <1>4. ASSUME NEW c \in Conn, Forward(c) \/ ForwardNew(c) PROVE UNCHANGED gateCnt /\ Same
    <2>1. /\ UNCHANGED <<gateCnt, forwards>> /\ agent[c] = "none"
          /\ \A d \in Conn : agent'[d] = agent[d] \/ (d = c /\ agent'[d] = "online")
      BY <1>0, <1>4 DEF Forward, ForwardNew, StartAgent, gateVars, Login, AuthType
    <2> QED BY <2>1 DEF Forwarded
  <1>5. ASSUME NEW c \in Conn, OnlineReply(c) PROVE UNCHANGED gateCnt /\ Same
    <2>1. /\ UNCHANGED gateCnt /\ agent[c] = "online" /\ agent'[c] \in {"forward", "failed"}
          /\ \A d \in Conn \ {c} : agent'[d] = agent[d] /\ (d \in forwards' <=> d \in forwards)
      BY <1>0, <1>5 DEF OnlineReply, AuthType
    <2> QED BY <2>1 DEF Forwarded
  <1>6. ASSUME NEW c \in Conn, KickDisplaced(c) \/ DataOffline(c) \/ AgentKick(c) \/ HeartTimeout(c)
        PROVE  UNCHANGED gateCnt /\ Same
    <2>1. UNCHANGED <<gateCnt, forwards>>
      BY <1>6 DEF KickDisplaced, DataOffline, AgentKick, HeartTimeout, gateVars
    <2>2. DataOffline(c) => agent[c] = "leaving"
      BY <1>0, DbsReceived DEF DataOffline, Kinds, Agent
    <2>3. ASSUME NEW d \in Conn
          PROVE  \/ agent'[d] = agent[d]
                 \/ /\ agent'[d] \in {"leaving", "stopping"}
                    /\ agent[d] \in {"forward", "up", "leaving"}
      BY <1>0, <1>6, <2>2 DEF KickDisplaced, DataOffline, AgentKick, HeartTimeout, Leave, Active, AuthType
    <2>4. \A d \in Conn : agent[d] = "forward" => d \in forwards
      BY <1>0 DEF Agent
    <2> QED BY <2>1, <2>3, <2>4 DEF Forwarded
  <1>7. ASSUME NEW c \in Conn, GateForward(c) PROVE GateCountInv'
    <2>1. /\ c \in forwards /\ gateCnt' = [gateCnt EXCEPT ![GateOf(c)] = @ + 1]
          /\ c \notin forwards' /\ \A d \in Conn \ {c} : d \in forwards' <=> d \in forwards
          /\ agent'[c] \in {"up", "leaving", "stopping"}
          /\ \A d \in Conn \ {c} : agent'[d] = agent[d]
      BY <1>0, <1>7 DEF GateForward, Agent, AuthType
    <2>2. ~Forwarded(c) /\ Forwarded(c)' /\ \A d \in Conn \ {c} : Forwarded(d)' <=> Forwarded(d)
      BY <2>1 DEF Forwarded
    <2>3. 1 \in {1, -1} /\ 1 # -1
      OBVIOUS
    <2> QED BY <1>0, <2>1, <2>2, <2>3, GateCountMoves
  <1>8. ASSUME NEW c \in Conn, AgentStop(c) PROVE GateCountInv'
    <2>1. /\ agent[c] = "stopping" /\ c \notin forwards /\ UNCHANGED forwards
          /\ gateCnt' = [gateCnt EXCEPT ![GateOf(c)] = @ - 1]
          /\ agent'[c] = "gone" /\ \A d \in Conn \ {c} : agent'[d] = agent[d]
      BY <1>0, <1>8 DEF AgentStop, AuthType
    <2>2. Forwarded(c) /\ ~Forwarded(c)' /\ \A d \in Conn \ {c} : Forwarded(d)' <=> Forwarded(d)
      BY <2>1 DEF Forwarded
    <2>3. gateCnt' = [gateCnt EXCEPT ![GateOf(c)] = @ + (-1)]
      <3>1. gateCnt[GateOf(c)] \in Int
        BY <1>0, ConnAssumption DEF GateType
      <3>2. gateCnt[GateOf(c)] - 1 = gateCnt[GateOf(c)] + (-1)
        BY <3>1
      <3> QED BY <2>1, <3>2
    <2>4. PICK n \in {1, -1} : n = -1 /\ n # 1
      OBVIOUS
    <2>5. gateCnt' = [gateCnt EXCEPT ![GateOf(c)] = @ + n]
      BY <2>3, <2>4
    <2> QED BY <1>0, <2>2, <2>4, <2>5, GateCountMoves
  <1> HIDE DEF Same
  <1> QED BY <1>1, <1>2, <1>3, <1>4, <1>5, <1>6, <1>7, <1>8 DEF Next, Client, Service

(* No two connections of a player make user_online kick: they share a gate,*)
(* a gate address or a socket number.                                      *)
NeverSqueezes == \A c, d \in Conn : UserOf(c) = UserOf(d) => Spared(d, c)

OnlineUsers == {u \in User : onlineMap[u] # None}

OnlineInv ==
  /\ \A u \in User : onlineMap[u] # None => UserOf(onlineMap[u]) = u
  /\ \A c \in Conn : auth[c] \notin {"squeeze", "squeezing"}
  /\ IsFiniteSet(OnlineUsers) /\ onlineCnt = Cardinality(OnlineUsers)

LEMMA OnlineFrame ==
  ASSUME OnlineInv, UNCHANGED <<onlineMap, onlineCnt>>,
         \A c \in Conn : auth'[c] \in {"squeeze", "squeezing"} => auth[c] \in {"squeeze", "squeezing"}
  PROVE  OnlineInv'
  <1>1. OnlineUsers' = OnlineUsers
    BY DEF OnlineUsers
  <1> QED BY <1>1 DEF OnlineInv

LEMMA OnlineStep == ASSUME NeverSqueezes, SessionInv, OnlineInv, Next PROVE OnlineInv'
  <1> DEFINE Quiet == /\ UNCHANGED <<onlineMap, onlineCnt>>
                      /\ \A d \in Conn : auth'[d] \in {"squeeze", "squeezing"}
                                           => auth[d] \in {"squeeze", "squeezing"}
  <1>0. AuthType /\ LoginType
    BY TypeParts DEF SessionInv
  <1>1. CASE Quiet
    BY <1>1, OnlineFrame
  <1>2. ASSUME NEW c \in Conn, ReqLogin(c) \/ TokenReply(c) \/ LoginLost(c) \/ ForwardFails(c)
               \/ Forward(c) \/ ForwardNew(c) \/ OnlineReply(c) \/ GateForward(c) \/ Squeeze(c)
        PROVE  Quiet
    <2>1. UNCHANGED <<onlineMap, onlineCnt>>
      BY <1>2 DEF ReqLogin, TokenReply, LoginLost, ForwardFails, Forward, ForwardNew, OnlineReply,
          GateForward, Squeeze, loginVars
    <2>2. \/ UNCHANGED auth
          \/ \E s \in {"token", "register", "done", "newservice", "start"} : auth' = [auth EXCEPT ![c] = s]
          \/ auth[c] = "squeeze" /\ auth' = [auth EXCEPT ![c] = "squeezing"]
      BY <1>2 DEF ReqLogin, TokenReply, LoginLost, ForwardFails, Forward, ForwardNew, StartAgent,
          OnlineReply, GateForward, EndAuth, Squeeze
    <2> QED BY <1>0, <2>1, <2>2 DEF AuthType
  <1>3. ASSUME NEW c \in Conn, Connect(c) \/ LoginTimeout(c) \/ Disconnect(c) \/ OfflineLost(c)
               \/ DataOnline(c) \/ KickDisplaced(c) \/ DisplacedGone(c) \/ DataOffline(c)
               \/ AgentKick(c) \/ HeartTimeout(c) \/ AgentStop(c) \/ \E ok \in BOOLEAN : Loaded(c, ok)
        PROVE  Quiet
    BY <1>3 DEF Connect, LoginTimeout, Disconnect, OfflineLost, DataOnline, KickDisplaced,
        DisplacedGone, DataOffline, AgentKick, HeartTimeout, AgentStop, Loaded, authVars, loginVars
  <1>4. ASSUME NEW g \in Gate, ConnectToLogin(g) PROVE Quiet
    BY <1>4 DEF ConnectToLogin, loginVars
  <1>5. ASSUME NEW c \in Conn, SqueezeDone(c) PROVE FALSE
    BY <1>5 DEF SqueezeDone, OnlineInv
  <1>6. IsFiniteSet(OnlineUsers) /\ onlineCnt = Cardinality(OnlineUsers)
    BY DEF OnlineInv
  <1>7. ASSUME NEW c \in Conn, UserOnline(c) PROVE OnlineInv'
    <2>1. PICK u \in User : u = UserOf(c)
      BY ConnAssumption
    <2>2. onlineMap[u] # None => UserOf(onlineMap[u]) = u /\ onlineMap[u] \in Conn
      BY <1>0 DEF OnlineInv, LoginType, ConnOrNone
    <2>3. onlineMap[u] # None => Spared(onlineMap[u], c)
      BY <2>1, <2>2 DEF NeverSqueezes
    <2>4. SetOnlineMap(c, IF onlineMap[u] = None THEN onlineCnt + 1 ELSE onlineCnt)
      BY <1>7, <2>1, <2>3 DEF UserOnline
    <2>5. /\ onlineMap'[u] = c /\ \A v \in User \ {u} : onlineMap'[v] = onlineMap[v]
          /\ onlineCnt' = (IF onlineMap[u] = None THEN onlineCnt + 1 ELSE onlineCnt)
          /\ \A d \in Conn : auth'[d] = auth[d] \/ auth'[d] = "forward"
      BY <1>0, <2>1, <2>4 DEF SetOnlineMap, LoginType, AuthType
    <2>6. OnlineUsers' = OnlineUsers \cup {u} /\ (u \in OnlineUsers <=> onlineMap[u] # None)
      BY <2>5, ConnAssumption DEF OnlineUsers
    <2>7. /\ IsFiniteSet(OnlineUsers \cup {u})
          /\ Cardinality(OnlineUsers \cup {u})
               = (IF u \in OnlineUsers THEN Cardinality(OnlineUsers) ELSE Cardinality(OnlineUsers) + 1)
      BY <1>6, FS_AddElement
    <2>8. onlineCnt' = Cardinality(OnlineUsers \cup {u})
      BY <1>6, <2>5, <2>6, <2>7
    <2>9. \A v \in User : onlineMap'[v] # None => UserOf(onlineMap'[v]) = v
      BY <2>1, <2>5 DEF OnlineInv
    <2>10. \A d \in Conn : auth'[d] \notin {"squeeze", "squeezing"}
      BY <2>5 DEF OnlineInv
    <2> QED BY <2>6, <2>7, <2>8, <2>9, <2>10 DEF OnlineInv
  <1>8. ASSUME NEW c \in Conn, UserOffline(c) PROVE OnlineInv'
    <2>1. PICK u \in User : u = UserOf(c)
      BY ConnAssumption
    <2>2. /\ onlineMap'[u] = None /\ \A v \in User \ {u} : onlineMap'[v] = onlineMap[v]
          /\ onlineCnt' = (IF onlineMap[u] = None THEN onlineCnt ELSE onlineCnt - 1)
          /\ UNCHANGED auth
      BY <1>0, <1>8, <2>1 DEF UserOffline, LoginType, authVars
    <2>3. OnlineUsers' = OnlineUsers \ {u} /\ (u \in OnlineUsers <=> onlineMap[u] # None)
      BY <2>2 DEF OnlineUsers
    <2>4. /\ IsFiniteSet(OnlineUsers \ {u})
          /\ Cardinality(OnlineUsers \ {u})
               = (IF u \in OnlineUsers THEN Cardinality(OnlineUsers) - 1 ELSE Cardinality(OnlineUsers))
      BY <1>6, FS_RemoveElement
    <2>5. onlineCnt' = Cardinality(OnlineUsers \ {u})
      BY <1>6, <2>2, <2>3, <2>4
    <2>6. \A v \in User : onlineMap'[v] # None => UserOf(onlineMap'[v]) = v
      BY <2>2 DEF OnlineInv
    <2> QED BY <2>2, <2>3, <2>4, <2>5, <2>6 DEF OnlineInv
  <1> HIDE DEF Quiet
  <1> QED BY <1>1, <1>2, <1>3, <1>4, <1>5, <1>7, <1>8 DEF Next, Client, Service

(* The gate's user_cnt (gated.lua) counts the agents it forwards to, though*)
(* CMD.forward counts before it looks for the connection and agent_stop may*)
(* follow a kick of an agent whose forward is still on its way.            *)
THEOREM GateCountsStayExact == Spec => []GateCountExact
  <1>1. Init => GateCountInv
    <2> SUFFICES ASSUME Init, NEW g \in Gate
                 PROVE  IsFiniteSet(Counted(g)) /\ gateCnt[g] = Cardinality(Counted(g))
      BY DEF GateCountInv
    <2>1. Counted(g) = {}
      BY DEF Init, Counted, Forwarded
    <2> QED BY <2>1, FS_EmptySet DEF Init
  <1>2. SessionInv /\ GateCountInv /\ [Next]_vars => (SessionInv /\ GateCountInv)'
    <2>1. ASSUME GateCountInv, UNCHANGED vars PROVE GateCountInv'
      BY <2>1, GateCountFrame DEF vars, gateVars, agentVars, Forwarded
    <2> QED BY <2>1, GateCountStep, NextSessionInv
  <1>3. GateCountInv => GateCountExact
    BY DEF GateCountInv, GateCountExact, Counted
  <1> QED BY InitSessionInv, <1>1, <1>2, <1>3, PTL DEF Spec

(* Both counters that loginstatus.lua keeps or reads are exact as long as  *)
(* no login squeezes another out: loginstatus.lua counts a player who is   *)
(* squeezed a second time.                                                 *)
THEOREM CountersStayExact ==
  ASSUME NeverSqueezes
  PROVE  Spec => []CountersExact
  <1>1. Init => OnlineInv
    <2> SUFFICES ASSUME Init PROVE OnlineInv
      OBVIOUS
    <2>1. OnlineUsers = {}
      BY DEF Init, OnlineUsers
    <2> QED BY <2>1, FS_EmptySet DEF Init, OnlineInv
  <1>2. SessionInv /\ OnlineInv /\ [Next]_vars => (SessionInv /\ OnlineInv)'
    <2>1. ASSUME OnlineInv, UNCHANGED vars PROVE OnlineInv'
      BY <2>1, OnlineFrame DEF vars, authVars, loginVars
    <2> QED BY <2>1, OnlineStep, NextSessionInv
  <1>3. OnlineInv => OnlineCountExact
    BY DEF OnlineInv, OnlineCountExact, OnlineUsers
  <1>4. GateCountExact /\ OnlineCountExact => CountersExact
    BY DEF CountersExact
  <1> QED BY InitSessionInv, GateCountsStayExact, <1>1, <1>2, <1>3, <1>4, PTL DEF Spec

-----------------------------------------------------------------------------
(* One session of a player.                                                *)

(* Each player logs in through one gate: its auth service's lock is the one*)
(* that keeps two logins apart.                                            *)
OneGateEach == \A c, d \in Conn : UserOf(c) = UserOf(d) => GateOf(c) = GateOf(d)

(* A login that is under way holds its player's lock. *)
HoldInv == \A c \in Conn : auth[c] \in Holding => loginning[GateOf(c)][UserOf(c)] = c

LEMMA SameLogin ==
  ASSUME OneGateEach, HoldInv, NEW c \in Conn, NEW d \in Conn, UserOf(c) = UserOf(d),
         auth[c] \in Holding, auth[d] \in Holding
  PROVE  c = d
  BY DEF OneGateEach, HoldInv

LEMMA HoldGoesOn ==
  ASSUME AuthType, HoldInv, NEW c \in Conn, NEW s, s \in Holding => auth[c] \in Holding,
         auth' = [auth EXCEPT ![c] = s], UNCHANGED loginning
  PROVE  HoldInv'
  <1>1. \A d \in Conn : auth'[d] \in Holding => auth[d] \in Holding
    BY DEF AuthType
  <1> QED BY <1>1 DEF HoldInv

LEMMA HoldEnds ==
  ASSUME AuthType, HoldInv, NEW c \in Conn, NEW ok \in BOOLEAN, auth[c] \in Holding, EndAuth(c, ok)
  PROVE  HoldInv'
  <1>1. GateOf(c) \in Gate /\ UserOf(c) \in User
    BY ConnAssumption
  <1>2. ASSUME NEW d \in Conn, auth'[d] \in Holding PROVE loginning'[GateOf(d)][UserOf(d)] = d
    <2>1. d # c /\ auth'[d] = auth[d]
      BY <1>2 DEF AuthType, EndAuth, Holding
    <2>2. loginning[GateOf(d)][UserOf(d)] = d /\ loginning[GateOf(c)][UserOf(c)] = c
      BY <1>2, <2>1 DEF HoldInv
    <2>3. ~(GateOf(d) = GateOf(c) /\ UserOf(d) = UserOf(c))
      BY <2>1, <2>2
    <2>4. GateOf(d) \in Gate /\ UserOf(d) \in User
      BY ConnAssumption
    <2> QED BY <1>1, <2>2, <2>3, <2>4 DEF AuthType, EndAuth
  <1> QED BY <1>2 DEF HoldInv

LEMMA HoldTaken ==
  ASSUME AuthType, HoldInv, NEW c \in Conn, TokenReply(c)
  PROVE  HoldInv'
  <1>1. GateOf(c) \in Gate /\ UserOf(c) \in User
    BY ConnAssumption
  <1>2. CASE auth' = [auth EXCEPT ![c] = "done"] /\ UNCHANGED loginning
    BY <1>2, HoldGoesOn DEF Holding
  <1>3. CASE /\ loginning[GateOf(c)][UserOf(c)] = None
             /\ loginning' = [loginning EXCEPT ![GateOf(c)][UserOf(c)] = c]
             /\ auth' = [auth EXCEPT ![c] = "register"]
    <2>1. ASSUME NEW d \in Conn \ {c}, auth'[d] \in Holding PROVE loginning'[GateOf(d)][UserOf(d)] = d
      <3>1. loginning[GateOf(d)][UserOf(d)] = d
        BY <1>3, <2>1 DEF AuthType, HoldInv
      <3>2. ~(GateOf(d) = GateOf(c) /\ UserOf(d) = UserOf(c))
        BY <1>3, <3>1, ConnAssumption
      <3>3. GateOf(d) \in Gate /\ UserOf(d) \in User
        BY ConnAssumption
      <3> QED BY <1>1, <1>3, <3>1, <3>2, <3>3 DEF AuthType
    <2>2. loginning'[GateOf(c)][UserOf(c)] = c
      BY <1>1, <1>3 DEF AuthType
    <2> QED BY <2>1, <2>2 DEF HoldInv
  <1> QED BY <1>2, <1>3 DEF TokenReply

LEMMA HoldStep == ASSUME SessionInv, HoldInv, Next PROVE HoldInv'
  <1>0. /\ AuthType /\ toLogin \in Queues
        /\ \A c \in Conn : Login(c) /\ Agent(c)
    BY TypeParts DEF SessionInv, Flow
  <1>1. CASE UNCHANGED <<auth, loginning>>
    BY <1>1 DEF HoldInv
  <1>2. ASSUME NEW c \in Conn, Connect(c) \/ LoginTimeout(c) \/ Disconnect(c) \/ OfflineLost(c)
               \/ UserOffline(c) \/ DataOnline(c) \/ KickDisplaced(c) \/ DisplacedGone(c)
               \/ DataOffline(c) \/ AgentKick(c) \/ HeartTimeout(c) \/ AgentStop(c)
               \/ \E ok \in BOOLEAN : Loaded(c, ok)
        PROVE  UNCHANGED <<auth, loginning>>
    BY <1>2 DEF Connect, LoginTimeout, Disconnect, OfflineLost, UserOffline, DataOnline, KickDisplaced,
        DisplacedGone, DataOffline, AgentKick, HeartTimeout, AgentStop, Loaded, authVars
  <1>3. ASSUME NEW g \in Gate, ConnectToLogin(g) PROVE UNCHANGED <<auth, loginning>>
    BY <1>3 DEF ConnectToLogin
  <1>4. ASSUME NEW c \in Conn, ReqLogin(c) \/ UserOnline(c) \/ Squeeze(c) \/ SqueezeDone(c)
               \/ Forward(c) \/ ForwardNew(c)
        PROVE  HoldInv'
    <2>1. UserOnline(c) => auth[c] = "register"
      BY <1>0, LoginReceived DEF UserOnline, Kinds, Login
    <2>2. /\ UNCHANGED loginning
          /\ \/ auth' = [auth EXCEPT ![c] = "token"]
             \/ /\ auth[c] \in Holding
                /\ \E s \in Holding : auth' = [auth EXCEPT ![c] = s]
      BY <1>4, <2>1 DEF ReqLogin, UserOnline, Squeeze, SqueezeDone, Forward, ForwardNew, StartAgent,
          SetOnlineMap, Holding
    <2>3. "token" \notin Holding
      BY DEF Holding
    <2> QED BY <1>0, <2>2, <2>3, HoldGoesOn
  <1>5. ASSUME NEW c \in Conn, TokenReply(c) PROVE HoldInv'
    BY <1>0, <1>5, HoldTaken
  <1>6. ASSUME NEW c \in Conn, LoginLost(c) \/ ForwardFails(c) \/ OnlineReply(c) \/ GateForward(c)
        PROVE  HoldInv'
    <2>1. LoginLost(c) => auth[c] = "register"
      BY <1>0, LoginReceived DEF LoginLost, Kinds, Login
    <2>2. auth[c] \in Holding
      BY <1>0, <1>6, <2>1 DEF ForwardFails, OnlineReply, GateForward, Login, Holding
    <2>3. UNCHANGED <<auth, loginning>> \/ \E ok \in BOOLEAN : EndAuth(c, ok)
      BY <1>6 DEF LoginLost, ForwardFails, OnlineReply, GateForward
    <2> QED BY <1>0, <1>1, <2>2, <2>3, HoldEnds
  <1> QED BY <1>1, <1>2, <1>3, <1>4, <1>5, <1>6 DEF Next, Client, Service

(* The usermanager gives all logins of a player the service it knows.      *)
ServiceInv ==
  /\ \A u \in User : userMap[u] # None => UserOf(userMap[u]) = u
  /\ \A c \in Conn : /\ userdata[c] # None => userdata[c] = userMap[UserOf(c)]
                     /\ auth[c] = "newservice" => userMap[UserOf(c)] = None

LEMMA ServiceInvStep ==
  ASSUME OneGateEach, SessionInv, HoldInv, ServiceInv, Next
  PROVE  ServiceInv'
  <1> DEFINE Quiet == /\ UNCHANGED <<userMap, userdata>>
                      /\ \A d \in Conn : auth'[d] = "newservice" => auth[d] = "newservice"
  <1>0. /\ AuthType /\ DataType /\ \A c \in Conn : UserOf(c) \in User
    BY TypeParts, ConnAssumption DEF SessionInv
  <1>1. CASE Quiet
    BY <1>1 DEF ServiceInv
  <1>2. ASSUME NEW c \in Conn, ReqLogin(c) \/ TokenReply(c) \/ UserOnline(c) \/ Squeeze(c)
               \/ SqueezeDone(c) \/ LoginLost(c) \/ ForwardFails(c) \/ OnlineReply(c) \/ GateForward(c)
        PROVE  Quiet
    <2>1. UNCHANGED <<userMap, userdata>>
      BY <1>2 DEF ReqLogin, TokenReply, UserOnline, Squeeze, SqueezeDone, LoginLost, ForwardFails,
          OnlineReply, GateForward, dataVars
    <2>2. \/ UNCHANGED auth
          \/ \E s \in AuthStates \ {"newservice"} : auth' = [auth EXCEPT ![c] = s]
      BY <1>2 DEF ReqLogin, TokenReply, UserOnline, Squeeze, SqueezeDone, LoginLost, ForwardFails,
          OnlineReply, GateForward, EndAuth, SetOnlineMap, AuthStates
    <2> QED BY <1>0, <2>1, <2>2 DEF AuthType
  <1>3. ASSUME NEW c \in Conn, Connect(c) \/ LoginTimeout(c) \/ Disconnect(c) \/ OfflineLost(c)
               \/ UserOffline(c) \/ DataOnline(c) \/ KickDisplaced(c) \/ DisplacedGone(c)
               \/ DataOffline(c) \/ AgentKick(c) \/ HeartTimeout(c) \/ AgentStop(c)
               \/ \E ok \in BOOLEAN : Loaded(c, ok)
        PROVE  Quiet
    BY <1>3 DEF Connect, LoginTimeout, Disconnect, OfflineLost, UserOffline, DataOnline, KickDisplaced,
        DisplacedGone, DataOffline, AgentKick, HeartTimeout, AgentStop, Loaded, authVars, dataVars
  <1>4. ASSUME NEW g \in Gate, ConnectToLogin(g) PROVE Quiet
    BY <1>4 DEF ConnectToLogin, dataVars
  <1>5. ASSUME NEW c \in Conn, Forward(c) PROVE ServiceInv'
    <2>1. CASE /\ userMap[UserOf(c)] # None /\ UNCHANGED userMap
               /\ userdata' = [userdata EXCEPT ![c] = userMap[UserOf(c)]]
               /\ auth' = [auth EXCEPT ![c] = "start"]
      <3>1. \A d \in Conn : /\ userdata'[d] = (IF d = c THEN userMap[UserOf(c)] ELSE userdata[d])
                            /\ auth'[d] = "newservice" => auth[d] = "newservice"
        BY <1>0, <2>1 DEF AuthType, DataType
      <3> QED BY <2>1, <3>1 DEF ServiceInv
    <2>2. CASE /\ userMap[UserOf(c)] = None /\ UNCHANGED <<userMap, userdata>>
               /\ auth' = [auth EXCEPT ![c] = "newservice"]
      <3>1. \A d \in Conn : auth'[d] = "newservice" => d = c \/ auth[d] = "newservice"
        BY <1>0, <2>2 DEF AuthType
      <3> QED BY <2>2, <3>1 DEF ServiceInv
    <2> QED BY <1>5, <2>1, <2>2 DEF Forward, StartAgent
  <1>6. ASSUME NEW c \in Conn, ForwardNew(c) PROVE ServiceInv'
    <2>1. auth[c] = "newservice" /\ userMap[UserOf(c)] = None
      BY <1>6 DEF ForwardNew, ServiceInv
    <2>2. PICK u \in User : u = UserOf(c)
      BY <1>0
    <2>3. /\ userMap'[u] = c /\ \A v \in User \ {u} : userMap'[v] = userMap[v]
          /\ userdata'[c] = c /\ \A d \in Conn \ {c} : userdata'[d] = userdata[d]
          /\ auth'[c] = "start" /\ \A d \in Conn \ {c} : auth'[d] = auth[d]
      BY <1>0, <1>6, <2>2 DEF ForwardNew, StartAgent, AuthType, DataType
    <2>4. ASSUME NEW v \in User, userMap'[v] # None PROVE UserOf(userMap'[v]) = v
      BY <2>2, <2>3, <2>4 DEF ServiceInv
    <2>5. ASSUME NEW d \in Conn, userdata'[d] # None PROVE userdata'[d] = userMap'[UserOf(d)]
      <3>1. CASE d = c
        BY <2>2, <2>3, <3>1
      <3>2. CASE d # c
        <4>1. userdata'[d] = userdata[d] /\ userdata[d] = userMap[UserOf(d)] /\ userdata[d] # None
          BY <2>3, <2>5, <3>2 DEF ServiceInv
        <4>2. UserOf(d) # u
          BY <2>1, <2>2, <4>1
        <4> QED BY <1>0, <2>3, <4>1, <4>2
      <3> QED BY <3>1, <3>2
    <2>6. ASSUME NEW d \in Conn, auth'[d] = "newservice" PROVE userMap'[UserOf(d)] = None
      <3>1. d # c /\ auth[d] = "newservice"
        BY <2>3, <2>6
      <3>2. UserOf(d) # u
        BY <2>1, <2>2, <3>1, SameLogin DEF Holding
      <3> QED BY <1>0, <2>3, <3>1, <3>2 DEF ServiceInv
    <2> QED BY <2>4, <2>5, <2>6 DEF ServiceInv
  <1> HIDE DEF Quiet
  <1> QED BY <1>1, <1>2, <1>3, <1>4, <1>5, <1>6 DEF Next, Client, Service

(* userdata has told this agent that it is online. *)
Claims(c) == agent[c] \in {"forward", "up"} \/ (agent[c] = "online" /\ logon[c] \in {"load", "ok"})

(* userdata is online for the agent it has told so, unless another agent's *)
(* late offline has reached it, and displaces the agent it is online for.  *)
ClaimInv ==
  /\ \A c \in Conn : Displacing(c) => agaddr[userdata[c]] = displaced[c]
  /\ \A c \in Conn : Claims(c) /\ userdata[c] \notin strayed
                       => online[userdata[c]] /\ agaddr[userdata[c]] = c

LEMMA ClaimFrame ==
  ASSUME ClaimInv, UNCHANGED <<online, agaddr, strayed, displaced>>,
         \A d \in Conn : /\ Displacing(d)' => Displacing(d) /\ userdata'[d] = userdata[d]
                         /\ Claims(d)' => Claims(d) /\ userdata'[d] = userdata[d]
  PROVE  ClaimInv'
  <1>1. ASSUME NEW d \in Conn, Displacing(d)' PROVE agaddr'[userdata'[d]] = displaced'[d]
    BY <1>1 DEF ClaimInv
  <1>2. ASSUME NEW d \in Conn, Claims(d)', userdata'[d] \notin strayed'
        PROVE  online'[userdata'[d]] /\ agaddr'[userdata'[d]] = d
    BY <1>2 DEF ClaimInv
  <1> QED BY <1>1, <1>2 DEF ClaimInv

OneLogin == HoldInv /\ ServiceInv

(* A call of userdata.online is made under the lock of its player.         *)
LEMMA CallsApart ==
  ASSUME OneGateEach, SessionInv, OneLogin, NEW c \in Conn, NEW d \in Conn,
         agent[c] = "online", agent[d] \in {"online", "forward"}, userdata[d] = userdata[c]
  PROVE  c = d
  <1>1. /\ AuthType /\ DataType /\ Login(c) /\ Login(d) /\ Agent(d) /\ Logon(c)
        /\ UserOf(c) \in User /\ UserOf(d) \in User /\ None \notin Conn
    BY TypeParts, ConnAssumption DEF SessionInv, Flow
  <1>2. auth[c] \in Holding /\ auth[d] \in Holding
    BY <1>1 DEF Login, Agent, Holding
  <1>3. PICK s \in Conn : s = userdata[c]
    BY <1>1 DEF Logon
  <1>4. userMap[UserOf(c)] = s /\ userMap[UserOf(d)] = s /\ s # None
    BY <1>1, <1>3 DEF OneLogin, ServiceInv
  <1>5. UserOf(c) = UserOf(d)
    BY <1>1, <1>4 DEF OneLogin, ServiceInv
  <1> QED BY <1>2, <1>5, SameLogin DEF OneLogin

(* userdata.online goes through: no other agent holds the service's word.  *)
LEMMA ClaimSet ==
  ASSUME OneGateEach, SessionInv, OneLogin, ClaimInv, NEW c \in Conn,
         agent[c] = "online", userdata[c] \in Conn,
         ~online[userdata[c]] \/ agaddr[userdata[c]] = None \/ ~Active(agaddr[userdata[c]]),
         SetOnline(c), UNCHANGED <<agent, userdata, displaced, strayed>>
  PROVE  ClaimInv'
  <1>0. DataType /\ None \notin Conn
    BY TypeParts, ConnAssumption DEF SessionInv
  <1>1. PICK s \in Conn : s = userdata[c]
    OBVIOUS
  <1>2. /\ agaddr'[s] = c /\ \A x \in Conn \ {s} : agaddr'[x] = agaddr[x] /\ online'[x] = online[x]
        /\ online'[s] /\ ~Displacing(c)' /\ \A e \in Conn \ {c} : logon'[e] = logon[e]
    BY <1>0, <1>1 DEF SetOnline, DataType, Displacing
  <1>3. ASSUME NEW d \in Conn \ {c}, userdata[d] = s PROVE ~Displacing(d) /\ (Claims(d) => s \in strayed)
    <2>1. agent[d] \notin {"online", "forward"}
      BY <1>1, <1>3, CallsApart
    <2>2. ~Displacing(d)
      BY <2>1 DEF SessionInv, Flow, Logon, Displacing
    <2>3. ASSUME Claims(d), s \notin strayed PROVE FALSE
      <3>1. agaddr[s] = d /\ online[s]
        BY <1>3, <2>3 DEF ClaimInv
      <3>2. Active(d)
        BY <2>1, <2>3 DEF Claims, Active
      <3> QED BY <1>0, <1>1, <3>1, <3>2
    <2> QED BY <2>2, <2>3
  <1>4. \A d \in Conn \ {c} : (Displacing(d)' <=> Displacing(d)) /\ (Claims(d)' <=> Claims(d))
    BY <1>2 DEF Displacing, Claims
  <1>5. \A d \in Conn : agent[d] # "none" => userdata[d] \in Conn
    BY DEF SessionInv, Flow, Logon
  <1>6. ASSUME NEW d \in Conn, Displacing(d)' PROVE agaddr'[userdata[d]] = displaced[d]
    <2>1. d # c /\ Displacing(d) /\ userdata[d] # s
      BY <1>2, <1>3, <1>4, <1>6
    <2>2. userdata[d] \in Conn
      BY <1>5, <2>1 DEF SessionInv, Flow, Logon, Displacing
    <2> QED BY <1>2, <2>1, <2>2 DEF ClaimInv
  <1>7. ASSUME NEW d \in Conn, Claims(d)', userdata[d] \notin strayed
        PROVE  online'[userdata[d]] /\ agaddr'[userdata[d]] = d
    <2>1. CASE d = c
      BY <1>1, <1>2, <2>1
    <2>2. CASE d # c
      <3>1. Claims(d) /\ userdata[d] # s
        BY <1>3, <1>4, <1>7, <2>2
      <3>2. userdata[d] \in Conn
        BY <1>5, <3>1 DEF Claims
      <3> QED BY <1>2, <1>7, <3>1, <3>2 DEF ClaimInv
    <2> QED BY <2>1, <2>2
  <1> QED BY <1>6, <1>7 DEF ClaimInv

LEMMA ClaimStep ==
  ASSUME OneGateEach, SessionInv, OneLogin, ClaimInv, Next
  PROVE  ClaimInv'
  <1> DEFINE Safe == ClaimInv'
  <1>0. /\ GateType /\ AuthType /\ DataType /\ toLogin \in Queues /\ toDbs \in Queues
        /\ \A c \in Conn : Login(c) /\ Agent(c) /\ Logon(c)
    BY TypeParts DEF SessionInv, Flow
  <1>1. CASE UNCHANGED <<online, agaddr, logon, displaced, agent, userdata, strayed>>
    BY <1>1, ClaimFrame DEF Displacing, Claims
  <1>2. ASSUME NEW c \in Conn, Connect(c) \/ ReqLogin(c) \/ LoginTimeout(c) \/ TokenReply(c)
               \/ Disconnect(c) \/ UserOnline(c) \/ Squeeze(c) \/ SqueezeDone(c) \/ UserOffline(c)
               \/ LoginLost(c) \/ OfflineLost(c) \/ ForwardFails(c)
        PROVE  UNCHANGED <<online, agaddr, logon, displaced, agent, userdata, strayed>>
    BY <1>2 DEF Connect, ReqLogin, LoginTimeout, TokenReply, Disconnect, UserOnline, Squeeze, SqueezeDone,
        UserOffline, LoginLost, OfflineLost, ForwardFails, agentVars, dataVars
  <1>3. ASSUME NEW g \in Gate, ConnectToLogin(g)
        PROVE  UNCHANGED <<online, agaddr, logon, displaced, agent, userdata, strayed>>
    BY <1>3 DEF ConnectToLogin, agentVars, dataVars
  <1>4. ASSUME NEW c \in Conn, Forward(c) \/ ForwardNew(c) PROVE Safe
    <2>1. UNCHANGED <<online, agaddr, logon, displaced, strayed>> /\ agent[c] = "none" /\ logon[c] = "none"
      BY <1>0, <1>4 DEF Forward, ForwardNew, Login, Logon
    <2>2. /\ \A d \in Conn \ {c} : agent'[d] = agent[d] /\ userdata'[d] = userdata[d]
          /\ agent'[c] \in {"none", "online"}
      BY <1>0, <1>4, <2>1 DEF Forward, ForwardNew, StartAgent, AuthType, DataType
    <2>3. \A d \in Conn : /\ Displacing(d)' => d # c /\ Displacing(d)
                          /\ Claims(d)' => d # c /\ Claims(d)
      BY <2>1, <2>2 DEF Displacing, Claims
    <2> QED BY <2>1, <2>2, <2>3, ClaimFrame
  <1>5. ASSUME NEW c \in Conn, OnlineReply(c) \/ GateForward(c) \/ AgentKick(c) \/ HeartTimeout(c)
               \/ AgentStop(c)
        PROVE  Safe
    <2>1. UNCHANGED <<online, agaddr, logon, displaced, userdata, strayed>>
      BY <1>5 DEF OnlineReply, GateForward, AgentKick, HeartTimeout, AgentStop, dataVars
    <2>2. \A d \in Conn : Claims(d)' => Claims(d)
      BY <1>0, <1>5, <2>1 DEF OnlineReply, GateForward, AgentKick, HeartTimeout, AgentStop, Leave, Claims,
          Active, AuthType
    <2>3. \A d \in Conn : Displacing(d)' => Displacing(d)
      BY <2>1 DEF Displacing
    <2> QED BY <2>1, <2>2, <2>3, ClaimFrame
  <1>6. ASSUME NEW c \in Conn, NEW ok \in BOOLEAN, Loaded(c, ok) PROVE Safe
    <2>1. UNCHANGED <<online, agaddr, displaced, agent, userdata, strayed>>
      BY <1>6 DEF Loaded, agentVars
    <2>2. /\ logon[c] = "load" /\ logon'[c] \in {"ok", "refused"}
          /\ \A d \in Conn \ {c} : logon'[d] = logon[d]
      BY <1>0, <1>6 DEF Loaded, DataType
    <2>3. \A d \in Conn : (Displacing(d)' => Displacing(d)) /\ (Claims(d)' => Claims(d))
      BY <2>1, <2>2 DEF Displacing, Claims
    <2> QED BY <2>1, <2>3, ClaimFrame
  <1>7. ASSUME NEW c \in Conn, DataOnline(c) PROVE Safe
    <2>1. UNCHANGED <<agent, userdata, strayed>> /\ Waits(toDbs, "online", c)
      BY <1>0, <1>7, DbsReceived DEF DataOnline, agentVars, Kinds
    <2>2. agent[c] = "online" /\ logon[c] = "none" /\ userdata[c] \in Conn
      BY <1>0, <2>1 DEF Agent, Logon
    <2>3. CASE /\ ~(online[userdata[c]] /\ agaddr[userdata[c]] # None)
               /\ SetOnline(c) /\ UNCHANGED displaced
      BY <2>1, <2>2, <2>3, ClaimSet
    <2>4. CASE /\ logon' = [logon EXCEPT ![c] = "kick"]
               /\ displaced' = [displaced EXCEPT ![c] = agaddr[userdata[c]]]
               /\ UNCHANGED <<online, agaddr>>
      <3>1. PICK s \in Conn : s = userdata[c]
        BY <2>2
      <3>2. /\ logon'[c] = "kick" /\ displaced'[c] = agaddr[s]
            /\ \A d \in Conn \ {c} : logon'[d] = logon[d] /\ displaced'[d] = displaced[d]
        BY <1>0, <2>4, <3>1 DEF DataType
      <3>3. \A d \in Conn : Displacing(d)' => d = c \/ Displacing(d)
        BY <3>2 DEF Displacing
      <3>4. \A d \in Conn : Claims(d)' => Claims(d)
        BY <2>1, <2>2, <3>2 DEF Claims
      <3>5. \A d \in Conn : Displacing(d)' => agaddr[userdata[d]] = displaced'[d]
        BY <3>1, <3>2, <3>3 DEF ClaimInv
      <3>6. \A d \in Conn : Claims(d)' /\ userdata[d] \notin strayed
                              => online[userdata[d]] /\ agaddr[userdata[d]] = d
        BY <3>4 DEF ClaimInv
      <3> QED BY <2>1, <2>4, <3>5, <3>6 DEF ClaimInv
    <2> QED BY <1>7, <2>3, <2>4 DEF DataOnline
  <1>8. ASSUME NEW c \in Conn, DisplacedGone(c) PROVE Safe
    <2>1. /\ UNCHANGED <<agent, userdata, displaced, strayed>> /\ SetOnline(c) /\ Displacing(c)
          /\ ~Active(displaced[c])
      BY <1>8 DEF DisplacedGone, agentVars, Displacing, Active
    <2>2. agent[c] = "online" /\ userdata[c] \in Conn /\ agaddr[userdata[c]] = displaced[c]
      BY <1>0, <2>1 DEF Logon, Displacing, ClaimInv
    <2>3. ~Active(agaddr[userdata[c]])
      BY <2>1, <2>2
    <2> QED BY <2>1, <2>2, <2>3, ClaimSet
  <1>9. ASSUME NEW c \in Conn, KickDisplaced(c) PROVE Safe
    <2>1. UNCHANGED <<userdata, displaced, strayed>> /\ logon[c] = "kick" /\ Displacing(c)
      BY <1>9 DEF KickDisplaced, Displacing
    <2>2. agent[c] = "online" /\ userdata[c] \in Conn /\ agaddr[userdata[c]] = displaced[c]
      BY <1>0, <2>1 DEF Logon, Displacing, ClaimInv
    <2>3. CASE ~Active(displaced[c]) /\ SetOnline(c) /\ UNCHANGED agent
      <3>1. ~Active(agaddr[userdata[c]])
        BY <2>2, <2>3
      <3> QED BY <2>1, <2>2, <2>3, <3>1, ClaimSet
    <2>4. CASE /\ agent' = [agent EXCEPT ![displaced[c]] = "stopping"]
               /\ logon' = [logon EXCEPT ![c] = "kicking"]
               /\ UNCHANGED <<online, agaddr>>
      <3>1. /\ \A d \in Conn : agent'[d] = agent[d] \/ agent'[d] = "stopping"
            /\ logon'[c] = "kicking" /\ \A d \in Conn \ {c} : logon'[d] = logon[d]
        BY <1>0, <2>4 DEF AuthType, DataType
      <3>2. \A d \in Conn : Displacing(d)' => Displacing(d)
        BY <2>1, <3>1 DEF Displacing
      <3>3. \A d \in Conn : Claims(d)' => Claims(d)
        BY <3>1 DEF Claims
      <3> QED BY <2>1, <2>4, <3>2, <3>3, ClaimFrame
    <2> QED BY <1>9, <2>3, <2>4 DEF KickDisplaced
  <1>10. ASSUME NEW c \in Conn, DataOffline(c) PROVE Safe
    <2>1. UNCHANGED <<userdata, displaced, logon, agaddr>> /\ Waits(toDbs, "offline", c)
      BY <1>0, <1>10, DbsReceived DEF DataOffline, Kinds
    <2>2. agent[c] = "leaving"
      BY <1>0, <2>1 DEF Agent
    <2>3. PICK s \in Conn : s = userdata[c]
      BY <1>0, <2>2 DEF Logon
    <2>4. /\ agent'[c] = "stopping" /\ \A d \in Conn \ {c} : agent'[d] = agent[d]
          /\ \A x \in Conn \ {s} : online'[x] = online[x]
          /\ strayed' = (IF agaddr[s] = c THEN strayed ELSE strayed \cup {s})
      BY <1>0, <1>10, <2>2, <2>3 DEF DataOffline, AuthType, DataType
    <2>5. \A d \in Conn : /\ Displacing(d)' <=> Displacing(d)
                          /\ Claims(d)' => d # c /\ Claims(d)
      BY <2>1, <2>4 DEF Displacing, Claims
    <2>6. ASSUME NEW d \in Conn, Claims(d)', userdata[d] \notin strayed'
          PROVE  online'[userdata[d]] /\ agaddr[userdata[d]] = d
      <3>1. d # c /\ Claims(d) /\ userdata[d] \notin strayed
        BY <2>4, <2>5, <2>6
      <3>2. online[userdata[d]] /\ agaddr[userdata[d]] = d
        BY <3>1 DEF ClaimInv
      <3>3. userdata[d] # s
        BY <2>4, <2>6, <3>1, <3>2
      <3>4. userdata[d] \in Conn
        BY <1>0, <3>1 DEF Claims, Logon
      <3> QED BY <2>4, <3>2, <3>3, <3>4
    <2> QED BY <2>1, <2>5, <2>6 DEF ClaimInv
  <1> HIDE DEF Safe
  <1> QED BY <1>1, <1>2, <1>3, <1>4, <1>5, <1>6, <1>7, <1>8, <1>9, <1>10 DEF Next, Client, Service, Safe

OneSessionInv == SessionInv /\ OneLogin /\ ClaimInv

LEMMA OneSessionFollows == ASSUME SessionInv, OneLogin, ClaimInv PROVE OneSession
  <1>1. OneService
    <2> SUFFICES ASSUME NEW c \in Conn, NEW d \in Conn, UserOf(c) = UserOf(d),
                        userdata[c] # None, userdata[d] # None
                 PROVE  userdata[c] = userdata[d]
      BY DEF OneService
    <2> QED BY DEF OneLogin, ServiceInv
  <1>2. OneActiveAgent
    <2> SUFFICES ASSUME NEW c \in Conn, NEW d \in Conn, UserOf(c) = UserOf(d), Active(c), Active(d),
                        userdata[c] \notin strayed
                 PROVE  c = d
      BY DEF OneActiveAgent
    <2>1. userdata[c] # None /\ userdata[d] # None
      BY ConnAssumption DEF SessionInv, Flow, Logon, Active
    <2>2. userdata[c] = userdata[d]
      BY <1>1, <2>1 DEF OneService
    <2>3. Claims(c) /\ Claims(d)
      BY DEF Active, Claims
    <2> QED BY <2>2, <2>3 DEF ClaimInv
  <1> QED BY <1>1, <1>2 DEF OneSession

(* One active agent and one userdata service for a player whose connections*)
(* share a gate: the lock of auth.lua keeps two calls of userdata.online   *)
(* apart, and each kicks the agent the service is online for before it     *)
(* takes the service over. Two gates share no such lock (auth.lua:146).     *)
THEOREM OneSessionEach ==
  ASSUME OneGateEach
  PROVE  Spec => []OneSession
  <1>1. Init => OneSessionInv
    <2>1. Init => OneLogin
      BY ConnAssumption DEF Init, OneLogin, HoldInv, ServiceInv, Holding
    <2>2. Init => ClaimInv
      BY DEF Init, ClaimInv, Displacing, Claims
    <2> QED BY <2>1, <2>2, InitSessionInv DEF OneSessionInv
  <1>2. OneSessionInv /\ [Next]_vars => OneSessionInv'
    <2>1. ASSUME OneSessionInv, UNCHANGED vars PROVE OneLogin' /\ ClaimInv'
      <3>1. OneLogin'
        BY <2>1 DEF OneSessionInv, vars, authVars, dataVars, OneLogin, HoldInv, ServiceInv
      <3>2. ClaimInv'
        BY <2>1, ClaimFrame DEF OneSessionInv, vars, agentVars, dataVars, Displacing, Claims
      <3> QED BY <3>1, <3>2
    <2>2. ASSUME OneSessionInv, Next PROVE OneLogin' /\ ClaimInv'
      <3>1. OneLogin'
        BY <2>2, HoldStep, ServiceInvStep DEF OneSessionInv, OneLogin
      <3>2. ClaimInv'
        BY <2>2, ClaimStep DEF OneSessionInv
      <3> QED BY <3>1, <3>2
    <2> QED BY <2>1, <2>2, NextSessionInv DEF OneSessionInv
  <1>3. OneSessionInv => OneSession
    BY OneSessionFollows DEF OneSessionInv
  <1> QED BY <1>1, <1>2, <1>3, PTL DEF Spec
=============================================================================
