------------------------------- MODULE Session -------------------------------
(***************************************************************************)
(* Login and logout of players: the gate and its auth service, the agent of*)
(* a connection, the login service's loginstatus, the usermanager's forward*)
(* and the online and offline handlers of userdata.                        *)
(*                                                                         *)
(* Every service is a skynet actor.  A handler runs until it calls, so each*)
(* call of do_auth, agent.start, agent.kick and userdata.online is a point *)
(* where handlers of the same service interleave.  A connection has at most*)
(* one login and one agent, so their coroutines are named by the           *)
(* connection.  Requests of one gate to the dbs node and to the login node *)
(* arrive in the order they were sent; replies and calls in the other      *)
(* direction are not ordered with them.                                    *)
(***************************************************************************)
EXTENDS Integers, Sequences, FiniteSets

CONSTANTS
  Conn,          \* connections that may be opened, each at most once
  Gate, User,    \* gate nodes and players
  GateOf(_),     \* the gate of a connection
  UserOf(_),     \* the player whose token the connection presents
  FdOf(_),       \* its socket number, unique within a gate only
  None,
  AddrOf(_),     \* the address of a gate's service, unique within its node only
  Fails          \* the calls that may fail: a subset of Failures

Failures == {"login", "forward", "load"}

ASSUME ConnAssumption ==
  /\ \A c \in Conn : GateOf(c) \in Gate /\ UserOf(c) \in User
  /\ \A c, d \in Conn : GateOf(c) = GateOf(d) /\ FdOf(c) = FdOf(d) => c = d
  /\ None \notin Conn /\ Fails \subseteq Failures

VARIABLES
  (* the gate: its connection table and the agents bound to it *)
  sock,       \* connection -> "none", "open", "closing", "closed"
  bound,      \* connection[fd].agent is set
  gateCnt,    \* gate -> user_cnt
  forwards,   \* agents whose `forward` is on its way to the gate
  (* the auth service *)
  unlogined,  \* connections without a login so far
  loginning,  \* gate -> player -> the connection that is logging in
  auth,       \* connection -> where its do_auth waits
  active,     \* gate -> active: the login service has been reached
  connecting, \* gates whose auth runs connect_to_login
  (* the agents *)
  agent,      \* connection -> the state of its agent
  kicks,      \* agents with a kick of the gate on its way
  (* the login service *)
  toLogin,    \* gate -> requests on their way to loginstatus
  onlineMap,  \* player -> the connection in user_map
  onlineCnt,  \* user_cnt
  squeezed,   \* connection -> the one its user_online is kicking
  (* the usermanager and the userdata services, each named by the          *)
  (* connection whose forward started it                                   *)
  toDbs,      \* gate -> requests of agents on their way to userdata
  userMap,    \* player -> userdata service in user_map
  userdata,   \* connection -> the userdata service its login was given
  online,     \* service -> online
  agaddr,     \* service -> agnode and agaddr
  haveData,   \* service -> _userdata is set
  logon,      \* connection -> where the userdata.online it called waits
  displaced,  \* connection -> the agent that userdata.online is kicking
  strayed     \* history: services put offline by an agent they no longer had

gateVars  == <<sock, bound, gateCnt, forwards>>
ready     == <<active, connecting>>
authVars  == <<unlogined, loginning, ready, auth, ready>>
agentVars == <<agent, kicks>>
loginVars == <<toLogin, onlineMap, onlineCnt, squeezed>>
dataVars  == <<toDbs, userMap, userdata, online, agaddr, haveData, logon, displaced, strayed>>
vars == <<gateVars, authVars, agentVars, loginVars, dataVars>>

AuthStates  == {"idle", "token", "register", "squeeze", "squeezing",
                "forward", "newservice", "start", "done"}
(* "online" and "forward" are the two calls of agent.start, "leaving" and  *)
(* "stopping" the two of agent.kick.                                       *)
AgentStates == {"none", "online", "forward", "up", "leaving", "stopping", "gone", "failed"}
LogonStates == {"none", "kick", "kicking", "load", "ok", "refused"}

ConnOrNone == Conn \cup {None}
Requests == [kind : {"online", "offline"}, conn : Conn]

TypeOK ==
  /\ sock \in [Conn -> {"none", "open", "closing", "closed"}]
  /\ bound \in [Conn -> BOOLEAN] /\ gateCnt \in [Gate -> Int]
  /\ forwards \subseteq Conn /\ unlogined \subseteq Conn /\ kicks \subseteq Conn
  /\ loginning \in [Gate -> [User -> ConnOrNone]]
  /\ active \in [Gate -> BOOLEAN] /\ connecting \subseteq Gate
  /\ auth \in [Conn -> AuthStates] /\ agent \in [Conn -> AgentStates]
  /\ toLogin \in [Gate -> Seq(Requests)] /\ toDbs \in [Gate -> Seq(Requests)]
  /\ onlineMap \in [User -> ConnOrNone] /\ onlineCnt \in Int
  /\ userMap \in [User -> ConnOrNone] /\ userdata \in [Conn -> ConnOrNone]
  /\ online \in [Conn -> BOOLEAN] /\ haveData \in [Conn -> BOOLEAN]
  /\ agaddr \in [Conn -> ConnOrNone] /\ logon \in [Conn -> LogonStates]
  /\ squeezed \in [Conn -> ConnOrNone] /\ displaced \in [Conn -> ConnOrNone]
  /\ strayed \subseteq Conn

Init ==
  /\ sock = [c \in Conn |-> "none"] /\ bound = [c \in Conn |-> FALSE]
  /\ gateCnt = [g \in Gate |-> 0] /\ forwards = {}
  /\ unlogined = {} /\ loginning = [g \in Gate |-> [u \in User |-> None]]
  /\ auth = [c \in Conn |-> "idle"]
  /\ active = [g \in Gate |-> TRUE] /\ connecting = {}
  /\ agent = [c \in Conn |-> "none"] /\ kicks = {}
  /\ toLogin = [g \in Gate |-> <<>>] /\ toDbs = [g \in Gate |-> <<>>]
  /\ onlineMap = [u \in User |-> None] /\ onlineCnt = 0
  /\ squeezed = [c \in Conn |-> None]
  /\ userMap = [u \in User |-> None] /\ userdata = [c \in Conn |-> None]
  /\ online = [c \in Conn |-> FALSE] /\ agaddr = [c \in Conn |-> None]
  /\ haveData = [c \in Conn |-> FALSE]
  /\ logon = [c \in Conn |-> "none"] /\ displaced = [c \in Conn |-> None]
  /\ strayed = {}

(* _active of an agent: from the reply of userdata.online to its kick. *)
Active(c) == agent[c] \in {"forward", "up"}

Send(chan, g, kind, c) ==
  [chan EXCEPT ![g] = Append(@, [kind |-> kind, conn |-> c])]

Receive(chan, g, kind, c) ==
  /\ chan[g] # <<>> /\ Head(chan[g]) = [kind |-> kind, conn |-> c]
  /\ chan' = [chan EXCEPT ![g] = Tail(@)]

(* gateserver.closeclient: the disconnect event follows later. *)
StopFd(c) == sock' = [sock EXCEPT ![c] = IF @ = "open" THEN "closing" ELSE @]

-----------------------------------------------------------------------------
(* The client, the gate and the auth service.                              *)

Connect(c) ==
  /\ sock[c] = "none"
  /\ sock' = [sock EXCEPT ![c] = "open"]
  /\ unlogined' = unlogined \cup {c}
  /\ UNCHANGED <<bound, gateCnt, forwards, loginning, auth, ready, agentVars, loginVars, dataVars>>

(* kick_unlogined_fd, five seconds after the connection was opened. *)
LoginTimeout(c) ==
  /\ c \in unlogined
  /\ StopFd(c)
  /\ unlogined' = unlogined \ {c}
  /\ UNCHANGED <<bound, gateCnt, forwards, loginning, auth, ready, agentVars, loginVars, dataVars>>

(* hall.reqLogin of a verified connection: do_auth up to its call of redis.*)
ReqLogin(c) ==
  /\ sock[c] = "open" /\ c \in unlogined /\ auth[c] = "idle"
  /\ unlogined' = unlogined \ {c}
  /\ auth' = [auth EXCEPT ![c] = "token"]
  /\ UNCHANGED <<gateVars, loginning, ready, agentVars, loginVars, dataVars>>

(* Mutant of TokenReply: no check of `loginning`. *)
TokenReplyUnlocked(c) ==
  LET g == GateOf(c) IN
  /\ auth[c] = "token"
  /\ loginning' = [loginning EXCEPT ![g][UserOf(c)] = c]
  /\ toLogin' = Send(toLogin, g, "online", c)
  /\ auth' = [auth EXCEPT ![c] = "register"]
  /\ UNCHANGED <<gateVars, unlogined, ready, agentVars, onlineMap, onlineCnt, squeezed, dataVars>>

(* The player behind the token is known.  A login of the same player that  *)
(* this auth service has under way refuses this one (104), so does a gate  *)
(* that is not active (101), a bad token and a failing redis (107, 108).   *)
TokenReply(c) ==
  LET g == GateOf(c)  u == UserOf(c) IN
  /\ auth[c] = "token"
  /\ \/ /\ loginning[g][u] = None /\ active[g]
        /\ loginning' = [loginning EXCEPT ![g][u] = c]
        /\ toLogin' = Send(toLogin, g, "online", c)
        /\ auth' = [auth EXCEPT ![c] = "register"]
        /\ UNCHANGED sock
     \/ /\ StopFd(c)
        /\ auth' = [auth EXCEPT ![c] = "done"]
        /\ UNCHANGED <<loginning, toLogin>>
  /\ UNCHANGED <<bound, gateCnt, forwards, unlogined, ready, agentVars,
                 onlineMap, onlineCnt, squeezed, dataVars>>

(* Mutant of EndAuth: a failed login keeps the lock. *)
EndAuthKeepsLock(c, ok) ==
  /\ auth' = [auth EXCEPT ![c] = "done"]
  /\ IF ok THEN loginning' = [loginning EXCEPT ![GateOf(c)][UserOf(c)] = None] /\ UNCHANGED sock
           ELSE StopFd(c) /\ UNCHANGED loginning

(* The end of do_auth: the lock is released, and a failed login is closed. *)
EndAuth(c, ok) ==
  /\ auth' = [auth EXCEPT ![c] = "done"]
  /\ loginning' = [loginning EXCEPT ![GateOf(c)][UserOf(c)] = None]
  /\ IF ok THEN UNCHANGED sock ELSE StopFd(c)

(* Mutant of Disconnect: the agent of the connection is not kicked. *)
DisconnectNoKick(c) ==
  /\ sock[c] \in {"open", "closing"}
  /\ sock' = [sock EXCEPT ![c] = "closed"]
  /\ bound' = [bound EXCEPT ![c] = FALSE]
  /\ toLogin' = IF bound[c] THEN Send(toLogin, GateOf(c), "offline", c) ELSE toLogin
  /\ UNCHANGED <<gateCnt, forwards, authVars, agentVars, onlineMap, onlineCnt, squeezed, dataVars>>

(* close_fd, on the disconnect event of a client that went away or of a    *)
(* stopped connection: its agent is kicked, and the watchdog reports the   *)
(* player, not the connection, to the login service as offline.            *)
Disconnect(c) ==
  /\ sock[c] \in {"open", "closing"}
  /\ sock' = [sock EXCEPT ![c] = "closed"]
  /\ bound' = [bound EXCEPT ![c] = FALSE]
  /\ IF bound[c]
     THEN /\ kicks' = kicks \cup {c}
          /\ toLogin' = Send(toLogin, GateOf(c), "offline", c)
     ELSE UNCHANGED <<kicks, toLogin>>
  /\ UNCHANGED <<gateCnt, forwards, authVars, agent, onlineMap, onlineCnt, squeezed, dataVars>>

-----------------------------------------------------------------------------
(* The login service.                                                      *)

SetOnlineMap(c, cnt) ==
  /\ onlineMap' = [onlineMap EXCEPT ![UserOf(c)] = c]
  /\ onlineCnt' = cnt
  /\ auth' = [auth EXCEPT ![c] = "forward"]

(* The connection of c's own gate that has the socket number of the player's *)
(* previous connection d: the one user_online asks that gate to kick.        *)
SameFd(c, d) == {e \in Conn : GateOf(e) = GateOf(c) /\ FdOf(e) = FdOf(d)}

(* One of node, gate address and socket number is the same. *)
Spared(d, c) ==
  \/ GateOf(d) = GateOf(c)
  \/ AddrOf(GateOf(d)) = AddrOf(GateOf(c))
  \/ FdOf(d) = FdOf(c)

(* loginstatus.user_online.  A previous entry is kicked only when node,    *)
(* gate and socket number all differ, and the kick goes to the node of the *)
(* new login.                                                              *)
UserOnline(c) ==
  LET d == onlineMap[UserOf(c)] IN
  /\ Receive(toLogin, GateOf(c), "online", c)
  /\ \/ /\ d = None
        /\ SetOnlineMap(c, onlineCnt + 1) /\ UNCHANGED squeezed
     \/ /\ d # None /\ Spared(d, c)
        /\ SetOnlineMap(c, onlineCnt) /\ UNCHANGED squeezed
     \/ /\ d # None /\ ~Spared(d, c)
        /\ squeezed' = [squeezed EXCEPT ![c] = d]
        /\ auth' = [auth EXCEPT ![c] = "squeeze"]
        /\ UNCHANGED <<onlineMap, onlineCnt>>
  /\ UNCHANGED <<gateVars, unlogined, loginning, ready, agentVars, dataVars>>

Victims(c) == {e \in SameFd(c, squeezed[c]) : sock[e] \in {"open", "closing"}}

(* The gate of the new login handles CMD.kick of the old socket number: an *)
(* agent is kicked with reason 1, a connection without one is closed.      *)
Squeeze(c) ==
  /\ auth[c] = "squeeze"
  /\ auth' = [auth EXCEPT ![c] = "squeezing"]
  /\ kicks' = kicks \cup {e \in Victims(c) : bound[e]}
  /\ sock' = [e \in Conn |-> IF e \in Victims(c) /\ ~bound[e] THEN "closing" ELSE sock[e]]
  /\ UNCHANGED <<bound, gateCnt, forwards, unlogined, loginning, ready, agent, loginVars, dataVars>>

(* The kick has been answered; user_online resumes and counts the player   *)
(* again.                                                                  *)
SqueezeDone(c) ==
  /\ auth[c] = "squeezing"
  /\ \A e \in SameFd(c, squeezed[c]) : e \notin kicks /\ agent[e] \notin {"leaving", "stopping"}
  /\ SetOnlineMap(c, onlineCnt + 1)
  /\ UNCHANGED <<gateVars, unlogined, loginning, ready, agentVars, toLogin, squeezed, dataVars>>

(* The call of user_online fails without reaching the login service: the   *)
(* gate is not active until connect_to_login has found the service again.  *)
LoginLost(c) ==
  LET g == GateOf(c) IN
  /\ "login" \in Fails /\ Receive(toLogin, g, "online", c)
  /\ active' = [active EXCEPT ![g] = FALSE]
  /\ connecting' = connecting \cup {g}
  /\ EndAuth(c, FALSE)
  /\ UNCHANGED <<bound, gateCnt, forwards, unlogined, agentVars, onlineMap, onlineCnt,
                 squeezed, dataVars>>

(* The watchdog's call of user_offline fails: here nobody reconnects. *)
OfflineLost(c) ==
  LET g == GateOf(c) IN
  /\ "login" \in Fails /\ Receive(toLogin, g, "offline", c)
  /\ active' = [active EXCEPT ![g] = FALSE]
  /\ UNCHANGED <<gateVars, unlogined, loginning, auth, connecting, agentVars, onlineMap,
                 onlineCnt, squeezed, dataVars>>

ConnectToLogin(g) ==
  /\ g \in connecting
  /\ connecting' = connecting \ {g}
  /\ active' = [active EXCEPT ![g] = TRUE]
  /\ UNCHANGED <<gateVars, unlogined, loginning, auth, agentVars, loginVars, dataVars>>

(* Mutant of UserOffline: the player is not looked up first. *)
UserOfflineUnchecked(c) ==
  /\ Receive(toLogin, GateOf(c), "offline", c)
  /\ onlineCnt' = onlineCnt - 1
  /\ onlineMap' = [onlineMap EXCEPT ![UserOf(c)] = None]
  /\ UNCHANGED <<gateVars, authVars, agentVars, squeezed, dataVars>>

(* loginstatus.user_offline, of whichever connection. *)
UserOffline(c) ==
  LET u == UserOf(c) IN
  /\ Receive(toLogin, GateOf(c), "offline", c)
  /\ onlineCnt' = IF onlineMap[u] = None THEN onlineCnt ELSE onlineCnt - 1
  /\ onlineMap' = [onlineMap EXCEPT ![u] = None]
  /\ UNCHANGED <<gateVars, authVars, agentVars, squeezed, dataVars>>

-----------------------------------------------------------------------------
(* The usermanager.                                                        *)

(* The rest of do_auth with a userdata service s: an agent is started. *)
StartAgent(c, s) ==
  /\ userdata' = [userdata EXCEPT ![c] = s]
  /\ auth' = [auth EXCEPT ![c] = "start"]
  /\ agent' = [agent EXCEPT ![c] = "online"]
  /\ toDbs' = Send(toDbs, GateOf(c), "online", c)

Forward(c) ==
  LET s == userMap[UserOf(c)] IN
  /\ auth[c] = "forward"
  /\ \/ s # None /\ StartAgent(c, s)
     \/ /\ s = None /\ auth' = [auth EXCEPT ![c] = "newservice"]
        /\ UNCHANGED <<userdata, agent, toDbs>>
  /\ UNCHANGED <<gateVars, unlogined, loginning, ready, kicks, loginVars, userMap, online,
                 agaddr, haveData, logon, displaced, strayed>>

(* get_userdata fails. *)
ForwardFails(c) ==
  /\ "forward" \in Fails /\ auth[c] = "forward"
  /\ EndAuth(c, FALSE)
  /\ UNCHANGED <<bound, gateCnt, forwards, unlogined, ready, agentVars, loginVars, dataVars>>

(* forward resumes after newservice and start: its own service replaces    *)
(* whatever the map holds by now.                                          *)
ForwardNew(c) ==
  /\ auth[c] = "newservice"
  /\ userMap' = [userMap EXCEPT ![UserOf(c)] = c]
  /\ StartAgent(c, c)
  /\ UNCHANGED <<gateVars, unlogined, loginning, ready, kicks, loginVars, online, agaddr,
                 haveData, logon, displaced, strayed>>

-----------------------------------------------------------------------------
(* The userdata service.                                                   *)

(* Mutant of SetOnline: the address of the first agent is kept. *)
SetOnlineKeepsAgent(c) ==
  LET s == userdata[c] IN
  /\ online' = [online EXCEPT ![s] = TRUE]
  /\ agaddr' = [agaddr EXCEPT ![s] = IF @ = None THEN c ELSE @]
  /\ logon' = [logon EXCEPT ![c] = IF haveData[s] THEN "ok" ELSE "load"]

SetOnline(c) ==
  LET s == userdata[c] IN
  /\ online' = [online EXCEPT ![s] = TRUE]
  /\ agaddr' = [agaddr EXCEPT ![s] = c]
  /\ logon' = [logon EXCEPT ![c] = IF haveData[s] THEN "ok" ELSE "load"]

(* CMD.online: the agent of a service that is online is kicked first. *)
DataOnline(c) ==
  LET s == userdata[c] IN
  /\ Receive(toDbs, GateOf(c), "online", c)
  /\ IF online[s] /\ agaddr[s] # None
     THEN /\ logon' = [logon EXCEPT ![c] = "kick"]
          /\ displaced' = [displaced EXCEPT ![c] = agaddr[s]]
          /\ UNCHANGED <<online, agaddr>>
     ELSE SetOnline(c) /\ UNCHANGED displaced
  /\ UNCHANGED <<gateVars, authVars, agentVars, loginVars, userMap, userdata, haveData, strayed>>

(* The displaced agent handles kick(7): without _active it returns at once,*)
(* otherwise it stops without telling userdata.                            *)
KickDisplaced(c) ==
  LET d == displaced[c] IN
  /\ logon[c] = "kick"
  /\ IF Active(d)
     THEN /\ agent' = [agent EXCEPT ![d] = "stopping"]
          /\ logon' = [logon EXCEPT ![c] = "kicking"]
          /\ UNCHANGED <<online, agaddr>>
     ELSE SetOnline(c) /\ UNCHANGED agent
  /\ UNCHANGED <<gateVars, authVars, kicks, loginVars, toDbs, userMap, userdata,
                 haveData, displaced, strayed>>

(* The displaced agent has exited, and CMD.online goes on. *)
DisplacedGone(c) ==
  /\ logon[c] = "kicking" /\ agent[displaced[c]] = "gone"
  /\ SetOnline(c)
  /\ UNCHANGED <<gateVars, authVars, agentVars, loginVars, toDbs, userMap, userdata,
                 haveData, displaced, strayed>>

(* load_userdata returns. *)
Loaded(c, ok) ==
  /\ logon[c] = "load" /\ (ok \/ "load" \in Fails)
  /\ logon' = [logon EXCEPT ![c] = IF ok THEN "ok" ELSE "refused"]
  /\ haveData' = [haveData EXCEPT ![userdata[c]] = @ \/ ok]
  /\ UNCHANGED <<gateVars, authVars, agentVars, loginVars, toDbs, userMap, userdata,
                 online, agaddr, displaced, strayed>>

(* CMD.offline, of whichever agent. *)
DataOffline(c) ==
  LET s == userdata[c] IN
  /\ Receive(toDbs, GateOf(c), "offline", c)
  /\ online' = [online EXCEPT ![s] = FALSE]
  /\ strayed' = IF agaddr[s] = c THEN strayed ELSE strayed \cup {s}
  /\ agent' = [agent EXCEPT ![c] = "stopping"]
  /\ UNCHANGED <<gateVars, authVars, kicks, loginVars, userMap, userdata, agaddr,
                 haveData, logon, displaced>>

-----------------------------------------------------------------------------
(* The agent and the gate.                                                 *)

(* The reply of userdata.online.  Refused, the agent stays without a       *)
(* purpose and do_auth fails with 199.                                     *)
OnlineReply(c) ==
  /\ agent[c] = "online" /\ logon[c] \in {"ok", "refused"}
  /\ IF logon[c] = "ok"
     THEN /\ agent' = [agent EXCEPT ![c] = "forward"]
          /\ forwards' = forwards \cup {c}
          /\ UNCHANGED <<auth, loginning, sock>>
     ELSE /\ agent' = [agent EXCEPT ![c] = "failed"]
          /\ EndAuth(c, FALSE) /\ UNCHANGED forwards
  /\ UNCHANGED <<bound, gateCnt, unlogined, ready, kicks, loginVars, dataVars>>

(* Mutant of GateForward: no kick when the connection is gone. *)
GateForwardNoKick(c) ==
  /\ c \in forwards
  /\ forwards' = forwards \ {c}
  /\ gateCnt' = [gateCnt EXCEPT ![GateOf(c)] = @ + 1]
  /\ bound' = [bound EXCEPT ![c] = sock[c] # "closed"]
  /\ agent' = [agent EXCEPT ![c] = IF @ = "forward" THEN "up" ELSE @]
  /\ EndAuth(c, TRUE)
  /\ UNCHANGED <<unlogined, ready, kicks, loginVars, dataVars>>

(* The gate's CMD.forward: it counts the player before it looks for the    *)
(* connection, and kicks the agent when there is none.  The reply ends     *)
(* agent.start and do_auth, even of an agent that is being kicked.         *)
GateForward(c) ==
  /\ c \in forwards
  /\ forwards' = forwards \ {c}
  /\ gateCnt' = [gateCnt EXCEPT ![GateOf(c)] = @ + 1]
  /\ IF sock[c] = "closed"
     THEN kicks' = kicks \cup {c} /\ UNCHANGED bound
     ELSE bound' = [bound EXCEPT ![c] = TRUE] /\ UNCHANGED kicks
  /\ agent' = [agent EXCEPT ![c] = IF @ = "forward" THEN "up" ELSE @]
  /\ EndAuth(c, TRUE)
  /\ UNCHANGED <<unlogined, ready, loginVars, dataVars>>

(* CMD.kick of an agent for any reason but 7: it is no longer active and   *)
(* tells userdata.                                                         *)
Leave(c) ==
  /\ agent' = [agent EXCEPT ![c] = "leaving"]
  /\ toDbs' = Send(toDbs, GateOf(c), "offline", c)

AgentKick(c) ==
  /\ c \in kicks
  /\ kicks' = kicks \ {c}
  /\ IF Active(c) THEN Leave(c) ELSE UNCHANGED <<agent, toDbs>>
  /\ UNCHANGED <<gateVars, authVars, loginVars, userMap, userdata, online, agaddr,
                 haveData, logon, displaced, strayed>>

(* start_heart of a started agent: eight rounds without a message. *)
HeartTimeout(c) ==
  /\ agent[c] = "up" /\ Leave(c)
  /\ UNCHANGED <<gateVars, authVars, kicks, loginVars, userMap, userdata, online,
                 agaddr, haveData, logon, displaced, strayed>>

(* The gate's agent_stop, after an earlier forward of the same agent, and  *)
(* the exit of the agent.                                                  *)
AgentStop(c) ==
  /\ agent[c] = "stopping" /\ c \notin forwards
  /\ agent' = [agent EXCEPT ![c] = "gone"]
  /\ gateCnt' = [gateCnt EXCEPT ![GateOf(c)] = @ - 1]
  /\ StopFd(c)
  /\ UNCHANGED <<bound, forwards, authVars, kicks, loginVars, dataVars>>

-----------------------------------------------------------------------------

Client == \E c \in Conn : Connect(c) \/ ReqLogin(c) \/ HeartTimeout(c)

Service(c) ==
  \/ TokenReply(c) \/ LoginTimeout(c)
  \/ UserOnline(c) \/ Squeeze(c) \/ SqueezeDone(c) \/ UserOffline(c)
  \/ Forward(c) \/ ForwardNew(c)
  \/ DataOnline(c) \/ KickDisplaced(c) \/ DisplacedGone(c) \/ DataOffline(c)
  \/ OnlineReply(c) \/ GateForward(c) \/ AgentKick(c) \/ AgentStop(c)
  \/ LoginLost(c) \/ OfflineLost(c) \/ ForwardFails(c)
  \/ \E ok \in BOOLEAN : Loaded(c, ok)

Next == Client \/ (\E c \in Conn : Disconnect(c) \/ Service(c)) \/ \E g \in Gate : ConnectToLogin(g)

Spec == Init /\ [][Next]_vars

(* Every service handles the messages it has and resumes on every reply;   *)
(* a stopped socket gets its disconnect event.  Clients promise nothing.   *)
FairSpec ==
  /\ Spec
  /\ \A c \in Conn : WF_vars(Service(c)) /\ WF_vars(sock[c] = "closing" /\ Disconnect(c))
  /\ \A g \in Gate : WF_vars(ConnectToLogin(g))

-----------------------------------------------------------------------------
(* Properties.                                                             *)

(* A player has one active agent, and two logins never get two userdata    *)
(* services.  The lock `loginning` of the auth service and the kick(7) of  *)
(* userdata.online keep two logins apart; neither does across two gates    *)
(* (auth.lua:146).                                                         *)
OneActiveAgent ==
  \A c, d \in Conn :
    /\ UserOf(c) = UserOf(d) /\ Active(c) /\ Active(d)
    /\ userdata[c] \notin strayed
    => c = d
OneService ==
  \A c, d \in Conn : UserOf(c) = UserOf(d) /\ userdata[c] # None /\ userdata[d] # None
                      => userdata[c] = userdata[d]
OneSession == OneActiveAgent /\ OneService

(* userdata is online for an agent that is starting, running, refused or   *)
(* about to say it leaves, or for one that a login is displacing: no       *)
(* interleaving of kicks leaves it online for an agent that is gone.       *)
Takeover(c) == \E d \in Conn : displaced[d] = c /\ logon[d] \in {"kick", "kicking"}
NoGhostOnline ==
  \A s \in Conn : online[s] =>
    \/ agent[agaddr[s]] \in {"online", "forward", "up", "leaving", "failed"}
    \/ Takeover(agaddr[s])

(* The gate's user_cnt, which loginstatus balances load by, is the number  *)
(* of agents it forwards to once their messages have been handled, and     *)
(* loginstatus counts the players of its user_map.                         *)
Forwarded(c) == c \notin forwards /\ agent[c] \in {"up", "leaving", "stopping"}
GateCountExact ==
  \A g \in Gate : gateCnt[g] = Cardinality({c \in Conn : GateOf(c) = g /\ Forwarded(c)})
OnlineCountExact ==
  onlineCnt = Cardinality({u \in User : onlineMap[u] # None})
CountersExact == GateCountExact /\ OnlineCountExact

(* The lock of a player is held by a login that is still under way: no way *)
(* out of do_auth keeps it.                                                *)
LockHasOwner ==
  \A g \in Gate, u \in User :
    loginning[g][u] # None =>
      auth[loginning[g][u]] \in {"register", "squeeze", "squeezing", "forward", "newservice", "start"}

(* The agent of a connection that is closed ends, and with it its claim on *)
(* the player, wherever in the login the connection was lost.              *)
AgentEnds ==
  \A c \in Conn : sock[c] = "closed" ~> agent[c] \in {"none", "gone"} /\ auth[c] \in {"idle", "done"}

(* A player all of whose connections are closed goes offline for good. *)
GoesOffline ==
  (<>[](\A c \in Conn : sock[c] \in {"none", "closed"})) => <>[](\A s \in Conn : ~online[s])

(* A lost connection leaves nothing behind, at the gate or in userdata.    *)
NothingLeft == AgentEnds /\ GoesOffline

(* loginstatus.lua:17: a second login of a player squeezes out the first.  *)
(* Stated of a state in which nothing is under way any more.               *)
Settled ==
  /\ \A c \in Conn : /\ auth[c] \in {"idle", "done"} /\ agent[c] \in {"none", "up", "gone"}
                      /\ sock[c] # "closing"
  /\ kicks = {} /\ forwards = {}
  /\ \A g \in Gate : toLogin[g] = <<>> /\ toDbs[g] = <<>>
DuplicateLoginEndsPrevious ==
  Settled => OneActiveAgent
=============================================================================
