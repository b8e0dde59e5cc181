------------------------------ MODULE Transport ------------------------------
(***************************************************************************)
(* The Transport Channel of WhotGameClient (src/web/js/game.js): the      *)
(* WebSocket held in this.ws, the handlers connect() installs on it, and   *)
(* the 5-second reconnect timer that onclose schedules.                    *)
(*                                                                         *)
(* Every socket ever created is an entry of the sequence sock, in creation *)
(* order; ws is the index of the one this.ws currently refers to.  A       *)
(* socket's handlers stay installed after this.ws moves on, so an old     *)
(* socket that closes still schedules a reconnect.  Timers are counted,   *)
(* not named: every pending setTimeout callback does the same thing.      *)
(***************************************************************************)
EXTENDS Naturals, Sequences

CONSTANTS
  None,            \* null: this.ws before the first connect()
  MaxConnectCalls, \* bound: calls of connect() made by the page itself
  MaxDrops         \* bound: sockets the network or server closes

ASSUME MaxConnectCalls \in Nat /\ MaxDrops \in Nat

VARIABLES
  sock,         \* sock[i]: readyState of the i-th WebSocket created
  ws,           \* index of the socket this.ws holds, or None
  timers,       \* reconnect callbacks scheduled by onclose, not yet run
  connectCalls, \* connect() calls made from outside the class so far
  drops         \* closes delivered so far

transportVars == <<sock, ws, timers, connectCalls, drops>>

SocketStates == {"CONNECTING", "OPEN", "CLOSED"}

TransportTypeOK ==
  /\ sock \in Seq(SocketStates)
  /\ ws \in (DOMAIN sock) \cup {None}
  /\ timers \in Nat
  /\ connectCalls \in 0..MaxConnectCalls
  /\ drops \in 0..MaxDrops

(* sendMessage / sendJoinGameMessage: transmit only on an OPEN this.ws.    *)
IsOpen == ws # None /\ sock[ws] = "OPEN"

TransportInit ==
  /\ sock = <<>>
  /\ ws = None
  /\ timers = 0
  /\ connectCalls = 0
  /\ drops = 0

(* connect(): a new WebSocket replaces this.ws unconditionally; the old   *)
(* one is neither closed nor detached.                                     *)
NewSocket ==
  /\ sock' = Append(sock, "CONNECTING")
  /\ ws' = Len(sock) + 1

(* connect() called by the page (the client is exposed as               *)
(* window.whotClient; this file never calls connect() itself).            *)
Connect ==
  /\ connectCalls < MaxConnectCalls
  /\ NewSocket
  /\ connectCalls' = connectCalls + 1
  /\ UNCHANGED <<timers, drops>>

(* The setTimeout callback of onclose runs: this.connect().               *)
ReconnectTimer ==
  /\ timers > 0
  /\ timers' = timers - 1
  /\ NewSocket
  /\ UNCHANGED <<connectCalls, drops>>

(* onopen of socket s (its loadGameList() is added by WhotClient).        *)
SocketOpen(s) ==
  /\ sock[s] = "CONNECTING"
  /\ sock' = [sock EXCEPT ![s] = "OPEN"]
  /\ UNCHANGED <<ws, timers, connectCalls, drops>>

(* Mutant: onclose forgets to schedule the reconnect.                     *)
SocketCloseNoReconnect(s) ==
  /\ sock[s] \in {"CONNECTING", "OPEN"}
  /\ drops < MaxDrops
  /\ sock' = [sock EXCEPT ![s] = "CLOSED"]
  /\ drops' = drops + 1
  /\ UNCHANGED <<ws, timers, connectCalls>>

(* onclose of socket s, after a failed handshake (onerror only logs) or a *)
(* drop of an open connection: schedule one reconnect, whether or not s   *)
(* is still this.ws.                                                      *)
SocketClose(s) ==
  /\ sock[s] \in {"CONNECTING", "OPEN"}
  /\ drops < MaxDrops
  /\ sock' = [sock EXCEPT ![s] = "CLOSED"]
  /\ timers' = timers + 1
  /\ drops' = drops + 1
  /\ UNCHANGED <<ws, connectCalls>>

TransportNext ==
  \/ Connect
  \/ ReconnectTimer
  \/ \E s \in DOMAIN sock : SocketOpen(s) \/ SocketClose(s)

(* A pending setTimeout callback runs once the 5 s have elapsed.          *)
TransportSpec ==
  TransportInit /\ [][TransportNext]_transportVars
  /\ WF_transportVars(ReconnectTimer)

-----------------------------------------------------------------------------
(* Every socket that is not closed is this.ws: no earlier socket is left  *)
(* open behind it, still delivering messages to handleMessage (spec 4.1:  *)
(* connect() is idempotent while connecting or open).                     *)
SingleLiveSocket ==
  \A s \in DOMAIN sock : sock[s] # "CLOSED" => s = ws

(* After this.ws closes, the client eventually holds a socket that is     *)
(* connecting or open again: reconnect is unconditional and unbounded.    *)
ReconnectsAfterClose ==
  (ws # None /\ sock[ws] = "CLOSED") ~> (ws # None /\ sock[ws] # "CLOSED")

=============================================================================
