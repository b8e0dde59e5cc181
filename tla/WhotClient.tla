----------------------------- MODULE WhotClient -----------------------------
(***************************************************************************)
(* WhotGameClient (src/web/js/game.js) as a whole: the Transport of       *)
(* module Transport, the session binding (gameId, gameCode), the single   *)
(* game-state snapshot, the pending Whot (wild) choice, the HTTP requests *)
(* in flight, and the parts of the page whose state decides which user    *)
(* gestures are possible (active screens, enabled buttons, the suit       *)
(* picker, the error toast).                                              *)
(*                                                                         *)
(* Every handler runs to completion (one JS event-loop task), so each     *)
(* handler is one action.  The server is the environment: it answers      *)
(* HTTP requests in any order and pushes messages on any open socket.     *)
(*                                                                         *)
(* Data abstraction.  A snapshot keeps what the client reads from it:     *)
(* the game it belongs to, its phase, the local player's hand (a sequence *)
(* of card values, 1-based where the code is 0-based), whether it carries *)
(* a gameCode, and whether it names the local player as creator.  A card  *)
(* value is "Whot" (the number 20), "WhotStr" (the string "20") or        *)
(* "Plain" (any other value).  playerId is always assigned together with  *)
(* gameId from one response and is not modelled separately.               *)
(***************************************************************************)
EXTENDS Transport, FiniteSets

CONSTANTS
  Games,       \* game ids the server hands out (model values)
  Hands,       \* hands the server may send for the local player
  MaxRequests, \* bound: HTTP requests (fetch) issued
  MaxInbound,  \* bound: messages the server pushes
  MaxSends     \* bound: messages the client transmits

ASSUME Games # {} /\ Hands # {}

VARIABLES
  gameId,      \* this.gameId
  gameCode,    \* this.gameCode: the game whose code it holds, or None
  gameState,   \* this.gameState: a snapshot, or None (null / undefined)
  pending,     \* this.pendingWhotCardIndex: an index, or None
  modal,       \* the suit picker is displayed
  active,      \* screens whose element has class "active"
  inProgressUI,\* draw-card and declare-last buttons enabled
  startShown,  \* start-game-area displayed
  codeShown,   \* the game whose code game-code-area displays, or None
  listed,      \* joinable games in the rendered game list
  toast,       \* error-message displayed
  toastTimer,  \* the 4 s hide timer of the toast is pending
  reqs,        \* reqs[k]: fetches of kind k awaiting their response
  reqCount,    \* fetches issued so far
  joined,      \* <<s, g>>: JOIN_GAME for g was transmitted on socket s
  lastMsg,     \* the last message transmitted
  sends,       \* messages transmitted so far
  inbound,     \* server messages delivered so far
  ended        \* history: game over shown since the last create/join

sessionVars == <<gameId, gameCode>>
storeVars   == <<gameState, pending, modal>>
screenVars  == <<active, inProgressUI, startShown, codeShown, listed>>
toastVars   == <<toast, toastTimer>>
fetchVars   == <<reqs, reqCount>>
outVars     == <<joined, lastMsg, sends>>
clientVars  == <<sessionVars, storeVars, screenVars, toastVars, fetchVars,
                 outVars, inbound, ended>>
vars == <<transportVars, clientVars>>

Phases == {0, 2, 3, 4}  \* LOBBY, IN_PROGRESS, ROUND_ENDED, GAME_ENDED
Screens == {"lobby", "game", "over"}
CardValues == {"Whot", "WhotStr", "Plain"}
\* What renderGame and playCard read of a snapshot.  gameCode is sent only
\* before the start (spec 3) and the creator is only read in LOBBY, so they
\* are fixed to FALSE elsewhere; hands are dealt at the start and only read
\* in IN_PROGRESS and ROUND_ENDED.
Snapshots ==
  [game : Games, phase : {0}, hand : {<<>>},
   hasCode : BOOLEAN, creator : BOOLEAN]
  \cup [game : Games, phase : {2, 3}, hand : Hands,
         hasCode : {FALSE}, creator : {FALSE}]
  \cup [game : Games, phase : {4}, hand : {<<>>},
         hasCode : {FALSE}, creator : {FALSE}]
\* "create", "code" (join by code), "list" (game list), or a game id g for
\* joinGameFromList(g).
ReqKinds == {"create", "code", "list"} \cup Games
MaxHandLen == 2
Indices == 1..MaxHandLen
\* Outbound kinds: JOIN_GAME, PLAY_CARD, DRAW_CARD, DECLARE_LAST_CARD,
\* START_GAME.
OutKinds == {100, 102, 103, 104, 109}
Messages ==
  [type : OutKinds, game : Games \cup {None},
   idx : Indices \cup {None}, suit : BOOLEAN]

TypeOK ==
  /\ TransportTypeOK
  /\ gameId \in Games \cup {None}
  /\ gameCode \in Games \cup {None}
  /\ gameState \in Snapshots \cup {None}
  /\ pending \in Indices \cup {None}
  /\ modal \in BOOLEAN
  /\ active \subseteq Screens
  /\ inProgressUI \in BOOLEAN
  /\ startShown \in BOOLEAN
  /\ codeShown \in Games \cup {None}
  /\ listed \subseteq Games
  /\ toast \in BOOLEAN /\ toastTimer \in BOOLEAN
  /\ reqs \in [ReqKinds -> Nat]
  /\ reqCount \in Nat
  /\ joined \subseteq ((DOMAIN sock) \X Games)
  /\ lastMsg \in Messages \cup {None}
  /\ sends \in Nat
  /\ inbound \in 0..MaxInbound
  /\ ended \in BOOLEAN

Init ==
  /\ TransportInit
  /\ gameId = None /\ gameCode = None /\ gameState = None
  /\ pending = None /\ modal = FALSE
  /\ active = {"lobby"}
  /\ inProgressUI = FALSE /\ startShown = FALSE /\ codeShown = None
  /\ listed = {}
  /\ toast = FALSE /\ toastTimer = FALSE
  /\ reqs = [k \in ReqKinds |-> 0] /\ reqCount = 0
  /\ joined = {} /\ lastMsg = None /\ sends = 0 /\ inbound = 0
  /\ ended = FALSE

-----------------------------------------------------------------------------
(* Helpers: the calls the handlers make.                                  *)

\* playCard: cardValue === 20 || cardValue === '20'
IsWhot(v) == v \in {"Whot", "WhotStr"}

\* Mutant: sendMessage without its readyState check.
TransmitUngated(type, idx, suit) ==
  /\ lastMsg' = [type |-> type, game |-> gameId, idx |-> idx, suit |-> suit]
  /\ sends' = sends + 1

\* sendMessage(type, payload): transmitted only while this.ws is OPEN,
\* otherwise silently dropped.  The envelope carries this.gameId.
Transmit(type, idx, suit) ==
  \/ /\ IsOpen
     /\ lastMsg' = [type |-> type, game |-> gameId, idx |-> idx, suit |-> suit]
     /\ sends' = sends + 1
  \/ /\ ~IsOpen
     /\ UNCHANGED <<lastMsg, sends>>

\* sendJoinGameMessage(), called right after this.gameId = g: returns early
\* unless this.ws is OPEN; never retried.
SendJoinGameMessage(g) ==
  \/ /\ IsOpen
     /\ lastMsg' = [type |-> 100, game |-> g, idx |-> None, suit |-> FALSE]
     /\ sends' = sends + 1
     /\ joined' = joined \cup {<<ws, g>>}
  \/ /\ ~IsOpen
     /\ UNCHANGED <<lastMsg, sends, joined>>

\* apiJson(...): one more fetch in flight.
Fetch(k) == reqs' = [reqs EXCEPT ![k] = @ + 1]

\* A fetch started by a user gesture, counted against MaxRequests.
UserFetch(k) ==
  /\ reqCount < MaxRequests
  /\ Fetch(k)
  /\ reqCount' = reqCount + 1

\* The fetch of kind k settles (resolves or rejects).
Settle(k) ==
  /\ reqs[k] > 0
  /\ reqs' = [reqs EXCEPT ![k] = @ - 1]

\* showErrorToast(text): display, clearTimeout the old hide timer, set a new one.
ShowErrorToast ==
  /\ toast' = TRUE
  /\ toastTimer' = TRUE

\* showGameScreen(): lobby loses "active", game-screen gains it.
ShowGameScreen == active' = (active \ {"lobby"}) \cup {"game"}

\* showGameOver(): game-screen loses "active", game-over gains it.
ShowGameOver ==
  /\ active' = (active \ {"game"}) \cup {"over"}
  /\ ended' = TRUE

\* The code game-code-area shows: gameState.gameCode || this.gameCode, in LOBBY.
CodeToShow(st) ==
  IF st # None /\ st.phase = 0
  THEN IF st.hasCode THEN st.game ELSE gameCode
  ELSE None

\* renderGame() after this.gameState = st.  In GAME_ENDED it only shows the
\* game-over screen and returns before touching the controls.
IsGameEnded(st) == st # None /\ st.phase = 4

RenderGame(st) ==
  \/ /\ IsGameEnded(st)
     /\ ShowGameOver
     /\ UNCHANGED <<codeShown, startShown, inProgressUI>>
  \/ /\ ~IsGameEnded(st)
     /\ codeShown' = CodeToShow(st)
     /\ startShown' = (st # None /\ st.phase = 0 /\ st.creator)
     /\ inProgressUI' = (st # None /\ st.phase = 2)
     /\ UNCHANGED <<active, ended>>

\* The .then of a successful create or join: bind, join, show the game.
BindSession(g) ==
  /\ gameId' = g
  /\ SendJoinGameMessage(g)
  /\ ShowGameScreen
  /\ ended' = FALSE

-----------------------------------------------------------------------------
(* Connection lifecycle: the Transport actions with their client effects. *)

Connected == Connect /\ UNCHANGED clientVars
Reconnect == ReconnectTimer /\ UNCHANGED clientVars
Closed(s) == SocketClose(s) /\ UNCHANGED clientVars

\* onopen: loadGameList().
Opened(s) ==
  /\ SocketOpen(s)
  /\ Fetch("list")
  /\ UNCHANGED <<sessionVars, storeVars, screenVars, toastVars, outVars,
                 reqCount, inbound, ended>>

-----------------------------------------------------------------------------
(* User gestures.  Each needs its element on an active screen; each that  *)
(* fetches or sends is counted against MaxRequests or MaxSends.           *)

\* onEnterLobby(): loadGameList(), a user-driven fetch.
OnEnterLobby == UserFetch("list")

\* The page's load handler (welcome already hidden), or the welcome screen:
\* onEnterLobby().
EnterLobby ==
  /\ OnEnterLobby
  /\ UNCHANGED <<transportVars, sessionVars, storeVars, screenVars, toastVars,
                 outVars, inbound, ended>>

\* createGame(): POST /api/games.
CreateGame ==
  /\ "lobby" \in active
  /\ UserFetch("create")
  /\ UNCHANGED <<transportVars, sessionVars, storeVars, screenVars, toastVars,
                 outVars, inbound, ended>>

\* joinByCode(): an empty code only raises a toast; otherwise POST
\* /api/games/join.
JoinByCode ==
  /\ "lobby" \in active
  /\ \/ /\ ShowErrorToast
        /\ UNCHANGED <<reqs, reqCount>>
     \/ /\ UserFetch("code")
        /\ UNCHANGED <<toast, toastTimer>>
  /\ UNCHANGED <<transportVars, sessionVars, storeVars, screenVars, outVars,
                 inbound, ended>>

\* The Join button of a joinable game g in the list: joinGameFromList(g).
JoinGameFromList(g) ==
  /\ "lobby" \in active
  /\ g \in listed
  /\ UserFetch(g)
  /\ UNCHANGED <<transportVars, sessionVars, storeVars, screenVars, toastVars,
                 outVars, inbound, ended>>

\* startGame(): START_GAME, from the start-game area.
StartGame ==
  /\ "game" \in active /\ startShown
  /\ sends < MaxSends
  /\ Transmit(109, None, FALSE)
  /\ UNCHANGED <<transportVars, sessionVars, storeVars, screenVars, toastVars,
                 fetchVars, joined, inbound, ended>>

\* drawCard() / declareLast(): DRAW_CARD / DECLARE_LAST_CARD from their
\* buttons, which renderGame enables only in IN_PROGRESS.
DrawOrDeclare(type) ==
  /\ "game" \in active /\ inProgressUI
  /\ sends < MaxSends
  /\ Transmit(type, None, FALSE)
  /\ UNCHANGED <<transportVars, sessionVars, storeVars, screenVars, toastVars,
                 fetchVars, joined, inbound, ended>>

\* Mutant: the staged index is off by one (showSuitPicker(cardIndex - 1)).
PlayCardIndexOffByOne(i) ==
  /\ "game" \in active
  /\ sends < MaxSends
  /\ gameState # None /\ gameState.phase = 2
  /\ i \in DOMAIN gameState.hand
  /\ \/ /\ IsWhot(gameState.hand[i])
        /\ pending' = i - 1
        /\ modal' = TRUE
        /\ UNCHANGED <<lastMsg, sends>>
     \/ /\ ~IsWhot(gameState.hand[i])
        /\ Transmit(102, i, FALSE)
        /\ UNCHANGED <<pending, modal>>
  /\ UNCHANGED <<transportVars, sessionVars, screenVars, toastVars, fetchVars,
                 gameState, joined, inbound, ended>>

\* A click on the i-th card of the rendered hand: playCard(i).  No-op unless
\* IN_PROGRESS and the card exists; a Whot card is staged and the suit
\* picker shown, any other card is sent at once.
PlayCard(i) ==
  /\ "game" \in active
  /\ sends < MaxSends
  /\ gameState # None /\ gameState.phase = 2
  /\ i \in DOMAIN gameState.hand
  /\ \/ /\ IsWhot(gameState.hand[i])
        /\ pending' = i
        /\ modal' = TRUE
        /\ UNCHANGED <<lastMsg, sends>>
     \/ /\ ~IsWhot(gameState.hand[i])
        /\ Transmit(102, i, FALSE)
        /\ UNCHANGED <<pending, modal>>
  /\ UNCHANGED <<transportVars, sessionVars, screenVars, toastVars, fetchVars,
                 gameState, joined, inbound, ended>>

\* Mutant: the click handler leaves the picker displayed.
ChooseSuitPickerStays ==
  /\ modal
  /\ sends < MaxSends
  /\ Transmit(102, pending, TRUE)
  /\ pending' = None
  /\ UNCHANGED modal
  /\ UNCHANGED <<transportVars, sessionVars, screenVars, toastVars, fetchVars,
                 gameState, joined, inbound, ended>>

\* A suit button of the picker: playCardWithSuit(pendingWhotCardIndex, suit)
\* sends PLAY_CARD with chosenSuit, clears the pending index, hides the picker.
ChooseSuit ==
  /\ modal
  /\ sends < MaxSends
  /\ Transmit(102, pending, TRUE)
  /\ pending' = None
  /\ modal' = FALSE
  /\ UNCHANGED <<transportVars, sessionVars, screenVars, toastVars, fetchVars,
                 gameState, joined, inbound, ended>>

\* returnToLobby(): from the game-over screen back to the lobby, reload the
\* list.  The session binding is left as it is.
ReturnToLobby ==
  /\ "over" \in active
  /\ active' = (active \ {"over"}) \cup {"lobby"}
  /\ UserFetch("list")
  /\ UNCHANGED <<transportVars, sessionVars, storeVars, toastVars, outVars,
                 inProgressUI, startShown, codeShown, listed, inbound, ended>>

\* The 4 s timer of showErrorToast hides the toast.
ToastExpires ==
  /\ toastTimer
  /\ toast' = FALSE
  /\ toastTimer' = FALSE
  /\ UNCHANGED <<transportVars, sessionVars, storeVars, screenVars, fetchVars,
                 outVars, inbound, ended>>

-----------------------------------------------------------------------------
(* The server answers a fetch.  apiJson rejects on a non-JSON body or a   *)
(* non-OK status; each .then/.catch below runs as one task.               *)

\* createGame .then: bind to the new game and keep data.gameCode || null;
\* .catch only logs.
CreateGameResponse ==
  /\ Settle("create")
  /\ \/ \E g \in Games, c \in BOOLEAN :
          /\ BindSession(g)
          /\ gameCode' = IF c THEN g ELSE None
     \/ UNCHANGED <<sessionVars, outVars, active, ended>>
  /\ UNCHANGED <<transportVars, storeVars, toastVars, inProgressUI, startShown,
                 codeShown, listed, reqCount, inbound>>

\* joinByCode .then: bind (this.gameCode is not touched); .catch: toast.
JoinByCodeResponse ==
  /\ Settle("code")
  /\ \/ /\ \E g \in Games : BindSession(g)
        /\ UNCHANGED <<toast, toastTimer>>
     \/ /\ ShowErrorToast
        /\ UNCHANGED <<outVars, gameId, active, ended>>
  /\ UNCHANGED <<transportVars, storeVars, gameCode, inProgressUI, startShown,
                 codeShown, listed, reqCount, inbound>>

\* joinGameFromList(g) .then: bind to data.gameId (the game asked for);
\* data.error or a rejection only logs.
JoinGameFromListResponse(g) ==
  /\ Settle(g)
  /\ \/ BindSession(g)
     \/ UNCHANGED <<outVars, gameId, active, ended>>
  /\ UNCHANGED <<transportVars, storeVars, toastVars, gameCode, inProgressUI,
                 startShown, codeShown, listed, reqCount, inbound>>

\* loadGameList .then: the list is re-rendered from the response, whatever
\* request it answers; a rejection only logs.
GameListResponse ==
  /\ Settle("list")
  /\ \E L \in SUBSET Games : listed' = L
  /\ UNCHANGED <<transportVars, sessionVars, storeVars, toastVars, outVars,
                 active, inProgressUI, startShown, codeShown, reqCount,
                 inbound, ended>>

-----------------------------------------------------------------------------
(* The server pushes a message on socket s; onmessage -> handleMessage.   *)
(* Any open socket delivers, this.ws or one it has left behind.           *)

Deliver(s) ==
  /\ sock[s] = "OPEN"
  /\ inbound < MaxInbound
  /\ inbound' = inbound + 1

\* 200 GAME_STATE_UPDATE for a game joined on s: updateGameState replaces
\* this.gameState wholesale (no check of message.gameId), then renderGame.
StateUpdate(s, st) ==
  /\ Deliver(s)
  /\ <<s, st.game>> \in joined
  /\ gameState' = st
  /\ RenderGame(st)
  /\ UNCHANGED <<transportVars, sessionVars, toastVars, fetchVars, outVars,
                 pending, modal, listed>>

\* 200 whose payload has neither gameStateJson nor gameState: this.gameState
\* becomes undefined and renderGame runs on it.
StateUpdateWithoutSnapshot(s) ==
  /\ Deliver(s)
  /\ gameState' = None
  /\ RenderGame(None)
  /\ UNCHANGED <<transportVars, sessionVars, toastVars, fetchVars, outVars,
                 pending, modal, listed>>

\* 207 GAME_ENDED: handleGameEnded -> showGameOver; the snapshot is kept.
GameEnded(s) ==
  /\ Deliver(s)
  /\ \E g \in Games : <<s, g>> \in joined
  /\ ShowGameOver
  /\ UNCHANGED <<transportVars, sessionVars, storeVars, toastVars, fetchVars,
                 outVars, inProgressUI, startShown, codeShown, listed>>

\* 208 ERROR: handleError -> showErrorToast (a bad payload gives the
\* generic text).
ServerError(s) ==
  /\ Deliver(s)
  /\ ShowErrorToast
  /\ UNCHANGED <<transportVars, sessionVars, storeVars, screenVars, fetchVars,
                 outVars, ended>>

\* 201, 204, 206 only log; other kinds fall through the switch; a frame or
\* STATE_UPDATE payload that JSON.parse rejects throws before any change.
Ignored(s) ==
  /\ Deliver(s)
  /\ UNCHANGED <<transportVars, sessionVars, storeVars, screenVars, toastVars,
                 fetchVars, outVars, ended>>

-----------------------------------------------------------------------------
Next ==
  \/ Connected \/ Reconnect
  \/ \E s \in DOMAIN sock : Opened(s) \/ Closed(s)
  \/ EnterLobby \/ CreateGame \/ JoinByCode
  \/ \E g \in Games : JoinGameFromList(g) \/ JoinGameFromListResponse(g)
  \/ StartGame \/ DrawOrDeclare(103) \/ DrawOrDeclare(104)
  \/ \E i \in Indices : PlayCard(i)
  \/ ChooseSuit \/ ReturnToLobby \/ ToastExpires
  \/ CreateGameResponse \/ JoinByCodeResponse \/ GameListResponse
  \/ \E s \in DOMAIN sock :
       \/ \E st \in Snapshots : StateUpdate(s, st)
       \/ StateUpdateWithoutSnapshot(s)
       \/ GameEnded(s) \/ ServerError(s) \/ Ignored(s)

\* Timers fire, the server eventually accepts a connection and answers
\* every fetch.  User gestures and server pushes are never forced.
Fairness ==
  /\ WF_vars(Reconnect)
  /\ WF_vars(\E s \in DOMAIN sock : Opened(s))
  /\ WF_vars(CreateGameResponse)
  /\ WF_vars(JoinByCodeResponse)
  /\ WF_vars(\E g \in Games : JoinGameFromListResponse(g))
  /\ WF_vars(GameListResponse)
  /\ WF_vars(ToastExpires)

Spec == Init /\ [][Next]_vars /\ Fairness

-----------------------------------------------------------------------------
(* Properties.                                                            *)

\* The step transmits a message (its envelope is lastMsg').
Sent == sends' > sends

\* playCardWithSuit: a PLAY_CARD with chosenSuit always carries the index of
\* a staged Whot card, never the null left behind by an earlier choice.
SuitPlayHasIndex ==
  [][Sent /\ lastMsg'.type = 102 /\ lastMsg'.suit => lastMsg'.idx # None]_vars

\* Spec 8: after GAME_ENDED, draw, declare and play are no-ops until the
\* session enters a game again (createGame / join responses).
NoPlayAfterGameEnded ==
  [][Sent /\ lastMsg'.type \in {102, 103, 104} => ~ended]_vars

\* Spec 4.4: draw and declare are enabled only IN_PROGRESS.  On the game
\* screen, enabled buttons always go with an IN_PROGRESS snapshot.
ControlsOnlyInProgress ==
  ("game" \in active /\ inProgressUI) => gameState # None /\ gameState.phase = 2

\* Spec 3 and 4.6: the gameCode is part of the session binding.  The code
\* game-code-area shows is the code of the game the session is bound to.
CodeOfBoundGame == codeShown \in {None, gameId}

\* Spec 7(c): a create or join request is never lost silently.  When it
\* settles, the session is bound and shows the game screen, or a notice
\* is displayed.
RequestFailureSurfaced ==
  [][\A k \in {"create", "code"} \cup Games :
       reqs'[k] < reqs[k] => (gameId' # None /\ "game" \in active') \/ toast']_vars

-----------------------------------------------------------------------------
(* Refinement: the client's transport implements the abstract Channel.    *)

\* The connection state this.ws shows: none, or a closed socket, is
\* DISCONNECTED; otherwise its readyState.
ChannelConn ==
  IF ws = None THEN "DISCONNECTED"
  ELSE IF sock[ws] = "CLOSED" THEN "DISCONNECTED" ELSE sock[ws]

Chan == INSTANCE Channel WITH conn <- ChannelConn, retry <- timers > 0, out <- sends

\* Spec 4.1, 5 and 9: with the page's single connect(), the client behaves
\* as the abstract Channel: one reconnect per close, single-shot and
\* eventually run, and every envelope sent while OPEN.
ChannelRefined == Chan!ChanSpec

=============================================================================
