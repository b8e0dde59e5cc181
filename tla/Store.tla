------------------------------- MODULE Store -------------------------------
(***************************************************************************)
(* The Game State Store of WhotGameClient (src/web/js/game.js) and the    *)
(* projection renderGame draws from it, with playCard reading the same    *)
(* snapshot back when a rendered card is clicked.                         *)
(*                                                                         *)
(* A snapshot carries what the queries of spec 4.4 read: the phase, the   *)
(* players in turn order (the local player's hand in one of the shapes    *)
(* the server may send), creatorPlayerId, currentPlayerIndex, deckSize,   *)
(* callCard and gameCode.  A property that is absent is Undefined.  The channel   *)
(* is taken to be OPEN (its gating is modelled by WhotClient) and one     *)
(* game is bound, by the create or join response.  Names and card images *)
(* are abstracted to player ids and (suit, value) pairs.                  *)
(***************************************************************************)
EXTENDS Codec, Sequences, FiniteSets

CONSTANTS
  None,     \* null
  Me,       \* this.playerId once bound
  Other,    \* the id of the other player
  Game,     \* the gameId of the create or join response
  Code,     \* a gameCode
  MaxSends  \* bound: messages sent

ASSUME MaxSends \in Nat

VARIABLES
  gameId, gameCode, gameState,
  active,       \* screens with class active: lobby, game, over
  codeShown,    \* #game-code-area: the code displayed, or None
  startShown,   \* #start-game-area displayed
  inProgressUI, \* draw and declare buttons enabled
  handView,     \* #player-hand: the (suit, value) of each card element
  opponents,    \* #opponent-hands: [id, current] per opponent circle
  turnLabel,    \* #current-player: the player named, or None (untouched)
  deckLabel,    \* #deck-count: the value displayed, or None (untouched)
  banner,       \* #round-over-banner displayed
  callView,     \* #call-card: a card face, Placeholder, or None (untouched)
  pending,      \* this.pendingWhotCardIndex
  modal,        \* #suit-picker-modal displayed
  lastMsg,      \* the last message sent
  sends         \* messages sent so far

viewVars == <<codeShown, startShown, inProgressUI, handView, opponents,
              turnLabel, deckLabel, banner, callView>>
vars == <<gameId, gameCode, gameState, active, viewVars, pending, modal,
          lastMsg, sends>>

-----------------------------------------------------------------------------
(* Snapshots.                                                             *)

Circle == Text("CIRCLE")
Whot   == Text("WHOT")
Star   == Text("STAR")
Card(suit, value) == Obj([suit |-> suit, value |-> value])

\* The local player's hand, as an array or wrapped in { cards }, with cards
\* as objects or raw values (20, '20', 7), one without a value; or only a
\* count, or no hand at all.
MyHands ==
  { Arr(<<Card(Whot, Num(20)), Num(7)>>),
    Obj([cards |-> Arr(<<Str(Num(20)), Card(Star, Num(7))>>)]),
    Arr(<<Card(Whot, Str(Num(20))), Obj([suit |-> Star])>>),
    Obj([count |-> Num(2)]),
    Undefined }

Orders == {<<Me, Other>>, <<Other, Me>>}

\* The players array in turn order; only the local player's hand is read.
Players(order, hand) ==
  [k \in 1..2 |-> [id |-> order[k],
                   hand |-> IF order[k] = Me THEN hand ELSE Undefined]]

Snapshot(phase, order, hand, creator, cur, deck, code, call) ==
  [phase |-> phase, players |-> Players(order, hand), creator |-> creator,
   cur |-> cur, deck |-> deck, code |-> code, call |-> call]

\* deckSize with the active card: neither, both, or a card sent without its
\* suit and no deckSize.
DeckAndCall == { <<Undefined, Undefined>>, <<Num(3), Card(Star, Num(7))>>,
                 <<Undefined, Obj([value |-> Num(20)])>> }

\* Spec 3 and 4.4: a code only before the start, hands dealt at the start,
\* currentPlayerIndex when in progress, deckSize and callCard when dealt.
Snapshots ==
  { Snapshot(0, o, Arr(<<>>), c, Undefined, Undefined, k, Undefined) :
      o \in Orders, c \in {Me, Other, Undefined}, k \in {Code, Undefined} }
  \cup { Snapshot(p, o, h, Undefined, i, dc[1], Undefined, dc[2]) :
           p \in {2, 3}, o \in Orders, h \in MyHands,
           i \in {Undefined, Num(1)}, dc \in DeckAndCall }
  \cup { Snapshot(4, o, Arr(<<>>), Undefined, Undefined, Undefined, Undefined,
                  Undefined) : o \in Orders }

\* The 'Call' placeholder of an empty #call-card.
Placeholder == [placeholder |-> TRUE]

Shown == [suit : {Circle, Whot, Star}, value : {Num(1), Num(7), Num(20), Str(Num(20))}]

TypeOK ==
  /\ gameId \in {None, Game}
  /\ gameCode \in {None, Code}
  /\ gameState \in {Null, Undefined} \cup Snapshots
  /\ active \subseteq {"lobby", "game", "over"}
  /\ codeShown \in {None, Code}
  /\ startShown \in BOOLEAN /\ inProgressUI \in BOOLEAN /\ banner \in BOOLEAN
  /\ handView \in UNION { [1..n -> Shown] : n \in 0..2 }
  /\ opponents \subseteq [id : {Me, Other}, current : BOOLEAN]
  /\ turnLabel \in {None, Me, Other, ""}
  /\ deckLabel \in {None, Num(0), Num(3)}
  /\ callView \in {None, Placeholder} \cup Shown
  /\ pending \in {None, 1, 2} /\ modal \in BOOLEAN
  /\ lastMsg \in {None} \cup [type : {100, 102}, idx : {None, 1, 2}, suit : BOOLEAN]
  /\ sends \in 0..MaxSends

Init ==
  /\ gameId = None /\ gameCode = None /\ gameState = Null
  /\ active = {"lobby"}
  /\ codeShown = None /\ startShown = FALSE /\ inProgressUI = FALSE
  /\ handView = <<>> /\ opponents = {} /\ turnLabel = None
  /\ deckLabel = None /\ banner = FALSE /\ callView = None
  /\ pending = None /\ modal = FALSE
  /\ lastMsg = None /\ sends = 0

-----------------------------------------------------------------------------
(* The store's queries and the render functions.                          *)

\* this.gameState && this.gameState.players: a snapshot is stored.
Loaded(st) == st \notin {Null, Undefined}

PhaseIs(st, k) == Loaded(st) /\ st.phase = k

\* a ?? d
Nullish(v, d) == IF v \in {Undefined, Null} THEN d ELSE v

\* players.find(p => p.id === this.playerId)
MeOf(st) ==
  LET ks == { k \in DOMAIN st.players : st.players[k].id = Me }
  IN  IF ks = {} THEN None ELSE st.players[CHOOSE k \in ks : \A j \in ks : k <= j]

\* Mutant: playCard takes only an array hand (a { cards } hand is empty).
PlayHandArrayOnly(me) == IF me.hand.kind = "array" THEN me.hand.items ELSE <<>>

\* playCard: Array.isArray(me.hand) ? me.hand : (me.hand.cards || [])
PlayHand(me) ==
  IF me.hand.kind = "array" THEN me.hand.items
  ELSE OrElse(Get(me.hand, "cards"), Arr(<<>>)).items

\* card && (typeof card === 'object' ? card.value : card)
CardValue(card) ==
  IF ~Truthy(card) THEN card
  ELSE IF card.kind = "object" THEN Get(card, "value") ELSE card

\* cardValue === 20 || cardValue === '20'
IsWhot(v) == v \in {Num(20), Str(Num(20))}

\* Mutant: createCardElement draws card.value as it is, null or undefined.
ShownCardNoDefault(card) ==
  LET o == IF card.kind = "object" THEN card ELSE Obj([suit |-> Circle, value |-> card])
  IN  [suit |-> OrElse(Get(o, "suit"), Circle), value |-> Get(o, "value")]

\* renderPlayerHand wraps a raw card as { suit: 'CIRCLE', value: card };
\* createCardElement draws suit || 'CIRCLE' and the value, 1 if it is null
\* or undefined.
ShownCard(card) ==
  LET o == IF card.kind = "object" THEN card ELSE Obj([suit |-> Circle, value |-> card])
  IN  [suit |-> OrElse(Get(o, "suit"), Circle),
       value |-> Nullish(Get(o, "value"), Num(1))]

\* renderCallCard: a callCard that is not an object is drawn as CIRCLE 1;
\* createCardElement's defaults as for a hand card.
CallFace(st) ==
  LET c == st.call
  IN  ShownCard(IF c.kind = "object" THEN c ELSE Obj([suit |-> Circle, value |-> Num(1)]))

\* renderCallCard: the card of this.gameState.callCard, else the 'Call'
\* placeholder.
RenderCallCard(st) ==
  callView' = IF Loaded(st) /\ Truthy(st.call) THEN CallFace(st) ELSE Placeholder

\* renderGame's isCreator: creatorPlayerId === playerId, or the first
\* player is the local one.
IsCreator(st) ==
  \/ st.creator = Me
  \/ Len(st.players) > 0 /\ st.players[1].id = Me

\* Mutant: renderOpponents indexes players by currentPlayerIndex as it is.
CurrentIdNoDefault(st) ==
  IF st.cur \in {Undefined, Null} THEN None
  ELSE IF st.cur.n + 1 \in DOMAIN st.players THEN st.players[st.cur.n + 1].id
  ELSE None

\* renderOpponents: the id of players[currentPlayerIndex ?? 0], or null.
CurrentId(st) ==
  LET idx == Nullish(st.cur, Num(0)).n
  IN  IF idx + 1 \in DOMAIN st.players THEN st.players[idx + 1].id ELSE None

\* One circle per player other than the local one, marked when current.
OpponentsView(st) ==
  { [id |-> st.players[k].id, current |-> st.players[k].id = CurrentId(st)] :
      k \in { j \in DOMAIN st.players : st.players[j].id # Me } }

\* updateGameInfo: 'Current turn: ' and players[currentPlayerIndex ?? 0],
\* or '' when there is no such player.
TurnLabelOf(st) ==
  LET idx == Nullish(st.cur, Num(0)).n
  IN  IF idx + 1 \in DOMAIN st.players THEN st.players[idx + 1].id ELSE ""

\* renderPlayerHand's card elements: one per card of the local hand, none
\* without a snapshot, a local player or a hand.
HandFaces(st) ==
  LET me   == IF Loaded(st) THEN MeOf(st) ELSE None
      hand == IF me # None /\ Truthy(me.hand)
              THEN IF me.hand.kind = "array" THEN me.hand.items
                   ELSE OrElse(Get(me.hand, "cards"), Arr(<<>>)).items
              ELSE <<>>
  IN  [k \in DOMAIN hand |-> ShownCard(hand[k])]

\* renderPlayerHand: the element is cleared, then filled.
RenderPlayerHand(st) == handView' = HandFaces(st)

\* renderOpponents returns without touching the circles when no snapshot is
\* stored.
RenderOpponents(st) ==
  opponents' = IF Loaded(st) THEN OpponentsView(st) ELSE opponents

\* updateGameInfo: nothing without a snapshot; the turn only for a
\* non-empty players array; deckSize ?? 0.
UpdateGameInfo(st) ==
  /\ turnLabel' = IF Loaded(st) /\ Len(st.players) > 0 THEN TurnLabelOf(st)
                  ELSE turnLabel
  /\ deckLabel' = IF Loaded(st) THEN Nullish(st.deck, Num(0)) ELSE deckLabel

ShowGameOver == active' = (active \ {"game"}) \cup {"over"}
ShowGameScreen == active' = (active \ {"lobby"}) \cup {"game"}

\* renderGame(): in GAME_ENDED only the game-over screen, then return;
\* otherwise the code area, the start area, the buttons, the hand, the
\* opponents, the game info and the round-over banner.
RenderGame(st) ==
  \/ /\ PhaseIs(st, 4)
     /\ ShowGameOver
     /\ UNCHANGED viewVars
  \/ /\ ~PhaseIs(st, 4)
     /\ LET code == IF Loaded(st) /\ st.code # Undefined THEN st.code ELSE gameCode
        IN  codeShown' = IF PhaseIs(st, 0) /\ code # None THEN code ELSE None
     /\ startShown' = (PhaseIs(st, 0) /\ IsCreator(st))
     /\ inProgressUI' = PhaseIs(st, 2)
     /\ RenderCallCard(st)
     /\ RenderPlayerHand(st)
     /\ RenderOpponents(st)
     /\ UpdateGameInfo(st)
     /\ banner' = PhaseIs(st, 3)
     /\ UNCHANGED active

\* sendMessage on the OPEN channel.
Transmit(type, idx, suit) ==
  /\ sends < MaxSends
  /\ sends' = sends + 1
  /\ lastMsg' = [type |-> type, idx |-> idx, suit |-> suit]

-----------------------------------------------------------------------------
(* Actions: inbound messages, the create and join responses, and clicks.  *)

\* STATE_UPDATE: updateGameState stores what it decoded (a snapshot, or
\* undefined for a payload without one) and calls renderGame.  The server
\* pushes updates once the client has joined a game.
StateUpdate(st) ==
  /\ gameId # None
  /\ gameState' = st
  /\ RenderGame(st)
  /\ UNCHANGED <<gameId, gameCode, pending, modal, lastMsg, sends>>

\* GAME_ENDED: handleGameEnded shows the game-over screen; the snapshot is
\* left as it is.
GameEnded ==
  /\ gameId # None
  /\ ShowGameOver
  /\ UNCHANGED <<gameId, gameCode, gameState, viewVars, pending, modal,
                 lastMsg, sends>>

\* The .then of createGame (with data.gameCode || null) or of a join: bind,
\* sendJoinGameMessage, showGameScreen.  Nothing is re-rendered.
CreateGameResponse(c) ==
  /\ gameId' = Game
  /\ gameCode' = c
  /\ Transmit(100, None, FALSE)
  /\ ShowGameScreen
  /\ UNCHANGED <<gameState, viewVars, pending, modal>>

JoinResponse ==
  /\ gameId' = Game
  /\ Transmit(100, None, FALSE)
  /\ ShowGameScreen
  /\ UNCHANGED <<gameCode, gameState, viewVars, pending, modal>>

\* A click on the i-th card element: playCard(i) on the stored snapshot.
\* It returns unless IN_PROGRESS with a hand; a Whot card is staged and the
\* suit picker shown, any other card is sent at once.
PlayCard(i) ==
  /\ "game" \in active
  /\ i \in DOMAIN handView
  /\ PhaseIs(gameState, 2)
  /\ LET me == MeOf(gameState) IN
     /\ me # None
     /\ Truthy(me.hand)
     /\ LET hand == PlayHand(me)
            card == IF i \in DOMAIN hand THEN hand[i] ELSE Undefined
        IN  \/ /\ IsWhot(CardValue(card))
               /\ pending' = i
               /\ modal' = TRUE
               /\ UNCHANGED <<lastMsg, sends>>
            \/ /\ ~IsWhot(CardValue(card))
               /\ Transmit(102, i, FALSE)
               /\ UNCHANGED <<pending, modal>>
  /\ UNCHANGED <<gameId, gameCode, gameState, active, viewVars>>

\* A suit button of the picker: playCardWithSuit(pendingWhotCardIndex,
\* suit), then the picker is hidden.
ChooseSuit ==
  /\ modal
  /\ Transmit(102, pending, TRUE)
  /\ pending' = None
  /\ modal' = FALSE
  /\ UNCHANGED <<gameId, gameCode, gameState, active, viewVars>>

\* returnToLobby() from the game-over screen.
ReturnToLobby ==
  /\ "over" \in active
  /\ active' = (active \ {"over"}) \cup {"lobby"}
  /\ UNCHANGED <<gameId, gameCode, gameState, viewVars, pending, modal,
                 lastMsg, sends>>

Next ==
  \/ \E st \in Snapshots \cup {Undefined} : StateUpdate(st)
  \/ GameEnded
  \/ \E c \in {Code, None} : CreateGameResponse(c)
  \/ JoinResponse
  \/ \E i \in 1..2 : PlayCard(i)
  \/ ChooseSuit
  \/ ReturnToLobby

Spec == Init /\ [][Next]_vars

-----------------------------------------------------------------------------
(* Properties.                                                            *)

\* A card element shows the Whot value: 20 or '20'.
ShownWild(c) == c.value \in {Num(20), Str(Num(20))}

\* Spec 4.4 and 5: renderPlayerHand and playCard normalise the hand and its
\* cards separately, yet in IN_PROGRESS a click on any card shown acts on
\* that card: one shown as Whot is staged for the suit picker, any other is
\* sent as PLAY_CARD with its index and no suit.
ShownCardsPlayable ==
  \A i \in DOMAIN handView :
       ("game" \in active /\ PhaseIs(gameState, 2) /\ sends < MaxSends)
         => ENABLED (PlayCard(i) /\
                     IF ShownWild(handView[i])
                     THEN pending' = i /\ sends' = sends
                     ELSE lastMsg' = [type |-> 102, idx |-> i, suit |-> FALSE])

\* renderOpponents and updateGameInfo each resolve currentPlayerIndex: the
\* opponent circle marked as current is the player the turn label names,
\* and no circle is marked while the label names the local player.
TurnShownConsistently ==
  \A o \in opponents : o.current <=> o.id = turnLabel

\* Spec 4.4: only the creator may start; "am I the creator" comes from
\* creatorPlayerId, and from the first player only when that is absent.
StartOnlyForCreator ==
  ("game" \in active /\ startShown)
    => /\ Loaded(gameState)
       /\ IF gameState.creator = Undefined THEN gameState.players[1].id = Me
          ELSE gameState.creator = Me

=============================================================================
