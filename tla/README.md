# TLA+ models of the Whot game client

This directory models `src/web/js/game.js` with TLA+ and checks it with TLC.
That file holds `WhotGameClient`, the browser client of a multiplayer Whot
card game. The repository has no other source. The server is the environment
of the models.

## 1. Inventory

The client is one JavaScript class. Everything runs on the browser's single
event loop. Each handler (a click, a `fetch` continuation, a WebSocket
callback or a timer) runs to completion. Concurrency therefore comes from
the order in which these handlers run, not from threads.

| Component (spec section 2) | State in the code | Operations |
|---|---|---|
| Transport Channel | `this.ws`, the sockets it leaves behind, pending `setTimeout(connect, 5000)` callbacks | `connect()`, `ws.onopen` (loads the game list), `ws.onmessage`, `ws.onerror` (only logs), `ws.onclose` (schedules a reconnect), the OPEN gate in `sendMessage` |
| Message Codec | none | envelopes built by `sendMessage`; `JSON.parse` of the frame, the payload and the nested snapshot in `onmessage` / `updateGameState` / `handleError` |
| Protocol Dispatcher | none | `handleMessage` switch: 200, 201, 204, 206, 207, 208; unknown kinds fall through |
| Game State Store | `this.gameState` | replaced by `updateGameState`; read by `playCard`, `renderGame`, `showGameOver` |
| Action Intent Builder | `this.pendingWhotCardIndex`, the suit picker | `startGame`, `playCard`, `showSuitPicker`/`playCardWithSuit`/`sendPlayCard`, `drawCard`, `declareLast` |
| Session/Identity Manager | `this.gameId`, `this.playerId`, `this.gameCode` | `createGame`, `joinByCode`, `joinGameFromList` (each a `fetch` whose `.then` binds and calls `sendJoinGameMessage`), `returnToLobby` |
| Rendering projection (external) | active screen classes, disabled buttons, start area, game-code area, game list, error toast with its 4 s timer | `renderGame` and its helpers, `showGameScreen`, `showGameOver`, `loadGameList`, `showErrorToast` |

How the components interact:

- A user gesture calls a method. The method either sends through
  `sendMessage`, or starts a `fetch` whose continuation runs later.
- `sendMessage` sends only while `this.ws` is OPEN. Otherwise it drops the
  message silently.
- The server pushes frames on every open socket. The frame goes to
  `handleMessage`, which may replace `this.gameState` and call `renderGame`.
- `renderGame` decides which controls are usable. It shows or hides the start
  area, enables or disables draw/declare, and renders the clickable hand.
  So the store feeds back into which gestures are possible.

What is hard:

- Fetch continuations settle in any order relative to each other and to
  socket events.
- A create/join response can arrive before the socket opens.
- Sockets close and reconnect at any time.
- `connect()` does not guard against a socket that already exists.
- STATE_UPDATEs can arrive between the two halves of the Whot play (the
  card pick and the suit click).
- The game-over screen, the suit picker and the lobby are independent page
  elements. Their states can combine in ways no handler expects.

Properties that make each component correct:

- **Transport:** at most one live socket, at most one pending reconnect, and
  every close is followed by a new connection. The first two only fail with
  a second `connect()`, which `transport_connect_twice` shows.
- **Session:** the connection is joined to the bound game. The displayed code
  and the snapshot belong to the bound game.
- **Intent builder:** a Whot card is never sent without a suit, and a suit
  play names a Whot card. Nothing is played after GAME_ENDED.
- **Store/projection:** controls are enabled only IN_PROGRESS, and a card
  drawn as Whot is the card played as Whot.
- **Toast:** only the latest message's timer hides it, and every notice is
  hidden in the end.
- **Codec:** every listed encoding decodes to the same snapshot, and a
  decoding failure gives a notice.

`PROJECT.json` lists every hazard at its line.

## 2. Modules

- `Transport.tla` models the connection lifecycle.
  - `sock` is the sequence of every socket created, with its readyState.
  - `ws` is the index `this.ws` holds.
  - `timers` counts pending reconnect callbacks.
  - Actions: `Connect` (the page calls `connect()`; this file never does),
    `ReconnectTimer`, `SocketOpen`, `SocketClose`.
  - `IsOpen` is the gate of `sendMessage`.
  - The module has its own `TransportSpec`.
- `WhotClient.tla` EXTENDS Transport and models the whole class.
  - Each Transport action is conjoined with its client effect.
    `Opened` is `SocketOpen` plus `loadGameList`.
  - Every user gesture, every fetch continuation, every `handleMessage`
    branch and the toast timer is one action.
  - Helper operators are the methods those handlers call: `Transmit`
    (`sendMessage`), `SendJoinGameMessage`, `RenderGame`, `ShowGameOver`,
    `ShowGameScreen`, `ShowErrorToast`, `Fetch`/`Settle` (`apiJson`).
  - The variables are grouped (`sessionVars`, `storeVars`, `screenVars`,
    `toastVars`, `fetchVars`, `outVars`) so that each action's UNCHANGED
    names what it leaves alone by group.
  - `ended` is a history variable for one property. It records that the
    game-over screen was shown since the last create/join.
- `Channel.tla` is the abstract Transport Channel of spec 4.1, 5 and 9.
  - `conn` is DISCONNECTED, CONNECTING or OPEN; `retry` says a reconnect is
    scheduled; `out` counts envelopes sent.
  - A close schedules exactly one reconnect, which eventually runs (weak
    fairness). A send happens only while OPEN. `connect()` while
    CONNECTING or OPEN is a stutter, because it is idempotent.
  - `WhotClient` instantiates it as `Chan` with the refinement mapping
    `conn <- ChannelConn` (no `this.ws`, or a CLOSED one, is DISCONNECTED;
    otherwise its readyState), `retry <- timers > 0` and `out <- sends`.
    `ChannelRefined == Chan!ChanSpec` is checked as a PROPERTY.
- `Codec.tla` holds the Message Codec as pure operators over a small algebra
  of JSON values.
  - A value is undefined, null, a snapshot (named by an id), an object (its
    properties a record), or a string.
  - A string is either `Str(v)`, the text `JSON.stringify(v)` produced, or
    `Text(t)`, text that is not JSON.
  - `Thrown` is an exception in flight. Every operator passes it on,
    because the exception leaves the handler at the point it is raised.
  - Each operator is one piece of the code:
    - `ParseJSON` is `JSON.parse`;
    - `ParseIfString` is `typeof x === 'string' ? JSON.parse(x) : x`;
    - `Get` is property access, a TypeError on undefined or null;
    - `OrElse` is `||`;
    - `Enc` (RECURSIVE) serializes n times;
    - `Envelope` is the `{type, payload}` object.
  - `DecodedSnapshot` is lines 220-222 of `updateGameState`. `ErrorText` is
    lines 407-413 of `handleError`, with its try/catch around the parse
    only.
- `Inbound.tla` is the inbound path on one open socket.
  - `Receive(f)` is `onmessage` on the raw text `f`, then `handleMessage`.
  - `UpdateGameState` and `HandleError` are the two handlers that change
    state.
  - `ShowErrorToast` and `HideToast(t)` model the toast with timer ids.
    `errTimer` is `this._errorToastTimer`. `clearTimeout` removes that id
    from `timers`.
  - The frames are built from every listed encoding of a STATE_UPDATE (spec
    4.2 and 8). The payload is structured or one string. The snapshot is
    structured or one further string, under `gameStateJson` or `gameState`.
  - Malformed frames are added too:
    - a payload, or a snapshot string, that is not JSON;
    - a payload with neither field;
    - a payload serialized twice;
    - a frame that is not JSON.
  - ERROR payloads: an object with `message` or `errorCode` or neither, the
    object as a string, text that is not JSON, null, or none at all.
- `Store.tla` is the Game State Store and the Rendering projection at the
  level of the snapshot's fields, on one open, joined socket.
  - Every JS value is a tagged record of `Codec` (`Num`, `Arr`, `Str`,
    `Text`, `Obj`, `Null`, `Undefined`), so `??`, `||`, `==` and truthiness
    are modelled by what they do on each shape.
  - The snapshots are LOBBY (creator and code present or not), IN_PROGRESS
    and ROUND_ENDED (five shapes of `players[i].hand`, `currentPlayerIndex`
    present or not, and `deckSize` with `callCard`: neither, both, or a
    call card without a suit) and GAME_ENDED (two turn orders).
  - `RenderGame` is `renderGame` with all its helpers: the code area, the
    start area (`isCreator`), draw/declare, `renderCallCard` (a call card
    that is not an object is drawn as CIRCLE 1, none as the placeholder),
    `renderPlayerHand`,
    `renderOpponents`, `updateGameInfo` and the round-over banner; in
    GAME_ENDED only `showGameOver`, then the early return.
  - Actions: `StateUpdate`, `GameEnded`, `CreateGameResponse`,
    `JoinResponse`, `PlayCard(i)` (a click on the i-th rendered card),
    `ChooseSuit`, `ReturnToLobby`. Sends are counted and bounded.
  - `PlayHand` is `playCard`'s own normalisation of the hand, kept apart
    from `RenderPlayerHand`'s, as the code keeps them apart.
- `Inputs.tla` is the page inputs and the URL helpers.
  - `ParseInt` is JavaScript's `parseInt(s, 10)` over a small alphabet:
    leading and trailing white space, a sign, digits, then anything. It is
    RECURSIVE over the text. It models the built-in, not code of the
    repository, and is only there to feed `BotCount`.
  - `BotCount` is lines 98-107 of `createGame`: `parseInt`, `|| 0`,
    `Math.min(3, ...)`, `Math.max(0, ...)`, then `JSON.stringify` (which
    turns NaN into null).
  - `Code` is `joinByCode`'s trim and upper-case; `GetApiBase` and
    `GetWebSocketUrl` are the cached URL helpers over a page with or without
    `data-api-base`, http or https, with or without a port.
  - Actions: `EditBotCount`, `EditCode`, `CreateGame`, `JoinByCode` (the
    empty-code toast or the request), `JoinByCodeSettled` (success clears
    the input, failure shows a toast), `Connect`.
- `MCTransport.tla`, `MCWhotClient.tla`, `MCInbound.tla`, `MCStore.tla` and
  `MCInputs.tla` give the constants their values.

### Data abstraction in WhotClient

A snapshot keeps only what the client reads from it:

- `game`: the game it belongs to;
- `phase`: one of 0, 2, 3 or 4;
- `hand`: the local hand, as a sequence of `"Whot"` (the number 20),
  `"WhotStr"` (the string `"20"`) and `"Plain"`;
- `hasCode`: whether it carries a `gameCode`;
- `creator`: whether it names the local player as creator.

The server sends a code and a creator only in LOBBY, and a hand only in
IN_PROGRESS and ROUND_ENDED (spec section 3). The other fields are fixed.

`playerId` is always assigned in the same statement as `gameId`, so it is
folded into `gameId`.

Indices are 1-based, where the code's are 0-based.

Fetches are counted per kind in `reqs`. They settle in any order, each with
success or failure.

The suit picker is modelled as an overlay independent of the screens. Its
markup is not in the repository, and the code shows and hides it with its own
`style.display`.

## 3. Runs

| Run | Expect | What it shows |
|---|---|---|
| `whot_core` (`MCWhotClient`, `WhotClient_core.cfg`) | pass | With one `connect()` by the page: a closed `this.ws` is always replaced (`ReconnectsAfterClose`); a suit play always carries an index (`SuitPlayHasIndex`); WhotClient implements `Channel` (`ChannelRefined`), so nothing is sent unless the channel is OPEN. With one page `connect()` a second live socket or a second timer cannot arise, so those are checked where they can: `transport_connect_twice`. That the Whot value is recognised in both encodings is checked in `store` against the cards as rendered. About 890k distinct states in under 3 minutes. |
| `transport_connect_twice` (`MCTransport`, `Transport_connect_twice.cfg`) | violation | A second `connect()` orphans a live socket. Spec 4.1 promises an idempotent `connect()`. |
| `play_after_end` (`WhotClient_after_end.cfg`) | violation | The suit picker outlives the game-over screen, so a PLAY_CARD is sent after GAME_ENDED. |
| `stale_controls` (`WhotClient_stale_controls.cfg`) | violation | Two creates race. The first binds, and its game goes IN_PROGRESS, then GAME_ENDED. `renderGame` returns early, so draw/declare stay enabled. The second response shows the game screen with them enabled on a GAME_ENDED snapshot (spec 4.4). The same early return leaves the hand, deck count, turn label and banner of the earlier render in place. |
| `foreign_code` (`WhotClient_foreign_code.cfg`) | violation | Two creates race. The socket stays joined to both games. After the second binding, a LOBBY update of the first game shows the first game's code (spec 3 and 4.6). |
| `silent_failure` (`WhotClient_silent_failure.cfg`) | violation | A failed `createGame` (or `joinGameFromList`) response only logs. The user stays in the lobby with no notice (spec 7(c)). |
| `inbound` (`MCInbound`, `Inbound.cfg`) | pass | Every listed STATE_UPDATE encoding stores exactly its snapshot. An ERROR with a present payload always shows a notice. Only the timer of the latest toast hides it, and the toast is always hidden in the end. |
| `inbound_null_error` (`Inbound_null_error.cfg`) | violation | An ERROR whose payload is absent or null throws at line 413, after the try/catch, and shows nothing (spec 7(b)). |
| `inbound_malformed` (`Inbound_malformed.cfg`) | violation | A frame that is not JSON throws in `onmessage` with no notice (spec 4.2 and 7(d)). |
| `store` (`MCStore`, `Store.cfg`) | pass | Whatever shape the server gives the hand and its cards, a click on a rendered card in IN_PROGRESS stages exactly the cards drawn as Whot and sends the others with their index (`ShownCardsPlayable`, stated with ENABLED). The opponent circle marked current is always the player the turn label names, whether `currentPlayerIndex` is present or not (`TurnShownConsistently`). About 33k states in under a minute. |
| `store_start_creator` (`Store_start_creator.cfg`) | violation | `isCreator` also accepts the first player in turn order, so the start area is shown to a non-creator when `creatorPlayerId` names someone else (spec 4.4). |
| `inputs` (`MCInputs`, `Inputs.cfg`) | pass | Whatever the bot-count input holds, the create request's bot count is an integer in 0..3; a join-by-code request carries a non-blank, trimmed, upper-case code. About 112k states. |

Bounds (`MCWhotClient`):

- two games, so a session can move between games;
- hands chosen so that a Whot card moves from index 1 to index 2, and so that
  both encodings of the Whot value appear;
- one page `connect()` and one drop, which covers a close in CONNECTING and in
  OPEN and a reconnect;
- two user fetches, so two create/join responses can race;
- two server pushes, which is enough for an update between a pick and a click,
  or an update followed by a game end;
- two user sends.

`MCTransport` allows three drops and two `connect()` calls.

`MCStore` allows three sends, enough for a Whot pick and its suit click
followed by a plain play. Its snapshots cover every optional field present
and absent, and every hand shape the code normalises.

`MCInputs` allows two join requests, so a second one can follow a settled
first. Inputs are eight bot-count texts (empty, blank, negative, large,
signed, trailing text, no digits, missing element) and codes with spaces and
lower case.

`MCInbound` has two snapshots and four frames. With two snapshots, one
update can replace another. With four frames, three ERRORs can arrive
with timers firing in between, or an update can fall between two ERRORs. The frame set is the same in
every Inbound run. Only the property differs.

Fairness:

- The reconnect timer fires: the code arms it unconditionally.
- The server eventually accepts a connection and answers every fetch.
- The toast timer fires (in WhotClient its flag, in Inbound every pending
  timer id).
- `Channel` assumes weak fairness of its reconnect. The implementation
  meets it with the fair reconnect timer.

User gestures and server pushes are never forced. `CHECK_DEADLOCK FALSE`
because an event-driven page with no further events idles; that is not an
error.

## 4. Plan for later sittings

1. Game list: version the list fetches, to show which stale list makes a
   Join fail silently (lines 456 and 167). Spec 9 accepts the stale list
   itself.
2. Session: an abstract binding refined by WhotClient. A create response
   before `onopen` leaves the socket unjoined (spec 4.6 accepts that drop),
   so only the binding (it follows the latest response) would refine.
3. A larger instance of the client (three fetches), so that the
   `returnToLobby` route of the stale controls is reached as well.

## 5. Not modelled

- DOM layout, card images, player names and scores. A card image that
  fails to load is swapped for a text fallback (`img.onerror`); both show
  the same suit and value, so the swap is layout only.
- `getPlayerName`: a name read from `sessionStorage` with a default; names
  are abstracted away.
- `loadGameList`'s rendering of the list items and `escapeHtml`: text only.
- The content of error texts.
- The server's game rules.
