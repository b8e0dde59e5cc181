------------------------------ MODULE Inbound ------------------------------
(***************************************************************************)
(* The inbound path of WhotGameClient (src/web/js/game.js) on one open    *)
(* socket: onmessage parses the frame, handleMessage dispatches on its    *)
(* type, updateGameState unwraps and stores the snapshot, handleError     *)
(* shows the error toast, and the toast's 4 s hide timer, kept in         *)
(* this._errorToastTimer, hides it again.                                 *)
(*                                                                         *)
(* The frames are built with the operators of Codec from the encodings    *)
(* the server may use.  An exception ends the onmessage task and changes  *)
(* nothing; the next frame is still handled.  What renderGame does with   *)
(* the stored snapshot is modelled by WhotClient.                         *)
(***************************************************************************)
EXTENDS Codec, FiniteSets

CONSTANTS
  None,      \* this._errorToastTimer before the first toast
  SnapIds,   \* snapshots the server sends (model values)
  MaxFrames  \* bound: frames delivered

ASSUME SnapIds # {} /\ MaxFrames \in Nat

VARIABLES
  gameState, \* this.gameState
  toast,     \* error-message is displayed
  timers,    \* ids of the pending hide timers of showErrorToast
  errTimer,  \* this._errorToastTimer: the id of the last timer armed
  nextTimer, \* the id setTimeout returns next
  received,  \* frames delivered so far
  frame      \* the frame delivered last

toastVars == <<toast, timers, errTimer, nextTimer>>
vars == <<gameState, toastVars, received, frame>>

EmptyObj == Obj([x \in {} |-> Null])

\* Spec 4.2 and 8: the payload arrives structured or as one nested string,
\* and the snapshot in it structured or as one further string, under
\* gameStateJson or under gameState.
ListedStatePayloads(id) ==
  { Enc(Obj([x \in {f} |-> Enc(Snap(id), d2)]), d1) :
      f \in {"gameStateJson", "gameState"}, d1 \in 0..1, d2 \in 0..1 }

\* STATE_UPDATE payloads that do not carry a snapshot in a listed form:
\* a payload, or a snapshot string, that is not JSON; a payload without
\* either field; a payload serialized twice.
MalformedStatePayloads ==
  { Text("payload"), Obj([gameStateJson |-> Text("snapshot")]), EmptyObj }
  \cup { Enc(Obj([gameState |-> Snap(id)]), 2) : id \in SnapIds }

StatePayloads ==
  UNION { ListedStatePayloads(id) : id \in SnapIds } \cup MalformedStatePayloads

\* ERROR payloads: an object with message or errorCode, or neither; the
\* object serialized; text that is not JSON; null; no payload at all.
PresentErrorPayloads ==
  { Obj([message |-> Text("message")]), Obj([errorCode |-> Text("code")]),
    EmptyObj, Str(Obj([message |-> Text("message")])), Text("message") }
ErrorPayloads == PresentErrorPayloads \cup {Null, Undefined}

\* The raw text of each frame (event.data).  CARD_PLAYED (204) stands for
\* the kinds that are only logged; 300 for a kind the client does not know.
StateUpdateFrame(p) == Str(Envelope(200, p))
ErrorFrame(p) == Str(Envelope(208, p))
Frames ==
  { StateUpdateFrame(p) : p \in StatePayloads }
  \cup { ErrorFrame(p) : p \in ErrorPayloads }
  \cup { Str(Envelope(204, Str(EmptyObj))), Str(Envelope(300, Undefined)) }
  \cup { Text("frame") }

TypeOK ==
  /\ gameState \in {Null, Undefined} \cup { Snap(id) : id \in SnapIds }
  /\ toast \in BOOLEAN
  /\ timers \subseteq 1..MaxFrames
  /\ errTimer \in 1..MaxFrames \cup {None}
  /\ nextTimer \in 1..MaxFrames + 1
  /\ received \in 0..MaxFrames
  /\ frame \in Frames \cup {None}

Init ==
  /\ gameState = Null
  /\ toast = FALSE /\ timers = {} /\ errTimer = None /\ nextTimer = 1
  /\ received = 0 /\ frame = None

-----------------------------------------------------------------------------
\* Mutant: no clearTimeout, the earlier hide timer stays pending.
ShowErrorToastNoClear ==
  /\ toast' = TRUE
  /\ timers' = timers \cup {nextTimer}
  /\ errTimer' = nextTimer
  /\ nextTimer' = nextTimer + 1

\* Mutant: the new timer is armed first, then clearTimeout cancels it.
ShowErrorToastClearsNew ==
  /\ toast' = TRUE
  /\ timers' = timers \ {errTimer}
  /\ errTimer' = nextTimer
  /\ nextTimer' = nextTimer + 1

\* showErrorToast(text): display, clearTimeout(this._errorToastTimer), and
\* keep the id of a new 4 s timer in this._errorToastTimer.
ShowErrorToast ==
  /\ toast' = TRUE
  /\ timers' = (timers \ {errTimer}) \cup {nextTimer}
  /\ errTimer' = nextTimer
  /\ nextTimer' = nextTimer + 1

\* updateGameState: a decoding exception leaves this.gameState as it was;
\* otherwise whatever was decoded replaces it, undefined included.
UpdateGameState(message) ==
  LET st == DecodedSnapshot(message) IN
  \/ /\ ~IsThrown(st)
     /\ gameState' = st
     /\ UNCHANGED toastVars
  \/ /\ IsThrown(st)
     /\ UNCHANGED <<gameState, toastVars>>

\* handleError: the toast, unless reading the text throws.
HandleError(message) ==
  \/ /\ ~IsThrown(ErrorText(message))
     /\ ShowErrorToast
     /\ UNCHANGED gameState
  \/ /\ IsThrown(ErrorText(message))
     /\ UNCHANGED <<gameState, toastVars>>

\* onmessage(event) with event.data = f: JSON.parse, then handleMessage.
Receive(f) ==
  /\ received < MaxFrames
  /\ received' = received + 1
  /\ frame' = f
  /\ LET message == ParseJSON(f)
         type    == IF IsThrown(message) THEN None ELSE Get(message, "type")
     IN  \/ /\ IsThrown(message)
            /\ UNCHANGED <<gameState, toastVars>>
         \/ type = 200 /\ UpdateGameState(message)
         \/ type = 208 /\ HandleError(message)
         \/ /\ ~IsThrown(message) /\ type \notin {200, 208}
            /\ UNCHANGED <<gameState, toastVars>>

\* The timer t of showErrorToast runs: error-message is hidden, whichever
\* message it was armed for.
HideToast(t) ==
  /\ t \in timers
  /\ toast' = FALSE
  /\ timers' = timers \ {t}
  /\ UNCHANGED <<errTimer, nextTimer, gameState, received, frame>>

Next ==
  \/ \E f \in Frames : Receive(f)
  \/ \E t \in timers : HideToast(t)

\* A pending setTimeout callback runs once its 4 s have elapsed.
Spec == Init /\ [][Next]_vars /\ WF_vars(\E t \in timers : HideToast(t))

-----------------------------------------------------------------------------
(* Properties.                                                            *)

\* The step delivers a frame.
Delivered == received' > received

\* Spec 8 (idempotent unwrapping): whichever listed encoding a STATE_UPDATE
\* uses, updateGameState stores exactly the snapshot it carries.
StateUpdateUnwrapped ==
  [][\A id \in SnapIds :
       Delivered /\ frame' \in { StateUpdateFrame(p) : p \in ListedStatePayloads(id) }
         => gameState' = Snap(id)]_vars

\* Spec 7(b): an ERROR frame whose payload is present, as an object or as a
\* string that parses or not, always shows a fresh notice (handleError's
\* catch turns a payload that does not parse into a generic text).
ErrorNoticeForPresentPayload ==
  [][Delivered /\ frame' \in { ErrorFrame(p) : p \in PresentErrorPayloads }
       => toast' /\ errTimer' # errTimer]_vars

\* Spec 7(b), for every ERROR frame, its payload null or absent included.
ErrorAlwaysNotified ==
  [][Delivered /\ frame' \in { ErrorFrame(p) : p \in ErrorPayloads }
       => toast' /\ errTimer' # errTimer]_vars

\* Spec 4.2 and 7(d): a frame that does not decode, or a STATE_UPDATE that
\* carries no snapshot in a listed form, gives a generic notice.
MalformedNotified ==
  [][Delivered /\ frame' \in { Text("frame") } \cup
                 { StateUpdateFrame(p) : p \in MalformedStatePayloads }
       => errTimer' # errTimer]_vars

\* showErrorToast cancels the earlier timer: the toast is hidden only by the
\* timer of the latest message, never early by one armed for an older one.
OnlyLatestTimerHides ==
  [][toast /\ ~toast' => errTimer \notin timers']_vars

\* Spec 7: every notice is ephemeral; a shown toast is eventually hidden.
ToastEventuallyHides == toast ~> ~toast

=============================================================================
