------------------------------- MODULE Codec -------------------------------
(***************************************************************************)
(* The Message Codec of WhotGameClient (src/web/js/game.js) as pure       *)
(* operators over a small algebra of JSON values.                         *)
(*                                                                         *)
(* A value is a record whose kind is "undefined", "null", "snapshot" (a   *)
(* game-state object, named by an id), "object" (any other object, with  *)
(* its own properties as a record), "array", "number" or "string".  A string is either the  *)
(* text JSON.stringify produced from a value (Str(v)), or text that is    *)
(* not JSON (an error message, an HTML page).  No string here is empty.   *)
(* A JavaScript exception is the value Thrown: every operator passes it   *)
(* on, as the exception leaves the handler at the point it is raised.     *)
(***************************************************************************)
EXTENDS Naturals

Undefined == [kind |-> "undefined"]
Null      == [kind |-> "null"]
Thrown    == [kind |-> "thrown"]
Snap(id)  == [kind |-> "snapshot", id |-> id]
Obj(r)    == [kind |-> "object", fields |-> r]
Num(n)    == [kind |-> "number", n |-> n]
Arr(s)    == [kind |-> "array", items |-> s]

\* The text JSON.stringify(v) gives: how the server's frames carry v.
Str(v) == [kind |-> "string", of |-> v]

\* A string JSON.parse rejects; t names it.
Text(t) == [kind |-> "string", of |-> [kind |-> "text", t |-> t]]

\* v serialized n times over, as a server frame may nest its payload and
\* snapshot (spec 4.2).
RECURSIVE Enc(_, _)
Enc(v, n) == IF n = 0 THEN v ELSE Str(Enc(v, n - 1))

\* A server frame's envelope { type, payload }; JSON.stringify leaves out a
\* property whose value is undefined.
Envelope(type, payload) ==
  IF payload = Undefined THEN Obj([type |-> type])
  ELSE Obj([type |-> type, payload |-> payload])

IsThrown(v) == v.kind = "thrown"

\* JSON.parse(s) of a string s.
ParseJSON(s) == IF s.of.kind = "text" THEN Thrown ELSE s.of

\* typeof v === 'string' ? JSON.parse(v) : v
ParseIfString(v) == IF v.kind = "string" THEN ParseJSON(v) ELSE v

\* o.f: a TypeError on undefined or null; a missing property, or one of a
\* string or a snapshot the client never reads this way, is undefined.
Get(o, f) ==
  CASE o.kind \in {"thrown", "undefined", "null"}      -> Thrown
    [] o.kind = "object" /\ f \in DOMAIN o.fields      -> o.fields[f]
    [] OTHER                                            -> Undefined

\* Truthiness for || and &&: objects, arrays, (non-empty) strings and
\* numbers other than 0.
Truthy(v) ==
  \/ v.kind \in {"object", "snapshot", "array", "string"}
  \/ v.kind = "number" /\ v.n # 0

\* a || b
OrElse(a, b) == IF IsThrown(a) \/ Truthy(a) THEN a ELSE b

\* Mutant: the payload is read without unwrapping its string form.
DecodedSnapshotPayloadAsIs(message) ==
  LET payload == Get(message, "payload")
  IN  ParseIfString(OrElse(Get(payload, "gameStateJson"), Get(payload, "gameState")))

\* Mutant: the snapshot string is stored as it is (this.gameState = jsonStr).
DecodedSnapshotNoNestedParse(message) ==
  LET payload == ParseIfString(Get(message, "payload"))
  IN  OrElse(Get(payload, "gameStateJson"), Get(payload, "gameState"))

\* updateGameState(message), lines 220-222: the payload, then the snapshot
\* under gameStateJson || gameState, each unwrapped once if it is a string.
DecodedSnapshot(message) ==
  LET payload == ParseIfString(Get(message, "payload"))
      jsonStr == OrElse(Get(payload, "gameStateJson"), Get(payload, "gameState"))
  IN  ParseIfString(jsonStr)

\* Mutant: handleError parses the payload without its try/catch.
ErrorTextNoCatch(message) ==
  LET payload == ParseIfString(Get(message, "payload"))
  IN  OrElse(OrElse(Get(payload, "message"), Get(payload, "errorCode")),
             Text("Invalid action"))

\* handleError(message), lines 407-413: a payload that does not parse is
\* replaced by { message: 'Something went wrong' } in the catch; the text
\* is then read outside the try.  The result is the text, or Thrown.
ErrorText(message) ==
  LET parsed  == ParseIfString(Get(message, "payload"))
      payload == IF IsThrown(parsed)
                 THEN Obj([message |-> Text("Something went wrong")])
                 ELSE parsed
  IN  OrElse(OrElse(Get(payload, "message"), Get(payload, "errorCode")),
             Text("Invalid action"))

=============================================================================
