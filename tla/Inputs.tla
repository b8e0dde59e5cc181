------------------------------ MODULE Inputs ------------------------------
(***************************************************************************)
(* What WhotGameClient (src/web/js/game.js) reads from the page: the     *)
(* bot-count and game-code inputs of the lobby, turned into the bodies of *)
(* the create and join-by-code requests, and the endpoints getApiBase and *)
(* getWebSocketUrl resolve once from the page's location and script tag   *)
(* and then cache.                                                        *)
(*                                                                         *)
(* Text is a sequence of characters over a small alphabet: a space (for  *)
(* any white space), digits, a sign, letters and a slash.  parseInt,      *)
(* trim and toUpperCase are modelled by what they do on it.  A URL is a   *)
(* record of its parts.  The responses of the requests, other than the    *)
(* clearing of the code input, are modelled by WhotClient.               *)
(***************************************************************************)
EXTENDS Codec, Integers, Sequences


CONSTANTS
  None,     \* null: an absent element or attribute
  MaxJoins  \* bound: join-by-code requests in flight

ASSUME MaxJoins \in Nat

VARIABLES
  page,     \* location and script attributes, fixed for the session
  botValue, \* #bot-count .value, or None without the element
  codeValue,\* #game-code-input .value, or None without the element
  apiBase,  \* this._apiBase, None while undefined
  wsUrl,    \* this._wsUrl, None while undefined
  request,  \* the body and base of the last request posted
  joins,    \* join-by-code requests in flight
  toast     \* the 'Enter a game code' notice was shown

vars == <<page, botValue, codeValue, apiBase, wsUrl, request, joins, toast>>

-----------------------------------------------------------------------------
(* Text.                                                                  *)

DigitValue == [c \in {"0", "2", "7"} |-> CASE c = "0" -> 0 [] c = "2" -> 2 [] c = "7" -> 7]
Letters == {"a", "B", "u"}
Upper == [c \in Letters \cup {" ", "-", "/"} \cup DOMAIN DigitValue |->
            IF c = "a" THEN "A" ELSE IF c = "u" THEN "U" ELSE c]

\* parseInt returns NaN when no digits follow the sign.
NaN == [kind |-> "NaN"]

RECURSIVE TrimStart(_), TrimEnd(_), Digits(_, _)

\* String.prototype.trim: white space off both ends.
TrimStart(s) == IF s # <<>> /\ Head(s) = " " THEN TrimStart(Tail(s)) ELSE s
TrimEnd(s) ==
  IF s # <<>> /\ s[Len(s)] = " " THEN TrimEnd(SubSeq(s, 1, Len(s) - 1)) ELSE s
Trim(s) == TrimEnd(TrimStart(s))

ToUpperCase(s) == [i \in DOMAIN s |-> Upper[s[i]]]

\* The decimal digits at the head of s, accumulated onto acc.
Digits(s, acc) ==
  IF s # <<>> /\ Head(s) \in DOMAIN DigitValue
  THEN Digits(Tail(s), 10 * acc + DigitValue[Head(s)])
  ELSE acc

\* parseInt(s, 10): leading white space, an optional sign, then the digits
\* up to the first other character; NaN without a digit.
ParseInt(s) ==
  LET t    == TrimStart(s)
      sign == IF t # <<>> /\ Head(t) = "-" THEN -1 ELSE 1
      u    == IF t # <<>> /\ Head(t) \in {"-", "+"} THEN Tail(t) ELSE t
  IN  IF u = <<>> \/ Head(u) \notin DOMAIN DigitValue THEN NaN
      ELSE Num(sign * Digits(u, 0))

\* Math.min and Math.max over numbers and NaN.
MathMin(a, b) == IF NaN \in {a, b} THEN NaN ELSE Num(IF a.n < b.n THEN a.n ELSE b.n)
MathMax(a, b) == IF NaN \in {a, b} THEN NaN ELSE Num(IF a.n > b.n THEN a.n ELSE b.n)

\* JSON.stringify writes NaN as null.
JsonNumber(v) == IF v = NaN THEN Null ELSE v

\* '/' off the end, once: replace(/\/$/, '').
StripSlash(s) == IF s # <<>> /\ s[Len(s)] = "/" THEN SubSeq(s, 1, Len(s) - 1) ELSE s

\* An attribute read as script && script.dataset.x ? x.trim() : null.
TrimmedAttr(a) == IF a \in {None, <<>>} THEN None ELSE Trim(a)

-----------------------------------------------------------------------------
(* The page and the inputs.                                               *)

Origin == <<"o">>  \* window.location.origin, which has no trailing '/'

\* location.protocol, the port in location.host (hostname h), and the
\* data-ws-port and data-api-base attributes of the script tags.
Pages ==
  [protocol : {"https:", "http:"}, port : {None, <<"8">>},
   wsPort : {None, <<" ">>, <<" ", "7", " ">>},
   apiBaseAttr : {None, <<" ">>, <<"/">>, <<"u", "/">>}]

BotValues ==
  {<<>>, <<"2">>, <<" ", "2">>, <<"7">>, <<"-", "2">>, <<"2", "a">>, <<"a">>, <<"0">>}
CodeValues == {<<>>, <<" ">>, <<"a", "B">>, <<" ", "u", " ">>}

\* The URL of a WebSocket: scheme, host name and port.
WsUrls == [scheme : {"wss:", "ws:"}, host : {"h"}, port : {None, <<"8">>, <<"7">>}]

Requests ==
  [kind : {"create"}, base : {Origin, <<>>, <<"u">>}, botCount : {Null} \cup {Num(k) : k \in -2..7}]
  \cup [kind : {"code"}, base : {Origin, <<>>, <<"u">>}, code : Seq(DOMAIN Upper \cup {"A", "U"})]

TypeOK ==
  /\ page \in Pages
  /\ botValue \in BotValues \cup {None}
  /\ codeValue \in CodeValues \cup {None}
  /\ apiBase \in {None, Origin, <<>>, <<"u">>}
  /\ wsUrl \in WsUrls \cup {None}
  /\ request \in Requests \cup {None}
  /\ joins \in 0..MaxJoins
  /\ toast \in BOOLEAN

Init ==
  /\ page \in Pages
  /\ botValue \in BotValues \cup {None}
  /\ codeValue \in {<<>>, None}
  /\ apiBase = None /\ wsUrl = None /\ request = None
  /\ joins = 0 /\ toast = FALSE

-----------------------------------------------------------------------------
(* The handlers.                                                          *)

\* Mutant: the data-api-base is kept with its trailing '/'.
GetApiBaseKeepsSlash ==
  IF apiBase # None THEN apiBase
  ELSE LET base == TrimmedAttr(page.apiBaseAttr)
       IN  IF base # None /\ Len(base) > 0 THEN base ELSE Origin

\* getApiBase(): the cached base, else the trimmed data-api-base without a
\* trailing '/', else the page's origin.
GetApiBase ==
  IF apiBase # None THEN apiBase
  ELSE LET base == TrimmedAttr(page.apiBaseAttr)
       IN  IF base # None /\ Len(base) > 0 THEN StripSlash(base) ELSE Origin

\* getWebSocketUrl(): the cached URL, else wss: on an https: page and ws:
\* otherwise, to the page's host name and the trimmed data-ws-port, or to
\* location.host (with the page's own port) when there is none.
GetWebSocketUrl ==
  IF wsUrl # None THEN wsUrl
  ELSE LET wsPort == TrimmedAttr(page.wsPort)
           scheme == IF page.protocol = "https:" THEN "wss:" ELSE "ws:"
       IN  IF wsPort # None /\ Len(wsPort) > 0
           THEN [scheme |-> scheme, host |-> "h", port |-> wsPort]
           ELSE [scheme |-> scheme, host |-> "h", port |-> page.port]

\* Mutant: no || 0, so NaN reaches Math.min (and null counts as 0).
BotCountNoDefault(v) ==
  LET parsed == IF v = None THEN Num(0) ELSE ParseInt(v)
  IN  JsonNumber(MathMax(Num(0), MathMin(Num(3), parsed)))

\* createGame's botCount: (el && parseInt(el.value, 10)) || 0, clamped by
\* Math.max(0, Math.min(3, .)), as JSON.stringify writes it.
BotCount(v) ==
  LET parsed == IF v = None THEN Null ELSE ParseInt(v)
  IN  JsonNumber(MathMax(Num(0), MathMin(Num(3), OrElse(parsed, Num(0)))))

\* Mutant: joinByCode upper-cases the value without trimming it.
CodeNoTrim(v) == IF v \in {None, <<>>} THEN <<>> ELSE ToUpperCase(v)

\* joinByCode's code: input && input.value ? value.trim().toUpperCase() : ''
Code(v) == IF v \in {None, <<>>} THEN <<>> ELSE ToUpperCase(Trim(v))

\* The user edits an input that is on the page.
EditBotCount(v) ==
  /\ botValue # None /\ botValue' = v
  /\ UNCHANGED <<page, codeValue, apiBase, wsUrl, request, joins, toast>>

EditCode(v) ==
  /\ codeValue # None /\ codeValue' = v
  /\ UNCHANGED <<page, botValue, apiBase, wsUrl, request, joins, toast>>

\* createGame(): POST {apiBase}/api/games with the bot count.
CreateGame ==
  /\ apiBase' = GetApiBase
  /\ request' = [kind |-> "create", base |-> GetApiBase, botCount |-> BotCount(botValue)]
  /\ UNCHANGED <<page, botValue, codeValue, wsUrl, joins, toast>>

\* joinByCode(): an empty code only shows 'Enter a game code'; otherwise
\* POST {apiBase}/api/games/join with the code.
JoinByCode ==
  /\ \/ /\ Code(codeValue) = <<>>
        /\ toast' = TRUE
        /\ UNCHANGED <<apiBase, request, joins>>
     \/ /\ Code(codeValue) # <<>>
        /\ joins < MaxJoins
        /\ apiBase' = GetApiBase
        /\ request' = [kind |-> "code", base |-> GetApiBase, code |-> Code(codeValue)]
        /\ joins' = joins + 1
        /\ UNCHANGED toast
  /\ UNCHANGED <<page, botValue, codeValue, wsUrl>>

\* The join-by-code request settles: on success the input is emptied
\* (if (input) input.value = ''), on failure the error is shown.
JoinByCodeSettled ==
  /\ joins > 0
  /\ joins' = joins - 1
  /\ \/ /\ codeValue' = IF codeValue = None THEN None ELSE <<>>
        /\ UNCHANGED toast
     \/ /\ toast' = TRUE
        /\ UNCHANGED codeValue
  /\ UNCHANGED <<page, botValue, apiBase, wsUrl, request>>

\* connect(): new WebSocket(getWebSocketUrl()).
Connect ==
  /\ wsUrl' = GetWebSocketUrl
  /\ UNCHANGED <<page, botValue, codeValue, apiBase, request, joins, toast>>

Next ==
  \/ \E v \in BotValues : EditBotCount(v)
  \/ \E v \in CodeValues : EditCode(v)
  \/ CreateGame
  \/ JoinByCode
  \/ JoinByCodeSettled
  \/ Connect

Spec == Init /\ [][Next]_vars

-----------------------------------------------------------------------------
(* Properties.                                                            *)

\* Spec 6: the create request's bot count is clamped to [0, 3], whatever
\* the bot-count input holds: empty, negative, too large, or not a number
\* (NaN would reach JSON as null).
CreateSendsClampedBotCount ==
  request # None /\ request.kind = "create"
    => request.botCount \in { Num(k) : k \in 0..3 }

\* joinByCode sends a code only when the input holds more than white
\* space, and then trimmed and in upper case; a blank input shows a notice.
CodeRequestNormalized ==
  request # None /\ request.kind = "code"
    => /\ request.code # <<>>
       /\ Head(request.code) # " " /\ request.code[Len(request.code)] # " "
       /\ \A i \in DOMAIN request.code : request.code[i] \notin {"a", "u"}

=============================================================================
