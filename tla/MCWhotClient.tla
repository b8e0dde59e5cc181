--------------------------- MODULE MCWhotClient ---------------------------
(* Model-checking instance of WhotClient.                                  *)
EXTENDS WhotClient

\* Two games, so that a session can move from one game to another.
MCGames == {"g1", "g2"}
\* Hands with a Whot card at index 1 or 2, so that a snapshot can move it
\* between a pick and the suit click, and both encodings of its value.
MCHands == {<<"Whot", "Plain">>, <<"Plain", "Whot">>, <<"WhotStr">>, <<"Plain">>}
MCConnects == 1
MCDrops == 1
MCRequests == 2
MCInbound == 2
MCSends == 2
=============================================================================
