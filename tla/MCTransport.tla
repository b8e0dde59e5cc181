---------------------------- MODULE MCTransport ----------------------------
(* Model-checking instance of Transport: the page calls connect() a       *)
(* bounded number of times and the network closes a bounded number of    *)
(* sockets, enough for a close to land on every socket state.             *)
EXTENDS Transport

\* One connect() by the page, as in a page that wires it up once.
MCOneConnect == 1
\* Two connect() calls: the page entering the lobby twice.
MCTwoConnects == 2
\* Three closes: a failed handshake, a dropped connection, and a close of
\* a socket that this.ws has already left behind.
MCDrops == 3
=============================================================================
