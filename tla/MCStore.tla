------------------------------ MODULE MCStore ------------------------------
(* Constants of Store for TLC: three sends, enough for a join and then a   *)
(* staged Whot card resolved with a suit, or two plays after a join.      *)
EXTENDS Store

MCMaxSends == 3
=============================================================================
