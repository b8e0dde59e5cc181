----------------------------- MODULE MCInbound -----------------------------
(* Constants of Inbound for TLC: two snapshots, so that an update can     *)
(* replace one by the other, and four frames, so that three ERRORs can    *)
(* arrive with timers firing in between, or an update between two ERRORs. *)
EXTENDS Inbound

CONSTANTS s1, s2

MCSnapIds == {s1, s2}
MCFrames == 4
=============================================================================
