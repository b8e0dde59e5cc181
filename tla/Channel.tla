------------------------------ MODULE Channel ------------------------------
(***************************************************************************)
(* What the Transport Channel promises (spec 4.1, 5 and 9), abstractly:   *)
(* one connection state, at most one pending reconnect, and sends that   *)
(* go out only while the connection is OPEN.                              *)
(*                                                                         *)
(* connect() is idempotent: while CONNECTING or OPEN it changes nothing,  *)
(* so it has no action of its own there.  A close schedules exactly one   *)
(* reconnect, which is single-shot and eventually runs; a connect() made  *)
(* while it is pending takes its place.                                   *)
(***************************************************************************)
EXTENDS Naturals

VARIABLES
  conn,  \* DISCONNECTED, CONNECTING or OPEN
  retry, \* a reconnect is scheduled
  out    \* envelopes transmitted so far

chanVars == <<conn, retry, out>>

ConnStates == {"DISCONNECTED", "CONNECTING", "OPEN"}

ChanTypeOK ==
  /\ conn \in ConnStates
  /\ retry \in BOOLEAN
  /\ out \in Nat

ChanInit == conn = "DISCONNECTED" /\ retry = FALSE /\ out = 0

ChanConnect ==
  /\ conn = "DISCONNECTED"
  /\ conn' = "CONNECTING"
  /\ retry' = FALSE
  /\ UNCHANGED out

ChanOpen ==
  /\ conn = "CONNECTING"
  /\ conn' = "OPEN"
  /\ UNCHANGED <<retry, out>>

ChanDrop ==
  /\ conn \in {"CONNECTING", "OPEN"}
  /\ conn' = "DISCONNECTED"
  /\ retry' = TRUE
  /\ UNCHANGED out

ChanRetry ==
  /\ retry
  /\ conn = "DISCONNECTED"
  /\ conn' = "CONNECTING"
  /\ retry' = FALSE
  /\ UNCHANGED out

ChanSend ==
  /\ conn = "OPEN"
  /\ out' = out + 1
  /\ UNCHANGED <<conn, retry>>

ChanNext == ChanConnect \/ ChanOpen \/ ChanDrop \/ ChanRetry \/ ChanSend

ChanSpec == ChanInit /\ [][ChanNext]_chanVars /\ WF_chanVars(ChanRetry)

=============================================================================
