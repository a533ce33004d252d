----------------------------- MODULE Switchboard -----------------------------
(***************************************************************************)
(* What server switching promises, without connections: each player has at *)
(* most one wish, the last one counts, and taking a seat uses it up.       *)
(* ServerSwitch implements this.                                           *)
(***************************************************************************)

CONSTANTS Players, Sessions, Servers, Default, None

VARIABLES
  wish,  \* the server each player wants next, or None
  seat   \* for each session, who sits at which server, or None

Init == wish = [p \in Players |-> None] /\ seat = [s \in Sessions |-> None]

Ask(p, server) ==
  /\ wish' = [wish EXCEPT ![p] = server]
  /\ UNCHANGED seat

TakeSeat(s, p) ==
  /\ seat[s] = None
  /\ seat' = [seat EXCEPT ![s] =
        [player |-> p, server |-> IF wish[p] = None THEN Default ELSE wish[p]]]
  /\ wish' = [wish EXCEPT ![p] = None]

LeaveSeat(s) ==
  /\ seat' = [seat EXCEPT ![s] = None]
  /\ UNCHANGED wish

\* All wishes are forgotten and all seats left.
Reset ==
  /\ wish' = [p \in Players |-> None]
  /\ seat' = [s \in Sessions |-> None]

Next ==
  \/ Reset
  \/ \E p \in Players, server \in Servers : Ask(p, server)
  \/ \E s \in Sessions : LeaveSeat(s) \/ \E p \in Players : TakeSeat(s, p)

vars == <<wish, seat>>

Spec == Init /\ [][Next]_vars
=============================================================================
