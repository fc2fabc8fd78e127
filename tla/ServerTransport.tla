--------------------------- MODULE ServerTransport ---------------------------
(***************************************************************************)
(* The host's network as the server core sees it                           *)
(* (server/openmp/component.cpp, OpenMpTransport).  Send either hands the   *)
(* framed packet to open.mp's reliable ordered channel or refuses it; what  *)
(* was handed over on a player's present connection is outbox[p].           *)
(***************************************************************************)
EXTENDS Naturals, Sequences

CONSTANTS Players,    (* ids the host assigns; reused after a disconnect    *)
          MaxOutbox   (* bound of the model: frames sent per connection     *)

ASSUME BoundAssumption == MaxOutbox \in Nat

VARIABLES attached,   (* core_, handler_ and context_ are all set           *)
          outbox      (* frames accepted for each player, oldest first      *)

TransportInit ==
  /\ attached = FALSE
  /\ outbox = [p \in Players |-> <<>>]

(* Send succeeds for each of the frames, in order.                          *)
Transmit(p, frames) ==
  /\ attached
  /\ Len(outbox[p]) + Len(frames) <= MaxOutbox
  /\ outbox' = [outbox EXCEPT ![p] = @ \o frames]

(* A new connection has a new, empty channel.                               *)
ForgetChannel(p) == outbox' = [outbox EXCEPT ![p] = <<>>]

AttachTransport == attached' = TRUE
ShutdownTransport == attached' = FALSE
=============================================================================
