----------------------------- MODULE ReliableLink -----------------------------
(***************************************************************************)
(* What one direction of an OmniXtend connection promises the TileLink     *)
(* layer: packets are handed over in the order in which they were sent,    *)
(* each exactly once, none invented.  A packet is its index in that order. *)
(***************************************************************************)
EXTENDS Naturals, Sequences

VARIABLES
    sent,        \* number of packets sent so far
    delivered    \* indices of the packets handed over, in order

Init == sent = 0 /\ delivered = <<>>

Send == sent' = sent + 1 /\ UNCHANGED delivered

Deliver ==
    /\ Len(delivered) < sent
    /\ delivered' = Append(delivered, Len(delivered))
    /\ UNCHANGED sent

Next == Send \/ Deliver

Spec == Init /\ [][Next]_<<sent, delivered>>

=============================================================================
