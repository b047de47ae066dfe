---------------------------- MODULE MCChannelMix ----------------------------
(* Instances of ChannelMix for TLC. *)
EXTENDS ChannelMix

\* Both channels of a parallel plan with one peer.
OnePeer == [c \in Slots |-> 1]
=============================================================================
