-------------------------- MODULE MCChannelStages --------------------------
(* Two generators with distinct values; Take may ask for more than there   *)
(* are.                                                                     *)
EXTENDS ChannelStages

MCValues == [gen1 |-> <<1, 2, 3>>, gen2 |-> <<4, 5>>]
=============================================================================
