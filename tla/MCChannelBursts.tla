--------------------------- MODULE MCChannelBursts ---------------------------
(***************************************************************************)
(* Deliveries of ChannelBursts for TLC.                                    *)
(***************************************************************************)
EXTENDS ChannelBursts

CONSTANTS m1, m2, m3

OneRedelivered == {<<m1, 1>>, <<m2, 1>>, <<m2, 2>>, <<m3, 1>>}
OnlyOnce == {<<m1, 1>>}
OneSender == [m \in Messages |-> "sender"]
=============================================================================
