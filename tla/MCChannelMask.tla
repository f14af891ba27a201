--------------------------- MODULE MCChannelMask ---------------------------
(* Groups of a few channels, as sets of channel numbers. *)
EXTENDS ChannelMask

SmallGroups == {{}, {0, 7, 9}}
=============================================================================
