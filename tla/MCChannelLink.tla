--------------------------- MODULE MCChannelLink ---------------------------
(* Bounds for TLC.                                                           *)
EXTENDS ChannelLink

=============================================================================
