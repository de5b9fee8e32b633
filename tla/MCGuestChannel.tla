--------------------------- MODULE MCGuestChannel ---------------------------
(* TLC instances of GuestChannel.                                          *)
EXTENDS GuestChannel
=============================================================================
