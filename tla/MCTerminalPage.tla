--------------------------- MODULE MCTerminalPage ---------------------------
(* One page that reconnects twice in a row before it gives up. *)
EXTENDS TerminalPage
=============================================================================
