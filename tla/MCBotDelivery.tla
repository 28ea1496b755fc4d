--------------------------- MODULE MCBotDelivery ---------------------------
(* Small instances of BotDelivery for TLC. *)
EXTENDS BotDelivery

CONSTANTS k1
=============================================================================
