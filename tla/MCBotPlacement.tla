--------------------------- MODULE MCBotPlacement ---------------------------
(* Small instances of BotPlacement for TLC: one run per strategy, each with
   every input that strategy reads. *)
EXTENDS BotPlacement
=============================================================================
