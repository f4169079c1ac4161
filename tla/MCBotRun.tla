----------------------------- MODULE MCBotRun -----------------------------
(* BotRun for TLC.                                                        *)
EXTENDS BotRun

============================================================================
