-------------------------- MODULE MCTelegramDaemon ---------------------------
(* Two daemons and a few updates.                                             *)
EXTENDS TelegramDaemon

=============================================================================
