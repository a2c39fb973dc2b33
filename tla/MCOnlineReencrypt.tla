-------------------------- MODULE MCOnlineReencrypt --------------------------
(* Small instances of OnlineReencrypt for TLC.                             *)
EXTENDS OnlineReencrypt

MCAllCalls == {"create", "load", "resume", "suspend", "read", "commit", "write",
               "resume hotzone", "reload name"}
=============================================================================
