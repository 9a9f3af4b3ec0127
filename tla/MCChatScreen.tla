---------------------------- MODULE MCChatScreen ----------------------------
(* ChatScreen for TLC.                                                       *)
EXTENDS ChatScreen, TLC
=============================================================================
