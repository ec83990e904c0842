--------------------------- MODULE MCConversation ---------------------------
(* Two requests under one key, and so little kept of what they say that the *)
(* oldest message has to go.                                                *)
EXTENDS Conversation
=============================================================================
