----------------------------- MODULE MCChatAgent -----------------------------
(* ChatAgent on the instance of its configuration.                            *)
EXTENDS ChatAgent

=============================================================================
