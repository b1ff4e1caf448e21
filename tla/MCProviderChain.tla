--------------------------- MODULE MCProviderChain ---------------------------
(* ProviderChain on the instance of its configuration.                       *)
EXTENDS ProviderChain

=============================================================================
