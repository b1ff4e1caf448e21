------------------------- MODULE MCPendingGateStore -------------------------
(* Two threads, three gates (two of them on the same thread), a trusted and *)
(* an untrusted channel.                                                    *)
EXTENDS PendingGateStore, TLC

CONSTANTS r1, r2, r3, k1, k2, web, xmpp

MCRequests == {r1, r2, r3}
MCKeys == {k1, k2}
MCChannels == {web, xmpp}
MCTrusted == {web}
MCKeyOf == (r1 :> k1) @@ (r2 :> k1) @@ (r3 :> k2)
MCChannelOf == (r1 :> xmpp) @@ (r2 :> web) @@ (r3 :> xmpp)

=============================================================================
