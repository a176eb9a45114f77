--------------------------- MODULE MCRateLimiter ----------------------------
(* A small instance of RateLimiter. *)
EXTENDS RateLimiter

MCStream == <<1, 2, 3>>

(* Both limits, one peer on a whitelist, and no limit. *)
MCLimits ==
    {[perSecIP |-> 10, whitelistedIP |-> FALSE, whitelistedPeer |-> FALSE],
     [perSecIP |-> 10, whitelistedIP |-> FALSE, whitelistedPeer |-> TRUE],
     [perSecIP |-> 0, whitelistedIP |-> FALSE, whitelistedPeer |-> FALSE]}
=============================================================================
