---------------------------- MODULE MCLoginGate ----------------------------
(* Two senders, directly or behind one or two proxies, and a header that is *)
(* made up, of no address, or too long once the proxies have added theirs.  *)
(* They compete for one record, with two logins under way.                  *)
EXTENDS LoginGate, TLC

CONSTANTS home, work, proxy, a, b

MCPaths  == {<<>>, <<proxy>>, <<proxy, proxy>>}
MCClaims == {<<>>, <<home>>, <<work>>, <<proxy>>, <<None>>}

Symmetry == Permutations(Clients \ Proxies) \cup Permutations(Requests)
=============================================================================
