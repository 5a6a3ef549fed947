----------------------------- MODULE MCConsole -----------------------------
(* A small instance of Console for TLC. *)
EXTENDS Console, TLC

CONSTANTS r1, r2, r3, proxy, timeout, nasIP, a, b, p1, p2

MCRequests == {r1, r2, r3}
MCLive == <<proxy, timeout>>
MCEnv  == (proxy :> b @@ timeout :> b @@ nasIP :> a)
MCSaves == {(timeout :> a), (proxy :> a @@ timeout :> b), (nasIP :> b)}
\* One port answers with a page to http, the other only to https.
MCApp == (p1 :> [scheme \in Schemes |-> IF scheme = "http" THEN "web" ELSE "unreachable"])
      @@ (p2 :> [scheme \in Schemes |-> IF scheme = "http" THEN "redirect" ELSE "web"])

Symmetry == Permutations(MCRequests)

=============================================================================
