----------------------------- MODULE MCDiscovery -----------------------------
EXTENDS Discovery, TLC

CONSTANTS h1, h2, other, alice, bob

\* Two machines.  The second may be restarted by a user of the same name; it finds the
\* address of another of its interfaces, or none that it can write out.
Users == (h1 :> {alice}) @@ (h2 :> {bob, alice})
Interfaces == (h1 :> {h1}) @@ (h2 :> {NoAddress, other})
Starts == (h1 :> 1) @@ (h2 :> 2)
=============================================================================
