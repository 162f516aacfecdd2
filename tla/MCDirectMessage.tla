-------------------------- MODULE MCDirectMessage --------------------------
EXTENDS DirectMessage, TLC

CONSTANTS h1, h2, alice, bob, carol, s1

\* Two machines, one user each.
TwoUsers == (h1 :> {alice}) @@ (h2 :> {bob})

\* The second machine may be restarted by another user, while the directory of
\* the first one still has the old name at its address.
ChangingUser == (h1 :> {alice}) @@ (h2 :> {bob, carol})
=============================================================================
