--------------------------- MODULE MCChatRouting ---------------------------
EXTENDS ChatRouting, TLC

CONSTANTS h1, h2, h3, alice, bob, UsnChat, den

Users == (h1 :> alice) @@ (h2 :> bob) @@ (h3 :> alice)

\* Sessions whose id is the name that somebody gives a room, and the lobby's: on_invite
\* takes any id another client has chosen.
Sessions == {[sid |-> den, ends |-> {h1, h2}], [sid |-> UsnChat, ends |-> {h1, h2}]}
=============================================================================
