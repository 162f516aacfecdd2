----------------------------- MODULE Membership -----------------------------
(***************************************************************************)
(* What the open rooms promise the user of one process: he is in one room  *)
(* at most.  He enters one that he creates, and then owns, or one that     *)
(* somebody has advertised of late; he owns no room but the one he is in;  *)
(* what he says goes to the room he is current, and he does not change rooms    *)
(* before it is sent.  Nothing keeps him in a room.                        *)
(*                                                                         *)
(* There are no sockets, system calls or ages here, and no room name that  *)
(* is left over from a join that failed: GroupRoom shows how they bring it *)
(* about.                                                                  *)
(***************************************************************************)

CONSTANTS Room, NoRoom

VARIABLES
    current, \* the room the user is in, or NoRoom
    owns,    \* the room that is advertised as his, or NoRoom
    fresh,   \* the rooms advertised of late
    saying   \* the room that a chat of his is on its way to, or NoRoom

vars == <<current, owns, fresh, saying>>

Init ==
    /\ current = NoRoom
    /\ owns = NoRoom
    /\ fresh = {}
    /\ saying = NoRoom

Create(r) ==
    /\ saying = NoRoom
    /\ current' = r
    /\ owns' = r
    /\ UNCHANGED <<fresh, saying>>

Join(r) ==
    /\ saying = NoRoom
    /\ r \in fresh \ {current}
    /\ current' = r
    /\ owns' = NoRoom
    /\ UNCHANGED <<fresh, saying>>

\* By choice, or because another room could not be entered.
Leave ==
    /\ saying = NoRoom
    /\ current' = NoRoom
    /\ owns' = NoRoom
    /\ UNCHANGED <<fresh, saying>>

Say ==
    /\ saying = NoRoom
    /\ current # NoRoom
    /\ saying' = current
    /\ UNCHANGED <<current, owns, fresh>>

Said ==
    /\ saying # NoRoom
    /\ saying' = NoRoom
    /\ UNCHANGED <<current, owns, fresh>>

Advertised(r) ==
    /\ fresh' = fresh \cup {r}
    /\ UNCHANGED <<current, owns, saying>>

\* Time passes.
Forget ==
    /\ fresh' \in SUBSET fresh
    /\ UNCHANGED <<current, owns, saying>>

Next ==
    \/ \E r \in Room : Create(r) \/ Join(r) \/ Advertised(r)
    \/ Leave \/ Say \/ Said \/ Forget

Spec == Init /\ [][Next]_vars
=============================================================================
