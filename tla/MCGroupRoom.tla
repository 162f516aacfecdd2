---------------------------- MODULE MCGroupRoom ----------------------------
EXTENDS GroupRoom, TLC

\* Rooms and sockets are interchangeable.
RoomSymmetry == Permutations(Room) \cup Permutations(Socket)
=============================================================================
