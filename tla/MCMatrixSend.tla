--------------------------- MODULE MCMatrixSend ---------------------------
(***************************************************************************)
(* MatrixSend for TLC: a room, the one that replaces it, and a third one   *)
(* of another chat; all have a bridge event with an empty state key, and   *)
(* two of different chats have one that names no channel either: by        *)
(* themselves these must match nothing.                                    *)
(***************************************************************************)
EXTENDS MatrixSend, TLC

CONSTANTS old, new, other, m1, m2

MCRooms == {old, new, other}
MCTargets == [key : {"", "k"}, channel : {"chat"}] \cup [key : {""}, channel : {"else", ""}]
MCBridge == old :> {[key |-> "", channel |-> "chat"], [key |-> "k", channel |-> "chat"],
                    [key |-> "", channel |-> ""]}
         @@ new :> {[key |-> "", channel |-> "chat"], [key |-> "k", channel |-> "chat"]}
         @@ other :> {[key |-> "", channel |-> "else"], [key |-> "", channel |-> ""]}
MCMessages == {m1, m2}
MCRoomOf == m1 :> old @@ m2 :> new

Symmetry == Permutations(Sends)
=============================================================================
