-------------------------- MODULE MCMatrixHealing --------------------------
(***************************************************************************)
(* MatrixHealing for TLC: an event in each of three rooms, of which two    *)
(* are reprocessed at a time and one cannot be fetched.                    *)
(***************************************************************************)
EXTENDS MatrixHealing, TLC

CONSTANTS r1, r2, r3, e1, e2, e3

MCRooms == {r1, r2, r3}
MCEvents == {e1, e2, e3}
MCRoomOf == e1 :> r1 @@ e2 :> r2 @@ e3 :> r3
MCExports == <<{e2, e3}>>
MCArriving == {e1}
MCUnreachable == {{r2}}
=============================================================================
