------------------------- MODULE MCConfirmLocation -------------------------
(* Small instances of ConfirmLocation for TLC. *)
EXTENDS ConfirmLocation

CONSTANTS seat, door, hall, home

MCPlaces == {seat, door, hall, home}

(* In the room, on either side of the threshold of 10, and far away. *)
MCMetres == [p \in MCPlaces |-> CASE p = seat -> 0
                                  [] p = door -> 10
                                  [] p = hall -> 11
                                  [] p = home -> 500]
=============================================================================
