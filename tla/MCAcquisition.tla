---------------------------- MODULE MCAcquisition ----------------------------
(* Values of Acquisition's constants for TLC. *)
EXTENDS Acquisition

CONSTANTS sr0, sr1, disk

(* Attempts that take as long as the pause, total times that are used up   *)
(* in the middle of a pause, of an attempt and of a body.                  *)
MCRequestTimeout == [c \in Call |-> 2]
MCInterval == [c \in Call |-> IF c = "query" THEN 2 ELSE 1]
MCTotal == [c \in Call |-> IF c = "query" THEN 5 ELSE 3]

MCOvf == [d \in Device |-> IF d = sr0 THEN "good" ELSE "password"]

Elsewhere(d) == [dev |-> d, at |-> "elsewhere"]

(* None, one, a device mounted twice, both in either order. *)
MCInitialMtab ==
    {<<Elsewhere(disk)>>, <<Elsewhere(sr0), Elsewhere(sr0)>>,
     <<Elsewhere(sr0), Elsewhere(sr1)>>, <<Elsewhere(sr1), Elsewhere(sr0)>>}
=============================================================================
