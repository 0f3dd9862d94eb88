------------------------------ MODULE MCRaces ------------------------------
(* The instances of MCDownload, for the routine with its record of races. *)
EXTENDS MCDownload, Races
=============================================================================
