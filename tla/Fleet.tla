------------------------------- MODULE Fleet -------------------------------
(***************************************************************************)
(* The managed servers, which every part of the hub knows by their ids.    *)
(***************************************************************************)
CONSTANT Servers  \* server ids (UUIDs: an id is never used again)
=============================================================================
