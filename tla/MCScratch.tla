------------------------------ MODULE MCScratch ------------------------------
(* One arena, two structs, lists of up to two items.                         *)
EXTENDS Scratch
=============================================================================
