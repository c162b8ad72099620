------------------------------ MODULE MCAct8846 ------------------------------
(* DCDC2 and LDO1; a window with one entry of the map and one with none. *)
EXTENDS Act8846

MCOutputs == {1, 4}
MCWindows == {<<625000, 625000>>, <<610000, 620000>>}
=============================================================================
