------------------------------- MODULE MCSound -------------------------------
(* A sound card with either codec, the controller or the codec as master.   *)
EXTENDS Sound

Link(c, clk, f) == [codec |-> c, fmt |-> [clock |-> clk, format |-> f]]
MCBoards == {Link("es8316", "CBM_CFM", "left_j"), Link("es8323", "CBS_CFS", "i2s")}
MCRates  == {11025, 44100}
MCWidths == {24}
=============================================================================
