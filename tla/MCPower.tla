------------------------------- MODULE MCPower -------------------------------
(***************************************************************************)
(* Instances of Power for TLC.                                             *)
(***************************************************************************)
EXTENDS Power, TLC

CONSTANTS c1, c2

\* DCDC1 and LDO9 share DCDC_EN, LDO2 and LDO3 share LDO_EN.  LDO9 is always
\* on: switching it off switches DCDC1 on.
MCOutputs  == {0, 5, 6, 12}
MCAlwaysOn == {12}
Ldo2       == 5
MCRequests ==
  [o \in Outputs |-> CASE o = 0 -> {905000} [] o = 6 -> {2250000} [] OTHER -> {3300000}]
MCBytes == {{}, 0..7}
MCDrivers == {c1, c2}
Swap == Permutations(MCDrivers)
=============================================================================
