----------------------------- MODULE MCRk818Irq -----------------------------
(* RTC alarm in the first register, plug-in and plug-out in the second; the    *)
(* masks are clear, or hide the plug-out interrupt.                            *)
EXTENDS Rk818Irq

MCIrqs  == {5, 8, 9}
MCMasks == {{}, {9}}
=============================================================================
