-------------------------------- MODULE RkI2s --------------------------------
(***************************************************************************)
(* The I2S controller driver (rk3288/debug/codec/rk_i2s.c).  Driver data   *)
(* and registers are one record; every function that touches them holds    *)
(* one spinlock with interrupts off, so it is an operator on that record.  *)
(***************************************************************************)
EXTENDS Integers, FiniteSets

Dirs        == {"playback", "capture"}
DefaultFreq == 11289600

\* enable_clks.  clocks counts how often the three clocks were enabled.
enable_clks(i) == [i EXCEPT !.clocks = @ + 1, !.clk = DefaultFreq]

\* The controller before its driver is loaded.
I2sInit ==
  [clocks |-> 0, bound |-> FALSE, clk |-> 0, start |-> {}, dma |-> {}, xfer |-> FALSE,
   mss |-> "master", ibm |-> [d \in Dirs |-> "i2s"], vdw |-> [d \in Dirs |-> 0],
   tsd |-> 0, mdiv |-> 0]

\* rockchip_snd_txctrl and rxctrl: the clocks of both directions are started
\* with the first one, and stopped when neither is started any more.
ctrlNoOther(i, d, on) ==     \* mutant: the other direction is not looked at
  IF on THEN [i EXCEPT !.dma = @ \cup {d}, !.xfer = TRUE, !.start = @ \cup {d}]
        ELSE [i EXCEPT !.dma = @ \ {d}, !.xfer = FALSE, !.start = @ \ {d}]
ctrl(i, d, on) ==
  IF on THEN [i EXCEPT !.dma = @ \cup {d}, !.xfer = TRUE, !.start = @ \cup {d}]
        ELSE [i EXCEPT !.dma = @ \ {d}, !.xfer = @ /\ i.start \ {d} # {}, !.start = @ \ {d}]

Starts == {"start", "resume", "pause_release"}
Stops  == {"suspend", "stop", "pause_push"}
trigger(i, d, cmd) == ctrl(i, d, cmd \in Starts)

hw_params(i, d, width) == [i EXCEPT !.vdw[d] = width]

\* The master bit is written before the format is looked at, and the return
\* value is 0 in every case.
set_fmtSlave(i, fmt) ==      \* mutant: master and slave swapped
  [i EXCEPT !.mss = IF fmt.clock = "CBS_CFS" THEN "slave" ELSE "master",
            !.ibm = [d \in Dirs |-> fmt.format]]
set_fmt(i, fmt) ==
  IF fmt.clock \notin {"CBS_CFS", "CBM_CFM"} THEN i
  ELSE [i EXCEPT !.mss = IF fmt.clock = "CBS_CFS" THEN "master" ELSE "slave",
                 !.ibm = IF fmt.format \in {"right_j", "left_j", "i2s"}
                         THEN [d \in Dirs |-> fmt.format] ELSE @]

\* The fields of CKR are eight bits wide; TSD and RSD get the same divider.
set_clkdiv(i, id, div) ==
  IF id = "bclk" THEN [i EXCEPT !.tsd = div % 256] ELSE [i EXCEPT !.mdiv = div % 256]

set_sysclk(i, freq) == [i EXCEPT !.clk = freq]

\* rockchip_i2s_probe: parse_from_dt fails before the clocks are enabled;
\* what fails later leaves them on.
probe(i, outcome) ==
  CASE outcome = "no_dt"  -> i
    [] outcome = "failed" -> enable_clks(i)
    [] OTHER -> ctrl(ctrl([enable_clks(i) EXCEPT !.bound = TRUE, !.start = {}],
                          "playback", FALSE), "capture", FALSE)

remove(i) == [i EXCEPT !.clocks = @ - 1, !.bound = FALSE]

\* The frequency of LRCK when the controller is the master.
Lrck(i) == (i.clk \div (i.mdiv + 1)) \div (i.tsd + 1)
=============================================================================
