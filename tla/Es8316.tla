-------------------------------- MODULE Es8316 -------------------------------
(***************************************************************************)
(* The ES8316 codec driver (rk3288/debug/codec/es8316.c): driver data,     *)
(* clock, power and interface registers and the amplifier GPIO are one     *)
(* record.  Volumes, mixers and DAC/ADC power, which DAPM drives too,      *)
(* are left out.                                                           *)
(***************************************************************************)
EXTENDS Integers, FiniteSets

\* coeff_div: the master clocks from which a rate can be divided.
coeff_div(rate) ==
  CASE rate \in {8000}                       -> {12288000, 11289600, 18432000, 16934400, 12000000, 19200000}
    [] rate \in {11025, 22050, 44100, 88200} -> {11289600, 16934400, 12000000}
    [] rate \in {16000, 32000, 48000, 96000} -> {12288000, 18432000, 12000000, 19200000}
    [] OTHER                                 -> {}
get_coeff(mclk, rate) == mclk \in coeff_div(rate)

rates_12288  == {8000, 12000, 16000, 24000, 32000, 48000, 96000}
rates_112896 == {8000, 11025, 22050, 44100}
rates_12     == {8000, 11025, 12000, 16000, 22050, 24000, 32000, 44100, 48000, 88235, 96000}

\* es8316_set_dai_sysclk, which keeps what it had for any other frequency.
set_dai_sysclk(c, freq) ==
  CASE freq \in {11289600, 18432000, 22579200, 36864000} -> [c EXCEPT !.sysclk = freq, !.rates = rates_112896]
    [] freq \in {12288000, 19200000, 16934400, 24576000, 33868800} -> [c EXCEPT !.sysclk = freq, !.rates = rates_12288]
    [] freq \in {12000000, 24000000} -> [c EXCEPT !.sysclk = freq, !.rates = rates_12]
    [] OTHER -> c

\* es8316_set_dai_fmt fails before anything is written.
FmtOk(fmt) == fmt.clock \in {"CBS_CFS", "CBM_CFM"} /\ fmt.format \in {"i2s", "left_j", "dsp_a", "dsp_b"}
set_dai_fmt(c, fmt) ==
  [c EXCEPT !.clock = IF fmt.clock = "CBM_CFM" THEN "master" ELSE "slave", !.format = fmt.format]

\* CLKMGR_CLKSW as the set of its bits that are one; 0xF3 and 0x7F are written whole.
ClkswF3 == {"mclk_div", "adc_analog", "dac_analog"}
Clksw7F == {"adc_mclk", "dac_mclk", "adc_analog", "dac_analog"}

\* What a stream needs to be heard: the chip on, and its clocks.
Needs(d) == IF d = "playback" THEN {"dac_mclk", "dac_analog"} ELSE {"dac_mclk", "adc_mclk", "adc_analog"}

startup(c, d) ==
  [c EXCEPT !.pdn = FALSE, !.pwr_count = @ + 1, !.clksw = (@ \ {"mclk_div"}) \cup Needs(d)]
StartupOk(c) == c.sysclk # 0

shutdownAll(c, d) ==         \* mutant: the power count is not looked at
  [c EXCEPT !.pwr_count = @ - 1, !.pdn = TRUE, !.clksw = ClkswF3]
shutdown(c, d) ==
  LET own == IF d = "playback" THEN {"dac_analog"} ELSE {"adc_mclk", "adc_analog"}
      s   == [c EXCEPT !.pwr_count = @ - 1, !.clksw = @ \ own,
                       !.pdn = IF d = "playback" THEN FALSE ELSE @]
  IN  IF s.pwr_count # 0 THEN s ELSE [s EXCEPT !.pdn = TRUE, !.clksw = ClkswF3]

\* Only bit 7 of CLKSW is written: the mask 0xe3 keeps the word length out of
\* the interface registers, and the dividers are computed but not written.
ParamsOk(c, rate) == get_coeff(c.sysclk, rate) \/ get_coeff(c.sysclk \div 2, rate)
hw_params(c, d, rate, width) ==
  [c EXCEPT !.clksw = (@ \ {"mclk_div"}) \cup (IF get_coeff(c.sysclk, rate) THEN {} ELSE {"mclk_div"})]

\* es8316_mute: muting switches the amplifier on, and waits before the DAC is
\* muted; unmuting waits before hp_irq_flag is read.
mute_begin(c, m) ==
  IF m THEN [c EXCEPT !.mute_flag = TRUE, !.spk = TRUE]
       ELSE [c EXCEPT !.mute_flag = FALSE, !.dac_mute = FALSE]
mute_end(c, m, on) ==
  IF m THEN [c EXCEPT !.dac_mute = TRUE] ELSE [c EXCEPT !.spk = @ \/ on]

\* es8316_init_regs, and what es8316_probe and es8316_resume write after it.
init_regs(c) ==
  [c EXCEPT !.pdn = FALSE, !.clksw = Clksw7F, !.clock = "slave", !.format = "i2s", !.width = 24]
reset(c) == [init_regs(c) EXCEPT !.pdn = TRUE, !.clksw = ClkswF3]
codec_probe(c)  == reset(c)
resume(c)       == reset(c)
codec_remove(c) == [c EXCEPT !.pdn = TRUE]

\* es8316_i2c_probe with gpio_setup: the amplifier is off.
i2c_probe ==
  [sysclk |-> 0, rates |-> {}, clock |-> "slave", format |-> "i2s", width |-> 24, ratio |-> 0,
   pdn |-> TRUE, clksw |-> {}, pwr_count |-> 0, dac_mute |-> TRUE, spk |-> FALSE,
   mute_flag |-> TRUE, hp_irq_flag |-> FALSE]
=============================================================================
