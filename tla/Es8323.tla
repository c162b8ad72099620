-------------------------------- MODULE Es8323 -------------------------------
(***************************************************************************)
(* The ES8323 codec driver (rk3288/debug/codec/es8323.c), on a record of   *)
(* the same fields as the ES8316's.                                        *)
(***************************************************************************)
EXTENDS Integers, FiniteSets

\* coeff_div: the ratio of master clock and rate that a row stands for.
coeff_div ==
  { <<12288000, 8000, 1536>>, <<11289600, 8000, 1408>>, <<18432000, 8000, 2304>>,
    <<16934400, 8000, 2112>>, <<12000000, 8000, 1500>>,
    <<11289600, 11025, 1024>>, <<16934400, 11025, 1536>>, <<12000000, 11025, 1088>>,
    <<12288000, 16000, 768>>, <<18432000, 16000, 1152>>, <<12000000, 16000, 750>>,
    <<11289600, 22050, 512>>, <<16934400, 22050, 768>>, <<12000000, 22050, 544>>,
    <<12288000, 32000, 384>>, <<18432000, 32000, 576>>, <<12000000, 32000, 375>>,
    <<11289600, 44100, 256>>, <<16934400, 44100, 384>>, <<12000000, 44100, 272>>,
    <<12288000, 48000, 256>>, <<18432000, 48000, 384>>, <<12000000, 48000, 250>>,
    <<11289600, 88200, 128>>, <<16934400, 88200, 192>>, <<12000000, 88200, 136>>,
    <<12288000, 96000, 128>>, <<18432000, 96000, 192>>, <<12000000, 96000, 125>> }
get_coeff(mclk, rate) == {row \in coeff_div : row[1] = mclk /\ row[2] = rate}

rates_12288  == {8000, 12000, 16000, 24000, 32000, 48000, 96000}
rates_112896 == {8000, 11025, 22050, 44100}
rates_12     == {8000, 11025, 12000, 16000, 22050, 24000, 32000, 44100, 48000, 88235, 96000}

\* es8323_set_dai_sysclk reports no error for a frequency it ignores.
set_dai_sysclk(c, freq) ==
  CASE freq \in {11289600, 18432000, 22579200, 36864000} -> [c EXCEPT !.sysclk = freq, !.rates = rates_112896]
    [] freq \in {12288000, 16934400, 24576000, 33868800} -> [c EXCEPT !.sysclk = freq, !.rates = rates_12288]
    [] freq \in {12000000, 24000000} -> [c EXCEPT !.sysclk = freq, !.rates = rates_12]
    [] OTHER -> c

\* es8323_set_dai_fmt accepts every format and sets up only I2S.
FmtOk(fmt) == fmt.clock \in {"CBS_CFS", "CBM_CFM"} /\ fmt.format \in {"i2s", "right_j", "left_j", "dsp_a", "dsp_b"}
set_dai_fmt(c, fmt) ==
  [c EXCEPT !.clock = IF fmt.clock = "CBM_CFM" THEN "master" ELSE "slave",
            !.format = IF fmt.format = "i2s" THEN "i2s" ELSE @]

\* One word length for both directions.
ParamsOk(c, rate) == get_coeff(c.sysclk, rate) \cup get_coeff(c.sysclk \div 2, rate) # {}
hw_paramsKept(c, d, rate, width) ==     \* mutant: the word length of playback is written for capture only
  LET row == CHOOSE r \in get_coeff(c.sysclk, rate) \cup get_coeff(c.sysclk \div 2, rate) : TRUE
  IN  [c EXCEPT !.width = IF d = "capture" THEN width ELSE @, !.ratio = row[3]]
hw_params(c, d, rate, width) ==
  LET exact == get_coeff(c.sysclk, rate)
      row   == CHOOSE r \in IF exact # {} THEN exact ELSE get_coeff(c.sysclk \div 2, rate) : TRUE
  IN  [c EXCEPT !.width = width, !.ratio = IF exact # {} THEN row[3] ELSE 2 * row[3]]

\* es8323_mute: the GPIO changes before the wait when muting, after it when
\* not, and then only if the speaker is to be heard.
mute_begin(c, m) == IF m THEN [c EXCEPT !.spk = FALSE] ELSE [c EXCEPT !.dac_mute = FALSE]
mute_end(c, m, on) == IF m THEN [c EXCEPT !.dac_mute = TRUE] ELSE [c EXCEPT !.spk = @ \/ on]

\* es8323_probe: reset, register setup, DAC muted, and STANDBY, which powers
\* the chip up, as PREPARE does.
set_bias_level(c) == [c EXCEPT !.pdn = FALSE]
codec_probe(c) ==
  set_bias_level([c EXCEPT !.clock = "slave", !.format = "i2s", !.width = 16, !.ratio = 256, !.dac_mute = TRUE])

\* es8323_i2c_probe with gpio_setup: the amplifier is off.
i2c_probe ==
  [sysclk |-> 0, rates |-> {}, clock |-> "slave", format |-> "i2s", width |-> 16, ratio |-> 0,
   pdn |-> TRUE, clksw |-> {}, pwr_count |-> 0, dac_mute |-> TRUE, spk |-> FALSE,
   mute_flag |-> TRUE, hp_irq_flag |-> FALSE]
=============================================================================
