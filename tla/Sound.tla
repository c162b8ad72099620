-------------------------------- MODULE Sound --------------------------------
(***************************************************************************)
(* A sound card (rk3288/debug/codec): the I2S controller, an ES8316 or     *)
(* ES8323 codec, and the machine driver that ties them (rk_es8316.c,       *)
(* rk_es8323.c).  The sound core is external: it calls open, hw_params,    *)
(* prepare and close of the two streams under one mutex, and trigger       *)
(* without it; symmetric_rates gives both streams one rate; a module of a  *)
(* bound card is not removed; and muting concerns playback only.           *)
(***************************************************************************)
EXTENDS Integers, Sequences, FiniteSets

CONSTANTS
  Boards,      \* codec and dai_fmt of the link, from the device tree
  Rates,       \* rates that programs ask for
  Widths,      \* sample widths that programs ask for
  MaxFlips,    \* bound: times the headphone plug is moved
  MaxFaults    \* bound: probes and calls of irq_set_irq_type that fail
               \*        and times the system is suspended

ASSUME SoundAssumption ==
  /\ Boards \subseteq [codec : {"es8316", "es8323"}, fmt : [clock : {"CBS_CFS", "CBM_CFM"},
                       format : {"i2s", "left_j", "right_j", "dsp_a", "dsp_b"}]]
  /\ Rates \subseteq Nat \ {0} /\ Widths \subseteq {16, 20, 24}
  /\ MaxFlips \in Nat /\ MaxFaults \in Nat

VARIABLES
  board,    \* the member of Boards this is
  i2s,      \* see RkI2s
  codec,    \* see Es8316 and Es8323
  card,     \* how far the modules are loaded: a subset of {"codec", "card"}
  pcm,      \* state and rate of the two streams
  job,      \* the operation that holds the mutex of the card
  jack,     \* pin, interrupt and handler of the headphone detection
  stale,    \* streams that were open when the codec was last resumed
  faults    \* how much of MaxFaults is used

vars == <<board, i2s, codec, card, pcm, job, jack, stale, faults>>

I == INSTANCE RkI2s
A == INSTANCE Es8316
B == INSTANCE Es8323

Es8316 == board.codec = "es8316"
Closed == [state |-> "closed", rate |-> 0]
NoJob  == [op |-> "none", dir |-> "playback", rate |-> 0, width |-> 0, on |-> FALSE, todo |-> <<>>]
NoJack == [pin |-> FALSE, irq |-> FALSE, type |-> "low", edge |-> FALSE, depth |-> 0,
           at |-> "idle", seen |-> FALSE, flips |-> 0]

Init ==
  /\ board \in Boards
  /\ i2s = I!I2sInit /\ codec = A!i2c_probe
  /\ card = {} /\ pcm = [d \in I!Dirs |-> Closed] /\ job = NoJob
  /\ jack \in {[NoJack EXCEPT !.pin = p] : p \in BOOLEAN}
  /\ stale = {} /\ faults = 0

Idle     == job = NoJob
Open(d)  == pcm[d].state # "closed"
Bound    == "card" \in card
Fault    == faults < MaxFaults /\ faults' = faults + 1

-----------------------------------------------------------------------------
(* Modules.                                                                 *)

LoadI2s ==
  /\ ~i2s.bound
  /\ \E outcome \in {"no_dt", "failed", "ok"} :
       /\ i2s' = I!probe(i2s, outcome)
       /\ IF outcome = "failed" THEN Fault ELSE UNCHANGED faults
  /\ UNCHANGED <<board, codec, card, pcm, job, jack, stale>>

UnloadI2s ==
  /\ i2s.bound /\ ~Bound
  /\ i2s' = I!remove(i2s)
  /\ UNCHANGED <<board, codec, card, pcm, job, jack, stale, faults>>

\* es8316_i2c_probe and es8323_i2c_probe: the interrupt is first requested
\* for a low level.
LoadCodec ==
  /\ card = {}
  /\ card' = {"codec"}
  /\ codec' = IF Es8316 THEN A!i2c_probe ELSE B!i2c_probe
  /\ jack' = [NoJack EXCEPT !.pin = jack.pin, !.flips = jack.flips, !.irq = TRUE]
  /\ UNCHANGED <<board, i2s, pcm, job, stale, faults>>

\* devm_request_threaded_irq is undone after the handler has ended.  Nothing
\* waits for hp_detect_work of the ES8323, which would then use freed memory;
\* and es8316_i2c_remove frees the chip's data, which devm frees again, while the
\* interrupt that uses it is registered until then.  Both are left out.
UnloadCodec ==
  /\ card = {"codec"} /\ jack.at = "idle"
  /\ card' = {}
  /\ jack' = [NoJack EXCEPT !.pin = jack.pin, !.flips = jack.flips]
  /\ UNCHANGED <<board, i2s, codec, pcm, job, stale, faults>>

\* The audio probe of the machine driver: parse_card_info_from_dt, and
\* snd_soc_register_card, which calls the codec's probe and the link's init.
SysclkOf == 11289600
LoadCard ==
  /\ card = {"codec"} /\ i2s.bound
  /\ card' = {"codec", "card"}
  /\ codec' = IF Es8316 THEN A!set_dai_sysclk(A!codec_probe(codec), SysclkOf)
                        ELSE B!set_dai_sysclk(B!codec_probe(codec), SysclkOf)
  /\ UNCHANGED <<board, i2s, pcm, job, jack, stale, faults>>

UnloadCard ==
  /\ Bound /\ Idle /\ \A d \in I!Dirs : ~Open(d)
  /\ card' = {"codec"}
  /\ codec' = IF Es8316 THEN A!codec_remove(codec) ELSE codec
  /\ UNCHANGED <<board, i2s, pcm, job, jack, stale, faults>>

-----------------------------------------------------------------------------
(* Operations of a stream under the mutex.                                  *)

\* es8316_pcm_startup and es8323_pcm_startup: the second only adds the rates.
PcmOpen(d) ==
  /\ Bound /\ Idle /\ ~Open(d)
  /\ codec' = IF Es8316 THEN A!startup(codec, d) ELSE codec
  /\ pcm' = IF Es8316 /\ ~A!StartupOk(codec) THEN pcm ELSE [pcm EXCEPT ![d].state = "open"]
  /\ UNCHANGED <<board, i2s, card, job, jack, stale, faults>>

\* rk3288_hw_params, then hw_params of the codec and of the controller.
pll_out(rate) ==
  CASE rate \in {8000, 16000, 24000, 32000, 48000} -> 12288000
    [] rate \in {11025, 22050, 44100}              -> 11289600
    [] OTHER                                       -> 0
HwCalls ==
  <<"codec_fmt", "cpu_fmt">>
  \o (IF board.fmt.clock = "CBS_CFS" THEN <<"sysclk", "bclk", "mclk">> ELSE <<>>)
  \o <<"codec_params", "cpu_params">>

Symmetric(d, rate) == \A e \in I!Dirs \ {d} : pcm[e].rate \in {0, rate}

HwParams(d, rate, width) ==
  /\ Bound /\ Idle /\ pcm[d].state \in {"open", "setup", "prepared"}
  /\ rate \in codec.rates /\ Symmetric(d, rate)
  /\ job' = [NoJob EXCEPT !.op = "hw_params", !.dir = d, !.rate = rate, !.width = width, !.todo = HwCalls]
  /\ UNCHANGED <<board, i2s, codec, card, pcm, jack, stale, faults>>

\* digital_mute of the codec when a playback is prepared, with DAPM's PREPARE.
Prepare(d) ==
  /\ Idle /\ pcm[d].state \in {"setup", "prepared", "suspended"}
  /\ job' = [NoJob EXCEPT !.op = "prepare", !.dir = d,
                          !.todo = IF d = "playback" THEN <<"unmute", "look", "speaker">> ELSE <<>>]
  /\ UNCHANGED <<board, i2s, codec, card, pcm, jack, stale, faults>>

Close(d) ==
  /\ Idle /\ pcm[d].state \in {"open", "setup", "prepared", "suspended"}
  /\ job' = [NoJob EXCEPT !.op = "close", !.dir = d,
                          !.todo = IF d = "playback" THEN <<"mute", "muted">> ELSE <<>>]
  /\ UNCHANGED <<board, i2s, codec, card, pcm, jack, stale, faults>>

Call(l)   == job.todo # <<>> /\ Head(job.todo) = l
Continue  == job' = [job EXCEPT !.todo = Tail(@)]
ContinueOr(ok) == job' = IF ok THEN [job EXCEPT !.todo = Tail(@)] ELSE NoJob

\* set_fmt of the codec may fail, and ends hw_params; the controller's never does.
CodecFmt ==
  /\ Call("codec_fmt")
  /\ LET ok == IF Es8316 THEN A!FmtOk(board.fmt) ELSE B!FmtOk(board.fmt) IN
       /\ codec' = IF ~ok THEN codec
                   ELSE IF Es8316 THEN A!set_dai_fmt(codec, board.fmt) ELSE B!set_dai_fmt(codec, board.fmt)
       /\ ContinueOr(ok)
  /\ UNCHANGED i2s
CpuFmt ==
  /\ Call("cpu_fmt") /\ i2s' = I!set_fmt(i2s, board.fmt)
  /\ ContinueOr(~Es8316 \/ pll_out(job.rate) # 0)
  /\ UNCHANGED codec

BclkDivOff(rate) == (pll_out(rate) \div 4) \div rate       \* mutant: the field holds the divider less one
BclkDiv(rate) == (pll_out(rate) \div 4) \div rate - 1
MclkDiv == 3
Clock ==
  /\ \/ Call("sysclk") /\ i2s' = I!set_sysclk(i2s, pll_out(job.rate))
     \/ Call("bclk")   /\ i2s' = I!set_clkdiv(i2s, "bclk", BclkDiv(job.rate))
     \/ Call("mclk")   /\ i2s' = I!set_clkdiv(i2s, "mclk", MclkDiv)
  /\ Continue /\ UNCHANGED codec

\* rk3288_hw_params of the ES8323 board only returns the error of its switch now.
CodecParams ==
  /\ Call("codec_params")
  /\ LET ok == pll_out(job.rate) # 0 /\ IF Es8316 THEN A!ParamsOk(codec, job.rate) ELSE B!ParamsOk(codec, job.rate) IN
       /\ codec' = IF ~ok THEN codec
                   ELSE IF Es8316 THEN A!hw_params(codec, job.dir, job.rate, job.width)
                                  ELSE B!hw_params(codec, job.dir, job.rate, job.width)
       /\ ContinueOr(ok)
  /\ UNCHANGED i2s
CpuParams ==
  /\ Call("cpu_params") /\ i2s' = I!hw_params(i2s, job.dir, job.width)
  /\ Continue /\ UNCHANGED codec

\* The two halves of mute, with a wait between them; unmuting looks at the
\* headphones before it switches the speaker.
Mute ==
  /\ \/ /\ Call("unmute") /\ Continue
        /\ codec' = IF Es8316 THEN A!mute_begin(codec, FALSE) ELSE B!mute_begin(B!set_bias_level(codec), FALSE)
     \/ /\ Call("look")
        /\ job' = [job EXCEPT !.on = IF Es8316 THEN ~codec.hp_irq_flag ELSE ~jack.pin, !.todo = Tail(@)]
        /\ UNCHANGED codec
     \/ /\ Call("speaker") /\ Continue
        /\ codec' = IF Es8316 THEN A!mute_end(codec, FALSE, job.on) ELSE B!mute_end(codec, FALSE, job.on)
     \/ /\ Call("mute") /\ Continue
        /\ codec' = IF Es8316 THEN A!mute_begin(codec, TRUE) ELSE B!mute_begin(codec, TRUE)
     \/ /\ Call("muted") /\ Continue
        /\ codec' = IF Es8316 THEN A!mute_end(codec, TRUE, FALSE) ELSE B!mute_end(codec, TRUE, FALSE)
  /\ UNCHANGED i2s

JobStep ==
  /\ CodecFmt \/ CpuFmt \/ Clock \/ CodecParams \/ CpuParams \/ Mute
  /\ UNCHANGED <<board, card, pcm, jack, stale, faults>>

\* The core records the outcome and unlocks; close ends with the codec's shutdown.
JobEnd ==
  /\ ~Idle /\ job.todo = <<>>
  /\ job' = NoJob
  /\ LET d == job.dir IN
     /\ pcm' = CASE job.op = "hw_params" -> [pcm EXCEPT ![d] = [state |-> "setup", rate |-> job.rate]]
                 [] job.op = "prepare"   -> [pcm EXCEPT ![d].state = "prepared"]
                 [] OTHER                -> [pcm EXCEPT ![d] = Closed]
     /\ codec' = IF job.op = "close" /\ Es8316 THEN A!shutdown(codec, d) ELSE codec
     /\ stale' = IF job.op = "close" THEN stale \ {d} ELSE stale
  /\ UNCHANGED <<board, i2s, card, jack, faults>>

-----------------------------------------------------------------------------
(* Operations without the mutex.                                            *)

\* rockchip_i2s_trigger, under the lock of the stream alone.
After(cmd) == IF cmd \in I!Starts THEN "running" ELSE IF cmd = "pause_push" THEN "paused" ELSE "prepared"
Trigger(d, cmd) ==
  /\ pcm[d].state \in CASE cmd = "start"         -> {"prepared"}
                         [] cmd = "pause_release" -> {"paused"}
                         [] cmd = "resume"        -> {"suspended"}
                         [] cmd = "stop"          -> {"running", "paused"}
                         [] OTHER                 -> {"running"}
  /\ ~(job.dir = d /\ ~Idle)
  /\ i2s' = I!trigger(i2s, d, cmd)
  /\ pcm' = [pcm EXCEPT ![d].state = After(cmd)]
  /\ UNCHANGED <<board, codec, card, job, jack, stale, faults>>

\* The system sleeps: no program is inside an operation.  Running streams are
\* suspended, an active playback is muted, and on resume es8316_resume resets
\* the codec and the playback is unmuted.
MutedAcross(c, active) ==
  CASE ~active -> IF Es8316 THEN A!resume(c) ELSE c
    [] active /\ Es8316 -> A!mute_end(A!mute_begin(A!resume(A!mute_end(A!mute_begin(c, TRUE), TRUE, FALSE)), FALSE),
                                       FALSE, ~c.hp_irq_flag)
    [] OTHER -> B!mute_end(B!mute_begin(B!mute_end(B!mute_begin(c, TRUE), TRUE, FALSE), FALSE), FALSE, ~jack.pin)
Running == {d \in I!Dirs : pcm[d].state = "running"}
Active(d) == pcm[d].state \in {"prepared", "running", "paused", "suspended"}
Sleep ==
  /\ Bound /\ Idle /\ Fault
  /\ i2s' = IF Running = {} THEN i2s
            ELSE IF Cardinality(Running) = 1 THEN I!trigger(i2s, CHOOSE d \in Running : TRUE, "suspend")
            ELSE I!trigger(I!trigger(i2s, "playback", "suspend"), "capture", "suspend")
  /\ pcm' = [d \in I!Dirs |-> IF d \in Running THEN [pcm[d] EXCEPT !.state = "suspended"] ELSE pcm[d]]
  /\ codec' = MutedAcross(codec, Active("playback"))
  /\ stale' = IF Es8316 THEN {d \in I!Dirs : Open(d)} ELSE stale
  /\ UNCHANGED <<board, card, job, jack>>

-----------------------------------------------------------------------------
(* Headphone detection.  The plug is in when the pin is high.               *)

Flip ==
  /\ jack.flips < MaxFlips
  /\ jack' = [jack EXCEPT !.pin = ~@, !.flips = @ + 1,
                !.edge = @ \/ (jack.irq /\ jack.type = IF jack.pin THEN "falling" ELSE "rising")]
  /\ UNCHANGED <<board, i2s, codec, card, pcm, job, stale, faults>>

\* hp_det_irq_handler: the interrupt is disabled; that of the ES8323 leaves
\* the rest to hp_detect_work.
FireAgain ==                 \* mutant: the interrupt need not be enabled
  /\ jack.irq /\ jack.at = "idle"
  /\ jack.edge \/ (jack.type = "low" /\ ~jack.pin)
  /\ jack' = [jack EXCEPT !.depth = @ + 1, !.at = "read", !.edge = FALSE]
  /\ UNCHANGED <<board, i2s, codec, card, pcm, job, stale, faults>>
Fire ==
  /\ jack.irq /\ jack.depth = 0 /\ jack.at = "idle"
  /\ jack.edge \/ (jack.type = "low" /\ ~jack.pin)
  /\ jack' = [jack EXCEPT !.depth = @ + 1, !.at = "read", !.edge = FALSE]
  /\ UNCHANGED <<board, i2s, codec, card, pcm, job, stale, faults>>

\* The next edge is chosen from the pin as it was read.
ReadPin ==
  /\ jack.at = "read"
  /\ jack' = [jack EXCEPT !.at = "type", !.seen = jack.pin]
  /\ UNCHANGED <<codec, faults>>
SetType ==
  /\ jack.at = "type"
  /\ \/ /\ jack' = [jack EXCEPT !.at = "decide", !.type = IF jack.seen THEN "falling" ELSE "rising"]
        /\ UNCHANGED faults
     \/ jack' = [jack EXCEPT !.at = "idle", !.seen = FALSE] /\ Fault
  /\ UNCHANGED codec
\* The pin is read again; the ES8316 keeps it in hp_irq_flag.
Decide ==
  /\ jack.at = "decide"
  /\ jack' = [jack EXCEPT !.at = "speaker", !.seen = jack.pin]
  /\ codec' = IF Es8316 THEN [codec EXCEPT !.hp_irq_flag = jack.pin] ELSE codec
  /\ UNCHANGED faults
\* The ES8316 leaves the speaker alone while it is muted, and reads the pin once more.
SpeakerNoEnable ==           \* mutant: the interrupt is left disabled
  /\ jack.at = "speaker"
  /\ jack' = [jack EXCEPT !.at = "idle"]
  /\ codec' = codec /\ UNCHANGED faults
Speaker ==
  /\ jack.at = "speaker"
  /\ jack' = [jack EXCEPT !.at = "idle", !.depth = @ - 1, !.seen = FALSE]
  /\ codec' = IF ~Es8316 THEN [codec EXCEPT !.spk = ~jack.seen]
              ELSE IF codec.mute_flag THEN codec ELSE [codec EXCEPT !.spk = ~jack.pin]
  /\ UNCHANGED faults
Handler ==
  /\ ReadPin \/ SetType \/ Decide \/ Speaker
  /\ UNCHANGED <<board, i2s, card, pcm, job, stale>>

-----------------------------------------------------------------------------
Next ==
  \/ LoadI2s \/ UnloadI2s \/ LoadCodec \/ UnloadCodec \/ LoadCard \/ UnloadCard
  \/ \E d \in I!Dirs :
       \/ PcmOpen(d) \/ Prepare(d) \/ Close(d)
       \/ \E r \in Rates, w \in Widths : HwParams(d, r, w)
       \/ \E cmd \in I!Starts \cup (I!Stops \ {"suspend"}) : Trigger(d, cmd)
  \/ JobStep \/ JobEnd \/ Sleep
  \/ Flip \/ Fire \/ Handler

\* A handler or work item that has begun goes on.
Spec == Init /\ [][Next]_vars /\ WF_vars(Handler)

-----------------------------------------------------------------------------
(* Properties.                                                              *)

\* Registers and driver data stay within their types; in particular the depth
\* of disable_irq_nosync and the power count never leave their range.
TypeOK ==
  /\ board \in Boards
  /\ i2s.clocks \in Nat /\ i2s.dma \subseteq I!Dirs /\ i2s.start \subseteq I!Dirs
  /\ i2s.xfer \in BOOLEAN /\ i2s.tsd \in 0..255 /\ i2s.mdiv \in 0..255
  /\ codec.pwr_count \in 0..2 /\ codec.spk \in BOOLEAN
  /\ jack.depth \in 0..1 /\ jack.at \in {"idle", "read", "type", "decide", "speaker"}
  /\ faults \in 0..MaxFaults

Configured(d) == pcm[d].rate # 0 /\ d \notin stale

\* For every stream with parameters, however the other one was configured or
\* operated since, one side and not both drives the bit clock, and both use the
\* same format (set_fmt of the codecs and of rockchip_i2s).
OneClockMaster ==
  \A d \in I!Dirs : Configured(d) =>
    /\ (i2s.mss = "master") # (codec.clock = "master")
    /\ i2s.ibm[d] = codec.format

\* A running stream has the frame clock it asked for at every instant, also
\* while the other stream is being configured, and the ES8323 divides by the
\* same ratio, as long as its rate is one of the codec's system clock
\* (rk3288_hw_params, set_clkdiv, coeff_div).
FrameClock ==
  \A d \in Running : i2s.mss = "master" /\ pll_out(pcm[d].rate) = codec.sysclk =>
    /\ I!Lrck(i2s) = pcm[d].rate
    /\ ~Es8316 => codec.ratio * pcm[d].rate = i2s.clk

\* The DMA of a direction is on exactly while its stream runs, and the clocks
\* of the controller exactly while one of them runs: stopping one stream never
\* stops the other (rockchip_snd_txctrl, rockchip_snd_rxctrl).
Transfers ==
  i2s.dma = Running /\ i2s.start = Running /\ i2s.xfer = (Running # {})

\* The ES8316 is powered, with the clocks of every open stream, until that
\* stream is closed or the system slept; its power count is the number of open
\* streams (es8316_pcm_startup, es8316_pcm_shutdown).
Powered ==
  Es8316 =>
    /\ codec.pwr_count = Cardinality({d \in I!Dirs : Open(d)})
    /\ \A d \in I!Dirs : Open(d) /\ d \notin stale => ~codec.pdn /\ A!Needs(d) \subseteq codec.clksw

\* A rate that startup offered is one that hw_params accepts to the end, and
\* with the ES8323 both sides then use the width that was asked for.
ParamsAccepted ==
  [][ job.op = "hw_params" /\ job' = NoJob =>
        /\ pcm'[job.dir].state = "setup" /\ pcm'[job.dir].rate = job.rate
        /\ i2s'.vdw[job.dir] = job.width /\ (Es8316 \/ codec'.width = job.width) ]_vars

\* The headphone interrupt is enabled again after every handler or work item,
\* unless irq_set_irq_type fails (hp_det_irq_handler, hp_detect_work).
IrqComesBack == jack.depth = 1 ~> (jack.depth = 0 \/ faults > 0)
=============================================================================
