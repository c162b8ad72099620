----------------------------- MODULE SoundProofs -----------------------------
(***************************************************************************)
(* Proofs about Sound, for any boards, rates, widths and number of plug    *)
(* movements and failures.                                                 *)
(***************************************************************************)
EXTENDS Sound, TLAPS, FiniteSetTheorems, SequenceTheorems

(***************************************************************************)
(* Types.                                                                  *)
(***************************************************************************)

Formats == {"i2s", "left_j", "right_j", "dsp_a", "dsp_b"}
Labels  == {"codec_fmt", "cpu_fmt", "sysclk", "bclk", "mclk", "codec_params", "cpu_params",
            "unmute", "look", "speaker", "mute", "muted"}
Clksw   == {"mclk_div", "adc_mclk", "dac_mclk", "adc_analog", "dac_analog"}

DirSets == SUBSET I!Dirs
Byte    == 0..255
Sides   == {"master", "slave"}
IbmType == [I!Dirs -> Formats]
VdwType == [I!Dirs -> Nat]

I2sType ==
  [clocks : Nat, bound : BOOLEAN, clk : Nat, start : DirSets, dma : DirSets, xfer : BOOLEAN,
   mss : Sides, ibm : IbmType, vdw : VdwType, tsd : Byte, mdiv : Byte]
RateSets  == SUBSET Nat
ClkswSets == SUBSET Clksw

CodecType ==
  [sysclk : Nat, rates : RateSets, clock : Sides, format : Formats, width : Nat, ratio : Nat,
   pdn : BOOLEAN, clksw : ClkswSets, pwr_count : Int, dac_mute : BOOLEAN, spk : BOOLEAN,
   mute_flag : BOOLEAN, hp_irq_flag : BOOLEAN]
States  == {"closed", "open", "setup", "prepared", "running", "paused", "suspended"}
PcmType == [state : States, rate : Nat]
Todos   == Seq(Labels)
JobType == [op : {"none", "hw_params", "prepare", "close"}, dir : I!Dirs, rate : Nat, width : Nat, on : BOOLEAN,
            todo : Todos]
JackType ==
  [pin : BOOLEAN, irq : BOOLEAN, type : {"low", "rising", "falling"}, edge : BOOLEAN, depth : Int,
   at : {"idle", "read", "type", "decide", "speaker"}, seen : BOOLEAN, flips : Nat]

Types ==
  /\ board \in Boards /\ i2s \in I2sType /\ codec \in CodecType
  /\ card \in {{}, {"codec"}, {"codec", "card"}}
  /\ pcm \in [I!Dirs -> PcmType] /\ job \in JobType /\ jack \in JackType
  /\ stale \subseteq I!Dirs /\ faults \in 0..MaxFaults

(***************************************************************************)
(* The parts of the invariant.                                             *)
(***************************************************************************)

\* The clocks of a controller that is bound are counted; the handler of the
\* detection interrupt runs with the interrupt disabled once.
Counts ==
  /\ i2s.bound => i2s.clocks >= 1
  /\ jack.depth \in {0, 1} /\ (jack.at # "idle" => jack.depth = 1)

\* A stream has a rate from its first hw_params until it is closed.
PcmLife ==
  \A d \in I!Dirs : /\ pcm[d].state = "closed" => pcm[d].rate = 0 /\ d \notin stale
                    /\ pcm[d].state \notin {"closed", "open"} => pcm[d].rate # 0

\* What holds before the card is bound, and from then on.
Life ==
  /\ Bound => i2s.bound /\ codec.sysclk = SysclkOf /\ codec.rates = A!rates_112896
  /\ ~Bound => job.op = "none" /\ \A d \in I!Dirs : pcm[d].state = "closed"
  /\ PcmLife
  /\ ~Es8316 => stale = {}

\* The stream of an operation is neither running nor closed, and its
\* parameters fit those of the other stream.
JobFits ==
  /\ job.op = "none" <=> Idle
  /\ job.op # "none" => pcm[job.dir].state \in {"open", "setup", "prepared", "suspended"}
  /\ job.op = "hw_params" =>
       /\ pcm[job.dir].state # "suspended"
       /\ job.rate \in codec.rates /\ job.rate # 0 /\ Symmetric(job.dir, job.rate)
  /\ job.op = "prepare" => pcm[job.dir].state # "open"

\* Only hw_params makes the calls that set formats, clocks and widths.
MuteCalls == {"unmute", "look", "speaker", "mute", "muted"}
Asked == job.op # "hw_params" => job.todo \in Seq(MuteCalls)

\* Power of the ES8316.
Power ==
  IF Es8316 THEN Powered ELSE codec.pwr_count = 0

\* The part of the invariant for types, transfers and power.
Base == Types /\ Counts /\ Life /\ JobFits /\ Asked /\ Transfers /\ Power

\* Whether both sides know the format of the board, and whether the codec
\* accepts it.
Fits     == board.fmt.format \in IF Es8316 THEN {"i2s", "left_j"} ELSE {"i2s"}
Accepted == Es8316 => A!FmtOk(board.fmt)

\* What the calls of hw_params bring about.
CodecFmtSet  == /\ codec.clock = IF board.fmt.clock = "CBM_CFM" THEN "master" ELSE "slave"
                /\ Fits => codec.format = board.fmt.format
I2sFmt       == /\ i2s.mss = IF board.fmt.clock = "CBS_CFS" THEN "master" ELSE "slave"
                /\ Fits => \A d \in I!Dirs : i2s.ibm[d] = board.fmt.format
ClkSet(r)    == i2s.clk = pll_out(r)
Divided(r)   == i2s.tsd = BclkDiv(r) % 256
MclkSet      == i2s.mdiv = MclkDiv
RatioSet(r)  == pll_out(r) = SysclkOf => codec.ratio * r = SysclkOf
CodecWide(w) == codec.width = w
WordSet(d, w) == i2s.vdw[d] = w

Master   == board.fmt.clock = "CBS_CFS"
Timed(r) == (Master => ClkSet(r) /\ Divided(r) /\ MclkSet) /\ (~Es8316 => RatioSet(r))

\* A call of the operation is done when it is no longer to be made.
Done(l) == \A i \in 1..Len(job.todo) : job.todo[i] # l
Doing ==
  job.op = "hw_params" =>
    /\ Done("codec_fmt") => CodecFmtSet /\ Accepted
    /\ Done("cpu_fmt")   => I2sFmt
    /\ Master => /\ Done("sysclk") => ClkSet(job.rate)
                 /\ Done("bclk")   => Divided(job.rate)
                 /\ Done("mclk")   => MclkSet
    /\ Done("codec_params") /\ ~Es8316 => RatioSet(job.rate) /\ CodecWide(job.width)
    /\ Done("cpu_params") => WordSet(job.dir, job.width)

\* A stream with parameters keeps them while the other one is configured.
Configuring(d) == job.op = "hw_params" /\ job.dir = d
Settled(d) ==
  pcm[d].rate # 0 => /\ I2sFmt /\ Accepted /\ (d \notin stale => CodecFmtSet)
                     /\ ~Configuring(d) => Timed(pcm[d].rate)
Settings == Doing /\ \A d \in I!Dirs : Settled(d)

SoundInv == Base /\ Settings

(***************************************************************************)
(* The operators of the controller.                                        *)
(***************************************************************************)

\* What set_fmt, set_clkdiv, set_sysclk and hw_params leave alone.
I2sKeeps(i, x) ==
  /\ x \in I2sType /\ x.clocks = i.clocks /\ x.bound = i.bound
  /\ x.start = i.start /\ x.dma = i.dma /\ x.xfer = i.xfer
\* What trigger leaves alone.
I2sKept(i, x) ==
  /\ x \in I2sType /\ x.clocks = i.clocks /\ x.bound = i.bound /\ x.clk = i.clk /\ x.mss = i.mss
  /\ x.ibm = i.ibm /\ x.vdw = i.vdw /\ x.tsd = i.tsd /\ x.mdiv = i.mdiv
Agree(i, S) == i.dma = S /\ i.start = S /\ i.xfer = IF S = {} THEN FALSE ELSE TRUE

CtrlSet(i, S) == [i EXCEPT !.dma = S, !.xfer = IF S = {} THEN FALSE ELSE TRUE, !.start = S]

LEMMA CtrlSets ==
  ASSUME NEW i \in I2sType, NEW S \in DirSets
  PROVE  I2sKept(i, CtrlSet(i, S)) /\ Agree(CtrlSet(i, S), S)
<1> DEFINE f == IF S = {} THEN FALSE ELSE TRUE
           y == [i EXCEPT !.dma = S]
           z == [y EXCEPT !.xfer = f]
           x == [z EXCEPT !.start = S]
<1>0. CtrlSet(i, S) = x BY DEF CtrlSet
<1>f. f \in BOOLEAN OBVIOUS
<1> HIDE DEF f
<1>1. I2sKept(i, y) /\ y.dma = S BY SMT DEF I2sType, I2sKept
<1> HIDE DEF y
<1>2. I2sKept(y, z) /\ z.dma = y.dma /\ z.xfer = f BY <1>f, <1>1, SMT DEF I2sType, I2sKept
<1> HIDE DEF z
<1>3. I2sKept(z, x) /\ x.dma = z.dma /\ x.xfer = z.xfer /\ x.start = S BY <1>2, SMT DEF I2sType, I2sKept
<1> HIDE DEF x
<1>4. I2sKept(i, x) BY <1>1, <1>2, <1>3 DEF I2sKept
<1>5. x.dma = S /\ x.xfer = f /\ x.start = S BY <1>1, <1>2, <1>3, Zenon
<1> QED BY <1>0, <1>4, <1>5, Zenon DEF Agree, f

LEMMA CtrlOn ==
  ASSUME NEW i \in I2sType, NEW d \in I!Dirs, NEW S, Agree(i, S)
  PROVE  I2sKept(i, I!ctrl(i, d, TRUE)) /\ Agree(I!ctrl(i, d, TRUE), S \cup {d})
<1>1. I!ctrl(i, d, TRUE) = [i EXCEPT !.dma = i.dma \cup {d}, !.xfer = TRUE, !.start = i.start \cup {d}]
  BY DEF I!ctrl
<1>2. i.dma \in DirSets /\ i.dma = S /\ i.start = S BY DEF I2sType, Agree
<1>3. S \cup {d} \in DirSets BY <1>2 DEF DirSets
<1>4. (IF S \cup {d} = {} THEN FALSE ELSE TRUE) = TRUE OBVIOUS
<1>5. I!ctrl(i, d, TRUE) = CtrlSet(i, S \cup {d}) BY <1>1, <1>2, <1>4, Zenon DEF CtrlSet
<1> QED BY <1>3, <1>5, CtrlSets

LEMMA CtrlOff ==
  ASSUME NEW i \in I2sType, NEW d \in I!Dirs, NEW S, Agree(i, S)
  PROVE  I2sKept(i, I!ctrl(i, d, FALSE)) /\ Agree(I!ctrl(i, d, FALSE), S \ {d})
<1> DEFINE f == i.xfer /\ i.start \ {d} # {}
<1>1. I!ctrl(i, d, FALSE) = [i EXCEPT !.dma = i.dma \ {d}, !.xfer = f, !.start = i.start \ {d}]
  BY DEF I!ctrl
<1>2. i.dma \in DirSets /\ i.dma = S /\ i.start = S BY DEF I2sType, Agree
<1>3. S \ {d} \in DirSets BY <1>2 DEF DirSets
<1>4. f = IF S \ {d} = {} THEN FALSE ELSE TRUE
  <2>1. CASE S \ {d} = {} BY <2>1, <1>2
  <2>2. CASE S \ {d} # {}
    <3>1. i.xfer = TRUE BY <2>2 DEF Agree
    <3> QED BY <3>1, <2>2, <1>2
  <2> QED BY <2>1, <2>2
<1> HIDE DEF f
<1>5. I!ctrl(i, d, FALSE) = CtrlSet(i, S \ {d}) BY <1>1, <1>2, <1>4, Zenon DEF CtrlSet
<1> QED BY <1>3, <1>5, CtrlSets

LEMMA AgreeTransfers ==
  Transfers <=> Agree(i2s, Running)
<1>1. CASE Running = {}
  <2>1. (Running # {}) = FALSE BY <1>1
  <2> QED BY <1>1, <2>1 DEF Transfers, Agree
<1>2. CASE Running # {}
  <2>1. (Running # {}) = TRUE BY <1>2
  <2> QED BY <1>2, <2>1 DEF Transfers, Agree
<1> QED BY <1>1, <1>2

LEMMA I2sFmtKeeps ==
  ASSUME NEW i \in I2sType, NEW fmt \in [clock : {"CBS_CFS", "CBM_CFM"}, format : Formats]
  PROVE  /\ I2sKeeps(i, I!set_fmt(i, fmt))
         /\ I!set_fmt(i, fmt).clk = i.clk /\ I!set_fmt(i, fmt).tsd = i.tsd /\ I!set_fmt(i, fmt).mdiv = i.mdiv
         /\ I!set_fmt(i, fmt).vdw = i.vdw
         /\ I!set_fmt(i, fmt).mss = IF fmt.clock = "CBS_CFS" THEN "master" ELSE "slave"
         /\ fmt.format \in {"left_j", "i2s"} => \A d \in I!Dirs : I!set_fmt(i, fmt).ibm[d] = fmt.format
<1> DEFINE x == I!set_fmt(i, fmt)
           m == IF fmt.format \in {"right_j", "left_j", "i2s"} THEN [d \in I!Dirs |-> fmt.format] ELSE i.ibm
           s == IF fmt.clock = "CBS_CFS" THEN "master" ELSE "slave"
<1>1. fmt.clock \in {"CBS_CFS", "CBM_CFM"} OBVIOUS
<1>2. x = [i EXCEPT !.mss = s, !.ibm = m] BY <1>1 DEF I!set_fmt
<1>3. m \in IbmType
  <2>1. i.ibm \in IbmType BY DEF I2sType
  <2> QED BY <2>1 DEF IbmType
<1>4. s \in Sides BY DEF Sides
<1>5. fmt.format \in {"left_j", "i2s"} => \A d \in I!Dirs : m[d] = fmt.format OBVIOUS
<1> HIDE DEF m, s
<1> DEFINE y == [i EXCEPT !.mss = s]
<1>6. I2sKeeps(i, y) /\ y.clk = i.clk /\ y.tsd = i.tsd /\ y.mdiv = i.mdiv /\ y.vdw = i.vdw /\ y.mss = s
  BY <1>4, SMT DEF I2sType, I2sKeeps
<1>7. x = [y EXCEPT !.ibm = m] BY <1>2
<1> HIDE DEF y
<1>8. /\ I2sKeeps(y, x) /\ x.clk = y.clk /\ x.tsd = y.tsd /\ x.mdiv = y.mdiv /\ x.vdw = y.vdw
      /\ x.mss = y.mss /\ x.ibm = m
  BY <1>3, <1>6, <1>7, SMT DEF I2sType, I2sKeeps
<1> QED BY <1>5, <1>6, <1>8 DEF s, I2sKeeps

LEMMA ClkdivKeeps ==
  ASSUME NEW i \in I2sType, NEW div \in Int
  PROVE  /\ I2sKeeps(i, I!set_clkdiv(i, "bclk", div))
         /\ I!set_clkdiv(i, "bclk", div) = [i EXCEPT !.tsd = div % 256]
         /\ I2sKeeps(i, I!set_clkdiv(i, "mclk", div))
         /\ I!set_clkdiv(i, "mclk", div) = [i EXCEPT !.mdiv = div % 256]
<1>1. div % 256 \in Byte BY SMT DEF Byte
<1>2. I!set_clkdiv(i, "bclk", div) = [i EXCEPT !.tsd = div % 256] BY DEF I!set_clkdiv
<1>3. I!set_clkdiv(i, "mclk", div) = [i EXCEPT !.mdiv = div % 256] BY DEF I!set_clkdiv
<1>4. I2sKeeps(i, [i EXCEPT !.tsd = div % 256]) BY <1>1, SMT DEF I2sType, I2sKeeps
<1>5. I2sKeeps(i, [i EXCEPT !.mdiv = div % 256]) BY <1>1, SMT DEF I2sType, I2sKeeps
<1> QED BY <1>2, <1>3, <1>4, <1>5

LEMMA I2sOtherKeeps ==
  ASSUME NEW i \in I2sType, NEW d \in I!Dirs, NEW n \in Nat
  PROVE  I2sKeeps(i, I!set_sysclk(i, n)) /\ I2sKeeps(i, I!hw_params(i, d, n))
<1>1. I2sKeeps(i, I!set_sysclk(i, n)) BY SMT DEF I2sType, I2sKeeps, I!set_sysclk
<1>2. I2sKeeps(i, I!hw_params(i, d, n))
  <2> DEFINE x == I!hw_params(i, d, n)
  <2>1. x = [i EXCEPT !.vdw = [i.vdw EXCEPT ![d] = n]] BY DEF I!hw_params
  <2>2. i.vdw \in VdwType BY DEF I2sType
  <2>3. [i.vdw EXCEPT ![d] = n] \in VdwType BY <2>2 DEF VdwType
  <2> QED BY <2>1, <2>3, SMT DEF I2sType, I2sKeeps
<1> QED BY <1>1, <1>2

(***************************************************************************)
(* The operators of the codecs.                                            *)
(***************************************************************************)

SameRates(c, x)  == x.sysclk = c.sysclk /\ x.rates = c.rates
SameFormat(c, x) == x.clock = c.clock /\ x.format = c.format
SameParams(c, x) == x.width = c.width /\ x.ratio = c.ratio
SamePower(c, x)  == x.pdn = c.pdn /\ x.clksw = c.clksw
SameCount(c, x)  == x.pwr_count = c.pwr_count

\* What muting, the amplifier and the flags of the detection leave alone.
CodecKeeps(c, x) ==
  /\ x \in CodecType /\ SameRates(c, x) /\ SameFormat(c, x) /\ SameParams(c, x)
  /\ SamePower(c, x) /\ SameCount(c, x)

LEMMA KeepsTwice ==
  ASSUME NEW c, NEW x, NEW y, CodecKeeps(c, x), CodecKeeps(x, y)
  PROVE  CodecKeeps(c, y)
BY DEF CodecKeeps, SameRates, SameFormat, SameParams, SamePower, SameCount

SetSpk(c, b)  == [c EXCEPT !.spk = b]
SetDac(c, b)  == [c EXCEPT !.dac_mute = b]
SetFlag(c, b) == [c EXCEPT !.mute_flag = b]
SetHp(c, b)   == [c EXCEPT !.hp_irq_flag = b]

LEMMA FlagsKeep ==
  ASSUME NEW c \in CodecType, NEW b \in BOOLEAN
  PROVE  /\ CodecKeeps(c, SetSpk(c, b)) /\ CodecKeeps(c, SetDac(c, b))
         /\ CodecKeeps(c, SetFlag(c, b)) /\ CodecKeeps(c, SetHp(c, b))
<1> USE DEF CodecKeeps, SameRates, SameFormat, SameParams, SamePower, SameCount, CodecType
<1>1. CodecKeeps(c, SetSpk(c, b)) BY SMT DEF SetSpk
<1>2. CodecKeeps(c, SetDac(c, b)) BY SMT DEF SetDac
<1>3. CodecKeeps(c, SetFlag(c, b)) BY SMT DEF SetFlag
<1>4. CodecKeeps(c, SetHp(c, b)) BY SMT DEF SetHp
<1> HIDE DEF CodecKeeps
<1> QED BY <1>1, <1>2, <1>3, <1>4

LEMMA MuteKeepsA ==
  ASSUME NEW c \in CodecType, NEW on \in BOOLEAN
  PROVE  /\ CodecKeeps(c, A!mute_begin(c, TRUE)) /\ CodecKeeps(c, A!mute_begin(c, FALSE))
         /\ CodecKeeps(c, A!mute_end(c, TRUE, on)) /\ CodecKeeps(c, A!mute_end(c, FALSE, on))
<1>1. TRUE \in BOOLEAN /\ FALSE \in BOOLEAN OBVIOUS
<1>2. A!mute_begin(c, TRUE) = SetSpk(SetFlag(c, TRUE), TRUE) BY DEF A!mute_begin, SetSpk, SetFlag
<1>3. A!mute_begin(c, FALSE) = SetDac(SetFlag(c, FALSE), FALSE) BY DEF A!mute_begin, SetDac, SetFlag
<1>4. A!mute_end(c, TRUE, on) = SetDac(c, TRUE) BY DEF A!mute_end, SetDac
<1>5. A!mute_end(c, FALSE, on) = SetSpk(c, c.spk \/ on) BY DEF A!mute_end, SetSpk
<1>6. (c.spk \/ on) \in BOOLEAN OBVIOUS
<1>7. CodecKeeps(c, SetFlag(c, TRUE)) /\ CodecKeeps(c, SetFlag(c, FALSE)) /\ CodecKeeps(c, SetDac(c, TRUE))
  BY <1>1, FlagsKeep, Zenon
<1>8. SetFlag(c, TRUE) \in CodecType /\ SetFlag(c, FALSE) \in CodecType BY <1>7 DEF CodecKeeps
<1>9. CodecKeeps(SetFlag(c, TRUE), SetSpk(SetFlag(c, TRUE), TRUE)) BY <1>1, <1>8, FlagsKeep, Zenon
<1>10. CodecKeeps(SetFlag(c, FALSE), SetDac(SetFlag(c, FALSE), FALSE)) BY <1>1, <1>8, FlagsKeep, Zenon
<1>11. CodecKeeps(c, SetSpk(c, c.spk \/ on)) BY <1>6, FlagsKeep, Zenon
<1>12. CodecKeeps(c, A!mute_begin(c, TRUE)) BY <1>2, <1>7, <1>9, KeepsTwice, Zenon
<1>13. CodecKeeps(c, A!mute_begin(c, FALSE)) BY <1>3, <1>7, <1>10, KeepsTwice, Zenon
<1> QED BY <1>4, <1>5, <1>7, <1>11, <1>12, <1>13, Zenon

LEMMA MuteKeepsB ==
  ASSUME NEW c \in CodecType, NEW on \in BOOLEAN
  PROVE  /\ CodecKeeps(c, B!mute_begin(c, TRUE)) /\ CodecKeeps(c, B!mute_begin(c, FALSE))
         /\ CodecKeeps(c, B!mute_end(c, TRUE, on)) /\ CodecKeeps(c, B!mute_end(c, FALSE, on))
<1>1. TRUE \in BOOLEAN /\ FALSE \in BOOLEAN OBVIOUS
<1>2. B!mute_begin(c, TRUE) = SetSpk(c, FALSE) BY DEF B!mute_begin, SetSpk
<1>3. B!mute_begin(c, FALSE) = SetDac(c, FALSE) BY DEF B!mute_begin, SetDac
<1>4. B!mute_end(c, TRUE, on) = SetDac(c, TRUE) BY DEF B!mute_end, SetDac
<1>5. B!mute_end(c, FALSE, on) = SetSpk(c, c.spk \/ on) BY DEF B!mute_end, SetSpk
<1>6. (c.spk \/ on) \in BOOLEAN OBVIOUS
<1>7. CodecKeeps(c, SetSpk(c, FALSE)) /\ CodecKeeps(c, SetDac(c, TRUE)) /\ CodecKeeps(c, SetDac(c, FALSE))
  BY <1>1, FlagsKeep, Zenon
<1>8. CodecKeeps(c, SetSpk(c, c.spk \/ on)) BY <1>6, FlagsKeep, Zenon
<1> QED BY <1>2, <1>3, <1>4, <1>5, <1>7, <1>8, Zenon

\* Writing one field.
SetPdn(c, b)    == [c EXCEPT !.pdn = b]
SetClksw(c, S)  == [c EXCEPT !.clksw = S]
SetCount(c, n)  == [c EXCEPT !.pwr_count = n]
SetClock(c, k)  == [c EXCEPT !.clock = k]
SetFormat(c, f) == [c EXCEPT !.format = f]
SetWidth(c, n)  == [c EXCEPT !.width = n]
SetRatio(c, n)  == [c EXCEPT !.ratio = n]
SetSysclk(c, n) == [c EXCEPT !.sysclk = n]
SetRates(c, S)  == [c EXCEPT !.rates = S]

LEMMA PdnSet ==
  ASSUME NEW c \in CodecType, NEW b \in BOOLEAN
  PROVE  /\ SetPdn(c, b) \in CodecType /\ SameRates(c, SetPdn(c, b)) /\ SameFormat(c, SetPdn(c, b))
         /\ SameParams(c, SetPdn(c, b)) /\ SameCount(c, SetPdn(c, b)) /\ SetPdn(c, b).clksw = c.clksw
         /\ SetPdn(c, b).pdn = b
BY SMT DEF SetPdn, SameRates, SameFormat, SameParams, SamePower, SameCount, CodecType

LEMMA ClkswSet ==
  ASSUME NEW c \in CodecType, NEW S \in ClkswSets
  PROVE  /\ SetClksw(c, S) \in CodecType /\ SameRates(c, SetClksw(c, S)) /\ SameFormat(c, SetClksw(c, S))
         /\ SameParams(c, SetClksw(c, S)) /\ SameCount(c, SetClksw(c, S)) /\ SetClksw(c, S).pdn = c.pdn
         /\ SetClksw(c, S).clksw = S
BY SMT DEF SetClksw, SameRates, SameFormat, SameParams, SamePower, SameCount, CodecType

LEMMA CountSet ==
  ASSUME NEW c \in CodecType, NEW n \in Int
  PROVE  /\ SetCount(c, n) \in CodecType /\ SameRates(c, SetCount(c, n)) /\ SameFormat(c, SetCount(c, n))
         /\ SameParams(c, SetCount(c, n)) /\ SamePower(c, SetCount(c, n)) /\ SetCount(c, n).pwr_count = n
BY SMT DEF SetCount, SameRates, SameFormat, SameParams, SamePower, SameCount, CodecType

LEMMA ClockSet ==
  ASSUME NEW c \in CodecType, NEW k \in Sides
  PROVE  /\ SetClock(c, k) \in CodecType /\ SameRates(c, SetClock(c, k)) /\ SameParams(c, SetClock(c, k))
         /\ SamePower(c, SetClock(c, k)) /\ SameCount(c, SetClock(c, k)) /\ SetClock(c, k).clock = k
         /\ SetClock(c, k).format = c.format
BY SMT DEF SetClock, SameRates, SameFormat, SameParams, SamePower, SameCount, CodecType

LEMMA FormatSet ==
  ASSUME NEW c \in CodecType, NEW f \in Formats
  PROVE  /\ SetFormat(c, f) \in CodecType /\ SameRates(c, SetFormat(c, f)) /\ SameParams(c, SetFormat(c, f))
         /\ SamePower(c, SetFormat(c, f)) /\ SameCount(c, SetFormat(c, f)) /\ SetFormat(c, f).clock = c.clock
         /\ SetFormat(c, f).format = f
BY SMT DEF SetFormat, SameRates, SameFormat, SameParams, SamePower, SameCount, CodecType

LEMMA WidthSet ==
  ASSUME NEW c \in CodecType, NEW n \in Nat
  PROVE  /\ SetWidth(c, n) \in CodecType /\ SameRates(c, SetWidth(c, n)) /\ SameFormat(c, SetWidth(c, n))
         /\ SamePower(c, SetWidth(c, n)) /\ SameCount(c, SetWidth(c, n)) /\ SetWidth(c, n).width = n
         /\ SetWidth(c, n).ratio = c.ratio
BY SMT DEF SetWidth, SameRates, SameFormat, SameParams, SamePower, SameCount, CodecType

LEMMA DividerSet ==
  ASSUME NEW c \in CodecType, NEW n \in Nat
  PROVE  /\ SetRatio(c, n) \in CodecType /\ SameRates(c, SetRatio(c, n)) /\ SameFormat(c, SetRatio(c, n))
         /\ SamePower(c, SetRatio(c, n)) /\ SameCount(c, SetRatio(c, n)) /\ SetRatio(c, n).width = c.width
         /\ SetRatio(c, n).ratio = n
BY SMT DEF SetRatio, SameRates, SameFormat, SameParams, SamePower, SameCount, CodecType

LEMMA RateSet ==
  ASSUME NEW c \in CodecType, NEW n \in Nat, NEW S \in RateSets
  PROVE  LET x == SetRates(SetSysclk(c, n), S)
         IN  /\ x \in CodecType /\ SameFormat(c, x) /\ SameParams(c, x) /\ SamePower(c, x) /\ SameCount(c, x)
             /\ x.sysclk = n /\ x.rates = S
<1> USE DEF SameRates, SameFormat, SameParams, SamePower, SameCount, CodecType
<1> DEFINE y == SetSysclk(c, n)
<1>1. /\ y \in CodecType /\ SameFormat(c, y) /\ SameParams(c, y) /\ SamePower(c, y) /\ SameCount(c, y)
      /\ y.sysclk = n
  BY SMT DEF SetSysclk
<1> HIDE DEF y
<1> DEFINE x == SetRates(y, S)
<1>2. /\ x \in CodecType /\ SameFormat(y, x) /\ SameParams(y, x) /\ SamePower(y, x) /\ SameCount(y, x)
      /\ x.sysclk = y.sysclk /\ x.rates = S
  BY <1>1, SMT DEF SetRates
<1> HIDE DEF x, CodecType
<1>3. /\ x \in CodecType /\ SameFormat(c, x) /\ SameParams(c, x) /\ SamePower(c, x) /\ SameCount(c, x)
      /\ x.sysclk = n /\ x.rates = S
  BY <1>1, <1>2
<1> QED BY <1>3, Zenon DEF x, y

LEMMA ClkswTypes ==
  /\ A!ClkswF3 \in ClkswSets /\ A!Clksw7F \in ClkswSets
  /\ \A d \in I!Dirs : A!Needs(d) \in ClkswSets
BY DEF A!ClkswF3, A!Clksw7F, A!Needs, ClkswSets, Clksw, I!Dirs

\* es8316_probe and es8316_resume keep the rates and the power count.
LEMMA ResetKeeps ==
  ASSUME NEW c \in CodecType
  PROVE  /\ A!reset(c) \in CodecType /\ SameRates(c, A!reset(c)) /\ SameCount(c, A!reset(c))
         /\ A!reset(c).ratio = c.ratio
<1> USE DEF SameRates, SameFormat, SameParams, SamePower, SameCount
<1>0. /\ TRUE \in BOOLEAN /\ FALSE \in BOOLEAN /\ "slave" \in Sides /\ "i2s" \in Formats /\ 24 \in Nat
      /\ c.pwr_count \in Int
  BY DEF Sides, Formats, CodecType
<1> DEFINE c1 == SetPdn(c, FALSE)
           c2 == SetClksw(c1, A!Clksw7F)
           c3 == SetClock(c2, "slave")
           c4 == SetFormat(c3, "i2s")
           c5 == SetWidth(c4, 24)
           c6 == SetPdn(c5, TRUE)
           c7 == SetClksw(c6, A!ClkswF3)
<1>1. A!reset(c) = c7 BY DEF A!reset, A!init_regs, SetPdn, SetClksw, SetClock, SetFormat, SetWidth
<1> HIDE DEF c1, c2, c3, c4, c5, c6, c7
<1> DEFINE P(x) == x \in CodecType /\ SameRates(c, x) /\ SameCount(c, x) /\ x.ratio = c.ratio
<1>2. P(c1) BY <1>0, PdnSet, Zenon DEF c1
<1>3. P(c2) BY <1>0, <1>2, ClkswSet, ClkswTypes, Zenon DEF c2
<1>4. P(c3) BY <1>0, <1>3, ClockSet, Zenon DEF c3
<1>5. P(c4) BY <1>0, <1>4, FormatSet, Zenon DEF c4
<1>6. P(c5) BY <1>0, <1>5, WidthSet, Zenon DEF c5
<1>7. P(c6) BY <1>0, <1>6, PdnSet, Zenon DEF c6
<1>8. P(c7) BY <1>0, <1>7, ClkswSet, ClkswTypes, Zenon DEF c7
<1> QED BY <1>1, <1>8

\* es8316_pcm_startup: the clocks of the stream are switched on, none off.
LEMMA StartupSets ==
  ASSUME NEW c \in CodecType, NEW d \in I!Dirs
  PROVE  LET x == A!startup(c, d)
         IN  /\ x \in CodecType /\ SameRates(c, x) /\ SameFormat(c, x) /\ SameParams(c, x)
             /\ x.pwr_count = c.pwr_count + 1 /\ x.pdn = FALSE
             /\ x.clksw = (c.clksw \ {"mclk_div"}) \cup A!Needs(d)
<1> USE DEF SameRates, SameFormat, SameParams, SamePower, SameCount
<1> DEFINE n == c.pwr_count + 1
           S == (c.clksw \ {"mclk_div"}) \cup A!Needs(d)
           c1 == SetPdn(c, FALSE)
           c2 == SetCount(c1, n)
           c3 == SetClksw(c2, S)
<1>0. FALSE \in BOOLEAN /\ n \in Int /\ S \in ClkswSets
  <2>1. c.pwr_count \in Int /\ c.clksw \in ClkswSets BY DEF CodecType
  <2> QED BY <2>1, ClkswTypes DEF ClkswSets
<1>1. A!startup(c, d) = c3 BY DEF A!startup, SetPdn, SetCount, SetClksw
<1> HIDE DEF c1, c2, c3, n, S
<1>2. /\ c1 \in CodecType /\ SameRates(c, c1) /\ SameFormat(c, c1) /\ SameParams(c, c1) /\ c1.pdn = FALSE
  BY <1>0, PdnSet, Zenon DEF c1
<1>3. /\ c2 \in CodecType /\ SameRates(c1, c2) /\ SameFormat(c1, c2) /\ SameParams(c1, c2) /\ SamePower(c1, c2)
      /\ c2.pwr_count = n
  BY <1>0, <1>2, CountSet, Zenon DEF c2
<1>4. /\ c3 \in CodecType /\ SameRates(c2, c3) /\ SameFormat(c2, c3) /\ SameParams(c2, c3) /\ SameCount(c2, c3)
      /\ c3.pdn = c2.pdn /\ c3.clksw = S
  BY <1>0, <1>3, ClkswSet, Zenon DEF c3
<1>5. /\ c3 \in CodecType /\ SameRates(c, c3) /\ SameFormat(c, c3) /\ SameParams(c, c3)
      /\ c3.pwr_count = n /\ c3.pdn = FALSE /\ c3.clksw = S
  BY <1>2, <1>3, <1>4
<1> QED BY <1>1, <1>5, Zenon DEF n, S

\* es8316_pcm_shutdown switches off only what the other stream does not need,
\* unless there is none.
Own(d) == IF d = "playback" THEN {"dac_analog"} ELSE {"adc_mclk", "adc_analog"}

LEMMA ShutdownSets ==
  ASSUME NEW c \in CodecType, NEW d \in I!Dirs
  PROVE  LET x == A!shutdown(c, d)
         IN  /\ x \in CodecType /\ SameRates(c, x) /\ SameFormat(c, x) /\ SameParams(c, x)
             /\ x.pwr_count = c.pwr_count - 1
             /\ c.pwr_count # 1 => /\ x.clksw = c.clksw \ Own(d)
                                   /\ x.pdn = IF d = "playback" THEN FALSE ELSE c.pdn
<1> USE DEF SameRates, SameFormat, SameParams, SamePower, SameCount
<1> DEFINE n == c.pwr_count - 1
           S == c.clksw \ Own(d)
           b == IF d = "playback" THEN FALSE ELSE c.pdn
           c1 == SetCount(c, n)
           c2 == SetClksw(c1, S)
           c3 == SetPdn(c2, b)
           c4 == SetPdn(c3, TRUE)
           c5 == SetClksw(c4, A!ClkswF3)
<1>0. n \in Int /\ S \in ClkswSets /\ b \in BOOLEAN /\ TRUE \in BOOLEAN /\ (c.pwr_count # 1 <=> n # 0)
  <2>1. c.pwr_count \in Int /\ c.clksw \in ClkswSets /\ c.pdn \in BOOLEAN BY DEF CodecType
  <2>2. n \in Int /\ (c.pwr_count # 1 <=> n # 0) BY <2>1
  <2>3. S \in ClkswSets BY <2>1 DEF ClkswSets
  <2>4. b \in BOOLEAN BY <2>1, Zenon
  <2> QED BY <2>2, <2>3, <2>4
<1>1. A!shutdown(c, d) = IF c3.pwr_count # 0 THEN c3 ELSE c5
  BY DEF A!shutdown, Own, SetPdn, SetCount, SetClksw
<1> HIDE DEF c1, c2, c3, c4, c5, n, S, b
<1>2. /\ c1 \in CodecType /\ SameRates(c, c1) /\ SameFormat(c, c1) /\ SameParams(c, c1) /\ c1.pwr_count = n
  BY <1>0, CountSet, Zenon DEF c1
<1>3. /\ c2 \in CodecType /\ SameRates(c1, c2) /\ SameFormat(c1, c2) /\ SameParams(c1, c2) /\ SameCount(c1, c2)
      /\ c2.clksw = S
  BY <1>0, <1>2, ClkswSet, Zenon DEF c2
<1>4. /\ c3 \in CodecType /\ SameRates(c2, c3) /\ SameFormat(c2, c3) /\ SameParams(c2, c3) /\ SameCount(c2, c3)
      /\ c3.clksw = c2.clksw /\ c3.pdn = b
  BY <1>0, <1>3, PdnSet, Zenon DEF c3
<1>5. /\ c3 \in CodecType /\ SameRates(c, c3) /\ SameFormat(c, c3) /\ SameParams(c, c3) /\ c3.pwr_count = n
      /\ c3.clksw = S /\ c3.pdn = b
  BY <1>2, <1>3, <1>4, Zenon
<1>6. /\ c4 \in CodecType /\ SameRates(c3, c4) /\ SameFormat(c3, c4) /\ SameParams(c3, c4) /\ SameCount(c3, c4)
  BY <1>0, <1>5, PdnSet, Zenon DEF c4
<1>7. /\ c5 \in CodecType /\ SameRates(c4, c5) /\ SameFormat(c4, c5) /\ SameParams(c4, c5) /\ SameCount(c4, c5)
  BY <1>6, ClkswSet, ClkswTypes, Zenon DEF c5
<1>8. /\ c5 \in CodecType /\ SameRates(c, c5) /\ SameFormat(c, c5) /\ SameParams(c, c5) /\ c5.pwr_count = n
  BY <1>5, <1>6, <1>7, Zenon
<1>9. CASE c3.pwr_count # 0 BY <1>0, <1>1, <1>5, <1>9, Zenon DEF n, S, b
<1>10. CASE c3.pwr_count = 0 BY <1>0, <1>1, <1>5, <1>8, <1>10, Zenon DEF n
<1> QED BY <1>9, <1>10

\* set_fmt of both codecs.
LEMMA FmtSets ==
  ASSUME NEW c \in CodecType, NEW fmt \in [clock : {"CBS_CFS", "CBM_CFM"}, format : Formats],
         NEW x \in {A!set_dai_fmt(c, fmt), B!set_dai_fmt(c, fmt)}
  PROVE  /\ x \in CodecType /\ SameRates(c, x) /\ SameParams(c, x) /\ SamePower(c, x) /\ SameCount(c, x)
         /\ x.clock = IF fmt.clock = "CBM_CFM" THEN "master" ELSE "slave"
         /\ x = A!set_dai_fmt(c, fmt) \/ fmt.format = "i2s" => x.format = fmt.format
<1> USE DEF SameRates, SameFormat, SameParams, SamePower, SameCount
<1> DEFINE k == IF fmt.clock = "CBM_CFM" THEN "master" ELSE "slave"
           g == IF fmt.format = "i2s" THEN "i2s" ELSE c.format
           y == SetClock(c, k)
<1>1. k \in Sides /\ fmt.format \in Formats /\ c.format \in Formats BY DEF Sides, CodecType
<1>2. g \in Formats BY <1>1 DEF Formats
<1>3. A!set_dai_fmt(c, fmt) = SetFormat(y, fmt.format) BY DEF A!set_dai_fmt, SetClock, SetFormat
<1>4. B!set_dai_fmt(c, fmt) = SetFormat(y, g) BY DEF B!set_dai_fmt, SetClock, SetFormat
<1>5. fmt.format = "i2s" => g = fmt.format OBVIOUS
<1> HIDE DEF k, g, y
<1>6. y \in CodecType /\ SameRates(c, y) /\ SameParams(c, y) /\ SamePower(c, y) /\ SameCount(c, y) /\ y.clock = k
  BY <1>1, ClockSet, Zenon DEF y
<1>7. ASSUME NEW f \in Formats
      PROVE  LET z == SetFormat(y, f)
             IN  /\ z \in CodecType /\ SameRates(c, z) /\ SameParams(c, z) /\ SamePower(c, z) /\ SameCount(c, z)
                 /\ z.clock = k /\ z.format = f
  BY <1>6, FormatSet, Zenon
<1>8. CASE x = A!set_dai_fmt(c, fmt)
  <2>1. x = SetFormat(y, fmt.format) BY <1>3, <1>8
  <2>2. /\ x \in CodecType /\ SameRates(c, x) /\ SameParams(c, x) /\ SamePower(c, x) /\ SameCount(c, x)
        /\ x.clock = k /\ x.format = fmt.format
    BY <1>1, <1>7, <2>1, Zenon
  <2> QED BY <2>2, Zenon DEF k
<1>9. CASE x # A!set_dai_fmt(c, fmt)
  <2>1. x = SetFormat(y, g) BY <1>4, <1>9
  <2>2. /\ x \in CodecType /\ SameRates(c, x) /\ SameParams(c, x) /\ SamePower(c, x) /\ SameCount(c, x)
        /\ x.clock = k /\ x.format = g
    BY <1>2, <1>7, <2>1, Zenon
  <2> QED BY <1>5, <1>9, <2>2, Zenon DEF k
<1> QED BY <1>8, <1>9

\* A rate of 11.2896 MHz is in the tables of both codecs, and the ES8323's row
\* for it holds its ratio.
LEMMA PllOf ==
  ASSUME NEW rate \in A!rates_112896
  PROVE  rate \in Nat \ {0} /\ pll_out(rate) \in Nat \ {0} /\ A!get_coeff(SysclkOf, rate)
BY SMT DEF A!rates_112896, pll_out, A!get_coeff, A!coeff_div, SysclkOf

Quotient(rate) == IF rate = 8000 THEN 1408 ELSE IF rate = 11025 THEN 1024 ELSE IF rate = 22050 THEN 512 ELSE 256

LEMMA RowOf ==
  ASSUME NEW rate \in A!rates_112896
  PROVE  /\ B!get_coeff(SysclkOf, rate) = {<<SysclkOf, rate, Quotient(rate)>>}
         /\ Quotient(rate) \in Nat /\ (pll_out(rate) = SysclkOf => Quotient(rate) * rate = SysclkOf)
<1> rate \in {8000, 11025, 22050, 44100} BY DEF A!rates_112896
<1>1. Quotient(rate) \in Nat BY DEF Quotient
<1>2. pll_out(rate) = SysclkOf => Quotient(rate) * rate = SysclkOf BY SMT DEF Quotient, pll_out, SysclkOf
<1>3. <<SysclkOf, rate, Quotient(rate)>> \in B!coeff_div BY SMT DEF Quotient, SysclkOf, B!coeff_div
<1>4. ASSUME NEW row \in B!coeff_div, row[1] = SysclkOf, row[2] = rate
      PROVE  row = <<SysclkOf, rate, Quotient(rate)>>
  BY <1>4, SMT DEF Quotient, SysclkOf, B!coeff_div
<1>5. B!get_coeff(SysclkOf, rate) = {<<SysclkOf, rate, Quotient(rate)>>} BY <1>3, <1>4 DEF B!get_coeff
<1> QED BY <1>1, <1>2, <1>5

LEMMA ParamsA ==
  ASSUME NEW c \in CodecType, NEW d, NEW rate, NEW width
  PROVE  LET x == A!hw_params(c, d, rate, width)
         IN  /\ x \in CodecType /\ SameRates(c, x) /\ SameFormat(c, x) /\ SameParams(c, x) /\ SameCount(c, x)
             /\ x.pdn = c.pdn /\ c.clksw \ {"mclk_div"} \subseteq x.clksw
<1> DEFINE S == (c.clksw \ {"mclk_div"}) \cup (IF A!get_coeff(c.sysclk, rate) THEN {} ELSE {"mclk_div"})
<1>1. A!hw_params(c, d, rate, width) = SetClksw(c, S) BY DEF A!hw_params, SetClksw
<1>2. c.clksw \in ClkswSets BY DEF CodecType
<1>3. S \in ClkswSets /\ c.clksw \ {"mclk_div"} \subseteq S BY <1>2 DEF ClkswSets, Clksw
<1> HIDE DEF S
<1> DEFINE x == SetClksw(c, S)
<1>4. /\ x \in CodecType /\ SameRates(c, x) /\ SameFormat(c, x) /\ SameParams(c, x) /\ SameCount(c, x)
      /\ x.pdn = c.pdn /\ x.clksw = S
  BY <1>3, ClkswSet, Zenon
<1> HIDE DEF x
<1>5. c.clksw \ {"mclk_div"} \subseteq x.clksw BY <1>3, <1>4
<1> QED BY <1>1, <1>4, <1>5, Zenon DEF x

LEMMA ParamsB ==
  ASSUME NEW c \in CodecType, c.sysclk = SysclkOf, NEW rate \in A!rates_112896, NEW width \in Nat, NEW d
  PROVE  LET x == B!hw_params(c, d, rate, width)
         IN  /\ x \in CodecType /\ SameRates(c, x) /\ SameFormat(c, x) /\ SamePower(c, x) /\ SameCount(c, x)
             /\ x.width = width /\ x.ratio = Quotient(rate)
<1> USE DEF SameRates, SameFormat, SameParams, SamePower, SameCount
<1> DEFINE r == <<SysclkOf, rate, Quotient(rate)>>
           y == SetWidth(c, width)
           x == SetRatio(y, Quotient(rate))
<1>1. B!get_coeff(c.sysclk, rate) = {r} BY RowOf
<1>2. {r} # {} /\ (CHOOSE z \in {r} : TRUE) = r /\ r[3] = Quotient(rate) OBVIOUS
<1> HIDE DEF r
<1>3. (CHOOSE z \in IF {r} # {} THEN {r} ELSE B!get_coeff(c.sysclk \div 2, rate) : TRUE) = r BY <1>2, Zenon
<1>4. B!hw_params(c, d, rate, width) = [c EXCEPT !.width = width, !.ratio = r[3]]
  BY <1>1, <1>2, <1>3, Zenon DEF B!hw_params
<1>5. B!hw_params(c, d, rate, width) = x BY <1>2, <1>4 DEF SetWidth, SetRatio
<1>6. Quotient(rate) \in Nat BY RowOf
<1> HIDE DEF y
<1>7. /\ y \in CodecType /\ SameRates(c, y) /\ SameFormat(c, y) /\ SamePower(c, y) /\ SameCount(c, y)
      /\ y.width = width
  BY WidthSet, Zenon DEF y
<1>8. /\ x \in CodecType /\ SameRates(y, x) /\ SameFormat(y, x) /\ SamePower(y, x) /\ SameCount(y, x)
      /\ x.width = y.width /\ x.ratio = Quotient(rate)
  BY <1>6, <1>7, DividerSet, Zenon
<1> HIDE DEF x
<1>9. /\ x \in CodecType /\ SameRates(c, x) /\ SameFormat(c, x) /\ SamePower(c, x) /\ SameCount(c, x)
      /\ x.width = width /\ x.ratio = Quotient(rate)
  BY <1>7, <1>8, Zenon
<1> QED BY <1>5, <1>9, Zenon

\* The codec's probe, then set_sysclk from the link's init.
LEMMA SysclkSets ==
  ASSUME NEW c \in CodecType,
         NEW x \in {A!set_dai_sysclk(c, SysclkOf), B!set_dai_sysclk(c, SysclkOf)}
  PROVE  x \in CodecType /\ SameCount(c, x) /\ x.sysclk = SysclkOf /\ x.rates = A!rates_112896
<1> DEFINE y == SetRates(SetSysclk(c, SysclkOf), A!rates_112896)
<1>1. A!set_dai_sysclk(c, SysclkOf) = y
  <2>1. SysclkOf \in {11289600, 18432000, 22579200, 36864000}
        /\ SysclkOf \notin {12288000, 19200000, 16934400, 24576000, 33868800} /\ SysclkOf \notin {12000000, 24000000}
    BY SMT DEF SysclkOf
  <2> QED BY <2>1, SMT DEF A!set_dai_sysclk, SetRates, SetSysclk
<1>2. B!set_dai_sysclk(c, SysclkOf) = y
  <2>1. SysclkOf \in {11289600, 18432000, 22579200, 36864000}
        /\ SysclkOf \notin {12288000, 16934400, 24576000, 33868800} /\ SysclkOf \notin {12000000, 24000000}
    BY SMT DEF SysclkOf
  <2>2. B!rates_112896 = A!rates_112896 BY DEF A!rates_112896, B!rates_112896
  <2> QED BY <2>1, <2>2, SMT DEF B!set_dai_sysclk, SetRates, SetSysclk
<1>3. SysclkOf \in Nat /\ A!rates_112896 \in RateSets BY SMT DEF SysclkOf, A!rates_112896, RateSets
<1>4. y \in CodecType /\ SameCount(c, y) /\ y.sysclk = SysclkOf /\ y.rates = A!rates_112896
  BY <1>3, RateSet
<1> HIDE DEF y
<1>5. x = y BY <1>1, <1>2
<1> QED BY <1>4, <1>5

LEMMA ProbeB ==
  ASSUME NEW c \in CodecType
  PROVE  B!codec_probe(c) \in CodecType /\ SameCount(c, B!codec_probe(c))
<1> USE DEF SameCount
<1>0. /\ TRUE \in BOOLEAN /\ FALSE \in BOOLEAN /\ "slave" \in Sides /\ "i2s" \in Formats /\ 16 \in Nat /\ 256 \in Nat
  BY DEF Sides, Formats
<1> DEFINE c1 == SetClock(c, "slave")
           c2 == SetFormat(c1, "i2s")
           c3 == SetWidth(c2, 16)
           c4 == SetRatio(c3, 256)
           c5 == SetDac(c4, TRUE)
           c6 == SetPdn(c5, FALSE)
<1>1. B!codec_probe(c) = c6
  BY DEF B!codec_probe, B!set_bias_level, SetClock, SetFormat, SetWidth, SetRatio, SetDac, SetPdn
<1> HIDE DEF c1, c2, c3, c4, c5, c6
<1> DEFINE P(x) == x \in CodecType /\ SameCount(c, x)
<1>2. P(c1) BY <1>0, ClockSet, Zenon DEF c1
<1>3. P(c2) BY <1>0, <1>2, FormatSet, Zenon DEF c2
<1>4. P(c3) BY <1>0, <1>3, WidthSet, Zenon DEF c3
<1>5. P(c4) BY <1>0, <1>4, DividerSet DEF c4
<1>6. CodecKeeps(c4, c5) BY <1>0, <1>5, FlagsKeep, Zenon DEF c5
<1>7. P(c5) BY <1>5, <1>6 DEF CodecKeeps
<1>8. P(c6) BY <1>0, <1>7, PdnSet, Zenon DEF c6
<1> QED BY <1>1, <1>8

LEMMA BiasB ==
  ASSUME NEW c \in CodecType
  PROVE  LET x == B!set_bias_level(c)
         IN  /\ x \in CodecType /\ SameRates(c, x) /\ SameFormat(c, x) /\ SameParams(c, x) /\ SameCount(c, x)
<1>1. B!set_bias_level(c) = SetPdn(c, FALSE) /\ FALSE \in BOOLEAN BY DEF B!set_bias_level, SetPdn
<1> QED BY <1>1, PdnSet, Zenon

LEMMA I2cProbes ==
  /\ A!i2c_probe \in CodecType /\ A!i2c_probe.pwr_count = 0
  /\ B!i2c_probe \in CodecType /\ B!i2c_probe.pwr_count = 0
<1>1. {} \in RateSets /\ {} \in ClkswSets /\ "slave" \in Sides /\ "i2s" \in Formats
  BY DEF RateSets, ClkswSets, Sides, Formats
<1> QED BY <1>1, SMT DEF A!i2c_probe, B!i2c_probe, CodecType

LEMMA RemoveKeeps ==
  ASSUME NEW c \in CodecType
  PROVE  A!codec_remove(c) \in CodecType /\ SameRates(c, A!codec_remove(c)) /\ SameCount(c, A!codec_remove(c))
<1>1. A!codec_remove(c) = SetPdn(c, TRUE) /\ TRUE \in BOOLEAN BY DEF A!codec_remove, SetPdn
<1> QED BY <1>1, PdnSet, Zenon

\* Suspend and resume: only the ES8316 is reset.
LEMMA Across ==
  ASSUME NEW c \in CodecType, NEW active, jack.pin \in BOOLEAN
  PROVE  LET x == MutedAcross(c, active)
         IN  /\ x \in CodecType /\ SameRates(c, x) /\ SameCount(c, x) /\ x.ratio = c.ratio
             /\ ~Es8316 => CodecKeeps(c, x)
<1> USE DEF SameRates, SameCount, CodecKeeps, SameParams
<1>0. FALSE \in BOOLEAN /\ (~c.hp_irq_flag) \in BOOLEAN /\ (~jack.pin) \in BOOLEAN OBVIOUS
<1> DEFINE x == MutedAcross(c, active)
           P(y) == y \in CodecType /\ SameRates(c, y) /\ SameCount(c, y) /\ y.ratio = c.ratio
<1>1. CASE ~active /\ Es8316
  <2>1. x = A!reset(c) BY <1>1 DEF MutedAcross, A!resume
  <2> QED BY <1>1, <2>1, ResetKeeps, Zenon
<1>2. CASE ~active /\ ~Es8316
  <2>1. x = c BY <1>2 DEF MutedAcross
  <2> QED BY <1>2, <2>1 DEF SameFormat, SamePower
<1>3. CASE active /\ Es8316
  <2> DEFINE c1 == A!mute_begin(c, TRUE)
             c2 == A!mute_end(c1, TRUE, FALSE)
             c3 == A!reset(c2)
             c4 == A!mute_begin(c3, FALSE)
             c5 == A!mute_end(c4, FALSE, ~c.hp_irq_flag)
  <2>1. x = c5 BY <1>3 DEF MutedAcross, A!resume
  <2> HIDE DEF c1, c2, c3, c4, c5, x
  <2>2. CodecKeeps(c, c1) BY <1>0, MuteKeepsA, Zenon DEF c1
  <2>3. CodecKeeps(c1, c2) BY <1>0, <2>2, MuteKeepsA, Zenon DEF c2
  <2>4. P(c2) BY <2>2, <2>3, Zenon
  <2>5. P(c3) BY <2>4, ResetKeeps, Zenon DEF c3
  <2>6. CodecKeeps(c3, c4) BY <1>0, <2>5, MuteKeepsA, Zenon DEF c4
  <2>7. CodecKeeps(c4, c5) BY <1>0, <2>6, MuteKeepsA, Zenon DEF c5
  <2>8. P(c5) BY <2>5, <2>6, <2>7, Zenon
  <2> QED BY <1>3, <2>1, <2>8, Zenon DEF x
<1>4. CASE active /\ ~Es8316
  <2> DEFINE c1 == B!mute_begin(c, TRUE)
             c2 == B!mute_end(c1, TRUE, FALSE)
             c3 == B!mute_begin(c2, FALSE)
             c4 == B!mute_end(c3, FALSE, ~jack.pin)
  <2>1. x = c4 BY <1>4 DEF MutedAcross
  <2> HIDE DEF c1, c2, c3, c4, x
  <2>2. CodecKeeps(c, c1) BY <1>0, MuteKeepsB, Zenon DEF c1
  <2>3. CodecKeeps(c1, c2) BY <1>0, <2>2, MuteKeepsB, Zenon DEF c2
  <2>4. CodecKeeps(c2, c3) BY <1>0, <2>3, MuteKeepsB, Zenon DEF c3
  <2>5. CodecKeeps(c3, c4) BY <1>0, <2>4, MuteKeepsB, Zenon DEF c4
  <2>6. CodecKeeps(c, c4) BY <2>2, <2>3, <2>4, <2>5, KeepsTwice, Zenon
  <2> QED BY <2>1, <2>6, Zenon DEF x
<1> QED BY <1>1, <1>2, <1>3, <1>4

(***************************************************************************)
(* What holds on any board.                                                *)
(***************************************************************************)

\* Steps that move no stream.
Quiet == UNCHANGED <<board, card, pcm, stale>>

LEMMA TransfersKept ==
  ASSUME Transfers, pcm' = pcm, i2s'.dma = i2s.dma, i2s'.start = i2s.start, i2s'.xfer = i2s.xfer
  PROVE  Transfers'
<1>1. Running' = Running BY DEF Running
<1> QED BY <1>1, Zenon DEF Transfers

LEMMA PowerKept ==
  ASSUME Types, Power, Quiet, SameCount(codec, codec'),
         Es8316 => codec'.pdn = codec.pdn /\ codec.clksw \ {"mclk_div"} \subseteq codec'.clksw
  PROVE  Power'
<1>1. Es8316' = Es8316 /\ \A d : Open(d)' = Open(d) BY DEF Es8316, Open, Quiet
<1>2. CASE ~Es8316 BY <1>1, <1>2 DEF Power, SameCount
<1>3. CASE Es8316
  <2>1. {d \in I!Dirs : Open(d)}' = {d \in I!Dirs : Open(d)} BY <1>1
  <2>2. codec'.pwr_count = Cardinality({d \in I!Dirs : Open(d)}') BY <2>1, <1>3 DEF Power, Powered, SameCount
  <2>3. ASSUME NEW d \in I!Dirs, Open(d)', d \notin stale'
        PROVE  ~codec'.pdn /\ A!Needs(d) \subseteq codec'.clksw
    <3>1. ~codec.pdn /\ A!Needs(d) \subseteq codec.clksw BY <1>1, <1>3, <2>3 DEF Power, Powered, Quiet
    <3>2. "mclk_div" \notin A!Needs(d) BY DEF A!Needs
    <3> QED BY <1>3, <3>1, <3>2
  <2> QED BY <1>1, <1>3, <2>2, <2>3 DEF Power, Powered
<1> QED BY <1>2, <1>3

LEMMA LifeKept ==
  ASSUME Life, Quiet, i2s'.bound = i2s.bound, SameRates(codec, codec'), job'.op # "none" => job.op # "none"
  PROVE  Life'
<1>1. /\ Bound' = Bound /\ Es8316' = Es8316 /\ pcm' = pcm /\ stale' = stale
  BY DEF Bound, Es8316, Quiet
<1>2. codec'.sysclk = codec.sysclk /\ codec'.rates = codec.rates BY DEF SameRates
<1>3. job'.op = "none" \/ job.op # "none" OBVIOUS
<1> QED BY <1>1, <1>2, <1>3 DEF Life, PcmLife

LEMMA JobKept ==
  ASSUME JobFits, Quiet, UNCHANGED job, SameRates(codec, codec')
  PROVE  JobFits'
<1>1. Idle' = Idle /\ (\A d, r : Symmetric(d, r)' = Symmetric(d, r)) BY DEF Idle, Symmetric, Quiet
<1>2. job' = job /\ pcm' = pcm /\ codec'.rates = codec.rates BY DEF Quiet, SameRates
<1>3. job'.op = "none" <=> Idle' BY <1>1, <1>2 DEF JobFits
<1>4. job'.op # "none" => pcm'[job'.dir].state \in {"open", "setup", "prepared", "suspended"}
  BY <1>2 DEF JobFits
<1>5. job'.op = "hw_params" =>
       /\ pcm'[job'.dir].state # "suspended"
       /\ job'.rate \in codec'.rates /\ job'.rate # 0 /\ Symmetric(job.dir, job.rate)'
  BY <1>1, <1>2 DEF JobFits
<1>6. job'.op = "prepare" => pcm'[job'.dir].state # "open" BY <1>2 DEF JobFits
<1> QED BY <1>3, <1>4, <1>5, <1>6 DEF JobFits

\* The detection: the plug, the interrupt and its handler.
LEMMA JackSteps ==
  ASSUME Base, Quiet, UNCHANGED <<i2s, job>>, CodecKeeps(codec, codec'),
         jack' \in JackType, jack'.depth \in {0, 1}, jack'.at # "idle" => jack'.depth = 1, faults' \in 0..MaxFaults
  PROVE  Base'
<1>1. Types' BY DEF Base, Types, Quiet, CodecKeeps
<1>2. Counts' BY DEF Base, Counts
<1>3. Life' BY LifeKept DEF Base, CodecKeeps
<1>4. JobFits' BY JobKept DEF Base, CodecKeeps
<1>5. Transfers' BY TransfersKept DEF Base, Quiet
<1>6. Power' BY PowerKept DEF Base, CodecKeeps, SamePower
<1>7. Asked' BY DEF Base, Asked
<1> QED BY <1>1, <1>2, <1>3, <1>4, <1>5, <1>6, <1>7 DEF Base

LEMMA KeepsSelf ==
  ASSUME codec \in CodecType, codec' = codec
  PROVE  CodecKeeps(codec, codec')
BY DEF CodecKeeps, SameRates, SameFormat, SameParams, SamePower, SameCount

LEMMA FaultType ==
  ASSUME faults \in 0..MaxFaults, Fault
  PROVE  faults' \in 0..MaxFaults
BY SoundAssumption DEF Fault

LEMMA FlipBase ==
  ASSUME Base, Flip
  PROVE  Base'
<1>1. jack \in JackType /\ codec \in CodecType /\ faults \in 0..MaxFaults BY DEF Base, Types
<1>2. Quiet /\ UNCHANGED <<i2s, job, codec, faults>> BY DEF Flip, Quiet
<1> DEFINE e == jack.edge \/ (jack.irq /\ jack.type = IF jack.pin THEN "falling" ELSE "rising")
           b == ~jack.pin
           y == [jack EXCEPT !.pin = b]
           z == [y EXCEPT !.flips = jack.flips + 1]
<1>3. jack' = [z EXCEPT !.edge = e] BY DEF Flip
<1>4. e \in BOOLEAN /\ b \in BOOLEAN BY <1>1 DEF JackType
<1> HIDE DEF e, b
<1>5. y \in JackType /\ y.depth = jack.depth /\ y.at = jack.at BY <1>1, <1>4, SMT DEF JackType
<1>6. jack.flips + 1 \in Nat BY <1>1, SMT DEF JackType
<1> HIDE DEF y
<1>7. z \in JackType /\ z.depth = jack.depth /\ z.at = jack.at BY <1>5, <1>6, SMT DEF JackType
<1> HIDE DEF z
<1>8. jack' \in JackType /\ jack'.depth = jack.depth /\ jack'.at = jack.at BY <1>3, <1>4, <1>7, SMT DEF JackType
<1> QED BY <1>1, <1>2, <1>8, JackSteps, KeepsSelf DEF Base, Counts

LEMMA FireBase ==
  ASSUME Base, Fire
  PROVE  Base'
<1>1. jack \in JackType /\ codec \in CodecType /\ faults \in 0..MaxFaults BY DEF Base, Types
<1>2. Quiet /\ UNCHANGED <<i2s, job, codec, faults>> BY DEF Fire, Quiet
<1> DEFINE b == FALSE
           y == [jack EXCEPT !.depth = 1]
           z == [y EXCEPT !.at = "read"]
<1>3. jack' = [z EXCEPT !.edge = b] BY DEF Fire
<1>b. b \in BOOLEAN OBVIOUS
<1> HIDE DEF b
<1>4. y \in JackType /\ y.depth = 1 BY <1>1, SMT DEF JackType
<1> HIDE DEF y
<1>5. z \in JackType /\ z.depth = 1 BY <1>4, SMT DEF JackType
<1> HIDE DEF z
<1>6. jack' \in JackType /\ jack'.depth = 1 BY <1>b, <1>3, <1>5, SMT DEF JackType
<1> QED BY <1>1, <1>2, <1>6, JackSteps, KeepsSelf

LEMMA HandlerBase ==
  ASSUME Base, Handler
  PROVE  Base'
<1>1. jack \in JackType /\ codec \in CodecType /\ faults \in 0..MaxFaults /\ jack.depth \in {0, 1}
      /\ (jack.at # "idle" => jack.depth = 1)
  BY DEF Base, Types, Counts
<1>2. Quiet /\ UNCHANGED <<i2s, job>> BY DEF Handler, Quiet
<1>p. jack.pin \in BOOLEAN /\ jack.seen \in BOOLEAN BY <1>1 DEF JackType
<1>3. CASE ReadPin
  <2> DEFINE y == [jack EXCEPT !.at = "type"]
  <2>1. jack' = [y EXCEPT !.seen = jack.pin] /\ UNCHANGED <<codec, faults>> BY <1>3 DEF ReadPin
  <2>2. y \in JackType /\ y.depth = jack.depth BY <1>1, SMT DEF JackType
  <2> HIDE DEF y
  <2>3. jack' \in JackType /\ jack'.depth = jack.depth BY <1>p, <2>1, <2>2, SMT DEF JackType
  <2>4. jack.depth = 1 BY <1>1, <1>3 DEF ReadPin
  <2> QED BY <1>1, <1>2, <2>1, <2>3, <2>4, JackSteps, KeepsSelf
<1>4. CASE SetType
  <2>1. jack.depth = 1 /\ codec' = codec BY <1>1, <1>4 DEF SetType
  <2>2. CASE jack' = [jack EXCEPT !.at = "decide", !.type = IF jack.seen THEN "falling" ELSE "rising"] /\ UNCHANGED faults
    <3> DEFINE t == IF jack.seen THEN "falling" ELSE "rising"
               y == [jack EXCEPT !.at = "decide"]
    <3>1. jack' = [y EXCEPT !.type = t] BY <2>2
    <3>2. y \in JackType /\ y.depth = jack.depth BY <1>1, SMT DEF JackType
    <3>3. t \in {"low", "rising", "falling"} OBVIOUS
    <3> HIDE DEF y, t
    <3>4. jack' \in JackType /\ jack'.depth = jack.depth BY <3>1, <3>2, <3>3, SMT DEF JackType
    <3> QED BY <1>1, <1>2, <2>1, <2>2, <3>4, JackSteps, KeepsSelf
  <2>3. CASE jack' = [jack EXCEPT !.at = "idle", !.seen = FALSE] /\ Fault
    <3> DEFINE b == FALSE
               y == [jack EXCEPT !.at = "idle"]
    <3>1. jack' = [y EXCEPT !.seen = b] /\ b \in BOOLEAN BY <2>3
    <3> HIDE DEF b
    <3>2. y \in JackType /\ y.depth = jack.depth BY <1>1, SMT DEF JackType
    <3> HIDE DEF y
    <3>3. jack' \in JackType /\ jack'.depth = jack.depth BY <3>1, <3>2, SMT DEF JackType
    <3>4. faults' \in 0..MaxFaults BY <1>1, <2>3, FaultType
    <3> QED BY <1>1, <1>2, <2>1, <3>3, <3>4, JackSteps, KeepsSelf
  <2> QED BY <1>4, <2>2, <2>3 DEF SetType
<1>5. CASE Decide
  <2> DEFINE y == [jack EXCEPT !.at = "speaker"]
  <2>1. jack' = [y EXCEPT !.seen = jack.pin] /\ faults' = faults BY <1>5 DEF Decide
  <2>2. y \in JackType /\ y.depth = jack.depth BY <1>1, SMT DEF JackType
  <2> HIDE DEF y
  <2>3. jack' \in JackType /\ jack'.depth = jack.depth BY <1>p, <2>1, <2>2, SMT DEF JackType
  <2>4. jack.depth = 1 BY <1>1, <1>5 DEF Decide
  <2>5. codec' = SetHp(codec, jack.pin) \/ codec' = codec BY <1>5 DEF Decide, SetHp
  <2>6. CodecKeeps(codec, codec') BY <1>1, <1>p, <2>5, FlagsKeep, KeepsSelf, Zenon
  <2> QED BY <1>1, <1>2, <2>1, <2>3, <2>4, <2>6, JackSteps
<1>6. CASE Speaker
  <2> DEFINE y == [jack EXCEPT !.at = "idle"]
             z == [y EXCEPT !.depth = 0]
             b == FALSE
  <2>1. jack.depth = 1 BY <1>1, <1>6 DEF Speaker
  <2>2. jack' = [z EXCEPT !.seen = b] /\ faults' = faults /\ b \in BOOLEAN BY <1>6, <2>1 DEF Speaker
  <2> HIDE DEF b
  <2>3. y \in JackType /\ y.at = "idle" BY <1>1, SMT DEF JackType
  <2> HIDE DEF y
  <2>4. z \in JackType /\ z.at = "idle" /\ z.depth = 0 BY <2>3, SMT DEF JackType
  <2> HIDE DEF z
  <2>5. jack' \in JackType /\ jack'.depth = 0 /\ jack'.at = "idle" BY <2>2, <2>4, SMT DEF JackType
  <2>6. codec' = SetSpk(codec, ~jack.seen) \/ codec' = codec \/ codec' = SetSpk(codec, ~jack.pin)
    BY <1>6 DEF Speaker, SetSpk
  <2>7. (~jack.seen) \in BOOLEAN /\ (~jack.pin) \in BOOLEAN OBVIOUS
  <2>8. CodecKeeps(codec, codec') BY <1>1, <2>6, <2>7, FlagsKeep, KeepsSelf, Zenon
  <2> QED BY <1>1, <1>2, <2>2, <2>5, <2>8, JackSteps
<1> QED BY <1>3, <1>4, <1>5, <1>6 DEF Handler

(***************************************************************************)
(* The calls of an operation.                                              *)
(***************************************************************************)

SameJob(j, k) == k.op = j.op /\ k.dir = j.dir /\ k.rate = j.rate /\ k.width = j.width

LEMMA NoJobType ==
  NoJob \in JobType /\ NoJob.op = "none" /\ NoJob.todo = <<>>
<1>1. <<>> \in Todos BY EmptySeq DEF Todos
<1>2. "playback" \in I!Dirs BY DEF I!Dirs
<1> QED BY <1>1, <1>2, SMT DEF NoJob, JobType

LEMMA Calling ==
  ASSUME job \in JobType, JobFits, job.todo # <<>>
  PROVE  job.op # "none" /\ Tail(job.todo) \in Todos
<1>1. job # NoJob BY NoJobType
<1>2. job.todo \in Todos BY DEF JobType
<1>3. Tail(job.todo) \in Todos BY <1>2, HeadTailProperties DEF Todos
<1> QED BY <1>1, <1>3 DEF JobFits, Idle

LEMMA ContinueJob ==
  ASSUME job \in JobType, Tail(job.todo) \in Todos, Continue
  PROVE  job' \in JobType /\ SameJob(job, job') /\ job'.todo = Tail(job.todo)
<1> DEFINE t == Tail(job.todo)
<1>1. job' = [job EXCEPT !.todo = t] /\ t \in Todos BY DEF Continue
<1> HIDE DEF t
<1>2. job' \in JobType /\ SameJob(job, job') /\ job'.todo = t BY <1>1, SMT DEF JobType, SameJob
<1> QED BY <1>2 DEF t

LEMMA ContinueOrJob ==
  ASSUME NEW ok, job \in JobType, Tail(job.todo) \in Todos, ContinueOr(ok)
  PROVE  /\ ok => Continue
         /\ job' \in JobType
         /\ job' = NoJob \/ (SameJob(job, job') /\ job'.todo = Tail(job.todo))
<1>1. CASE ok
  <2>1. Continue BY <1>1 DEF ContinueOr, Continue
  <2> QED BY <2>1, ContinueJob
<1>2. CASE ~ok BY <1>2, NoJobType DEF ContinueOr
<1> QED BY <1>1, <1>2

\* What every call of an operation keeps.
LEMMA CallSteps ==
  ASSUME Base, Quiet, UNCHANGED <<jack, faults>>, job.op # "none",
         job.todo # <<>>, job' \in JobType, job' = NoJob \/ (SameJob(job, job') /\ job'.todo = Tail(job.todo)),
         I2sKeeps(i2s, i2s'), codec' \in CodecType, SameRates(codec, codec'), SameCount(codec, codec'),
         Es8316 => codec'.pdn = codec.pdn /\ codec.clksw \ {"mclk_div"} \subseteq codec'.clksw
  PROVE  Base'
<1>1. Types' BY DEF Base, Types, Quiet, I2sKeeps
<1>2. Counts' BY DEF Base, Counts, I2sKeeps
<1>3. Life' BY LifeKept DEF Base, I2sKeeps
<1>4. JobFits'
  <2>1. pcm' = pcm /\ codec'.rates = codec.rates BY DEF Quiet, SameRates
  <2>2. CASE job' = NoJob
    <3>1. job'.op = "none" /\ Idle' BY <2>2, NoJobType DEF Idle
    <3> QED BY <3>1 DEF JobFits
  <2>3. CASE SameJob(job, job')
    <3>1. job'.op # "none" /\ ~Idle' BY <2>3, NoJobType DEF Idle, SameJob
    <3>2. Symmetric(job.dir, job.rate)' = Symmetric(job.dir, job.rate) BY <2>1, <2>3 DEF Symmetric, SameJob
    <3>3. JobFits BY DEF Base
    <3> QED BY <2>1, <2>3, <3>1, <3>2, <3>3 DEF JobFits, SameJob
  <2> QED BY <2>2, <2>3
<1>5. Transfers' BY TransfersKept DEF Base, Quiet, I2sKeeps
<1>6. Power' BY PowerKept DEF Base
<1>7. Asked'
  <2>1. CASE job' = NoJob
    <3>1. job'.todo = <<>> BY <2>1, NoJobType
    <3> QED BY <3>1, EmptySeq DEF Asked
  <2>2. CASE SameJob(job, job') /\ job'.todo = Tail(job.todo)
    <3>1. ASSUME job.op # "hw_params" PROVE Tail(job.todo) \in Seq(MuteCalls)
      BY <3>1, HeadTailProperties DEF Base, Asked
    <3> QED BY <2>2, <3>1 DEF Asked, SameJob
  <2> QED BY <2>1, <2>2
<1> QED BY <1>1, <1>2, <1>3, <1>4, <1>5, <1>6, <1>7 DEF Base

LEMMA BoardType ==
  ASSUME Types
  PROVE  board.fmt \in [clock : {"CBS_CFS", "CBM_CFM"}, format : Formats] /\ board.codec \in {"es8316", "es8323"}
BY SoundAssumption DEF Types, Formats

\* Its calls belong to hw_params.
LEMMA HwCalling ==
  ASSUME Base, NEW l, Call(l), l \notin MuteCalls
  PROVE  job.op = "hw_params"
<1>1. job.todo # <<>> /\ Head(job.todo) = l BY DEF Call
<1>2. ASSUME job.op # "hw_params" PROVE FALSE
  <2>1. job.todo \in Seq(MuteCalls) BY <1>2 DEF Base, Asked
  <2>2. Head(job.todo) \in MuteCalls BY <1>1, <2>1, HeadTailProperties
  <2> QED BY <1>1, <2>2
<1> QED BY <1>2

\* An operation of hw_params asks for a rate of the codec.
LEMMA JobRate ==
  ASSUME Base, job.op = "hw_params"
  PROVE  Bound /\ codec.sysclk = SysclkOf /\ job.rate \in A!rates_112896 /\ job.rate \in codec.rates
BY DEF Base, Life, PcmLife, JobFits

LEMMA I2sSelf ==
  ASSUME i2s \in I2sType, i2s' = i2s
  PROVE  I2sKeeps(i2s, i2s')
BY DEF I2sKeeps

\* With a rate of the codec the two switches of hw_params never fail.
LEMMA BclkDivType ==
  ASSUME Base, job.op = "hw_params"
  PROVE  pll_out(job.rate) \in Nat \ {0} /\ BclkDiv(job.rate) \in Int
<1>1. job.rate \in Nat \ {0} /\ pll_out(job.rate) \in Nat \ {0} BY JobRate, PllOf
<1> DEFINE p == pll_out(job.rate)
<1> HIDE DEF p
<1>2. p \in Nat BY <1>1 DEF p
<1>3. (p \div 4) \in Nat BY <1>2
<1>4. (p \div 4) \div job.rate \in Int BY <1>1, <1>3
<1>5. (p \div 4) \div job.rate - 1 \in Int BY <1>4
<1> QED BY <1>1, <1>5 DEF BclkDiv, p

LEMMA JobStepBase ==
  ASSUME Base, JobStep
  PROVE  Base'
<1>1. /\ Quiet /\ UNCHANGED <<jack, faults>> BY DEF JobStep, Quiet
<1>2. /\ job \in JobType /\ codec \in CodecType /\ i2s \in I2sType /\ Types /\ JobFits BY DEF Base, Types
<1>3. /\ board.fmt \in [clock : {"CBS_CFS", "CBM_CFM"}, format : Formats] BY <1>2, BoardType
<1>j. /\ job.rate \in Nat /\ job.width \in Nat /\ job.dir \in I!Dirs /\ job.on \in BOOLEAN BY <1>2 DEF JobType
<1>c. jack.pin \in BOOLEAN BY DEF Base, Types, JackType
<1> DEFINE Stepped == /\ job' \in JobType
                      /\ job' = NoJob \/ (SameJob(job, job') /\ job'.todo = Tail(job.todo))
           Safe == /\ codec' \in CodecType /\ SameRates(codec, codec') /\ SameCount(codec, codec')
                   /\ Es8316 => codec'.pdn = codec.pdn /\ codec.clksw \ {"mclk_div"} \subseteq codec'.clksw
<1>4. ASSUME NEW l, Call(l) PROVE job.todo # <<>> /\ job.op # "none" /\ Tail(job.todo) \in Todos
  BY <1>2, <1>4, Calling DEF Call
<1>5. ASSUME NEW l, Call(l), Continue PROVE Stepped BY <1>2, <1>4, <1>5, ContinueJob
<1>6. ASSUME NEW l, NEW ok, Call(l), ContinueOr(ok) PROVE Stepped BY <1>2, <1>4, <1>6, ContinueOrJob
<1>7. ASSUME codec' = codec PROVE Safe BY <1>2, <1>7 DEF SameRates, SameCount
<1>8. ASSUME CodecKeeps(codec, codec') PROVE Safe BY <1>8 DEF CodecKeeps, SamePower
<1>9. ASSUME NEW l, Call(l), Stepped, Safe, I2sKeeps(i2s, i2s') PROVE Base'
  BY <1>1, <1>4, <1>9, CallSteps
<1> HIDE DEF Stepped, Safe
<1>11. CASE CodecFmt
  <2>1. Call("codec_fmt") /\ i2s' = i2s BY <1>11 DEF CodecFmt
  <2>2. PICK ok : ContinueOr(ok) BY <1>11 DEF CodecFmt
  <2>3. codec' \in {codec, A!set_dai_fmt(codec, board.fmt), B!set_dai_fmt(codec, board.fmt)} BY <1>11 DEF CodecFmt
  <2>4. Safe
    <3>1. CASE codec' = codec BY <1>7, <3>1
    <3>2. CASE codec' \in {A!set_dai_fmt(codec, board.fmt), B!set_dai_fmt(codec, board.fmt)}
      <4>1. /\ codec' \in CodecType /\ SameRates(codec, codec') /\ SamePower(codec, codec') /\ SameCount(codec, codec')
        BY <1>2, <1>3, <3>2, FmtSets
      <4> QED BY <4>1 DEF Safe, SamePower
    <3> QED BY <2>3, <3>1, <3>2
  <2> QED BY <1>2, <1>6, <1>9, <2>1, <2>2, <2>4, I2sSelf
<1>12. CASE CpuFmt
  <2>1. Call("cpu_fmt") /\ i2s' = I!set_fmt(i2s, board.fmt) /\ codec' = codec BY <1>12 DEF CpuFmt
  <2>2. PICK ok : ContinueOr(ok) BY <1>12 DEF CpuFmt
  <2> QED BY <1>2, <1>3, <1>6, <1>7, <1>9, <2>1, <2>2, I2sFmtKeeps
<1>13. CASE Clock
  <2>1. Continue /\ codec' = codec BY <1>13 DEF Clock
  <2>2. CASE Call("sysclk") /\ i2s' = I!set_sysclk(i2s, pll_out(job.rate))
    <3>1. job.op = "hw_params" BY <2>2, HwCalling DEF MuteCalls
    <3>2. I2sKeeps(i2s, i2s') BY <1>2, <1>j, <2>2, <3>1, BclkDivType, I2sOtherKeeps
    <3> QED BY <1>5, <1>7, <1>9, <2>1, <2>2, <3>2
  <2>3. CASE Call("bclk") /\ i2s' = I!set_clkdiv(i2s, "bclk", BclkDiv(job.rate))
    <3>1. job.op = "hw_params" BY <2>3, HwCalling DEF MuteCalls
    <3>2. I2sKeeps(i2s, i2s') BY <1>2, <2>3, <3>1, BclkDivType, ClkdivKeeps
    <3> QED BY <1>5, <1>7, <1>9, <2>1, <2>3, <3>2
  <2>4. CASE Call("mclk") /\ i2s' = I!set_clkdiv(i2s, "mclk", MclkDiv)
    <3>1. MclkDiv \in Int BY DEF MclkDiv
    <3>2. I2sKeeps(i2s, i2s') BY <1>2, <2>4, <3>1, ClkdivKeeps
    <3> QED BY <1>5, <1>7, <1>9, <2>1, <2>4, <3>2
  <2> QED BY <1>13, <2>2, <2>3, <2>4 DEF Clock
<1>14. CASE CodecParams
  <2>1. Call("codec_params") /\ i2s' = i2s BY <1>14 DEF CodecParams
  <2>2. PICK ok : ContinueOr(ok) BY <1>14 DEF CodecParams
  <2>3. codec' = codec \/ codec' = IF Es8316 THEN A!hw_params(codec, job.dir, job.rate, job.width)
                                            ELSE B!hw_params(codec, job.dir, job.rate, job.width)
    BY <1>14 DEF CodecParams
  <2>4. job.op = "hw_params" BY <2>1, HwCalling DEF MuteCalls
  <2>5. Safe
    <3>1. CASE codec' = codec BY <1>7, <3>1
    <3>2. CASE Es8316 /\ codec' = A!hw_params(codec, job.dir, job.rate, job.width)
      BY <1>2, <3>2, ParamsA DEF Safe
    <3>3. CASE ~Es8316 /\ codec' = B!hw_params(codec, job.dir, job.rate, job.width)
      BY <1>2, <1>j, <2>4, <3>3, ParamsB, JobRate DEF Safe
    <3> QED BY <2>3, <3>1, <3>2, <3>3
  <2> QED BY <1>2, <1>6, <1>9, <2>1, <2>2, <2>5, I2sSelf
<1>15. CASE CpuParams
  <2>1. Call("cpu_params") /\ Continue /\ codec' = codec /\ i2s' = I!hw_params(i2s, job.dir, job.width)
    BY <1>15 DEF CpuParams
  <2>2. I2sKeeps(i2s, i2s') BY <1>2, <1>j, <2>1, I2sOtherKeeps
  <2> QED BY <1>5, <1>7, <1>9, <2>1, <2>2
<1>16. CASE Mute
  <2>1. i2s' = i2s BY <1>16 DEF Mute
  <2>2. CASE Call("unmute") /\ Continue /\ codec' = IF Es8316 THEN A!mute_begin(codec, FALSE)
                                                    ELSE B!mute_begin(B!set_bias_level(codec), FALSE)
    <3>1. CASE Es8316
      <4>1. CodecKeeps(codec, codec') BY <1>2, <1>j, <2>2, <3>1, MuteKeepsA
      <4> QED BY <1>2, <1>5, <1>8, <1>9, <2>1, <2>2, <4>1, I2sSelf
    <3>2. CASE ~Es8316
      <4> DEFINE b == B!set_bias_level(codec)
      <4>1. b \in CodecType /\ SameRates(codec, b) /\ SameCount(codec, b) BY <1>2, BiasB
      <4> HIDE DEF b
      <4>2. codec' = B!mute_begin(b, FALSE) BY <2>2, <3>2 DEF b
      <4>3. CodecKeeps(b, codec') BY <1>j, <4>1, <4>2, MuteKeepsB
      <4>4. Safe BY <3>2, <4>1, <4>3 DEF Safe, CodecKeeps, SameRates, SameCount
      <4> QED BY <1>2, <1>5, <1>9, <2>1, <2>2, <4>4, I2sSelf
    <3> QED BY <3>1, <3>2
  <2>3. CASE /\ Call("look") /\ codec' = codec
             /\ job' = [job EXCEPT !.on = IF Es8316 THEN ~codec.hp_irq_flag ELSE ~jack.pin, !.todo = Tail(@)]
    <3> DEFINE b == IF Es8316 THEN ~codec.hp_irq_flag ELSE ~jack.pin
               y == [job EXCEPT !.on = b]
               t == Tail(job.todo)
    <3>1. b \in BOOLEAN /\ job' = [y EXCEPT !.todo = t] /\ t \in Todos BY <1>4, <2>3
    <3> HIDE DEF b, t
    <3>2. y \in JobType /\ SameJob(job, y) BY <1>2, <3>1, SMT DEF JobType, SameJob
    <3> HIDE DEF y
    <3>3. job' \in JobType /\ SameJob(y, job') /\ job'.todo = t BY <3>1, <3>2, SMT DEF JobType, SameJob
    <3>4. Stepped BY <3>2, <3>3 DEF Stepped, SameJob, t
    <3> QED BY <1>2, <1>7, <1>9, <2>1, <2>3, <3>4, I2sSelf
  <2>4. CASE /\ Call("speaker") /\ Continue
             /\ codec' = IF Es8316 THEN A!mute_end(codec, FALSE, job.on) ELSE B!mute_end(codec, FALSE, job.on)
    <3>1. CodecKeeps(codec, codec') BY <1>2, <1>j, <2>4, MuteKeepsA, MuteKeepsB, Zenon
    <3> QED BY <1>2, <1>5, <1>8, <1>9, <2>1, <2>4, <3>1, I2sSelf
  <2>5. CASE /\ Call("mute") /\ Continue
             /\ codec' = IF Es8316 THEN A!mute_begin(codec, TRUE) ELSE B!mute_begin(codec, TRUE)
    <3>1. CodecKeeps(codec, codec') BY <1>2, <1>j, <2>5, MuteKeepsA, MuteKeepsB, Zenon
    <3> QED BY <1>2, <1>5, <1>8, <1>9, <2>1, <2>5, <3>1, I2sSelf
  <2>6. CASE /\ Call("muted") /\ Continue
             /\ codec' = IF Es8316 THEN A!mute_end(codec, TRUE, FALSE) ELSE B!mute_end(codec, TRUE, FALSE)
    <3>1. FALSE \in BOOLEAN OBVIOUS
    <3>2. CodecKeeps(codec, codec') BY <1>2, <3>1, <2>6, MuteKeepsA, MuteKeepsB, Zenon
    <3> QED BY <1>2, <1>5, <1>8, <1>9, <2>1, <2>6, <3>2, I2sSelf
  <2> QED BY <1>16, <2>2, <2>3, <2>4, <2>5, <2>6 DEF Mute
<1> QED BY <1>11, <1>12, <1>13, <1>14, <1>15, <1>16 DEF JobStep

(***************************************************************************)
(* Modules.                                                                *)
(***************************************************************************)

\* Without a card every stream is closed and nothing runs.
LEMMA Unbound ==
  ASSUME Base, ~Bound
  PROVE  /\ Running = {} /\ {d \in I!Dirs : Open(d)} = {} /\ codec.pwr_count = 0
         /\ job.op = "none" /\ \A d \in I!Dirs : pcm[d].state = "closed"
<1>1. job.op = "none" /\ \A d \in I!Dirs : pcm[d].state = "closed" BY DEF Base, Life, PcmLife
<1>2. Running = {} /\ {d \in I!Dirs : Open(d)} = {} BY <1>1 DEF Running, Open
<1>3. codec.pwr_count = 0
  <2>1. CASE Es8316 BY <1>2, <2>1, FS_EmptySet DEF Base, Power, Powered
  <2>2. CASE ~Es8316 BY <2>2 DEF Base, Power
  <2> QED BY <2>1, <2>2
<1> QED BY <1>1, <1>2, <1>3

\* Whatever the codec then is, as long as its power count is zero.
LEMMA UnboundPower ==
  ASSUME Base, ~Bound, UNCHANGED <<board, pcm, stale>>, codec'.pwr_count = 0
  PROVE  Power'
<1>1. \A d \in I!Dirs : ~Open(d)' BY Unbound DEF Open
<1>2. {d \in I!Dirs : Open(d)}' = {} BY <1>1
<1>3. Cardinality({d \in I!Dirs : Open(d)}') = 0 BY <1>2, FS_EmptySet
<1> QED BY <1>1, <1>3 DEF Power, Powered, Es8316

LEMMA UnboundJob ==
  ASSUME Base, job.op = "none", UNCHANGED job
  PROVE  JobFits' /\ Asked'
<1>1. Idle /\ Idle' BY DEF Base, JobFits, Idle
<1>2. job'.op = "none" /\ job' = NoJob BY <1>1 DEF Idle
<1>3. JobFits' BY <1>1, <1>2 DEF JobFits
<1>4. Asked' BY DEF Base, Asked
<1> QED BY <1>3, <1>4

LEMMA LoadI2sBase ==
  ASSUME Base, LoadI2s
  PROVE  Base'
<1>1. UNCHANGED <<board, codec, card, pcm, job, jack, stale>> BY DEF LoadI2s
<1>2. ~i2s.bound /\ ~Bound /\ i2s \in I2sType /\ faults \in 0..MaxFaults BY DEF LoadI2s, Base, Types, Life, PcmLife
<1>3. Agree(i2s, {}) BY <1>2, Unbound, AgreeTransfers DEF Base
<1>4. PICK outcome \in {"no_dt", "failed", "ok"} :
        /\ i2s' = I!probe(i2s, outcome)
        /\ IF outcome = "failed" THEN Fault ELSE UNCHANGED faults
  BY DEF LoadI2s
<1>5. faults' \in 0..MaxFaults BY <1>2, <1>4, FaultType
<1> DEFINE y == [i2s EXCEPT !.clocks = i2s.clocks + 1]
           z == [y EXCEPT !.clk = I!DefaultFreq]
           b == TRUE
           v == [z EXCEPT !.bound = b]
           e == {}
           w == [v EXCEPT !.start = e]
<1>6. b \in BOOLEAN /\ e \in DirSets /\ I!DefaultFreq \in Nat /\ i2s.clocks \in Nat /\ i2s.clocks + 1 \in Nat
      /\ i2s.clocks + 1 >= 1
  <2>1. i2s.clocks \in Nat BY <1>2 DEF I2sType
  <2> QED BY <2>1, SMT DEF I!DefaultFreq, DirSets
<1>7. I!enable_clks(i2s) = z BY DEF I!enable_clks
<1>8. I!probe(i2s, "ok") = I!ctrl(I!ctrl(w, "playback", FALSE), "capture", FALSE) BY DEF I!probe, I!enable_clks
<1>9. I!probe(i2s, "failed") = z BY <1>7 DEF I!probe
<1>10. I!probe(i2s, "no_dt") = i2s BY DEF I!probe
<1> HIDE DEF b, e, y, z, v, w
<1>11. /\ y \in I2sType /\ y.clocks = i2s.clocks + 1 /\ y.bound = i2s.bound
       /\ y.dma = i2s.dma /\ y.start = i2s.start /\ y.xfer = i2s.xfer
  BY <1>2, <1>6, SMT DEF I2sType, y
<1>12. /\ z \in I2sType /\ z.clocks = i2s.clocks + 1 /\ z.bound = i2s.bound
       /\ z.dma = i2s.dma /\ z.start = i2s.start /\ z.xfer = i2s.xfer
  BY <1>6, <1>11, SMT DEF I2sType, z
<1>13. /\ v \in I2sType /\ v.clocks = i2s.clocks + 1
       /\ v.dma = i2s.dma /\ v.start = i2s.start /\ v.xfer = i2s.xfer
  BY <1>6, <1>12, SMT DEF I2sType, v
<1>14. /\ w \in I2sType /\ w.clocks = i2s.clocks + 1 /\ w.dma = i2s.dma /\ w.start = e /\ w.xfer = i2s.xfer
  BY <1>6, <1>13, SMT DEF I2sType, w
<1>15. Agree(z, {}) /\ Agree(w, {}) BY <1>3, <1>12, <1>14, Zenon DEF Agree, e
<1>16. i2s' \in I2sType /\ Agree(i2s', {}) /\ i2s'.clocks \in Nat /\ (i2s'.bound => i2s'.clocks >= 1)
  <2>1. CASE outcome = "no_dt" BY <1>2, <1>3, <1>4, <1>6, <1>10, <2>1
  <2>2. CASE outcome = "failed" BY <1>4, <1>6, <1>9, <1>12, <1>15, <2>2
  <2>3. CASE outcome = "ok"
    <3> DEFINE c1 == I!ctrl(w, "playback", FALSE)
               c2 == I!ctrl(c1, "capture", FALSE)
    <3>0. "playback" \in I!Dirs /\ "capture" \in I!Dirs BY DEF I!Dirs
    <3>1. I2sKept(w, c1) /\ Agree(c1, {} \ {"playback"}) BY <1>14, <1>15, <3>0, CtrlOff
    <3> HIDE DEF c1
    <3>2. c1 \in I2sType BY <3>1 DEF I2sKept
    <3>3. I2sKept(c1, c2) /\ Agree(c2, ({} \ {"playback"}) \ {"capture"}) BY <3>0, <3>1, <3>2, CtrlOff
    <3>4. i2s' = c2 BY <1>4, <1>8, <2>3 DEF c1
    <3> HIDE DEF c2
    <3>5. ({} \ {"playback"}) \ {"capture"} = {} OBVIOUS
    <3>6. c2.clocks = i2s.clocks + 1 /\ c2 \in I2sType BY <1>14, <3>1, <3>3 DEF I2sKept
    <3> QED BY <1>6, <3>3, <3>4, <3>5, <3>6
  <2> QED BY <1>4, <2>1, <2>2, <2>3
<1>17. Running' = {} BY <1>1, <1>2, Unbound DEF Running
<1>18. Transfers' BY <1>16, <1>17, Zenon DEF Transfers, Agree
<1>19. Types' BY <1>1, <1>5, <1>16 DEF Base, Types
<1>20. Counts' BY <1>1, <1>16 DEF Base, Counts
<1>21. Bound' = Bound /\ Es8316' = Es8316 BY <1>1 DEF Bound, Es8316
<1>22. Life' BY <1>1, <1>2, <1>21 DEF Base, Life, PcmLife
<1>23. JobFits' /\ Asked' BY <1>1, <1>2, Unbound, UnboundJob
<1>24. Power' BY <1>1, <1>2, Unbound, UnboundPower
<1> QED BY <1>18, <1>19, <1>20, <1>22, <1>23, <1>24 DEF Base

LEMMA UnloadI2sBase ==
  ASSUME Base, UnloadI2s
  PROVE  Base'
<1>1. UNCHANGED <<board, codec, card, pcm, job, jack, stale, faults>> BY DEF UnloadI2s
<1>2. i2s.bound /\ ~Bound /\ i2s \in I2sType /\ i2s.clocks >= 1 BY DEF UnloadI2s, Base, Types, Counts
<1> DEFINE n == i2s.clocks - 1
           y == [i2s EXCEPT !.clocks = n]
           b == FALSE
<1>3. n \in Nat BY <1>2 DEF I2sType
<1>4. i2s' = [y EXCEPT !.bound = b] BY DEF UnloadI2s, I!remove
<1>5. b \in BOOLEAN /\ ~b OBVIOUS
<1> HIDE DEF n, b
<1>6. y \in I2sType /\ y.dma = i2s.dma /\ y.start = i2s.start /\ y.xfer = i2s.xfer BY <1>2, <1>3, SMT DEF I2sType
<1> HIDE DEF y
<1>7. /\ i2s' \in I2sType /\ i2s'.dma = i2s.dma /\ i2s'.start = i2s.start /\ i2s'.xfer = i2s.xfer
      /\ i2s'.bound = b
  BY <1>4, <1>5, <1>6, SMT DEF I2sType
<1>8. Types' BY <1>1, <1>7 DEF Base, Types
<1>9. Counts' BY <1>1, <1>5, <1>7 DEF Base, Counts
<1>10. Bound' = Bound /\ Es8316' = Es8316 BY <1>1 DEF Bound, Es8316
<1>11. Life' BY <1>1, <1>2, <1>10 DEF Base, Life, PcmLife
<1>12. JobFits' /\ Asked' BY <1>1, <1>2, Unbound, UnboundJob
<1>13. Power' BY <1>1, <1>2, Unbound, UnboundPower
<1>14. Transfers' BY <1>1, <1>7, TransfersKept DEF Base
<1> QED BY <1>8, <1>9, <1>11, <1>12, <1>13, <1>14 DEF Base

LEMMA JackReset ==
  ASSUME jack \in JackType, NEW on \in BOOLEAN
  PROVE  LET x == [NoJack EXCEPT !.pin = jack.pin, !.flips = jack.flips, !.irq = on]
         IN  x \in JackType /\ x.depth = 0 /\ x.at = "idle"
<1> DEFINE y == [NoJack EXCEPT !.pin = jack.pin]
           z == [y EXCEPT !.flips = jack.flips]
           x == [z EXCEPT !.irq = on]
<1>0. NoJack \in JackType /\ NoJack.depth = 0 /\ NoJack.at = "idle" BY SMT DEF NoJack, JackType
<1>1. jack.pin \in BOOLEAN /\ jack.flips \in Nat BY DEF JackType
<1>2. y \in JackType /\ y.depth = 0 /\ y.at = "idle" BY <1>0, <1>1, SMT DEF JackType
<1> HIDE DEF y
<1>3. z \in JackType /\ z.depth = 0 /\ z.at = "idle" BY <1>1, <1>2, SMT DEF JackType
<1> HIDE DEF z
<1>4. x \in JackType /\ x.depth = 0 /\ x.at = "idle" BY <1>3, SMT DEF JackType
<1> HIDE DEF x
<1> QED BY <1>4, Zenon DEF x, y, z

LEMMA JackUnload ==
  ASSUME jack \in JackType
  PROVE  LET x == [NoJack EXCEPT !.pin = jack.pin, !.flips = jack.flips]
         IN  x \in JackType /\ x.depth = 0 /\ x.at = "idle"
<1> DEFINE y == [NoJack EXCEPT !.pin = jack.pin]
           x == [y EXCEPT !.flips = jack.flips]
<1>0. NoJack \in JackType /\ NoJack.depth = 0 /\ NoJack.at = "idle" BY SMT DEF NoJack, JackType
<1>1. jack.pin \in BOOLEAN /\ jack.flips \in Nat BY DEF JackType
<1>2. y \in JackType /\ y.depth = 0 /\ y.at = "idle" BY <1>0, <1>1, SMT DEF JackType
<1> HIDE DEF y
<1>3. x \in JackType /\ x.depth = 0 /\ x.at = "idle" BY <1>1, <1>2, SMT DEF JackType
<1> HIDE DEF x
<1> QED BY <1>3, Zenon DEF x, y

\* The steps that load and unload the codec and the card: no stream is open
\* before or after them.
LEMMA CardSteps ==
  ASSUME Base, UNCHANGED <<board, i2s, pcm, job, stale, faults>>, job.op = "none",
         \A d \in I!Dirs : pcm[d].state = "closed",
         card' \in {{}, {"codec"}, {"codec", "card"}},
         codec' \in CodecType, codec'.pwr_count = 0,
         Bound' => i2s.bound /\ codec'.sysclk = SysclkOf /\ codec'.rates = A!rates_112896,
         jack' \in JackType, jack'.depth \in {0, 1}, jack'.at # "idle" => jack'.depth = 1
  PROVE  Base'
<1>1. Types' BY DEF Base, Types
<1>2. Counts' BY DEF Base, Counts
<1>3. Es8316' = Es8316 BY DEF Es8316
<1>4. Life' BY <1>3 DEF Base, Life, PcmLife
<1>5. JobFits' /\ Asked' BY UnboundJob
<1>6. Transfers' BY TransfersKept DEF Base
<1>7. Power'
  <2>1. \A d \in I!Dirs : ~Open(d)' BY DEF Open
  <2>2. {d \in I!Dirs : Open(d)}' = {} BY <2>1
  <2>3. Cardinality({d \in I!Dirs : Open(d)}') = 0 BY <2>2, FS_EmptySet
  <2> QED BY <2>1, <2>3 DEF Power, Powered, Es8316
<1> QED BY <1>1, <1>2, <1>4, <1>5, <1>6, <1>7 DEF Base

LEMMA LoadCodecBase ==
  ASSUME Base, LoadCodec
  PROVE  Base'
<1>1. /\ UNCHANGED <<board, i2s, pcm, job, stale, faults>> /\ card = {} /\ card' = {"codec"} BY DEF LoadCodec
<1>2. ~Bound /\ ~Bound' BY <1>1 DEF Bound
<1>3. codec' \in CodecType /\ codec'.pwr_count = 0 BY I2cProbes DEF LoadCodec
<1>4. jack \in JackType BY DEF Base, Types
<1> DEFINE b == TRUE
<1>5. jack' = [NoJack EXCEPT !.pin = jack.pin, !.flips = jack.flips, !.irq = b] /\ b \in BOOLEAN BY DEF LoadCodec
<1> HIDE DEF b
<1>6. jack' \in JackType /\ jack'.depth = 0 /\ jack'.at = "idle" BY <1>4, <1>5, JackReset
<1> QED BY <1>1, <1>2, <1>3, <1>6, Unbound, CardSteps

LEMMA UnloadCodecBase ==
  ASSUME Base, UnloadCodec
  PROVE  Base'
<1>1. /\ UNCHANGED <<board, i2s, codec, pcm, job, stale, faults>> /\ card = {"codec"} /\ card' = {} BY DEF UnloadCodec
<1>2. ~Bound /\ ~Bound' BY <1>1 DEF Bound
<1>3. codec' \in CodecType /\ codec'.pwr_count = 0 BY <1>1, <1>2, Unbound DEF Base, Types
<1>4. jack \in JackType BY DEF Base, Types
<1>5. jack' \in JackType /\ jack'.depth = 0 /\ jack'.at = "idle" BY <1>4, JackUnload DEF UnloadCodec
<1> QED BY <1>1, <1>2, <1>3, <1>5, Unbound, CardSteps

LEMMA LoadCardBase ==
  ASSUME Base, LoadCard
  PROVE  Base'
<1>1. /\ UNCHANGED <<board, i2s, pcm, job, jack, stale, faults>>
      /\ card = {"codec"} /\ i2s.bound /\ card' = {"codec", "card"}
  BY DEF LoadCard
<1>2. ~Bound BY <1>1 DEF Bound
<1>3. codec \in CodecType /\ codec.pwr_count = 0 BY <1>2, Unbound DEF Base, Types
<1> DEFINE p == IF Es8316 THEN A!codec_probe(codec) ELSE B!codec_probe(codec)
<1>4. p \in CodecType /\ SameCount(codec, p)
  <2>1. CASE Es8316 BY <1>3, <2>1, ResetKeeps DEF A!codec_probe
  <2>2. CASE ~Es8316 BY <1>3, <2>2, ProbeB
  <2> QED BY <2>1, <2>2
<1>5. codec' \in {A!set_dai_sysclk(p, SysclkOf), B!set_dai_sysclk(p, SysclkOf)} BY DEF LoadCard
<1> HIDE DEF p
<1>6. codec' \in CodecType /\ SameCount(p, codec') /\ codec'.sysclk = SysclkOf /\ codec'.rates = A!rates_112896
  BY <1>4, <1>5, SysclkSets
<1>7. codec'.pwr_count = 0 BY <1>3, <1>4, <1>6 DEF SameCount
<1>8. /\ jack' \in JackType /\ jack'.depth \in {0, 1} /\ (jack'.at # "idle" => jack'.depth = 1)
  BY <1>1 DEF Base, Types, Counts
<1> QED BY <1>1, <1>2, <1>6, <1>7, <1>8, Unbound, CardSteps

LEMMA UnloadCardBase ==
  ASSUME Base, UnloadCard
  PROVE  Base'
<1>1. /\ UNCHANGED <<board, i2s, pcm, job, jack, stale, faults>>
      /\ Bound /\ Idle /\ (\A d \in I!Dirs : ~Open(d)) /\ card' = {"codec"}
      /\ codec' = IF Es8316 THEN A!codec_remove(codec) ELSE codec
  BY DEF UnloadCard
<1>2. ~Bound' BY <1>1 DEF Bound
<1>3. job.op = "none" /\ \A d \in I!Dirs : pcm[d].state = "closed" BY <1>1, NoJobType DEF Idle, Open
<1>4. codec \in CodecType /\ codec.pwr_count = 0
  <2>1. {d \in I!Dirs : Open(d)} = {} BY <1>1
  <2>2. CASE Es8316 BY <2>1, <2>2, FS_EmptySet DEF Base, Types, Power, Powered
  <2>3. CASE ~Es8316 BY <2>3 DEF Base, Types, Power
  <2> QED BY <2>2, <2>3
<1>5. codec' \in CodecType /\ codec'.pwr_count = 0 BY <1>1, <1>4, RemoveKeeps DEF SameCount
<1>6. /\ jack' \in JackType /\ jack'.depth \in {0, 1} /\ (jack'.at # "idle" => jack'.depth = 1)
  BY <1>1 DEF Base, Types, Counts
<1> QED BY <1>1, <1>2, <1>3, <1>5, <1>6, CardSteps

(***************************************************************************)
(* Streams.                                                                *)
(***************************************************************************)

LEMMA DirsFinite == IsFiniteSet(I!Dirs) /\ Cardinality(I!Dirs) = 2
<1>1. I!Dirs = {"playback"} \cup {"capture"} /\ "capture" \notin {"playback"} BY DEF I!Dirs
<1>2. IsFiniteSet({"playback"}) /\ Cardinality({"playback"}) = 1 BY FS_Singleton
<1> QED BY <1>1, <1>2, FS_AddElement

Opened == {d \in I!Dirs : Open(d)}

LEMMA OpenedFinite ==
  IsFiniteSet(Opened) /\ Cardinality(Opened) \in 0..2
<1>1. Opened \in SUBSET I!Dirs BY DEF Opened
<1>2. IsFiniteSet(Opened) /\ Cardinality(Opened) <= 2 BY <1>1, DirsFinite, FS_Subset
<1>3. Cardinality(Opened) \in Nat BY <1>2, FS_CardinalityType
<1> QED BY <1>2, <1>3

\* hw_params, prepare and close begin: only the operation is noted.
LEMMA BeginBase ==
  ASSUME Base, UNCHANGED <<board, i2s, codec, card, pcm, jack, stale, faults>>, Idle, Bound,
         job' \in JobType, job'.op # "none",
         pcm[job'.dir].state \in {"open", "setup", "prepared", "suspended"},
         job'.op = "hw_params" =>
           /\ pcm[job'.dir].state # "suspended"
           /\ job'.rate \in codec.rates /\ job'.rate # 0 /\ Symmetric(job'.dir, job'.rate),
         job'.op = "prepare" => pcm[job'.dir].state # "open",
         job'.op # "hw_params" => job'.todo \in Seq(MuteCalls)
  PROVE  Base'
<1>1. Types' BY DEF Base, Types
<1>2. Counts' BY DEF Base, Counts
<1>3. Bound' = Bound /\ Es8316' = Es8316 BY DEF Bound, Es8316
<1>4. Life' BY <1>3 DEF Base, Life, PcmLife
<1>5. JobFits'
  <2>1. ~Idle' BY NoJobType DEF Idle
  <2>2. Symmetric(job.dir, job.rate)' = Symmetric(job'.dir, job'.rate) BY DEF Symmetric
  <2> QED BY <2>1, <2>2 DEF JobFits
<1>6. Asked' BY DEF Asked
<1>7. Transfers' BY TransfersKept DEF Base
<1>8. Quiet BY DEF Quiet
<1>9. Power' BY <1>8, PowerKept DEF Base, SameCount
<1> QED BY <1>1, <1>2, <1>4, <1>5, <1>6, <1>7, <1>9 DEF Base

FmtCalls   == <<"codec_fmt", "cpu_fmt">>
ClockCalls == <<"sysclk", "bclk", "mclk">>
LastCalls  == <<"codec_params", "cpu_params">>

LEMMA CallTypes ==
  /\ FmtCalls \in Todos /\ Len(FmtCalls) = 2 /\ FmtCalls[1] = "codec_fmt" /\ FmtCalls[2] = "cpu_fmt"
  /\ ClockCalls \in Todos /\ Len(ClockCalls) = 3
  /\ ClockCalls[1] = "sysclk" /\ ClockCalls[2] = "bclk" /\ ClockCalls[3] = "mclk"
  /\ LastCalls \in Todos /\ Len(LastCalls) = 2 /\ LastCalls[1] = "codec_params" /\ LastCalls[2] = "cpu_params"
BY DEF FmtCalls, ClockCalls, LastCalls, Todos, Labels

LEMMA Joined ==
  ASSUME NEW a \in Todos, NEW b \in Todos
  PROVE  /\ a \o b \in Todos /\ Len(a \o b) = Len(a) + Len(b)
         /\ \A i \in 1..(Len(a) + Len(b)) : (a \o b)[i] = IF i <= Len(a) THEN a[i] ELSE b[i - Len(a)]
<1>1. a \in Seq(Labels) /\ b \in Seq(Labels) BY DEF Todos
<1> QED BY <1>1, ConcatProperties, Zenon DEF Todos

\* The calls of hw_params, one by one.
LEMMA HwCallsAre ==
  /\ HwCalls \in Todos /\ HwCalls[1] = "codec_fmt" /\ HwCalls[2] = "cpu_fmt"
  /\ board.fmt.clock = "CBS_CFS" =>
       /\ Len(HwCalls) = 7 /\ HwCalls[3] = "sysclk" /\ HwCalls[4] = "bclk" /\ HwCalls[5] = "mclk"
       /\ HwCalls[6] = "codec_params" /\ HwCalls[7] = "cpu_params"
  /\ board.fmt.clock # "CBS_CFS" =>
       Len(HwCalls) = 4 /\ HwCalls[3] = "codec_params" /\ HwCalls[4] = "cpu_params"
<1>1. CASE board.fmt.clock = "CBS_CFS"
  <2> DEFINE s == FmtCalls \o ClockCalls
  <2>1. HwCalls = s \o LastCalls BY <1>1 DEF HwCalls, FmtCalls, ClockCalls, LastCalls
  <2>n. Len(FmtCalls) = 2 /\ Len(LastCalls) = 2 /\ Len(FmtCalls) + Len(ClockCalls) = 5 BY CallTypes
  <2>s. /\ s \in Todos /\ Len(s) = Len(FmtCalls) + Len(ClockCalls)
        /\ \A i \in 1..(Len(FmtCalls) + Len(ClockCalls)) :
             s[i] = IF i <= Len(FmtCalls) THEN FmtCalls[i] ELSE ClockCalls[i - Len(FmtCalls)]
    BY CallTypes, Joined, Zenon
  <2>2. /\ s \in Todos /\ Len(s) = 5
        /\ \A i \in 1..5 : s[i] = IF i <= 2 THEN FmtCalls[i] ELSE ClockCalls[i - 2]
    BY <2>n, <2>s, Zenon
  <2> HIDE DEF s
  <2>m. Len(s) + Len(LastCalls) = 7 BY <2>n, <2>2
  <2>t. /\ HwCalls \in Todos /\ Len(HwCalls) = Len(s) + Len(LastCalls)
        /\ \A i \in 1..(Len(s) + Len(LastCalls)) :
             HwCalls[i] = IF i <= Len(s) THEN s[i] ELSE LastCalls[i - Len(s)]
    BY <2>1, <2>2, CallTypes, Joined, Zenon
  <2>3. /\ HwCalls \in Todos /\ Len(HwCalls) = 7
        /\ \A i \in 1..7 : HwCalls[i] = IF i <= 5 THEN s[i] ELSE LastCalls[i - 5]
    BY <2>m, <2>2, <2>t, Zenon
  <2>4. /\ s[1] = FmtCalls[1] /\ s[2] = FmtCalls[2] /\ s[3] = ClockCalls[1] /\ s[4] = ClockCalls[2]
        /\ s[5] = ClockCalls[3]
    BY <2>2
  <2>5. /\ HwCalls[1] = s[1] /\ HwCalls[2] = s[2] /\ HwCalls[3] = s[3] /\ HwCalls[4] = s[4] /\ HwCalls[5] = s[5]
        /\ HwCalls[6] = LastCalls[1] /\ HwCalls[7] = LastCalls[2]
    BY <2>3
  <2> QED BY <1>1, <2>3, <2>4, <2>5, CallTypes
<1>2. CASE board.fmt.clock # "CBS_CFS"
  <2> DEFINE s == FmtCalls \o <<>>
  <2>1. HwCalls = s \o LastCalls BY <1>2 DEF HwCalls, FmtCalls, LastCalls
  <2>2. s = FmtCalls BY CallTypes, ConcatEmptySeq DEF Todos
  <2> HIDE DEF s
  <2>n. Len(FmtCalls) = 2 /\ Len(FmtCalls) + Len(LastCalls) = 4 BY CallTypes
  <2>t. /\ HwCalls \in Todos /\ Len(HwCalls) = Len(FmtCalls) + Len(LastCalls)
        /\ \A i \in 1..(Len(FmtCalls) + Len(LastCalls)) :
             HwCalls[i] = IF i <= Len(FmtCalls) THEN FmtCalls[i] ELSE LastCalls[i - Len(FmtCalls)]
    BY <2>1, <2>2, CallTypes, Joined, Zenon
  <2>3. /\ HwCalls \in Todos /\ Len(HwCalls) = 4
        /\ \A i \in 1..4 : HwCalls[i] = IF i <= 2 THEN FmtCalls[i] ELSE LastCalls[i - 2]
    BY <2>n, <2>t, Zenon
  <2>4. /\ HwCalls[1] = FmtCalls[1] /\ HwCalls[2] = FmtCalls[2] /\ HwCalls[3] = LastCalls[1]
        /\ HwCalls[4] = LastCalls[2]
    BY <2>3
  <2> QED BY <1>2, <2>3, <2>4, CallTypes
<1> QED BY <1>1, <1>2

LEMMA TodoTypes ==
  /\ HwCalls \in Todos
  /\ <<"unmute", "look", "speaker">> \in Todos \cap Seq(MuteCalls)
  /\ <<"mute", "muted">> \in Todos \cap Seq(MuteCalls) /\ <<>> \in Todos \cap Seq(MuteCalls)
<1>1. HwCalls \in Todos BY HwCallsAre
<1> QED BY <1>1 DEF Todos, Labels, MuteCalls

MakeJob(o, d, t) == [NoJob EXCEPT !.op = o, !.dir = d, !.todo = t]

LEMMA MadeJob ==
  ASSUME NEW o \in {"prepare", "close"}, NEW d \in I!Dirs, NEW t \in Todos
  PROVE  MakeJob(o, d, t) \in JobType /\ MakeJob(o, d, t).op = o /\ MakeJob(o, d, t).dir = d /\ MakeJob(o, d, t).todo = t
<1> DEFINE y == [NoJob EXCEPT !.op = o]
           z == [y EXCEPT !.dir = d]
           x == [z EXCEPT !.todo = t]
<1>0. NoJob \in JobType BY NoJobType
<1>1. y \in JobType /\ y.op = o BY <1>0, SMT DEF JobType
<1> HIDE DEF y
<1>2. z \in JobType /\ z.op = y.op /\ z.dir = d BY <1>1, SMT DEF JobType
<1> HIDE DEF z
<1>3. x \in JobType /\ x.op = z.op /\ x.dir = z.dir /\ x.todo = t BY <1>2, SMT DEF JobType
<1>4. MakeJob(o, d, t) = x BY DEF MakeJob, y, z
<1> HIDE DEF x
<1> QED BY <1>1, <1>2, <1>3, <1>4

HwJob(d, r, w, t) == [NoJob EXCEPT !.op = "hw_params", !.dir = d, !.rate = r, !.width = w, !.todo = t]

LEMMA MadeHwJob ==
  ASSUME NEW d \in I!Dirs, NEW r \in Nat, NEW w \in Nat, NEW t \in Todos
  PROVE  /\ HwJob(d, r, w, t) \in JobType /\ HwJob(d, r, w, t).op = "hw_params" /\ HwJob(d, r, w, t).dir = d
         /\ HwJob(d, r, w, t).rate = r /\ HwJob(d, r, w, t).width = w /\ HwJob(d, r, w, t).todo = t
<1> DEFINE u == [NoJob EXCEPT !.op = "hw_params"]
           v == [u EXCEPT !.dir = d]
           y == [v EXCEPT !.rate = r]
           z == [y EXCEPT !.width = w]
           x == [z EXCEPT !.todo = t]
<1>0. NoJob \in JobType BY NoJobType
<1>1. u \in JobType /\ u.op = "hw_params" BY <1>0, SMT DEF JobType
<1> HIDE DEF u
<1>2. v \in JobType /\ v.op = u.op /\ v.dir = d BY <1>1, SMT DEF JobType
<1> HIDE DEF v
<1>3. y \in JobType /\ y.op = v.op /\ y.dir = v.dir /\ y.rate = r BY <1>2, SMT DEF JobType
<1> HIDE DEF y
<1>4. z \in JobType /\ z.op = y.op /\ z.dir = y.dir /\ z.rate = y.rate /\ z.width = w BY <1>3, SMT DEF JobType
<1> HIDE DEF z
<1>5. x \in JobType /\ x.op = z.op /\ x.dir = z.dir /\ x.rate = z.rate /\ x.width = z.width /\ x.todo = t
  BY <1>4, SMT DEF JobType
<1> HIDE DEF x
<1>6. x \in JobType /\ x.op = "hw_params" /\ x.dir = d /\ x.rate = r /\ x.width = w /\ x.todo = t
  BY <1>1, <1>2, <1>3, <1>4, <1>5
<1>7. HwJob(d, r, w, t) = x BY DEF HwJob, x, z, y, v, u
<1> QED BY <1>6, <1>7

LEMMA HwParamsBegins ==
  ASSUME NEW d \in I!Dirs, NEW r \in Rates, NEW w \in Widths, HwParams(d, r, w)
  PROVE  /\ job' \in JobType /\ job'.op = "hw_params" /\ job'.dir = d /\ job'.rate = r /\ job'.width = w
         /\ job'.todo = HwCalls
<1>1. r \in Nat /\ w \in Nat BY SoundAssumption
<1>2. HwCalls \in Todos BY TodoTypes
<1>3. job' = HwJob(d, r, w, HwCalls) BY DEF HwParams, HwJob
<1> QED BY <1>1, <1>2, <1>3, MadeHwJob

LEMMA HwParamsBase ==
  ASSUME Base, NEW d \in I!Dirs, NEW r \in Rates, NEW w \in Widths, HwParams(d, r, w)
  PROVE  Base'
<1>1. /\ UNCHANGED <<board, i2s, codec, card, pcm, jack, stale, faults>>
      /\ Bound /\ Idle /\ pcm[d].state \in {"open", "setup", "prepared"}
      /\ r \in codec.rates /\ Symmetric(d, r)
  BY DEF HwParams
<1>2. r # 0 BY SoundAssumption
<1>3. /\ job' \in JobType /\ job'.op = "hw_params" /\ job'.dir = d /\ job'.rate = r BY HwParamsBegins
<1> QED BY <1>1, <1>2, <1>3, BeginBase

LEMMA PrepareBase ==
  ASSUME Base, NEW d \in I!Dirs, Prepare(d)
  PROVE  Base'
<1>1. /\ UNCHANGED <<board, i2s, codec, card, pcm, jack, stale, faults>>
      /\ Idle /\ pcm[d].state \in {"setup", "prepared", "suspended"}
  BY DEF Prepare
<1> DEFINE t == IF d = "playback" THEN <<"unmute", "look", "speaker">> ELSE <<>>
<1>2. job' = MakeJob("prepare", d, t) BY DEF Prepare, MakeJob
<1>3. t \in Todos /\ t \in Seq(MuteCalls) BY TodoTypes
<1>4. Bound BY <1>1 DEF Base, Life, PcmLife
<1> HIDE DEF t
<1>5. job' \in JobType /\ job'.op = "prepare" /\ job'.dir = d /\ job'.todo = t BY <1>2, <1>3, MadeJob
<1> QED BY <1>1, <1>3, <1>4, <1>5, BeginBase

LEMMA CloseBase ==
  ASSUME Base, NEW d \in I!Dirs, Close(d)
  PROVE  Base'
<1>1. /\ UNCHANGED <<board, i2s, codec, card, pcm, jack, stale, faults>>
      /\ Idle /\ pcm[d].state \in {"open", "setup", "prepared", "suspended"}
  BY DEF Close
<1> DEFINE t == IF d = "playback" THEN <<"mute", "muted">> ELSE <<>>
<1>2. job' = MakeJob("close", d, t) BY DEF Close, MakeJob
<1>3. t \in Todos /\ t \in Seq(MuteCalls) BY TodoTypes
<1>4. Bound BY <1>1 DEF Base, Life, PcmLife
<1> HIDE DEF t
<1>5. job' \in JobType /\ job'.op = "close" /\ job'.dir = d /\ job'.todo = t BY <1>2, <1>3, MadeJob
<1> QED BY <1>1, <1>3, <1>4, <1>5, BeginBase

LEMMA PcmSet ==
  ASSUME pcm \in [I!Dirs -> PcmType], NEW d \in I!Dirs, NEW st \in States, pcm' = [pcm EXCEPT ![d].state = st]
  PROVE  /\ pcm' \in [I!Dirs -> PcmType] /\ pcm'[d].state = st /\ pcm'[d].rate = pcm[d].rate
         /\ \A e \in I!Dirs \ {d} : pcm'[e] = pcm[e]
<1> DEFINE x == [pcm[d] EXCEPT !.state = st]
<1>1. pcm[d] \in PcmType OBVIOUS
<1>2. x \in PcmType /\ x.state = st /\ x.rate = pcm[d].rate BY <1>1, SMT DEF PcmType
<1>3. pcm' = [pcm EXCEPT ![d] = x] OBVIOUS
<1> HIDE DEF x
<1> QED BY <1>2, <1>3

LEMMA PcmPut ==
  ASSUME pcm \in [I!Dirs -> PcmType], NEW d \in I!Dirs, NEW x \in PcmType, pcm' = [pcm EXCEPT ![d] = x]
  PROVE  /\ pcm' \in [I!Dirs -> PcmType] /\ pcm'[d] = x
         /\ \A e \in I!Dirs \ {d} : pcm'[e] = pcm[e]
OBVIOUS

\* What a step that moves a stream has to show.
StreamStep ==
  /\ UNCHANGED <<board, card, jack>> /\ faults' \in 0..MaxFaults
  /\ i2s' \in I2sType /\ i2s'.bound = i2s.bound /\ i2s'.clocks = i2s.clocks /\ Transfers'
  /\ codec' \in CodecType /\ SameRates(codec, codec') /\ Power'
  /\ pcm' \in [I!Dirs -> PcmType] /\ stale' \subseteq I!Dirs
  /\ job' \in JobType /\ JobFits' /\ Asked'
  /\ Bound /\ (~Es8316 => stale' = {})
  /\ PcmLife'

LEMMA StreamSteps ==
  ASSUME Base, StreamStep
  PROVE  Base'
<1>1. Types' BY DEF Base, Types, StreamStep
<1>2. Counts' BY DEF Base, Counts, StreamStep
<1>3. Bound' = Bound /\ Es8316' = Es8316 BY DEF Bound, Es8316, StreamStep
<1>4. codec'.sysclk = codec.sysclk /\ codec'.rates = codec.rates BY DEF StreamStep, SameRates
<1>5. Life' BY <1>3, <1>4 DEF Base, Life, PcmLife, StreamStep
<1> QED BY <1>1, <1>2, <1>5 DEF Base, StreamStep

\* A stream that is closed before or after and does not run.
LEMMA StillRunning ==
  ASSUME NEW d \in I!Dirs, pcm[d].state # "running", pcm'[d].state # "running",
         \A e \in I!Dirs \ {d} : pcm'[e] = pcm[e]
  PROVE  Running' = Running
BY DEF Running

LEMMA NoJobFits ==
  ASSUME job' = NoJob
  PROVE  job' \in JobType /\ JobFits' /\ Asked'
<1>1. job' \in JobType /\ job'.op = "none" /\ job'.todo = <<>> BY NoJobType
<1>2. JobFits' BY <1>1 DEF JobFits, Idle
<1>3. Asked' BY <1>1, EmptySeq DEF Asked
<1> QED BY <1>1, <1>2, <1>3

LEMMA PcmOpenBase ==
  ASSUME Base, NEW d \in I!Dirs, PcmOpen(d)
  PROVE  Base'
<1>1. /\ UNCHANGED <<board, i2s, card, job, jack, stale, faults>> /\ Bound /\ Idle /\ ~Open(d)
      /\ codec' = IF Es8316 THEN A!startup(codec, d) ELSE codec
  BY DEF PcmOpen
<1>2. Types /\ codec \in CodecType /\ codec.sysclk = SysclkOf BY <1>1 DEF Base, Types, Life, PcmLife
<1>3. A!StartupOk(codec) BY <1>2, SMT DEF A!StartupOk, SysclkOf
<1>4. pcm' = [pcm EXCEPT ![d].state = "open"] BY <1>3 DEF PcmOpen
<1>5. /\ pcm' \in [I!Dirs -> PcmType] /\ pcm'[d].state = "open" /\ pcm'[d].rate = pcm[d].rate
      /\ \A e \in I!Dirs \ {d} : pcm'[e] = pcm[e]
  BY <1>2, <1>4, PcmSet DEF Types, States
<1>6. pcm[d].state = "closed" /\ d \notin stale BY <1>1 DEF Base, Life, PcmLife, Open
<1>7. Running' = Running BY <1>5, <1>6, StillRunning
<1>8. Transfers' BY <1>1, <1>7 DEF Base, Transfers
<1>9. job' \in JobType /\ JobFits' /\ Asked' BY <1>1, NoJobFits DEF Idle
<1>10. Opened' = Opened \cup {d} /\ d \notin Opened
  <2>1. Open(d)' BY <1>5 DEF Open
  <2>2. \A e \in I!Dirs \ {d} : Open(e)' <=> Open(e) BY <1>5 DEF Open
  <2> QED BY <1>1, <2>1, <2>2 DEF Opened
<1>11. codec' \in CodecType /\ SameRates(codec, codec') /\ Power'
  <2>1. CASE ~Es8316
    <3>1. codec' = codec BY <1>1, <2>1
    <3>2. codec.pwr_count = 0 BY <2>1 DEF Base, Power
    <3> QED BY <1>1, <1>2, <2>1, <3>1, <3>2 DEF Power, Es8316, SameRates
  <2>2. CASE Es8316
    <3>1. codec' = A!startup(codec, d) BY <1>1, <2>2
    <3>2. /\ codec' \in CodecType /\ SameRates(codec, codec')
          /\ codec'.pwr_count = codec.pwr_count + 1 /\ codec'.pdn = FALSE
          /\ codec'.clksw = (codec.clksw \ {"mclk_div"}) \cup A!Needs(d)
      BY <1>2, <3>1, StartupSets
    <3>3. /\ codec.pwr_count = Cardinality(Opened)
          /\ \A e \in I!Dirs : Open(e) /\ e \notin stale => ~codec.pdn /\ A!Needs(e) \subseteq codec.clksw
      BY <2>2 DEF Base, Power, Powered, Opened
    <3>4. codec'.pwr_count = Cardinality(Opened')
      BY <1>10, <3>2, <3>3, OpenedFinite, FS_AddElement
    <3>5. ASSUME NEW e \in I!Dirs, Open(e)', e \notin stale'
          PROVE  ~codec'.pdn /\ A!Needs(e) \subseteq codec'.clksw
      <4>1. CASE e = d BY <3>2, <4>1
      <4>2. CASE e # d
        <5>1. Open(e) /\ e \notin stale BY <1>1, <1>5, <3>5, <4>2 DEF Open
        <5>2. A!Needs(e) \subseteq codec.clksw BY <3>3, <5>1
        <5>3. "mclk_div" \notin A!Needs(e) BY DEF A!Needs
        <5> QED BY <3>2, <5>2, <5>3
      <4> QED BY <4>1, <4>2
    <3>6. Es8316' BY <1>1, <2>2 DEF Es8316
    <3> QED BY <3>2, <3>4, <3>5, <3>6 DEF Power, Powered, Opened
  <2> QED BY <2>1, <2>2
<1>12. PcmLife'
  <2> SUFFICES ASSUME NEW e \in I!Dirs
               PROVE  /\ pcm'[e].state = "closed" => pcm'[e].rate = 0 /\ e \notin stale'
                      /\ pcm'[e].state \notin {"closed", "open"} => pcm'[e].rate # 0
    BY DEF PcmLife
  <2>1. CASE e = d BY <1>5, <2>1
  <2>2. CASE e # d BY <1>1, <1>5, <2>2 DEF Base, Life, PcmLife
  <2> QED BY <2>1, <2>2
<1>13. StreamStep BY <1>1, <1>2, <1>5, <1>8, <1>9, <1>11, <1>12 DEF StreamStep, Base, Types, Life, PcmLife
<1> QED BY <1>13, StreamSteps

\* A step that opens and closes no stream and leaves the codec alone.
LEMMA PowerSame ==
  ASSUME Base, board' = board, codec' = codec, stale' = stale, \A d \in I!Dirs : Open(d)' <=> Open(d)
  PROVE  Power'
<1>1. Opened' = Opened /\ Es8316' = Es8316 BY DEF Opened, Es8316
<1>2. CASE ~Es8316 BY <1>1, <1>2 DEF Base, Power
<1>3. CASE Es8316
  <2>1. codec'.pwr_count = Cardinality(Opened') BY <1>1, <1>3 DEF Base, Power, Powered, Opened
  <2>2. ASSUME NEW d \in I!Dirs, Open(d)', d \notin stale'
        PROVE  ~codec'.pdn /\ A!Needs(d) \subseteq codec'.clksw
    BY <1>3, <2>2 DEF Base, Power, Powered
  <2> QED BY <1>1, <1>3, <2>1, <2>2 DEF Power, Powered, Opened
<1> QED BY <1>2, <1>3

\* The two directions need different clocks.
LEMMA ShutdownPower ==
  ASSUME Base, NEW d \in I!Dirs, Es8316, board' = board, Open(d), ~Open(d)', stale' = stale \ {d},
         \A e \in I!Dirs \ {d} : Open(e)' <=> Open(e), codec' = A!shutdown(codec, d)
  PROVE  Power'
<1>1. codec \in CodecType BY DEF Base, Types
<1>2. /\ codec'.pwr_count = codec.pwr_count - 1
      /\ codec.pwr_count # 1 => /\ codec'.clksw = codec.clksw \ Own(d)
                                /\ codec'.pdn = IF d = "playback" THEN FALSE ELSE codec.pdn
  BY <1>1, ShutdownSets
<1>3. /\ codec.pwr_count = Cardinality(Opened)
      /\ \A e \in I!Dirs : Open(e) /\ e \notin stale => ~codec.pdn /\ A!Needs(e) \subseteq codec.clksw
  BY DEF Base, Power, Powered, Opened
<1>4. Opened' = Opened \ {d} /\ d \in Opened BY DEF Opened
<1>5. codec'.pwr_count = Cardinality(Opened') BY <1>2, <1>3, <1>4, OpenedFinite, FS_RemoveElement
<1>6. ASSUME NEW e \in I!Dirs, Open(e)', e \notin stale'
      PROVE  ~codec'.pdn /\ A!Needs(e) \subseteq codec'.clksw
  <2>1. e # d /\ Open(e) /\ e \notin stale BY <1>6
  <2>2. e \in Opened \ {d} BY <2>1 DEF Opened
  <2>3. Cardinality(Opened \ {d}) # 0 BY <2>2, OpenedFinite, FS_RemoveElement, FS_EmptySet
  <2>4. Cardinality(Opened \ {d}) = Cardinality(Opened) - 1 BY <1>4, OpenedFinite, FS_RemoveElement
  <2>5. codec.pwr_count # 1 BY <1>3, <2>3, <2>4, OpenedFinite
  <2>6. codec'.clksw = codec.clksw \ Own(d) /\ (codec'.pdn = FALSE \/ codec'.pdn = codec.pdn) BY <1>2, <2>5
  <2>7. ~codec.pdn /\ A!Needs(e) \subseteq codec.clksw BY <1>3, <2>1
  <2>8. A!Needs(e) \cap Own(d) = {} BY <2>1 DEF A!Needs, Own, I!Dirs
  <2> QED BY <2>6, <2>7, <2>8
<1>7. Es8316' BY DEF Es8316
<1> QED BY <1>5, <1>6, <1>7 DEF Power, Powered, Opened

LEMMA JobEndBase ==
  ASSUME Base, JobEnd
  PROVE  Base'
<1>2. Types /\ codec \in CodecType /\ pcm \in [I!Dirs -> PcmType] /\ job \in JobType /\ stale \subseteq I!Dirs
  BY DEF Base, Types
<1>d. PICK d \in I!Dirs : d = job.dir BY <1>2 DEF JobType
<1>1. /\ UNCHANGED <<board, i2s, card, jack, faults>> /\ ~Idle /\ job' = NoJob
      /\ codec' = IF job.op = "close" /\ Es8316 THEN A!shutdown(codec, d) ELSE codec
      /\ stale' = IF job.op = "close" THEN stale \ {d} ELSE stale
  BY <1>d DEF JobEnd
<1>3. d \in I!Dirs /\ job.rate \in Nat /\ job.op \in {"none", "hw_params", "prepare", "close"} BY <1>2 DEF JobType
<1>4. job.op # "none" /\ pcm[d].state \in {"open", "setup", "prepared", "suspended"} BY <1>d, <1>1 DEF Base, JobFits
<1>5. Bound BY <1>4 DEF Base, Life, PcmLife
<1>6. job' \in JobType /\ JobFits' /\ Asked' BY <1>1, NoJobFits
<1>7. ASSUME pcm' \in [I!Dirs -> PcmType], pcm'[d].state # "running", \A e \in I!Dirs \ {d} : pcm'[e] = pcm[e],
             pcm'[d].state = "closed" => pcm'[d].rate = 0 /\ d \notin stale',
             pcm'[d].state \notin {"closed", "open"} => pcm'[d].rate # 0,
             codec' \in CodecType, SameRates(codec, codec'), Power'
      PROVE  Base'
  <2>1. Running' = Running BY <1>3, <1>4, <1>7, StillRunning
  <2>2. Transfers' BY <1>1, <2>1 DEF Base, Transfers
  <2>3. PcmLife'
    <3> SUFFICES ASSUME NEW e \in I!Dirs
                 PROVE  /\ pcm'[e].state = "closed" => pcm'[e].rate = 0 /\ e \notin stale'
                        /\ pcm'[e].state \notin {"closed", "open"} => pcm'[e].rate # 0
      BY DEF PcmLife
    <3>1. CASE e = d BY <1>7, <3>1
    <3>2. CASE e # d
      <4>1. pcm'[e] = pcm[e] BY <1>7, <3>2
      <4>2. e \notin stale => e \notin stale' BY <1>1
      <4> QED BY <4>1, <4>2 DEF Base, Life, PcmLife
    <3> QED BY <3>1, <3>2
  <2>4. stale' \subseteq I!Dirs /\ (~Es8316 => stale' = {}) BY <1>1, <1>2 DEF Base, Life, PcmLife
  <2>5. /\ UNCHANGED <<board, card, jack>> /\ faults' \in 0..MaxFaults
        /\ i2s' \in I2sType /\ i2s'.bound = i2s.bound /\ i2s'.clocks = i2s.clocks
    BY <1>1, <1>2 DEF Types
  <2>6. StreamStep BY <1>5, <1>6, <1>7, <2>2, <2>3, <2>4, <2>5 DEF StreamStep
  <2> QED BY <2>6, StreamSteps
<1>8. CASE job.op = "hw_params"
  <2> DEFINE x == [state |-> "setup", rate |-> job.rate]
  <2>1. pcm' = [pcm EXCEPT ![d] = x] BY <1>d, <1>8 DEF JobEnd
  <2>2. x \in PcmType /\ x.state = "setup" /\ x.rate = job.rate BY <1>3, SMT DEF PcmType, States
  <2> HIDE DEF x
  <2>3. pcm' \in [I!Dirs -> PcmType] /\ pcm'[d] = x /\ \A e \in I!Dirs \ {d} : pcm'[e] = pcm[e]
    BY <1>2, <1>3, <2>1, <2>2, PcmPut
  <2>4. job.rate # 0 BY <1>8 DEF Base, JobFits
  <2>5. codec' = codec /\ stale' = stale BY <1>1, <1>8
  <2>6. \A e \in I!Dirs : Open(e)' <=> Open(e) BY <1>3, <1>4, <2>2, <2>3 DEF Open
  <2>7. Power' BY <1>1, <2>5, <2>6, PowerSame
  <2> QED BY <1>2, <1>7, <2>2, <2>3, <2>4, <2>5, <2>7 DEF SameRates
<1>9. CASE job.op = "prepare"
  <2>1. pcm' = [pcm EXCEPT ![d].state = "prepared"] BY <1>d, <1>9 DEF JobEnd
  <2>2. /\ pcm' \in [I!Dirs -> PcmType] /\ pcm'[d].state = "prepared" /\ pcm'[d].rate = pcm[d].rate
        /\ \A e \in I!Dirs \ {d} : pcm'[e] = pcm[e]
    BY <1>2, <1>3, <2>1, PcmSet DEF States
  <2>3. pcm[d].state # "open" BY <1>d, <1>9 DEF Base, JobFits
  <2>4. pcm[d].rate # 0 BY <1>3, <1>4, <2>3 DEF Base, Life, PcmLife
  <2>5. codec' = codec /\ stale' = stale BY <1>1, <1>9
  <2>6. \A e \in I!Dirs : Open(e)' <=> Open(e) BY <1>3, <1>4, <2>2 DEF Open
  <2>7. Power' BY <1>1, <2>5, <2>6, PowerSame
  <2> QED BY <1>2, <1>7, <2>2, <2>4, <2>5, <2>7 DEF SameRates
<1>10. CASE job.op = "close"
  <2>1. pcm' = [pcm EXCEPT ![d] = Closed] BY <1>d, <1>10 DEF JobEnd
  <2>2. Closed \in PcmType /\ Closed.state = "closed" /\ Closed.rate = 0 BY SMT DEF PcmType, States, Closed
  <2>3. pcm' \in [I!Dirs -> PcmType] /\ pcm'[d] = Closed /\ \A e \in I!Dirs \ {d} : pcm'[e] = pcm[e]
    BY <1>2, <1>3, <2>1, <2>2, PcmPut
  <2>4. stale' = stale \ {d} BY <1>1, <1>10
  <2>5. Open(d) /\ ~Open(d)' /\ \A e \in I!Dirs \ {d} : Open(e)' <=> Open(e) BY <1>4, <2>2, <2>3 DEF Open
  <2>6. CASE Es8316
    <3>1. codec' = A!shutdown(codec, d) BY <1>1, <1>10, <2>6
    <3>2. Power' BY <1>1, <1>3, <2>4, <2>5, <2>6, <3>1, ShutdownPower
    <3>3. codec' \in CodecType /\ SameRates(codec, codec') BY <1>2, <1>3, <3>1, ShutdownSets
    <3> QED BY <1>7, <2>2, <2>3, <2>4, <3>2, <3>3
  <2>7. CASE ~Es8316
    <3>1. codec' = codec BY <1>1, <2>7
    <3>2. Power' BY <1>1, <2>7, <3>1 DEF Base, Power, Es8316
    <3> QED BY <1>2, <1>7, <2>2, <2>3, <2>4, <3>1, <3>2 DEF SameRates
  <2> QED BY <2>6, <2>7
<1> QED BY <1>3, <1>4, <1>8, <1>9, <1>10

LEMMA TriggerBase ==
  ASSUME Base, NEW d \in I!Dirs, NEW cmd \in I!Starts \cup (I!Stops \ {"suspend"}), Trigger(d, cmd)
  PROVE  Base'
<1>1. /\ UNCHANGED <<board, codec, card, job, jack, stale, faults>> /\ ~(job.dir = d /\ ~Idle)
      /\ i2s' = I!trigger(i2s, d, cmd) /\ pcm' = [pcm EXCEPT ![d].state = After(cmd)]
  BY DEF Trigger
<1>2. Types /\ i2s \in I2sType /\ pcm \in [I!Dirs -> PcmType] /\ codec \in CodecType /\ job \in JobType
  BY DEF Base, Types
<1>3. cmd \in {"start", "resume", "pause_release", "stop", "pause_push"} BY DEF I!Starts, I!Stops
<1>4. pcm[d].state \in {"prepared", "paused", "suspended", "running"}
  <2>1. CASE cmd = "start" BY <2>1 DEF Trigger
  <2>2. CASE cmd = "resume" BY <2>2 DEF Trigger
  <2>3. CASE cmd = "pause_release" BY <2>3 DEF Trigger
  <2>4. CASE cmd = "stop" BY <2>4 DEF Trigger
  <2>5. CASE cmd = "pause_push" BY <2>5 DEF Trigger
  <2> QED BY <1>3, <2>1, <2>2, <2>3, <2>4, <2>5
<1>5. After(cmd) \in States /\ After(cmd) \in {"running", "paused", "prepared"} BY DEF After, States
<1>6. /\ pcm' \in [I!Dirs -> PcmType] /\ pcm'[d].state = After(cmd) /\ pcm'[d].rate = pcm[d].rate
      /\ \A e \in I!Dirs \ {d} : pcm'[e] = pcm[e]
  BY <1>1, <1>2, <1>5, PcmSet
<1>7. Agree(i2s, Running) BY AgreeTransfers DEF Base
<1>8. I2sKept(i2s, i2s') /\ Agree(i2s', Running')
  <2>1. CASE cmd \in I!Starts
    <3>1. (cmd \in I!Starts) = TRUE BY <2>1
    <3>2. i2s' = I!ctrl(i2s, d, TRUE) BY <1>1, <3>1, Zenon DEF I!trigger
    <3>3. I2sKept(i2s, i2s') /\ Agree(i2s', Running \cup {d}) BY <1>2, <1>7, <3>2, CtrlOn
    <3>4. pcm'[d].state = "running" BY <1>6, <2>1 DEF After
    <3>5. Running' = Running \cup {d} BY <1>6, <3>4 DEF Running
    <3> QED BY <3>3, <3>5
  <2>2. CASE cmd \notin I!Starts
    <3>1. (cmd \in I!Starts) = FALSE BY <2>2
    <3>2. i2s' = I!ctrl(i2s, d, FALSE) BY <1>1, <3>1, Zenon DEF I!trigger
    <3>3. I2sKept(i2s, i2s') /\ Agree(i2s', Running \ {d}) BY <1>2, <1>7, <3>2, CtrlOff
    <3>4. pcm'[d].state # "running" BY <1>6, <2>2 DEF After
    <3>5. Running' = Running \ {d} BY <1>6, <3>4 DEF Running
    <3> QED BY <3>3, <3>5
  <2> QED BY <2>1, <2>2
<1>9. Transfers'
  <2>1. CASE Running' = {} BY <1>8, <2>1 DEF Transfers, Agree
  <2>2. CASE Running' # {}
    <3>1. (Running' # {}) = TRUE BY <2>2
    <3> QED BY <1>8, <3>1, Zenon DEF Transfers, Agree
  <2> QED BY <2>1, <2>2
<1>10. \A e \in I!Dirs : Open(e)' <=> Open(e) BY <1>4, <1>5, <1>6 DEF Open
<1>11. Power' BY <1>1, <1>10, PowerSame
<1>12. \A e \in I!Dirs : pcm'[e].rate = pcm[e].rate BY <1>6
<1>13. PcmLife'
  <2> SUFFICES ASSUME NEW e \in I!Dirs
               PROVE  /\ pcm'[e].state = "closed" => pcm'[e].rate = 0 /\ e \notin stale'
                      /\ pcm'[e].state \notin {"closed", "open"} => pcm'[e].rate # 0
    BY DEF PcmLife
  <2>1. CASE e = d BY <1>4, <1>5, <1>6, <2>1 DEF Base, Life, PcmLife
  <2>2. CASE e # d BY <1>1, <1>6, <2>2 DEF Base, Life, PcmLife
  <2> QED BY <2>1, <2>2
<1>14. Bound BY <1>4 DEF Base, Life, PcmLife
<1>15. JobFits' /\ Asked'
  <2>1. CASE Idle BY <1>1, <2>1, NoJobFits DEF Idle
  <2>2. CASE ~Idle
    <3>1. job.dir \in I!Dirs \ {d} BY <1>1, <1>2, <2>2 DEF JobType
    <3>2. pcm'[job.dir] = pcm[job.dir] BY <1>6, <3>1
    <3>3. Symmetric(job.dir, job.rate)' = Symmetric(job.dir, job.rate) BY <1>1, <1>12 DEF Symmetric
    <3>4. Idle' = Idle BY <1>1 DEF Idle
    <3>5. JobFits' BY <1>1, <3>2, <3>3, <3>4 DEF Base, JobFits
    <3> QED BY <1>1, <3>5 DEF Base, Asked
  <2> QED BY <2>1, <2>2
<1>16. /\ UNCHANGED <<board, card, jack>> /\ faults' \in 0..MaxFaults /\ job' \in JobType
       /\ codec' \in CodecType /\ SameRates(codec, codec') /\ stale' \subseteq I!Dirs /\ (~Es8316 => stale' = {})
  BY <1>1, <1>2 DEF Types, SameRates, Base, Life, PcmLife
<1>17. i2s' \in I2sType /\ i2s'.bound = i2s.bound /\ i2s'.clocks = i2s.clocks BY <1>8 DEF I2sKept
<1>18. StreamStep BY <1>6, <1>9, <1>11, <1>13, <1>14, <1>15, <1>16, <1>17 DEF StreamStep
<1> QED BY <1>18, StreamSteps

\* Suspending stops every direction that was started.
LEMMA SuspendStops ==
  ASSUME Base, Sleep
  PROVE  I2sKept(i2s, i2s') /\ Agree(i2s', {})
<1>1. i2s \in I2sType /\ Agree(i2s, Running) BY AgreeTransfers DEF Base, Types
<1>2. ("suspend" \in I!Starts) = FALSE BY DEF I!Starts
<1>3. CASE Running = {}
  <2>1. i2s' = i2s BY <1>3 DEF Sleep
  <2> QED BY <1>1, <1>3, <2>1 DEF I2sKept
<1>4. CASE Running # {} /\ Cardinality(Running) = 1
  <2>1. PICK d : d = CHOOSE e \in Running : TRUE OBVIOUS
  <2>2. d \in Running /\ d \in I!Dirs BY <1>4, <2>1 DEF Running
  <2>3. i2s' = I!trigger(i2s, d, "suspend") BY <1>4, <2>1 DEF Sleep
  <2>4. i2s' = I!ctrl(i2s, d, FALSE) BY <1>2, <2>3, Zenon DEF I!trigger
  <2>5. I2sKept(i2s, i2s') /\ Agree(i2s', Running \ {d}) BY <1>1, <2>2, <2>4, CtrlOff
  <2>6. IsFiniteSet(Running)
    <3>1. Running \in SUBSET I!Dirs BY DEF Running
    <3> QED BY <3>1, DirsFinite, FS_Subset
  <2>7. IsFiniteSet(Running \ {d}) /\ Cardinality(Running \ {d}) = 0 BY <1>4, <2>2, <2>6, FS_RemoveElement
  <2>8. Running \ {d} = {} BY <2>7, FS_EmptySet
  <2> QED BY <2>5, <2>8
<1>5. CASE Running # {} /\ Cardinality(Running) # 1
  <2> DEFINE x == I!trigger(i2s, "playback", "suspend")
  <2>1. i2s' = I!trigger(x, "capture", "suspend") BY <1>5 DEF Sleep
  <2>2. x = I!ctrl(i2s, "playback", FALSE) BY <1>2, Zenon DEF I!trigger
  <2> HIDE DEF x
  <2>3. i2s' = I!ctrl(x, "capture", FALSE) BY <1>2, <2>1, Zenon DEF I!trigger
  <2>4. "playback" \in I!Dirs /\ "capture" \in I!Dirs BY DEF I!Dirs
  <2>5. I2sKept(i2s, x) /\ Agree(x, Running \ {"playback"}) BY <1>1, <2>2, <2>4, CtrlOff
  <2>6. I2sKept(x, i2s') /\ Agree(i2s', (Running \ {"playback"}) \ {"capture"})
    <3>1. x \in I2sType BY <2>5 DEF I2sKept
    <3> QED BY <2>3, <2>4, <2>5, <3>1, CtrlOff
  <2>7. (Running \ {"playback"}) \ {"capture"} = {} BY DEF Running, I!Dirs
  <2>8. I2sKept(i2s, i2s') BY <2>5, <2>6 DEF I2sKept
  <2> QED BY <2>6, <2>7, <2>8
<1> QED BY <1>3, <1>4, <1>5

\* The streams after a sleep: none runs, and each keeps its rate.
LEMMA SleepStreams ==
  ASSUME pcm \in [I!Dirs -> PcmType], Sleep
  PROVE  /\ pcm' \in [I!Dirs -> PcmType]
         /\ \A d \in I!Dirs : pcm'[d].rate = pcm[d].rate
         /\ \A d \in Running : pcm'[d].state = "suspended"
         /\ \A d \in I!Dirs \ Running : pcm'[d] = pcm[d]
         /\ Running' = {}
<1>1. pcm' = [d \in I!Dirs |-> IF d \in Running THEN [pcm[d] EXCEPT !.state = "suspended"] ELSE pcm[d]]
  BY DEF Sleep
<1>2. ASSUME NEW d \in I!Dirs
      PROVE  LET x == [pcm[d] EXCEPT !.state = "suspended"]
             IN  x \in PcmType /\ x.state = "suspended" /\ x.rate = pcm[d].rate
  <2>1. pcm[d] \in PcmType OBVIOUS
  <2> QED BY <2>1, SMT DEF PcmType, States
<1>3. \A d \in I!Dirs : pcm'[d] = IF d \in Running THEN [pcm[d] EXCEPT !.state = "suspended"] ELSE pcm[d]
  BY <1>1
<1>4. \A d \in I!Dirs : pcm'[d] \in PcmType BY <1>2, <1>3
<1>5. pcm' \in [I!Dirs -> PcmType] BY <1>1, <1>4
<1>6. \A d \in I!Dirs : pcm'[d].rate = pcm[d].rate BY <1>2, <1>3
<1>7. \A d \in I!Dirs : d \in Running => pcm'[d].state = "suspended" BY <1>2, <1>3
<1>8. \A d \in I!Dirs \ Running : pcm'[d] = pcm[d] BY <1>3
<1>9. Running \subseteq I!Dirs /\ \A d \in I!Dirs : d \notin Running => pcm[d].state # "running" BY DEF Running
<1>10. Running' = {} BY <1>7, <1>8, <1>9 DEF Running
<1> QED BY <1>5, <1>6, <1>7, <1>8, <1>9, <1>10

LEMMA SleepBase ==
  ASSUME Base, Sleep
  PROVE  Base'
<1>1. /\ UNCHANGED <<board, card, job, jack>> /\ Bound /\ Idle /\ Fault
      /\ codec' = MutedAcross(codec, Active("playback"))
      /\ stale' = IF Es8316 THEN {d \in I!Dirs : Open(d)} ELSE stale
  BY DEF Sleep
<1>2. Types /\ pcm \in [I!Dirs -> PcmType] /\ codec \in CodecType /\ jack.pin \in BOOLEAN /\ faults \in 0..MaxFaults
  BY DEF Base, Types, JackType
<1>3. /\ pcm' \in [I!Dirs -> PcmType]
      /\ \A d \in I!Dirs : pcm'[d].rate = pcm[d].rate
      /\ \A d \in Running : pcm'[d].state = "suspended"
      /\ \A d \in I!Dirs \ Running : pcm'[d] = pcm[d]
      /\ Running' = {}
  BY <1>2, SleepStreams
<1>4. I2sKept(i2s, i2s') /\ Agree(i2s', {}) BY SuspendStops
<1>5. Transfers'
  <2>1. (Running' # {}) = FALSE BY <1>3
  <2> QED BY <1>3, <1>4, <2>1 DEF Transfers, Agree
<1>6. \A d \in Running : pcm[d].state = "running" /\ d \in I!Dirs BY DEF Running
<1>7. \A d \in I!Dirs : Open(d)' <=> Open(d) BY <1>3, <1>6 DEF Open
<1>8. /\ codec' \in CodecType /\ SameRates(codec, codec') /\ SameCount(codec, codec')
      /\ ~Es8316 => CodecKeeps(codec, codec')
  BY <1>1, <1>2, Across
<1>9. Power'
  <2>1. Opened' = Opened /\ Es8316' = Es8316 BY <1>1, <1>7 DEF Opened, Es8316
  <2>2. CASE ~Es8316 BY <1>8, <2>1, <2>2 DEF Base, Power, SameCount
  <2>3. CASE Es8316
    <3>1. codec'.pwr_count = Cardinality(Opened') BY <1>8, <2>1, <2>3 DEF Base, Power, Powered, Opened, SameCount
    <3>2. \A d \in I!Dirs : Open(d)' => d \in stale' BY <1>1, <1>7, <2>3
    <3> QED BY <2>1, <2>3, <3>1, <3>2 DEF Power, Powered, Opened
  <2> QED BY <2>2, <2>3
<1>10. job' \in JobType /\ JobFits' /\ Asked' BY <1>1, NoJobFits DEF Idle
<1>11. \A d \in I!Dirs : ~Open(d) /\ d \notin stale => d \notin stale' BY <1>1
<1>12. PcmLife'
  <2> SUFFICES ASSUME NEW e \in I!Dirs
               PROVE  /\ pcm'[e].state = "closed" => pcm'[e].rate = 0 /\ e \notin stale'
                      /\ pcm'[e].state \notin {"closed", "open"} => pcm'[e].rate # 0
    BY DEF PcmLife
  <2>1. CASE e \in Running BY <1>3, <1>6, <2>1 DEF Base, Life, PcmLife
  <2>2. CASE e \notin Running
    <3>1. pcm'[e] = pcm[e] BY <1>3, <2>2
    <3>2. pcm[e].state = "closed" => e \notin stale' BY <1>11 DEF Base, Life, PcmLife, Open
    <3> QED BY <3>1, <3>2 DEF Base, Life, PcmLife
  <2> QED BY <2>1, <2>2
<1>13. stale' \subseteq I!Dirs /\ (~Es8316 => stale' = {}) BY <1>1, <1>2 DEF Types, Base, Life
<1>14. i2s' \in I2sType /\ i2s'.bound = i2s.bound /\ i2s'.clocks = i2s.clocks BY <1>4 DEF I2sKept
<1>15. faults' \in 0..MaxFaults BY <1>1, <1>2, FaultType
<1>16. StreamStep BY <1>1, <1>3, <1>5, <1>8, <1>9, <1>10, <1>12, <1>13, <1>14, <1>15 DEF StreamStep
<1> QED BY <1>16, StreamSteps

LEMMA StutterBase ==
  ASSUME Base, UNCHANGED vars
  PROVE  Base'
<1>1. /\ board' = board /\ i2s' = i2s /\ codec' = codec /\ card' = card /\ pcm' = pcm /\ job' = job
      /\ jack' = jack /\ stale' = stale /\ faults' = faults
  BY DEF vars
<1>2. Quiet BY <1>1 DEF Quiet
<1>3. CodecKeeps(codec, codec') BY <1>1, KeepsSelf DEF Base, Types
<1>4. jack' \in JackType /\ jack'.depth \in {0, 1} /\ (jack'.at # "idle" => jack'.depth = 1) /\ faults' \in 0..MaxFaults
  BY <1>1 DEF Base, Types, Counts
<1> QED BY <1>1, <1>2, <1>3, <1>4, JackSteps

LEMMA InitBase ==
  ASSUME Init
  PROVE  Base
<1>1. /\ board \in Boards /\ i2s = I!I2sInit /\ codec = A!i2c_probe /\ card = {}
      /\ pcm = [d \in I!Dirs |-> Closed] /\ job = NoJob /\ stale = {} /\ faults = 0
  BY DEF Init
<1>2. PICK p \in BOOLEAN : jack = [NoJack EXCEPT !.pin = p] BY DEF Init
<1>3. jack \in JackType /\ jack.depth = 0 /\ jack.at = "idle"
  <2> DEFINE f == FALSE
  <2>1. f \in BOOLEAN OBVIOUS
  <2>2. NoJack = [pin |-> f, irq |-> f, type |-> "low", edge |-> f, depth |-> 0, at |-> "idle", seen |-> f, flips |-> 0]
    BY DEF NoJack
  <2> HIDE DEF f
  <2>3. NoJack \in JackType /\ NoJack.depth = 0 /\ NoJack.at = "idle" BY <2>1, <2>2, SMT DEF JackType
  <2> QED BY <1>2, <2>3, SMT DEF JackType
<1>4. job \in JobType /\ job.op = "none" /\ job.todo = <<>> BY <1>1, NoJobType
<1>5. Closed \in PcmType /\ Closed.state = "closed" /\ Closed.rate = 0 BY SMT DEF PcmType, States, Closed
<1>6. pcm \in [I!Dirs -> PcmType] /\ \A d \in I!Dirs : pcm[d].state = "closed" /\ pcm[d].rate = 0 BY <1>1, <1>5
<1>7. codec \in CodecType /\ codec.pwr_count = 0 BY <1>1, I2cProbes
<1>8. i2s \in I2sType /\ i2s.bound = FALSE /\ i2s.dma = {} /\ i2s.start = {} /\ i2s.xfer = FALSE
  <2>1. [d \in I!Dirs |-> "i2s"] \in IbmType /\ [d \in I!Dirs |-> 0] \in VdwType BY DEF IbmType, VdwType, Formats
  <2>2. {} \in DirSets /\ "master" \in Sides /\ 0 \in Byte BY DEF DirSets, Sides, Byte
  <2> QED BY <1>1, <2>1, <2>2 DEF I2sType, I!I2sInit
<1>9. faults \in 0..MaxFaults BY <1>1, SoundAssumption
<1>10. Types BY <1>1, <1>3, <1>4, <1>6, <1>7, <1>8, <1>9 DEF Types
<1>11. Counts BY <1>3, <1>8 DEF Counts
<1>12. Life BY <1>1, <1>4, <1>6 DEF Life, PcmLife, Bound
<1>13. JobFits /\ Asked BY <1>1, <1>4, EmptySeq DEF JobFits, Idle, Asked
<1>14. Transfers
  <2>1. Running = {} BY <1>6 DEF Running
  <2>2. (Running # {}) = FALSE BY <2>1
  <2> QED BY <1>8, <2>1, <2>2 DEF Transfers
<1>15. Power
  <2>1. Opened = {} BY <1>6 DEF Opened, Open
  <2>2. Cardinality(Opened) = 0 BY <2>1, FS_EmptySet
  <2> QED BY <1>6, <1>7, <2>2 DEF Power, Powered, Opened, Open
<1> QED BY <1>10, <1>11, <1>12, <1>13, <1>14, <1>15 DEF Base

LEMMA NextBase ==
  ASSUME Base, [Next]_vars
  PROVE  Base'
<1>1. CASE LoadI2s BY <1>1, LoadI2sBase
<1>2. CASE UnloadI2s BY <1>2, UnloadI2sBase
<1>3. CASE LoadCodec BY <1>3, LoadCodecBase
<1>4. CASE UnloadCodec BY <1>4, UnloadCodecBase
<1>5. CASE LoadCard BY <1>5, LoadCardBase
<1>6. CASE UnloadCard BY <1>6, UnloadCardBase
<1>7. ASSUME NEW d \in I!Dirs, PcmOpen(d) PROVE Base' BY <1>7, PcmOpenBase
<1>8. ASSUME NEW d \in I!Dirs, Prepare(d) PROVE Base' BY <1>8, PrepareBase
<1>9. ASSUME NEW d \in I!Dirs, Close(d) PROVE Base' BY <1>9, CloseBase
<1>10. ASSUME NEW d \in I!Dirs, NEW r \in Rates, NEW w \in Widths, HwParams(d, r, w) PROVE Base'
  BY <1>10, HwParamsBase
<1>11. ASSUME NEW d \in I!Dirs, NEW cmd \in I!Starts \cup (I!Stops \ {"suspend"}), Trigger(d, cmd) PROVE Base'
  BY <1>11, TriggerBase
<1>12. CASE JobStep BY <1>12, JobStepBase
<1>13. CASE JobEnd BY <1>13, JobEndBase
<1>14. CASE Sleep BY <1>14, SleepBase
<1>15. CASE Flip BY <1>15, FlipBase
<1>16. CASE Fire BY <1>16, FireBase
<1>17. CASE Handler BY <1>17, HandlerBase
<1>18. CASE UNCHANGED vars BY <1>18, StutterBase
<1> QED BY <1>1, <1>2, <1>3, <1>4, <1>5, <1>6, <1>7, <1>8, <1>9, <1>10, <1>11, <1>12, <1>13, <1>14, <1>15, <1>16,
           <1>17, <1>18 DEF Next

\* The invariant from which the theorems on types, transfers and power follow.
THEOREM BaseHolds == Spec => []Base
<1>1. Init => Base BY InitBase
<1>2. Base /\ [Next]_vars => Base' BY NextBase
<1> QED BY <1>1, <1>2, PTL DEF Spec

\* TypeOK on every board: depths, counts and registers stay in their range
\* whatever programs, the plug and failures do.
THEOREM TypeCorrect == Spec => []TypeOK
<1>1. ASSUME Base
      PROVE  TypeOK
  <2>1. Types /\ Counts BY <1>1 DEF Base
  <2>2. i2s \in I2sType /\ codec \in CodecType /\ jack \in JackType BY <2>1 DEF Types
  <2>3. /\ i2s.clocks \in Nat /\ i2s.dma \subseteq I!Dirs /\ i2s.start \subseteq I!Dirs
        /\ i2s.xfer \in BOOLEAN /\ i2s.tsd \in 0..255 /\ i2s.mdiv \in 0..255
    BY <2>2 DEF I2sType, DirSets, Byte
  <2>4. codec.pwr_count \in 0..2
    <3>1. CASE Es8316 BY <1>1, <3>1, OpenedFinite DEF Base, Power, Powered, Opened
    <3>2. CASE ~Es8316 BY <1>1, <3>2 DEF Base, Power
    <3> QED BY <3>1, <3>2
  <2>5. codec.spk \in BOOLEAN BY <2>2 DEF CodecType
  <2>6. jack.at \in {"idle", "read", "type", "decide", "speaker"} BY <2>2 DEF JackType
  <2>7. jack.depth \in 0..1 BY <2>1 DEF Counts
  <2> QED BY <2>1, <2>3, <2>4, <2>5, <2>6, <2>7 DEF TypeOK, Types
<1> QED BY <1>1, BaseHolds, PTL

\* Transfers on every board: stopping or suspending one stream never stops the
\* DMA or the clocks of the other, and nothing is left on.
THEOREM StreamsTransfer == Spec => []Transfers
<1>1. Base => Transfers BY DEF Base
<1> QED BY <1>1, BaseHolds, PTL

\* Powered: the power count of the ES8316 is the number of open streams, and an
\* open stream has its clocks until the system sleeps.
THEOREM CodecPowered == Spec => []Powered
<1>1. ASSUME Base
      PROVE  Powered
  BY <1>1 DEF Base, Power, Powered
<1> QED BY <1>1, BaseHolds, PTL

(***************************************************************************)
(* Formats, clocks and widths.                                             *)
(***************************************************************************)

I2sSame(i, x) ==
  x.mss = i.mss /\ x.ibm = i.ibm /\ x.clk = i.clk /\ x.tsd = i.tsd /\ x.mdiv = i.mdiv /\ x.vdw = i.vdw

LEMMA BoardFacts ==
  ASSUME board' = board
  PROVE  (Es8316' <=> Es8316) /\ (Master' <=> Master) /\ (Fits' <=> Fits) /\ (Accepted' <=> Accepted)
BY DEF Es8316, Master, Fits, Accepted

LEMMA I2sFacts ==
  ASSUME board' = board, I2sSame(i2s, i2s')
  PROVE  /\ I2sFmt' <=> I2sFmt
         /\ MclkSet' <=> MclkSet
         /\ \A r : (ClkSet(r)' <=> ClkSet(r)) /\ (Divided(r)' <=> Divided(r))
         /\ \A d, w : WordSet(d, w)' <=> WordSet(d, w)
<1>1. Fits' <=> Fits BY BoardFacts
<1>2. I2sFmt' <=> I2sFmt BY <1>1 DEF I2sFmt, I2sSame
<1> QED BY <1>2 DEF I2sSame, MclkSet, ClkSet, Divided, WordSet

LEMMA CodecFacts ==
  ASSUME board' = board
  PROVE  /\ SameFormat(codec, codec') => (CodecFmtSet' <=> CodecFmtSet)
         /\ SameParams(codec, codec') => \A r : (RatioSet(r)' <=> RatioSet(r)) /\ (CodecWide(r)' <=> CodecWide(r))
<1>1. Fits' <=> Fits BY BoardFacts
<1> QED BY <1>1 DEF CodecFmtSet, SameFormat, SameParams, RatioSet, CodecWide

\* Steps that neither begin nor continue hw_params and write no setting that
\* an open stream looks at.
LEMMA SettingsKept ==
  ASSUME Settings, board' = board, I2sSame(i2s, i2s'), SameParams(codec, codec') \/ Es8316,
         job' = job \/ (job.op # "hw_params" /\ job'.op # "hw_params"),
         job'.op = "hw_params" => SameFormat(codec, codec') /\ SameParams(codec, codec'),
         \A d \in I!Dirs : pcm'[d].rate # 0 =>
           pcm'[d].rate = pcm[d].rate /\ (d \notin stale' => d \notin stale /\ SameFormat(codec, codec'))
  PROVE  Settings'
<1>1. (Es8316' <=> Es8316) /\ (Master' <=> Master) /\ (Accepted' <=> Accepted) BY BoardFacts
<1>2. /\ I2sFmt' <=> I2sFmt
      /\ MclkSet' <=> MclkSet
      /\ \A r : (ClkSet(r)' <=> ClkSet(r)) /\ (Divided(r)' <=> Divided(r))
      /\ \A d, w : WordSet(d, w)' <=> WordSet(d, w)
  BY I2sFacts
<1>3. /\ SameFormat(codec, codec') => (CodecFmtSet' <=> CodecFmtSet)
      /\ SameParams(codec, codec') => \A r : (RatioSet(r)' <=> RatioSet(r)) /\ (CodecWide(r)' <=> CodecWide(r))
  BY CodecFacts
<1>4. \A r : Timed(r) => Timed(r)' BY <1>1, <1>2, <1>3 DEF Timed
<1>5. ASSUME NEW d \in I!Dirs PROVE Settled(d)'
  <2> SUFFICES ASSUME pcm'[d].rate # 0
               PROVE  /\ I2sFmt' /\ Accepted' /\ (d \notin stale' => CodecFmtSet')
                      /\ ~Configuring(d)' => Timed(pcm[d].rate)'
    BY DEF Settled
  <2>1. pcm'[d].rate = pcm[d].rate /\ (d \notin stale' => d \notin stale /\ SameFormat(codec, codec')) OBVIOUS
  <2>2. I2sFmt /\ Accepted /\ (d \notin stale => CodecFmtSet) /\ (~Configuring(d) => Timed(pcm[d].rate))
    BY <2>1 DEF Settings, Settled
  <2>3. Configuring(d)' <=> Configuring(d) BY DEF Configuring
  <2>4. PICK r : r = pcm[d].rate OBVIOUS
  <2>5. ~Configuring(d)' => Timed(r)' BY <1>4, <2>2, <2>3, <2>4
  <2>6. r = pcm'[d].rate BY <2>1, <2>4
  <2>7. ~Configuring(d)' => Timed(pcm[d].rate)' BY <2>5, <2>6
  <2> QED BY <1>1, <1>2, <1>3, <2>1, <2>2, <2>7
<1>6. Doing'
  <2>1. CASE job'.op # "hw_params" BY <2>1 DEF Doing
  <2>2. CASE job'.op = "hw_params"
    <3>1. job' = job /\ SameFormat(codec, codec') /\ SameParams(codec, codec') BY <2>2
    <3>2. \A l : Done(l)' <=> Done(l) BY <3>1 DEF Done
    <3>3. Doing /\ job.op = "hw_params" BY <2>2, <3>1 DEF Settings
    <3>4. PICK r, w, d : r = job.rate /\ w = job.width /\ d = job.dir OBVIOUS
    <3> QED BY <1>1, <1>2, <1>3, <3>1, <3>2, <3>3, <3>4 DEF Doing
  <2> QED BY <2>1, <2>2
<1> QED BY <1>5, <1>6 DEF Settings

\* Without an operation and with no parameters nothing is promised.
LEMMA NoSettings ==
  ASSUME job'.op # "hw_params", \A d \in I!Dirs : pcm'[d].rate = 0
  PROVE  Settings'
<1>1. Doing' BY DEF Doing
<1>2. ASSUME NEW d \in I!Dirs PROVE Settled(d)' BY DEF Settled
<1> QED BY <1>1, <1>2 DEF Settings

LEMMA DoneTail ==
  ASSUME job.todo \in Todos, job.todo # <<>>, job'.todo = Tail(job.todo), NEW l, Done(l)'
  PROVE  Done(l) \/ l = Head(job.todo)
<1> SUFFICES ASSUME l # Head(job.todo), NEW i \in 1..Len(job.todo)
             PROVE  job.todo[i] # l
  BY DEF Done
<1>1. job.todo \in Seq(Labels) BY DEF Todos
<1>2. /\ Head(job.todo) = job.todo[1] /\ Len(Tail(job.todo)) = Len(job.todo) - 1
      /\ \A j \in 1..(Len(job.todo) - 1) : Tail(job.todo)[j] = job.todo[j + 1]
  BY <1>1, HeadTailProperties
<1>3. CASE i = 1 BY <1>2, <1>3
<1>4. CASE i # 1
  <2>1. Len(job.todo) \in Nat BY <1>1
  <2>2. i - 1 \in 1..(Len(job.todo) - 1) /\ (i - 1) + 1 = i BY <1>4, <2>1
  <2>3. Tail(job.todo)[i - 1] = job.todo[i] BY <1>2, <2>2
  <2>4. \A j \in 1..Len(Tail(job.todo)) : Tail(job.todo)[j] # l BY DEF Done
  <2> QED BY <1>2, <2>2, <2>3, <2>4
<1> QED BY <1>3, <1>4

\* A call of hw_params that does not fail.  Each brings about its own setting
\* and disturbs no other; the stream that is not configured has the same rate.
LEMMA CallSettings ==
  ASSUME Base, Settings, NEW h, Call(h), job.op = "hw_params", Quiet,
         SameJob(job, job'), job'.todo = Tail(job.todo),
         NEW r, NEW w, NEW d, r = job.rate, w = job.width, d = job.dir,
         CodecFmtSet \/ h = "codec_fmt" => CodecFmtSet',
         h = "codec_fmt" => Accepted,
         I2sFmt \/ h = "cpu_fmt" => I2sFmt',
         ClkSet(r) \/ h = "sysclk" => ClkSet(r)',
         Divided(r) \/ h = "bclk" => Divided(r)',
         MclkSet \/ h = "mclk" => MclkSet',
         ~Es8316 => (RatioSet(r) \/ h = "codec_params" => RatioSet(r)'),
         ~Es8316 => (CodecWide(w) \/ h = "codec_params" => CodecWide(w)'),
         WordSet(d, w) \/ h = "cpu_params" => WordSet(d, w)'
  PROVE  Settings'
<1>1. board' = board /\ pcm' = pcm /\ stale' = stale BY DEF Quiet
<1>2. (Es8316' <=> Es8316) /\ (Master' <=> Master) /\ (Accepted' <=> Accepted) BY <1>1, BoardFacts
<1>3. job.todo \in Todos /\ job.todo # <<>> /\ Head(job.todo) = h BY DEF Base, Types, JobType, Call
<1>4. \A l : Done(l)' => Done(l) \/ l = h BY <1>3, DoneTail
<1>5. job'.op = "hw_params" /\ job'.rate = r /\ job'.width = w /\ job'.dir = d BY DEF SameJob
<1>6. Doing BY DEF Settings
<1>7. Doing'
  <2>1. Done("codec_fmt")' => CodecFmtSet' /\ Accepted' BY <1>2, <1>4, <1>6 DEF Doing
  <2>2. Done("cpu_fmt")' => I2sFmt' BY <1>4, <1>6 DEF Doing
  <2>3. Master' => /\ Done("sysclk")' => ClkSet(r)'
                   /\ Done("bclk")' => Divided(r)'
                   /\ Done("mclk")' => MclkSet'
    BY <1>2, <1>4, <1>6 DEF Doing
  <2>4. Done("codec_params")' /\ ~Es8316' => RatioSet(r)' /\ CodecWide(w)' BY <1>2, <1>4, <1>6 DEF Doing
  <2>5. Done("cpu_params")' => WordSet(d, w)' BY <1>4, <1>6 DEF Doing
  <2> QED BY <1>5, <2>1, <2>2, <2>3, <2>4, <2>5 DEF Doing
<1>8. ASSUME NEW e \in I!Dirs PROVE Settled(e)'
  <2> SUFFICES ASSUME pcm'[e].rate # 0
               PROVE  /\ I2sFmt' /\ Accepted' /\ (e \notin stale' => CodecFmtSet')
                      /\ ~Configuring(e)' => Timed(pcm[e].rate)'
    BY DEF Settled
  <2>1. I2sFmt /\ Accepted /\ (e \notin stale => CodecFmtSet) /\ (~Configuring(e) => Timed(pcm[e].rate))
    BY <1>1 DEF Settings, Settled
  <2>2. ASSUME ~Configuring(e)' PROVE Timed(pcm[e].rate)'
    <3>1. e # d /\ ~Configuring(e) BY <1>5, <2>2 DEF Configuring
    <3>2. pcm[e].rate = r /\ pcm'[e].rate = r BY <1>1, <3>1 DEF Base, JobFits, Symmetric
    <3>3. Timed(r) BY <2>1, <3>1, <3>2
    <3>4. Timed(r)' BY <1>2, <3>3 DEF Timed
    <3> QED BY <3>2, <3>4
  <2> QED BY <1>1, <1>2, <2>1, <2>2
<1> QED BY <1>7, <1>8 DEF Settings

\* What a call that leaves one of the sides alone keeps of its settings.
LEMMA SameI2s ==
  ASSUME i2s' = i2s
  PROVE  I2sSame(i2s, i2s')
BY DEF I2sSame
LEMMA SameCodec ==
  ASSUME codec' = codec
  PROVE  SameFormat(codec, codec') /\ SameParams(codec, codec')
BY DEF SameFormat, SameParams

\* The format of the codec.  The ES8316 may refuse it, and then no stream ever
\* had parameters.
LEMMA CodecFmtSettings ==
  ASSUME Base, Settings, CodecFmt, Quiet
  PROVE  Settings'
<1>1. Call("codec_fmt") /\ i2s' = i2s BY DEF CodecFmt
<1>2. job.op = "hw_params" BY <1>1, HwCalling DEF MuteCalls
<1>3. Types /\ codec \in CodecType /\ job \in JobType /\ JobFits BY DEF Base, Types
<1>4. board.fmt \in [clock : {"CBS_CFS", "CBM_CFM"}, format : Formats] BY <1>3, BoardType
<1>5. job.todo # <<>> /\ Tail(job.todo) \in Todos BY <1>1, <1>3, Calling DEF Call
<1> DEFINE ok == IF Es8316 THEN A!FmtOk(board.fmt) ELSE B!FmtOk(board.fmt)
<1>6. /\ codec' = IF ~ok THEN codec
                  ELSE IF Es8316 THEN A!set_dai_fmt(codec, board.fmt) ELSE B!set_dai_fmt(codec, board.fmt)
      /\ ContinueOr(ok)
  BY DEF CodecFmt
<1>7. ok => Accepted BY DEF Accepted
<1>8. ~ok => ~Accepted
  <2>1. CASE Es8316 BY <2>1 DEF Accepted
  <2>2. CASE ~Es8316
    <3>1. B!FmtOk(board.fmt) BY <1>4 DEF B!FmtOk, Formats
    <3> QED BY <2>2, <3>1
  <2> QED BY <2>1, <2>2
<1> HIDE DEF ok
<1>9. CASE ~ok
  <2>1. job' = NoJob BY <1>6, <1>9 DEF ContinueOr
  <2>2. job'.op # "hw_params" BY <2>1, NoJobType
  <2>3. ~Accepted BY <1>8, <1>9
  <2>4. \A d \in I!Dirs : pcm[d].rate = 0 BY <2>3 DEF Settings, Settled
  <2>5. pcm' = pcm BY DEF Quiet
  <2> QED BY <2>2, <2>4, <2>5, NoSettings
<1>10. CASE ok
  <2>1. SameJob(job, job') /\ job'.todo = Tail(job.todo)
    <3>1. Continue BY <1>6, <1>10 DEF ContinueOr, Continue
    <3> QED BY <1>3, <1>5, <3>1, ContinueJob
  <2>2. codec' = IF Es8316 THEN A!set_dai_fmt(codec, board.fmt) ELSE B!set_dai_fmt(codec, board.fmt) BY <1>6, <1>10
  <2>3. codec' \in {A!set_dai_fmt(codec, board.fmt), B!set_dai_fmt(codec, board.fmt)} BY <2>2
  <2>4. /\ SameParams(codec, codec')
        /\ codec'.clock = IF board.fmt.clock = "CBM_CFM" THEN "master" ELSE "slave"
        /\ codec' = A!set_dai_fmt(codec, board.fmt) \/ board.fmt.format = "i2s" => codec'.format = board.fmt.format
    BY <1>3, <1>4, <2>3, FmtSets
  <2>5. board' = board BY DEF Quiet
  <2>6. Fits => codec'.format = board.fmt.format
    <3>1. CASE Es8316 BY <2>2, <2>4, <3>1
    <3>2. CASE ~Es8316 BY <2>4, <3>2 DEF Fits
    <3> QED BY <3>1, <3>2
  <2>7. CodecFmtSet' BY <2>4, <2>5, <2>6, BoardFacts DEF CodecFmtSet
  <2>8. PICK r, w, d : r = job.rate /\ w = job.width /\ d = job.dir OBVIOUS
  <2>9. /\ I2sFmt' <=> I2sFmt
        /\ MclkSet' <=> MclkSet
        /\ (ClkSet(r)' <=> ClkSet(r)) /\ (Divided(r)' <=> Divided(r))
        /\ WordSet(d, w)' <=> WordSet(d, w)
    BY <1>1, <2>5, SameI2s, I2sFacts
  <2>10. (RatioSet(r)' <=> RatioSet(r)) /\ (CodecWide(w)' <=> CodecWide(w)) BY <2>4, <2>5, CodecFacts
  <2> QED BY <1>1, <1>2, <1>7, <1>10, <2>1, <2>7, <2>8, <2>9, <2>10, CallSettings
<1> QED BY <1>9, <1>10

\* What hw_params does on the controller.
LEMMA I2sCallSettings ==
  ASSUME Base, Settings, NEW h, Call(h), job.op = "hw_params", Quiet, codec' = codec,
         Continue, h # "codec_fmt", h # "codec_params",
         NEW r, NEW w, NEW d, r = job.rate, w = job.width, d = job.dir,
         I2sFmt \/ h = "cpu_fmt" => I2sFmt',
         ClkSet(r) \/ h = "sysclk" => ClkSet(r)',
         Divided(r) \/ h = "bclk" => Divided(r)',
         MclkSet \/ h = "mclk" => MclkSet',
         WordSet(d, w) \/ h = "cpu_params" => WordSet(d, w)'
  PROVE  Settings'
<1>1. job \in JobType /\ JobFits BY DEF Base, Types
<1>2. job.todo # <<>> /\ Tail(job.todo) \in Todos BY <1>1, Calling DEF Call
<1>3. SameJob(job, job') /\ job'.todo = Tail(job.todo) BY <1>1, <1>2, ContinueJob
<1>4. board' = board BY DEF Quiet
<1>5. CodecFmtSet' <=> CodecFmtSet BY <1>4, SameCodec, CodecFacts
<1>6. (RatioSet(r)' <=> RatioSet(r)) /\ (CodecWide(w)' <=> CodecWide(w)) BY <1>4, SameCodec, CodecFacts
<1> QED BY <1>3, <1>5, <1>6, CallSettings

LEMMA CpuFmtSettings ==
  ASSUME Base, Settings, CpuFmt, Quiet
  PROVE  Settings'
<1>1. Call("cpu_fmt") /\ i2s' = I!set_fmt(i2s, board.fmt) /\ codec' = codec /\ ContinueOr(~Es8316 \/ pll_out(job.rate) # 0)
  BY DEF CpuFmt
<1>2. job.op = "hw_params" BY <1>1, HwCalling DEF MuteCalls
<1>3. Types /\ i2s \in I2sType BY DEF Base, Types
<1>4. board.fmt \in [clock : {"CBS_CFS", "CBM_CFM"}, format : Formats] BY <1>3, BoardType
<1>5. pll_out(job.rate) # 0 BY <1>2, BclkDivType
<1>6. Continue BY <1>1, <1>5 DEF ContinueOr, Continue
<1>7. /\ i2s'.clk = i2s.clk /\ i2s'.tsd = i2s.tsd /\ i2s'.mdiv = i2s.mdiv /\ i2s'.vdw = i2s.vdw
      /\ i2s'.mss = IF board.fmt.clock = "CBS_CFS" THEN "master" ELSE "slave"
      /\ board.fmt.format \in {"left_j", "i2s"} => \A d \in I!Dirs : i2s'.ibm[d] = board.fmt.format
  BY <1>1, <1>3, <1>4, I2sFmtKeeps
<1>8. board' = board BY DEF Quiet
<1>9. I2sFmt'
  <2>1. Fits => board.fmt.format \in {"left_j", "i2s"} BY DEF Fits
  <2> QED BY <1>7, <1>8, <2>1, BoardFacts DEF I2sFmt
<1>10. PICK r, w, d : r = job.rate /\ w = job.width /\ d = job.dir OBVIOUS
<1>11. /\ MclkSet' <=> MclkSet
       /\ (ClkSet(r)' <=> ClkSet(r)) /\ (Divided(r)' <=> Divided(r))
       /\ WordSet(d, w)' <=> WordSet(d, w)
  BY <1>7 DEF MclkSet, ClkSet, Divided, WordSet
<1> QED BY <1>1, <1>2, <1>6, <1>9, <1>10, <1>11, I2sCallSettings

\* The fields that one write of the controller changes.
LEMMA I2sWrites ==
  ASSUME NEW i \in I2sType, NEW n \in Nat, NEW b \in Byte, NEW d \in I!Dirs
  PROVE  /\ LET x == [i EXCEPT !.clk = n]
            IN  x.clk = n /\ x.mss = i.mss /\ x.ibm = i.ibm /\ x.tsd = i.tsd /\ x.mdiv = i.mdiv /\ x.vdw = i.vdw
         /\ LET x == [i EXCEPT !.tsd = b]
            IN  x.tsd = b /\ x.mss = i.mss /\ x.ibm = i.ibm /\ x.clk = i.clk /\ x.mdiv = i.mdiv /\ x.vdw = i.vdw
         /\ LET x == [i EXCEPT !.mdiv = b]
            IN  x.mdiv = b /\ x.mss = i.mss /\ x.ibm = i.ibm /\ x.clk = i.clk /\ x.tsd = i.tsd /\ x.vdw = i.vdw
         /\ LET x == [i EXCEPT !.vdw[d] = n]
            IN  /\ x.vdw[d] = n /\ x.mss = i.mss /\ x.ibm = i.ibm /\ x.clk = i.clk /\ x.tsd = i.tsd
                /\ x.mdiv = i.mdiv
<1>1. LET x == [i EXCEPT !.clk = n]
      IN  x.clk = n /\ x.mss = i.mss /\ x.ibm = i.ibm /\ x.tsd = i.tsd /\ x.mdiv = i.mdiv /\ x.vdw = i.vdw
  BY SMT DEF I2sType
<1>2. LET x == [i EXCEPT !.tsd = b]
      IN  x.tsd = b /\ x.mss = i.mss /\ x.ibm = i.ibm /\ x.clk = i.clk /\ x.mdiv = i.mdiv /\ x.vdw = i.vdw
  BY SMT DEF I2sType
<1>3. LET x == [i EXCEPT !.mdiv = b]
      IN  x.mdiv = b /\ x.mss = i.mss /\ x.ibm = i.ibm /\ x.clk = i.clk /\ x.tsd = i.tsd /\ x.vdw = i.vdw
  BY SMT DEF I2sType
<1>4. LET x == [i EXCEPT !.vdw[d] = n]
      IN  /\ x.vdw[d] = n /\ x.mss = i.mss /\ x.ibm = i.ibm /\ x.clk = i.clk /\ x.tsd = i.tsd
          /\ x.mdiv = i.mdiv
  <2> DEFINE v == [i.vdw EXCEPT ![d] = n]
  <2>1. i.vdw \in VdwType BY DEF I2sType
  <2>2. v[d] = n BY <2>1 DEF VdwType
  <2> HIDE DEF v
  <2>3. LET x == [i EXCEPT !.vdw = v]
        IN  /\ x.vdw = v /\ x.mss = i.mss /\ x.ibm = i.ibm /\ x.clk = i.clk /\ x.tsd = i.tsd
            /\ x.mdiv = i.mdiv
    BY SMT DEF I2sType
  <2> QED BY <2>2, <2>3 DEF v
<1> QED BY <1>1, <1>2, <1>3, <1>4

LEMMA ClockSettings ==
  ASSUME Base, Settings, Clock, Quiet
  PROVE  Settings'
<1>1. Continue /\ codec' = codec BY DEF Clock
<1>2. i2s \in I2sType /\ board' = board BY DEF Base, Types, Quiet
<1>3. PICK r, w, d : r = job.rate /\ w = job.width /\ d = job.dir OBVIOUS
<1>4. PICK l \in {"sysclk", "bclk", "mclk"} : Call(l) BY DEF Clock
<1>5. job.op = "hw_params" BY <1>4, HwCalling DEF MuteCalls
<1>6. pll_out(r) \in Nat /\ BclkDiv(r) \in Int /\ MclkDiv \in Int BY <1>3, <1>5, BclkDivType DEF MclkDiv
<1>7. d \in I!Dirs BY <1>3 DEF Base, Types, JobType
<1>8. ASSUME i2s'.mss = i2s.mss, i2s'.ibm = i2s.ibm PROVE I2sFmt' <=> I2sFmt BY <1>2, <1>8, BoardFacts DEF I2sFmt
<1>9. CASE Call("sysclk") /\ i2s' = I!set_sysclk(i2s, pll_out(job.rate))
  <2> DEFINE n == pll_out(r)
  <2>1. i2s' = [i2s EXCEPT !.clk = n] BY <1>3, <1>9 DEF I!set_sysclk
  <2>2. n \in Nat BY <1>6
  <2> HIDE DEF n
  <2>b. 0 \in Byte BY DEF Byte
  <2>3. /\ i2s'.clk = n /\ i2s'.mss = i2s.mss /\ i2s'.ibm = i2s.ibm /\ i2s'.tsd = i2s.tsd /\ i2s'.mdiv = i2s.mdiv
        /\ i2s'.vdw = i2s.vdw
    BY <1>2, <1>7, <2>1, <2>2, <2>b, I2sWrites
  <2>4. ClkSet(r)' BY <2>3 DEF ClkSet, n
  <2>5. (Divided(r)' <=> Divided(r)) /\ (MclkSet' <=> MclkSet) /\ (WordSet(d, w)' <=> WordSet(d, w))
    BY <2>3 DEF Divided, MclkSet, WordSet
  <2> QED BY <1>1, <1>3, <1>5, <1>8, <1>9, <2>3, <2>4, <2>5, I2sCallSettings
<1>10. CASE Call("bclk") /\ i2s' = I!set_clkdiv(i2s, "bclk", BclkDiv(job.rate))
  <2> DEFINE n == BclkDiv(r) % 256
  <2>1. i2s' = [i2s EXCEPT !.tsd = n] BY <1>2, <1>3, <1>6, <1>10, ClkdivKeeps
  <2>2. n \in Byte
    <3> DEFINE x == BclkDiv(r)
    <3> HIDE DEF x
    <3>1. x \in Int BY <1>6 DEF x
    <3>2. x % 256 \in Byte BY <3>1, SMT DEF Byte
    <3> QED BY <3>2 DEF x
  <2> HIDE DEF n
  <2>3. /\ i2s'.tsd = n /\ i2s'.mss = i2s.mss /\ i2s'.ibm = i2s.ibm /\ i2s'.clk = i2s.clk /\ i2s'.mdiv = i2s.mdiv
        /\ i2s'.vdw = i2s.vdw
    BY <1>2, <1>6, <1>7, <2>1, <2>2, I2sWrites
  <2>4. Divided(r)' BY <2>3 DEF Divided, n
  <2>5. (ClkSet(r)' <=> ClkSet(r)) /\ (MclkSet' <=> MclkSet) /\ (WordSet(d, w)' <=> WordSet(d, w))
    BY <2>3 DEF ClkSet, MclkSet, WordSet
  <2> QED BY <1>1, <1>3, <1>5, <1>8, <1>10, <2>3, <2>4, <2>5, I2sCallSettings
<1>11. CASE Call("mclk") /\ i2s' = I!set_clkdiv(i2s, "mclk", MclkDiv)
  <2>1. i2s' = [i2s EXCEPT !.mdiv = MclkDiv % 256] BY <1>2, <1>6, <1>11, ClkdivKeeps
  <2>2. MclkDiv % 256 = MclkDiv /\ MclkDiv \in Byte BY SMT DEF MclkDiv, Byte
  <2>3. /\ i2s'.mdiv = MclkDiv /\ i2s'.mss = i2s.mss /\ i2s'.ibm = i2s.ibm /\ i2s'.clk = i2s.clk
        /\ i2s'.tsd = i2s.tsd /\ i2s'.vdw = i2s.vdw
    BY <1>2, <1>6, <1>7, <2>1, <2>2, I2sWrites
  <2>4. MclkSet' BY <2>3 DEF MclkSet
  <2>5. (ClkSet(r)' <=> ClkSet(r)) /\ (Divided(r)' <=> Divided(r)) /\ (WordSet(d, w)' <=> WordSet(d, w))
    BY <2>3 DEF ClkSet, Divided, WordSet
  <2> QED BY <1>1, <1>3, <1>5, <1>8, <1>11, <2>3, <2>4, <2>5, I2sCallSettings
<1> QED BY <1>9, <1>10, <1>11 DEF Clock

LEMMA CpuParamsSettings ==
  ASSUME Base, Settings, CpuParams, Quiet
  PROVE  Settings'
<1>1. Call("cpu_params") /\ Continue /\ codec' = codec /\ i2s' = I!hw_params(i2s, job.dir, job.width) BY DEF CpuParams
<1>2. i2s \in I2sType /\ board' = board /\ job.dir \in I!Dirs /\ job.width \in Nat BY DEF Base, Types, Quiet, JobType
<1>3. PICK r, w, d : r = job.rate /\ w = job.width /\ d = job.dir OBVIOUS
<1>4. job.op = "hw_params" BY <1>1, HwCalling DEF MuteCalls
<1>5. i2s' = [i2s EXCEPT !.vdw[d] = w] BY <1>1, <1>3 DEF I!hw_params
<1>b. 0 \in Byte BY DEF Byte
<1>6. /\ i2s'.vdw[d] = w /\ i2s'.mss = i2s.mss /\ i2s'.ibm = i2s.ibm /\ i2s'.clk = i2s.clk /\ i2s'.tsd = i2s.tsd
      /\ i2s'.mdiv = i2s.mdiv
  BY <1>2, <1>3, <1>5, <1>b, I2sWrites
<1>7. I2sFmt' <=> I2sFmt BY <1>2, <1>6, BoardFacts DEF I2sFmt
<1>8. WordSet(d, w)' BY <1>6 DEF WordSet
<1>9. (ClkSet(r)' <=> ClkSet(r)) /\ (Divided(r)' <=> Divided(r)) /\ (MclkSet' <=> MclkSet)
  BY <1>6 DEF ClkSet, Divided, MclkSet
<1> QED BY <1>1, <1>3, <1>4, <1>7, <1>8, <1>9, I2sCallSettings

\* The parameters of the codec, which accepts every rate it offered.
LEMMA ParamsAccept ==
  ASSUME Base, job.op = "hw_params"
  PROVE  /\ pll_out(job.rate) # 0
         /\ IF Es8316 THEN A!ParamsOk(codec, job.rate) ELSE B!ParamsOk(codec, job.rate)
<1>1. codec.sysclk = SysclkOf /\ job.rate \in A!rates_112896 BY JobRate
<1>2. pll_out(job.rate) # 0 /\ A!get_coeff(SysclkOf, job.rate) BY <1>1, PllOf
<1>3. B!get_coeff(SysclkOf, job.rate) = {<<SysclkOf, job.rate, Quotient(job.rate)>>} BY <1>1, RowOf
<1>4. A!ParamsOk(codec, job.rate) BY <1>1, <1>2 DEF A!ParamsOk
<1>5. B!ParamsOk(codec, job.rate) BY <1>1, <1>3 DEF B!ParamsOk
<1> QED BY <1>2, <1>4, <1>5

LEMMA CodecParamsSettings ==
  ASSUME Base, Settings, CodecParams, Quiet
  PROVE  Settings'
<1>1. Call("codec_params") /\ i2s' = i2s BY DEF CodecParams
<1>2. job.op = "hw_params" BY <1>1, HwCalling DEF MuteCalls
<1>3. /\ codec \in CodecType /\ job \in JobType /\ JobFits /\ board' = board /\ job.width \in Nat
  BY DEF Base, Types, Quiet, JobType
<1>4. job.todo # <<>> /\ Tail(job.todo) \in Todos BY <1>1, <1>3, Calling DEF Call
<1>5. /\ codec' = IF Es8316 THEN A!hw_params(codec, job.dir, job.rate, job.width)
                            ELSE B!hw_params(codec, job.dir, job.rate, job.width)
      /\ Continue
  BY <1>2, ParamsAccept DEF CodecParams, ContinueOr, Continue
<1>6. SameJob(job, job') /\ job'.todo = Tail(job.todo) BY <1>3, <1>4, <1>5, ContinueJob
<1>7. PICK r, w, d : r = job.rate /\ w = job.width /\ d = job.dir OBVIOUS
<1>8. /\ I2sFmt' <=> I2sFmt
      /\ MclkSet' <=> MclkSet
      /\ (ClkSet(r)' <=> ClkSet(r)) /\ (Divided(r)' <=> Divided(r))
      /\ WordSet(d, w)' <=> WordSet(d, w)
  BY <1>1, <1>3, SameI2s, I2sFacts
<1>9. CASE Es8316
  <2>1. codec' = A!hw_params(codec, job.dir, job.rate, job.width) BY <1>5, <1>9
  <2>2. SameFormat(codec, codec') BY <1>3, <2>1, ParamsA
  <2>3. CodecFmtSet' <=> CodecFmtSet BY <1>3, <2>2, CodecFacts
  <2> QED BY <1>1, <1>2, <1>6, <1>7, <1>8, <1>9, <2>3, CallSettings
<1>10. CASE ~Es8316
  <2>1. codec' = B!hw_params(codec, job.dir, job.rate, job.width) BY <1>5, <1>10
  <2>2. codec.sysclk = SysclkOf /\ job.rate \in A!rates_112896 BY <1>2, JobRate
  <2>3. SameFormat(codec, codec') /\ codec'.width = w /\ codec'.ratio = Quotient(r) BY <1>3, <1>7, <2>1, <2>2, ParamsB
  <2>4. CodecFmtSet' <=> CodecFmtSet BY <1>3, <2>3, CodecFacts
  <2>5. CodecWide(w)' BY <2>3 DEF CodecWide
  <2>6. pll_out(r) = SysclkOf => Quotient(r) * r = SysclkOf BY <1>7, <2>2, RowOf
  <2>7. RatioSet(r)' BY <2>3, <2>6 DEF RatioSet
  <2> QED BY <1>1, <1>2, <1>6, <1>7, <1>8, <2>4, <2>5, <2>7, CallSettings
<1> QED BY <1>9, <1>10

\* Muting writes no setting.
LEMMA MuteWrites ==
  ASSUME Base, Mute
  PROVE  /\ SameFormat(codec, codec') /\ SameParams(codec, codec')
         /\ SameJob(job, job') /\ job'.todo = Tail(job.todo)
         /\ \E h \in MuteCalls : Call(h)
<1>1. job \in JobType /\ codec \in CodecType /\ JobFits /\ job.on \in BOOLEAN /\ jack.pin \in BOOLEAN
  BY DEF Base, Types, JobType, JackType
<1>2. PICK h \in MuteCalls : Call(h) BY DEF Mute, MuteCalls
<1>3. job.todo # <<>> /\ Tail(job.todo) \in Todos BY <1>1, <1>2, Calling DEF Call
<1>4. ASSUME CodecKeeps(codec, codec') PROVE SameFormat(codec, codec') /\ SameParams(codec, codec')
  BY <1>4 DEF CodecKeeps
<1>5. FALSE \in BOOLEAN OBVIOUS
<1>6. SameFormat(codec, codec') /\ SameParams(codec, codec')
  <2>1. CASE codec' = IF Es8316 THEN A!mute_begin(codec, FALSE) ELSE B!mute_begin(B!set_bias_level(codec), FALSE)
    <3>1. CASE Es8316
      <4>1. CodecKeeps(codec, codec') BY <1>1, <1>5, <2>1, <3>1, MuteKeepsA
      <4> QED BY <1>4, <4>1
    <3>2. CASE ~Es8316
      <4> DEFINE b == B!set_bias_level(codec)
      <4>1. b \in CodecType /\ SameFormat(codec, b) /\ SameParams(codec, b) BY <1>1, BiasB
      <4> HIDE DEF b
      <4>2. codec' = B!mute_begin(b, FALSE) BY <2>1, <3>2 DEF b
      <4>3. CodecKeeps(b, codec') BY <1>5, <4>1, <4>2, MuteKeepsB
      <4> QED BY <4>1, <4>3 DEF CodecKeeps, SameFormat, SameParams
    <3> QED BY <3>1, <3>2
  <2>2. CASE codec' = codec BY <2>2, SameCodec
  <2>3. CASE codec' = IF Es8316 THEN A!mute_end(codec, FALSE, job.on) ELSE B!mute_end(codec, FALSE, job.on)
    <3>1. CodecKeeps(codec, codec') BY <1>1, <2>3, MuteKeepsA, MuteKeepsB, Zenon
    <3> QED BY <1>4, <3>1
  <2>4. CASE codec' = IF Es8316 THEN A!mute_begin(codec, TRUE) ELSE B!mute_begin(codec, TRUE)
    <3>1. CodecKeeps(codec, codec') BY <1>1, <1>5, <2>4, MuteKeepsA, MuteKeepsB, Zenon
    <3> QED BY <1>4, <3>1
  <2>5. CASE codec' = IF Es8316 THEN A!mute_end(codec, TRUE, FALSE) ELSE B!mute_end(codec, TRUE, FALSE)
    <3>1. CodecKeeps(codec, codec') BY <1>1, <1>5, <2>5, MuteKeepsA, MuteKeepsB, Zenon
    <3> QED BY <1>4, <3>1
  <2> QED BY <2>1, <2>2, <2>3, <2>4, <2>5 DEF Mute
<1>7. SameJob(job, job') /\ job'.todo = Tail(job.todo)
  <2>1. CASE Continue BY <1>1, <1>3, <2>1, ContinueJob
  <2>2. CASE job' = [job EXCEPT !.on = IF Es8316 THEN ~codec.hp_irq_flag ELSE ~jack.pin, !.todo = Tail(@)]
    <3> DEFINE b == IF Es8316 THEN ~codec.hp_irq_flag ELSE ~jack.pin
               y == [job EXCEPT !.on = b]
               t == Tail(job.todo)
    <3>1. b \in BOOLEAN /\ job' = [y EXCEPT !.todo = t] /\ t \in Todos BY <1>3, <2>2
    <3> HIDE DEF b, t
    <3>2. y \in JobType /\ SameJob(job, y) BY <1>1, <3>1, SMT DEF JobType, SameJob
    <3> HIDE DEF y
    <3>3. SameJob(y, job') /\ job'.todo = t BY <3>1, <3>2, SMT DEF JobType, SameJob
    <3> QED BY <3>2, <3>3 DEF SameJob, t
  <2> QED BY <2>1, <2>2 DEF Mute
<1> QED BY <1>2, <1>6, <1>7

LEMMA MuteSettings ==
  ASSUME Base, Settings, Mute, Quiet
  PROVE  Settings'
<1>1. /\ SameFormat(codec, codec') /\ SameParams(codec, codec') /\ SameJob(job, job') /\ job'.todo = Tail(job.todo)
      /\ \E h \in MuteCalls : Call(h)
  BY MuteWrites
<1>2. board' = board /\ pcm' = pcm /\ stale' = stale /\ i2s' = i2s BY DEF Quiet, Mute
<1>3. I2sSame(i2s, i2s') BY <1>2, SameI2s
<1>4. CASE job.op = "hw_params"
  <2>1. PICK h \in MuteCalls : Call(h) BY <1>1
  <2>2. PICK r, w, d : r = job.rate /\ w = job.width /\ d = job.dir OBVIOUS
  <2>3. /\ I2sFmt' <=> I2sFmt
        /\ MclkSet' <=> MclkSet
        /\ (ClkSet(r)' <=> ClkSet(r)) /\ (Divided(r)' <=> Divided(r))
        /\ WordSet(d, w)' <=> WordSet(d, w)
    BY <1>2, <1>3, I2sFacts
  <2>4. /\ CodecFmtSet' <=> CodecFmtSet
        /\ (RatioSet(r)' <=> RatioSet(r)) /\ (CodecWide(w)' <=> CodecWide(w))
    BY <1>1, <1>2, CodecFacts
  <2>5. h \notin {"codec_fmt", "cpu_fmt", "sysclk", "bclk", "mclk", "codec_params", "cpu_params"}
    BY <2>1 DEF MuteCalls
  <2> QED BY <1>1, <1>4, <2>1, <2>2, <2>3, <2>4, <2>5, CallSettings
<1>5. CASE job.op # "hw_params"
  <2>1. job'.op # "hw_params" BY <1>1, <1>5 DEF SameJob
  <2> QED BY <1>1, <1>2, <1>3, <1>5, <2>1, SettingsKept
<1> QED BY <1>4, <1>5

LEMMA JobStepSettings ==
  ASSUME Base, Settings, JobStep
  PROVE  Settings'
<1>1. Quiet BY DEF JobStep, Quiet
<1> QED BY <1>1, CodecFmtSettings, CpuFmtSettings, ClockSettings, CodecParamsSettings, CpuParamsSettings, MuteSettings
        DEF JobStep

\* The other steps.
LEMMA ModuleSettings ==
  ASSUME Base, LoadI2s \/ UnloadI2s \/ LoadCodec \/ UnloadCodec \/ LoadCard \/ UnloadCard
  PROVE  Settings'
<1>1. pcm' = pcm /\ job' = job
  BY DEF LoadI2s, UnloadI2s, LoadCodec, UnloadCodec, LoadCard, UnloadCard
<1>2. job.op # "hw_params" /\ \A d \in I!Dirs : pcm[d].state = "closed"
  <2>1. CASE ~Bound BY <2>1, Unbound
  <2>2. CASE Bound
    <3>1. i2s.bound /\ card # {} /\ card # {"codec"} BY <2>2 DEF Base, Life, Bound
    <3>2. UnloadCard BY <2>2, <3>1 DEF LoadI2s, UnloadI2s, LoadCodec, UnloadCodec, LoadCard
    <3>3. Idle /\ \A d \in I!Dirs : pcm[d].state = "closed" BY <3>2 DEF UnloadCard, Open
    <3> QED BY <3>3, NoJobType DEF Idle
  <2> QED BY <2>1, <2>2
<1>3. \A d \in I!Dirs : pcm[d].rate = 0 BY <1>2 DEF Base, Life, PcmLife
<1> QED BY <1>1, <1>2, <1>3, NoSettings

LEMMA JackSettings ==
  ASSUME Base, Settings, Flip \/ Fire \/ Handler \/ UNCHANGED vars
  PROVE  Settings'
<1>1. /\ board' = board /\ pcm' = pcm /\ stale' = stale /\ i2s' = i2s /\ job' = job
  BY DEF Flip, Fire, Handler, vars
<1>2. SameFormat(codec, codec') /\ SameParams(codec, codec')
  <2>1. CASE codec' = codec BY <2>1, SameCodec
  <2>2. CASE codec' # codec
    <3>1. codec \in CodecType /\ jack.pin \in BOOLEAN /\ jack.seen \in BOOLEAN BY DEF Base, Types, JackType
    <3>2. (~jack.pin) \in BOOLEAN /\ (~jack.seen) \in BOOLEAN OBVIOUS
    <3>3. PICK b \in BOOLEAN : codec' = SetSpk(codec, b) \/ codec' = SetHp(codec, b)
      <4>1. CASE Decide BY <2>2, <3>1, <4>1 DEF Decide, SetHp
      <4>2. CASE Speaker BY <2>2, <3>1, <3>2, <4>2, Zenon DEF Speaker, SetSpk
      <4> QED BY <2>2, <4>1, <4>2 DEF Flip, Fire, Handler, vars, ReadPin, SetType
    <3>4. CodecKeeps(codec, codec') BY <3>1, <3>3, FlagsKeep, Zenon
    <3> QED BY <3>4 DEF CodecKeeps
  <2> QED BY <2>1, <2>2
<1>3. I2sSame(i2s, i2s') BY <1>1, SameI2s
<1> QED BY <1>1, <1>2, <1>3, SettingsKept

LEMMA BeginSettings ==
  ASSUME Base, Settings, NEW d \in I!Dirs, Prepare(d) \/ Close(d)
  PROVE  Settings'
<1>1. UNCHANGED <<board, i2s, codec, card, pcm, jack, stale, faults>> /\ Idle BY DEF Prepare, Close
<1>2. job.op # "hw_params" BY <1>1, NoJobType DEF Idle
<1>3. job'.op # "hw_params"
  <2>1. CASE Prepare(d)
    <3> DEFINE t == IF d = "playback" THEN <<"unmute", "look", "speaker">> ELSE <<>>
    <3>1. job' = MakeJob("prepare", d, t) BY <2>1 DEF Prepare, MakeJob
    <3>2. t \in Todos BY TodoTypes
    <3> HIDE DEF t
    <3> QED BY <3>1, <3>2, MadeJob
  <2>2. CASE Close(d)
    <3> DEFINE t == IF d = "playback" THEN <<"mute", "muted">> ELSE <<>>
    <3>1. job' = MakeJob("close", d, t) BY <2>2 DEF Close, MakeJob
    <3>2. t \in Todos BY TodoTypes
    <3> HIDE DEF t
    <3> QED BY <3>1, <3>2, MadeJob
  <2> QED BY <2>1, <2>2
<1> QED BY <1>1, <1>2, <1>3, SameI2s, SameCodec, SettingsKept

LEMMA HwParamsSettings ==
  ASSUME Base, Settings, NEW d \in I!Dirs, NEW r \in Rates, NEW w \in Widths, HwParams(d, r, w)
  PROVE  Settings'
<1>1. UNCHANGED <<board, i2s, codec, card, pcm, jack, stale, faults>> /\ Idle BY DEF HwParams
<1>2. /\ job'.op = "hw_params" /\ job'.todo = HwCalls BY HwParamsBegins
<1>3. (Es8316' <=> Es8316) /\ (Master' <=> Master) /\ (Accepted' <=> Accepted) BY <1>1, BoardFacts
<1>4. /\ I2sFmt' <=> I2sFmt
      /\ MclkSet' <=> MclkSet
      /\ \A x : (ClkSet(x)' <=> ClkSet(x)) /\ (Divided(x)' <=> Divided(x))
  BY <1>1, SameI2s, I2sFacts
<1>5. (CodecFmtSet' <=> CodecFmtSet) /\ \A x : RatioSet(x)' <=> RatioSet(x) BY <1>1, SameCodec, CodecFacts
<1>6. \A x : Timed(x) => Timed(x)' BY <1>3, <1>4, <1>5 DEF Timed
<1>7. Doing'
  <2>1. ASSUME NEW l, NEW n \in {4, 7}, Len(HwCalls) = n, NEW i \in 1..n, HwCalls[i] = l PROVE ~Done(l)'
    BY <1>2, <2>1 DEF Done
  <2>2. Len(HwCalls) \in {4, 7} /\ HwCalls[1] = "codec_fmt" /\ HwCalls[2] = "cpu_fmt" BY HwCallsAre
  <2>3. ~Done("codec_fmt")' /\ ~Done("cpu_fmt")'
    <3>1. CASE Len(HwCalls) = 4
      <4>1. 1 \in 1..4 /\ 2 \in 1..4 OBVIOUS
      <4> QED BY <2>1, <2>2, <3>1, <4>1
    <3>2. CASE Len(HwCalls) = 7
      <4>1. 1 \in 1..7 /\ 2 \in 1..7 OBVIOUS
      <4> QED BY <2>1, <2>2, <3>2, <4>1
    <3> QED BY <2>2, <3>1, <3>2
  <2>4. CASE Master
    <3>1. /\ Len(HwCalls) = 7 /\ HwCalls[3] = "sysclk" /\ HwCalls[4] = "bclk" /\ HwCalls[5] = "mclk"
          /\ HwCalls[6] = "codec_params" /\ HwCalls[7] = "cpu_params"
      BY <2>4, HwCallsAre DEF Master
    <3>2. 3 \in 1..7 /\ 4 \in 1..7 /\ 5 \in 1..7 /\ 6 \in 1..7 /\ 7 \in 1..7 OBVIOUS
    <3>3. ~Done("codec_params")' /\ ~Done("cpu_params")' /\ ~Done("sysclk")' /\ ~Done("bclk")' /\ ~Done("mclk")'
      BY <2>1, <3>1, <3>2
    <3> QED BY <2>3, <3>3 DEF Doing
  <2>5. CASE ~Master
    <3>1. Len(HwCalls) = 4 /\ HwCalls[3] = "codec_params" /\ HwCalls[4] = "cpu_params"
      BY <2>5, HwCallsAre DEF Master
    <3>2. 3 \in 1..4 /\ 4 \in 1..4 OBVIOUS
    <3>3. ~Done("codec_params")' /\ ~Done("cpu_params")' BY <2>1, <3>1, <3>2
    <3> QED BY <1>3, <2>3, <2>5, <3>3 DEF Doing
  <2> QED BY <2>4, <2>5
<1>8. ASSUME NEW e \in I!Dirs PROVE Settled(e)'
  <2>1. ~Configuring(e) BY <1>1, NoJobType DEF Configuring, Idle
  <2>2. PICK x : x = pcm[e].rate /\ x = pcm'[e].rate BY <1>1
  <2>3. x # 0 => I2sFmt /\ Accepted /\ (e \notin stale => CodecFmtSet) /\ Timed(x)
    BY <2>1, <2>2 DEF Settings, Settled
  <2>4. x # 0 => I2sFmt' /\ Accepted' /\ (e \notin stale' => CodecFmtSet') /\ Timed(x)'
    BY <1>1, <1>3, <1>4, <1>5, <1>6, <2>3
  <2> QED BY <2>2, <2>4 DEF Settled
<1> QED BY <1>7, <1>8 DEF Settings

LEMMA PcmOpenSettings ==
  ASSUME Base, Settings, NEW d \in I!Dirs, PcmOpen(d)
  PROVE  Settings'
<1>1. /\ UNCHANGED <<board, i2s, card, job, jack, stale, faults>> /\ Bound /\ Idle
      /\ codec' = IF Es8316 THEN A!startup(codec, d) ELSE codec
  BY DEF PcmOpen
<1>2. codec \in CodecType /\ pcm \in [I!Dirs -> PcmType] BY DEF Base, Types
<1>3. SameFormat(codec, codec') /\ SameParams(codec, codec')
  <2>1. CASE Es8316
    <3>1. codec' = A!startup(codec, d) BY <1>1, <2>1
    <3> QED BY <1>2, <3>1, StartupSets
  <2>2. CASE ~Es8316 BY <1>1, <2>2, SameCodec
  <2> QED BY <2>1, <2>2
<1>4. \A e \in I!Dirs : pcm'[e].rate = pcm[e].rate
  <2>1. CASE pcm' = pcm BY <2>1
  <2>2. CASE pcm' = [pcm EXCEPT ![d].state = "open"]
    <3>1. pcm'[d].rate = pcm[d].rate /\ \A e \in I!Dirs \ {d} : pcm'[e] = pcm[e]
      BY <1>2, <2>2, PcmSet DEF States
    <3> QED BY <3>1
  <2> QED BY <2>1, <2>2 DEF PcmOpen
<1> QED BY <1>1, <1>3, <1>4, SameI2s, SettingsKept

LEMMA TriggerSettings ==
  ASSUME Base, Settings, NEW d \in I!Dirs, NEW cmd \in I!Starts \cup (I!Stops \ {"suspend"}), Trigger(d, cmd)
  PROVE  Settings'
<1>1. /\ UNCHANGED <<board, codec, card, job, jack, stale, faults>>
      /\ i2s' = I!trigger(i2s, d, cmd) /\ pcm' = [pcm EXCEPT ![d].state = After(cmd)]
  BY DEF Trigger
<1>2. i2s \in I2sType /\ pcm \in [I!Dirs -> PcmType] /\ Agree(i2s, Running) BY AgreeTransfers DEF Base, Types
<1>3. After(cmd) \in States BY DEF After, States
<1>4. \A e \in I!Dirs : pcm'[e].rate = pcm[e].rate BY <1>1, <1>2, <1>3, PcmSet
<1>5. I2sKept(i2s, i2s')
  <2>1. CASE cmd \in I!Starts
    <3>1. (cmd \in I!Starts) = TRUE BY <2>1
    <3>2. i2s' = I!ctrl(i2s, d, TRUE) BY <1>1, <3>1, Zenon DEF I!trigger
    <3> QED BY <1>2, <3>2, CtrlOn
  <2>2. CASE cmd \notin I!Starts
    <3>1. (cmd \in I!Starts) = FALSE BY <2>2
    <3>2. i2s' = I!ctrl(i2s, d, FALSE) BY <1>1, <3>1, Zenon DEF I!trigger
    <3> QED BY <1>2, <3>2, CtrlOff
  <2> QED BY <2>1, <2>2
<1>6. I2sSame(i2s, i2s') BY <1>5 DEF I2sKept, I2sSame
<1> QED BY <1>1, <1>4, <1>6, SameCodec, SettingsKept

\* The reset of the ES8316 on resume loses the format of every open stream.
LEMMA SleepSettings ==
  ASSUME Base, Settings, Sleep
  PROVE  Settings'
<1>1. /\ UNCHANGED <<board, card, job, jack>> /\ Idle
      /\ codec' = MutedAcross(codec, Active("playback"))
      /\ stale' = IF Es8316 THEN {d \in I!Dirs : Open(d)} ELSE stale
  BY DEF Sleep
<1>2. pcm \in [I!Dirs -> PcmType] /\ codec \in CodecType /\ jack.pin \in BOOLEAN BY DEF Base, Types, JackType
<1>3. \A d \in I!Dirs : pcm'[d].rate = pcm[d].rate BY <1>2, SleepStreams
<1>4. I2sSame(i2s, i2s') BY SuspendStops DEF I2sKept, I2sSame
<1>5. job'.op # "hw_params" BY <1>1, NoJobType DEF Idle
<1>6. CASE Es8316
  <2>1. \A d \in I!Dirs : pcm[d].rate # 0 => Open(d) BY DEF Base, Life, PcmLife, Open
  <2>2. \A d \in I!Dirs : pcm'[d].rate # 0 => d \in stale' BY <1>1, <1>3, <1>6, <2>1
  <2> QED BY <1>1, <1>3, <1>4, <1>5, <1>6, <2>2, SettingsKept
<1>7. CASE ~Es8316
  <2>1. CodecKeeps(codec, codec') BY <1>1, <1>2, <1>7, Across
  <2>2. SameFormat(codec, codec') /\ SameParams(codec, codec') BY <2>1 DEF CodecKeeps
  <2>3. stale' = stale BY <1>1, <1>7
  <2> QED BY <1>1, <1>3, <1>4, <1>5, <2>2, <2>3, SettingsKept
<1> QED BY <1>6, <1>7

\* The end of hw_params: every call is done.
LEMMA JobEndSettings ==
  ASSUME Base, Settings, JobEnd
  PROVE  Settings'
<1>1. /\ UNCHANGED <<board, i2s, card, jack, faults>> /\ ~Idle /\ job' = NoJob /\ job.todo = <<>>
  BY DEF JobEnd
<1>2. job \in JobType /\ codec \in CodecType /\ pcm \in [I!Dirs -> PcmType] BY DEF Base, Types
<1>d. PICK d \in I!Dirs : d = job.dir BY <1>2 DEF JobType
<1>3. job'.op = "none" BY <1>1, NoJobType
<1>4. CASE job.op = "hw_params"
  <2>1. codec' = codec /\ stale' = stale BY <1>4 DEF JobEnd
  <2>2. PICK r : r = job.rate OBVIOUS
  <2> DEFINE x == [state |-> "setup", rate |-> job.rate]
  <2>3. pcm' = [pcm EXCEPT ![d] = x] BY <1>d, <1>4 DEF JobEnd
  <2>4. x.rate = r BY <2>2
  <2> HIDE DEF x
  <2>5. pcm'[d].rate = r /\ \A e \in I!Dirs \ {d} : pcm'[e] = pcm[e] BY <1>2, <1>d, <2>3, <2>4
  <2>6. \A l : Done(l) BY <1>1 DEF Done
  <2>7. /\ CodecFmtSet /\ Accepted /\ I2sFmt /\ Timed(r)
    BY <1>4, <2>2, <2>6 DEF Settings, Doing, Timed
  <2>8. (Es8316' <=> Es8316) /\ (Master' <=> Master) /\ (Accepted' <=> Accepted) BY <1>1, BoardFacts
  <2>9. /\ I2sFmt' <=> I2sFmt
        /\ MclkSet' <=> MclkSet
        /\ \A y : (ClkSet(y)' <=> ClkSet(y)) /\ (Divided(y)' <=> Divided(y))
    BY <1>1, SameI2s, I2sFacts
  <2>10. (CodecFmtSet' <=> CodecFmtSet) /\ \A y : RatioSet(y)' <=> RatioSet(y) BY <1>1, <2>1, SameCodec, CodecFacts
  <2>11. \A y : Timed(y) => Timed(y)' BY <2>8, <2>9, <2>10 DEF Timed
  <2>12. ASSUME NEW e \in I!Dirs PROVE Settled(e)'
    <3>1. PICK y : y = pcm'[e].rate OBVIOUS
    <3>2. y # 0 => Timed(y)
      <4>1. CASE e = d BY <2>5, <2>7, <3>1, <4>1
      <4>2. CASE e # d
        <5>1. ~Configuring(e) BY <1>d, <4>2 DEF Configuring
        <5>2. y = pcm[e].rate BY <2>5, <3>1, <4>2
        <5> QED BY <5>1, <5>2 DEF Settings, Settled
      <4> QED BY <4>1, <4>2
    <3>3. y # 0 => Timed(y)' BY <2>11, <3>2
    <3> QED BY <2>7, <2>8, <2>9, <2>10, <3>1, <3>3 DEF Settled
  <2>13. Doing' BY <1>3 DEF Doing
  <2> QED BY <2>12, <2>13 DEF Settings
<1>5. CASE job.op # "hw_params"
  <2>1. ASSUME SameFormat(codec, codec'), SameParams(codec, codec'),
               \A e \in I!Dirs : pcm'[e].rate # 0 => pcm'[e].rate = pcm[e].rate /\ (e \notin stale' => e \notin stale)
        PROVE  Settings'
    BY <1>1, <1>3, <1>5, <2>1, SameI2s, SettingsKept
  <2>2. CASE job.op = "prepare"
    <3>1. pcm' = [pcm EXCEPT ![d].state = "prepared"] /\ codec' = codec /\ stale' = stale BY <1>d, <2>2 DEF JobEnd
    <3>2. \A e \in I!Dirs : pcm'[e].rate = pcm[e].rate BY <1>2, <3>1, PcmSet DEF States
    <3> QED BY <2>1, <3>1, <3>2, SameCodec
  <2>3. CASE job.op = "close"
    <3>1. /\ pcm' = [pcm EXCEPT ![d] = Closed] /\ stale' = stale \ {d}
          /\ codec' = IF Es8316 THEN A!shutdown(codec, d) ELSE codec
      BY <1>d, <2>3 DEF JobEnd
    <3>2. Closed.rate = 0 BY DEF Closed
    <3>3. pcm'[d].rate = 0 /\ \A e \in I!Dirs \ {d} : pcm'[e] = pcm[e] BY <1>2, <3>1, <3>2
    <3>4. SameFormat(codec, codec') /\ SameParams(codec, codec')
      <4>1. CASE Es8316
        <5>1. codec' = A!shutdown(codec, d) BY <3>1, <4>1
        <5> QED BY <1>2, <5>1, ShutdownSets
      <4>2. CASE ~Es8316 BY <3>1, <4>2, SameCodec
      <4> QED BY <4>1, <4>2
    <3>5. \A e \in I!Dirs : pcm'[e].rate # 0 => pcm'[e].rate = pcm[e].rate /\ (e \notin stale' => e \notin stale)
      BY <3>1, <3>3
    <3> QED BY <2>1, <3>4, <3>5
  <2>4. job.op \in {"none", "hw_params", "prepare", "close"} /\ job.op # "none" BY <1>1, <1>2 DEF JobType, Base, JobFits
  <2> QED BY <1>5, <2>2, <2>3, <2>4
<1> QED BY <1>4, <1>5

LEMMA NextSettings ==
  ASSUME Base, Settings, [Next]_vars
  PROVE  Settings'
<1>1. CASE LoadI2s \/ UnloadI2s \/ LoadCodec \/ UnloadCodec \/ LoadCard \/ UnloadCard BY <1>1, ModuleSettings
<1>2. ASSUME NEW d \in I!Dirs, PcmOpen(d) PROVE Settings' BY <1>2, PcmOpenSettings
<1>3. ASSUME NEW d \in I!Dirs, Prepare(d) \/ Close(d) PROVE Settings' BY <1>3, BeginSettings
<1>4. ASSUME NEW d \in I!Dirs, NEW r \in Rates, NEW w \in Widths, HwParams(d, r, w) PROVE Settings'
  BY <1>4, HwParamsSettings
<1>5. ASSUME NEW d \in I!Dirs, NEW cmd \in I!Starts \cup (I!Stops \ {"suspend"}), Trigger(d, cmd) PROVE Settings'
  BY <1>5, TriggerSettings
<1>6. CASE JobStep BY <1>6, JobStepSettings
<1>7. CASE JobEnd BY <1>7, JobEndSettings
<1>8. CASE Sleep BY <1>8, SleepSettings
<1>9. CASE Flip \/ Fire \/ Handler \/ UNCHANGED vars BY <1>9, JackSettings
<1> QED BY <1>1, <1>2, <1>3, <1>4, <1>5, <1>6, <1>7, <1>8, <1>9 DEF Next

LEMMA InitSettings ==
  ASSUME Init
  PROVE  Settings
<1>1. Closed.rate = 0 BY DEF Closed
<1>2. \A d \in I!Dirs : pcm[d].rate = 0 BY <1>1 DEF Init
<1>3. job.op = "none" BY NoJobType DEF Init
<1>4. Doing BY <1>3 DEF Doing
<1>5. ASSUME NEW d \in I!Dirs PROVE Settled(d) BY <1>2 DEF Settled
<1> QED BY <1>4, <1>5 DEF Settings

\* The whole invariant, on any board.
THEOREM SoundHolds == Spec => []SoundInv
<1>1. Init => SoundInv BY InitBase, InitSettings DEF SoundInv
<1>2. SoundInv /\ [Next]_vars => SoundInv' BY NextBase, NextSettings DEF SoundInv
<1> QED BY <1>1, <1>2, PTL DEF Spec

\* The dividers of the three rates that 11289600 Hz can be divided to.
LEMMA Divisions ==
  ASSUME NEW r, pll_out(r) = SysclkOf
  PROVE  LET t == BclkDiv(r) % 256 IN (SysclkOf \div (MclkDiv + 1)) \div (t + 1) = r
<1>1. r \in {11025, 22050, 44100}
  <2>1. CASE r \in {8000, 16000, 24000, 32000, 48000} BY <2>1, SMT DEF pll_out, SysclkOf
  <2>2. CASE r \notin {8000, 16000, 24000, 32000, 48000} /\ r \notin {11025, 22050, 44100}
    <3>1. pll_out(r) = 0 BY <2>2, SMT DEF pll_out
    <3> QED BY <3>1, SMT DEF SysclkOf
  <2> QED BY <2>1, <2>2
<1>2. SysclkOf \div (MclkDiv + 1) = 2822400 /\ SysclkOf \div 4 = 2822400 BY SMT DEF SysclkOf, MclkDiv
<1>3. BclkDiv(r) = 2822400 \div r - 1 BY <1>2 DEF BclkDiv
<1>4. CASE r = 11025
  <2>1. BclkDiv(r) % 256 = 255 BY <1>3, <1>4, SMT
  <2> QED BY <1>2, <1>4, <2>1, SMT
<1>5. CASE r = 22050
  <2>1. BclkDiv(r) % 256 = 127 BY <1>3, <1>5, SMT
  <2> QED BY <1>2, <1>5, <2>1, SMT
<1>6. CASE r = 44100
  <2>1. BclkDiv(r) % 256 = 63 BY <1>3, <1>6, SMT
  <2> QED BY <1>2, <1>6, <2>1, SMT
<1> QED BY <1>1, <1>4, <1>5, <1>6

\* FrameClock on any board: a running stream keeps the frame clock it asked
\* for, whatever the other stream is configured to meanwhile.
THEOREM FrameClockKept == Spec => []FrameClock
<1>1. ASSUME SoundInv
      PROVE  FrameClock
  <2> SUFFICES ASSUME NEW d \in Running, i2s.mss = "master", pll_out(pcm[d].rate) = codec.sysclk
               PROVE  I!Lrck(i2s) = pcm[d].rate /\ (~Es8316 => codec.ratio * pcm[d].rate = i2s.clk)
    BY DEF FrameClock
  <2>1. d \in I!Dirs /\ pcm[d].state = "running" BY DEF Running
  <2>2. pcm[d].rate # 0 BY <1>1, <2>1 DEF SoundInv, Base, Life, PcmLife
  <2>3. ~Configuring(d) BY <1>1, <2>1 DEF SoundInv, Base, JobFits, Configuring
  <2>4. Bound /\ codec.sysclk = SysclkOf BY <1>1, <2>1 DEF SoundInv, Base, Life
  <2>5. I2sFmt /\ Timed(pcm[d].rate) BY <1>1, <2>1, <2>2, <2>3 DEF SoundInv, Settings, Settled
  <2>6. Master BY <2>5 DEF I2sFmt, Master
  <2>7. PICK r : r = pcm[d].rate OBVIOUS
  <2>8. pll_out(r) = SysclkOf BY <2>4, <2>7
  <2>9. i2s.clk = SysclkOf /\ i2s.tsd = BclkDiv(r) % 256 /\ i2s.mdiv = MclkDiv
    BY <2>5, <2>6, <2>7, <2>8 DEF Timed, ClkSet, Divided, MclkSet
  <2>10. I!Lrck(i2s) = r BY <2>8, <2>9, Divisions DEF I!Lrck
  <2>11. ~Es8316 => codec.ratio * r = i2s.clk BY <2>5, <2>7, <2>8, <2>9 DEF Timed, RatioSet
  <2> QED BY <2>7, <2>10, <2>11
<1> QED BY <1>1, SoundHolds, PTL

\* The boards whose format both sides know: the controller has no DSP format,
\* the ES8316 no right-justified one, and the ES8323 sets up only I2S.
BoardsFit ==
  \A b \in Boards : b.fmt.format \in IF b.codec = "es8316" THEN {"i2s", "left_j"} ELSE {"i2s"}

\* OneClockMaster: with a format that both sides know, one side drives the bit
\* clock and both use that format, for every stream with parameters.
THEOREM OneMaster == BoardsFit => (Spec => []OneClockMaster)
<1> SUFFICES ASSUME BoardsFit PROVE Spec => []OneClockMaster OBVIOUS
<1>1. ASSUME SoundInv
      PROVE  OneClockMaster
  <2> SUFFICES ASSUME NEW d \in I!Dirs, Configured(d)
               PROVE  (i2s.mss = "master") # (codec.clock = "master") /\ i2s.ibm[d] = codec.format
    BY DEF OneClockMaster
  <2>1. pcm[d].rate # 0 /\ d \notin stale BY DEF Configured
  <2>2. I2sFmt /\ CodecFmtSet BY <1>1, <2>1 DEF SoundInv, Settings, Settled
  <2>3. board \in Boards /\ Types BY <1>1 DEF SoundInv, Base, Types
  <2>4. Fits BY <2>3 DEF BoardsFit, Fits, Es8316
  <2>5. board.fmt.clock \in {"CBS_CFS", "CBM_CFM"} BY <2>3, BoardType
  <2>6. i2s.ibm[d] = codec.format BY <2>2, <2>4 DEF I2sFmt, CodecFmtSet
  <2>7. (i2s.mss = "master") # (codec.clock = "master")
    <3>1. CASE board.fmt.clock = "CBS_CFS"
      <4>1. i2s.mss = "master" /\ codec.clock = "slave" BY <2>2, <3>1 DEF I2sFmt, CodecFmtSet
      <4> QED BY <4>1
    <3>2. CASE board.fmt.clock = "CBM_CFM"
      <4>1. i2s.mss = "slave" /\ codec.clock = "master" BY <2>2, <3>2 DEF I2sFmt, CodecFmtSet
      <4> QED BY <4>1
    <3> QED BY <2>5, <3>1, <3>2
  <2> QED BY <2>6, <2>7
<1> QED BY <1>1, SoundHolds, PTL

\* ParamsAccepted: with a format that the codec accepts, hw_params with a rate
\* that startup offered comes to its end, with the width that was asked for.
THEOREM ParamsTaken == BoardsFit => (Spec => ParamsAccepted)
<1> SUFFICES ASSUME BoardsFit PROVE Spec => ParamsAccepted OBVIOUS
<1> DEFINE Taken == job.op = "hw_params" /\ job' = NoJob =>
                      /\ pcm'[job.dir].state = "setup" /\ pcm'[job.dir].rate = job.rate
                      /\ i2s'.vdw[job.dir] = job.width /\ (Es8316 \/ codec'.width = job.width)
<1>1. ASSUME SoundInv, Next
      PROVE  Taken
  <2> SUFFICES ASSUME job.op = "hw_params", job' = NoJob
               PROVE  /\ pcm'[job.dir].state = "setup" /\ pcm'[job.dir].rate = job.rate
                      /\ i2s'.vdw[job.dir] = job.width /\ (Es8316 \/ codec'.width = job.width)
    OBVIOUS
  <2>1. Base /\ Settings /\ Types /\ job \in JobType /\ pcm \in [I!Dirs -> PcmType] /\ JobFits
    BY <1>1 DEF SoundInv, Base, Types
  <2>2. job # NoJob /\ ~Idle /\ job' # job BY NoJobType DEF Idle
  <2>3. Bound BY <2>1, JobRate
  <2>4. JobStep \/ JobEnd
    BY <1>1, <2>2, <2>3 DEF Next, LoadI2s, UnloadI2s, LoadCodec, UnloadCodec, LoadCard, UnloadCard, PcmOpen, Prepare,
                            Close, HwParams, Trigger, Sleep, Flip, Fire, Handler
  <2>5. CASE JobStep
    <3>1. ASSUME Continue PROVE FALSE
      <4>1. job.todo # <<>> BY <2>5 DEF JobStep, CodecFmt, CpuFmt, Clock, CodecParams, CpuParams, Mute, Call
      <4>2. Tail(job.todo) \in Todos BY <2>1, <4>1, Calling
      <4>3. SameJob(job, job') BY <2>1, <3>1, <4>2, ContinueJob
      <4> QED BY <4>3, NoJobType DEF SameJob
    <3>2. CASE CodecFmt
      <4>1. Fits BY <2>1 DEF BoardsFit, Fits, Es8316, Types
      <4>2. board.fmt \in [clock : {"CBS_CFS", "CBM_CFM"}, format : Formats] BY <2>1, BoardType
      <4>3. IF Es8316 THEN A!FmtOk(board.fmt) ELSE B!FmtOk(board.fmt)
        BY <4>1, <4>2 DEF Fits, A!FmtOk, B!FmtOk, Formats
      <4>4. Continue BY <3>2, <4>3 DEF CodecFmt, ContinueOr, Continue
      <4> QED BY <3>1, <4>4
    <3>3. CASE CpuFmt
      <4>1. pll_out(job.rate) # 0 BY <2>1, BclkDivType
      <4>2. Continue BY <3>3, <4>1 DEF CpuFmt, ContinueOr, Continue
      <4> QED BY <3>1, <4>2
    <3>4. CASE CodecParams
      <4>1. Continue BY <2>1, <3>4, ParamsAccept DEF CodecParams, ContinueOr, Continue
      <4> QED BY <3>1, <4>1
    <3>5. CASE Mute
      <4>1. SameJob(job, job') BY <2>1, <3>5, MuteWrites
      <4> QED BY <4>1, NoJobType DEF SameJob
    <3>6. CASE Clock \/ CpuParams
      <4>1. Continue BY <3>6 DEF Clock, CpuParams
      <4> QED BY <3>1, <4>1
    <3> QED BY <2>5, <3>2, <3>3, <3>4, <3>5, <3>6 DEF JobStep
  <2>6. CASE JobEnd
    <3>1. job.todo = <<>> /\ i2s' = i2s /\ codec' = codec BY <2>6 DEF JobEnd
    <3>2. PICK d \in I!Dirs : d = job.dir BY <2>1 DEF JobType
    <3>3. pcm' = [pcm EXCEPT ![d] = [state |-> "setup", rate |-> job.rate]] BY <2>6, <3>2 DEF JobEnd
    <3>4. pcm'[d] = [state |-> "setup", rate |-> job.rate] BY <2>1, <3>2, <3>3
    <3>5. Done("cpu_params") /\ Done("codec_params") BY <3>1 DEF Done
    <3>6. WordSet(job.dir, job.width) /\ (~Es8316 => CodecWide(job.width)) BY <2>1, <3>5 DEF Settings, Doing
    <3> QED BY <3>1, <3>2, <3>4, <3>6 DEF WordSet, CodecWide
  <2> QED BY <2>4, <2>5, <2>6
<1>2. SoundInv /\ [Next]_vars => [Taken]_vars BY <1>1
<1>3. Spec => [][Next]_vars BY PTL DEF Spec
<1> QED BY <1>2, <1>3, SoundHolds, PTL DEF ParamsAccepted
=============================================================================
