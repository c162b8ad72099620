-------------------------------- MODULE Rk818 --------------------------------
(***************************************************************************)
(* The RK818 power chip (rk3288/debug/regulator/rk818.c): its registers,   *)
(* the accesses under io_lock, and the operations of its regulators.  An   *)
(* operation is a program: the register accesses it makes, in order.  The  *)
(* regulator core lets one operation at a time run on an output, so every  *)
(* output is a thread; rk818_i2c_probe is one more.                        *)
(***************************************************************************)
EXTENDS Integers, Sequences, FiniteSets, FiniteSetsExt

CONSTANTS
  Outputs,     \* ids of regulators[]: 0..3 are DCDC1 to 4, 4..13 are LDO1 to 10
  AlwaysOn,    \* outputs the device tree never lets be switched off
  Requests,    \* microvolts asked for, per output
  Bytes,       \* contents of a register at power on, and of a byte never read into
  MaxEvents    \* bound: operations called by the core, and I2C transfers that fail

ASSUME Rk818Assumption ==
  /\ Outputs \subseteq 0..13 /\ AlwaysOn \subseteq Outputs
  /\ Requests \in [Outputs -> SUBSET Nat] /\ Bytes \subseteq SUBSET (0..7)
  /\ MaxEvents \in Nat

\* The core only passes voltages that an output lists; LDO10 lists none.
ASSUME VoltAssumption ==
  /\ \A o \in Outputs \cap {13} : Requests[o] = {}
  /\ \A o \in Outputs \cap {0, 1} : \A uV \in Requests[o] : 712500 <= uV /\ uV <= 1500000
  /\ \A o \in Outputs \cap {3} : \A uV \in Requests[o] : 1800000 <= uV /\ uV <= 3300000

None    == -1
Probe   == -2       \* the thread of rk818_i2c_probe
Threads == Outputs \cup {Probe}
IsLdo(o) == o >= 4
Ldo(o)   == o - 4

-----------------------------------------------------------------------------
(* Registers: a register is the set of its bits that are one.               *)

Bits(n)   == {i \in 0..7 : (n \div 2^i) % 2 = 1}
Number(s) == MapThenSumSet(LAMBDA i : 2^i, s)

RTC_INT        == 18
CLK32OUT       == 32
VB_MON         == 33
DCDC_EN        == 35
LDO_EN         == 36
SLEEP_SET_OFF1 == 37
SLEEP_SET_OFF2 == 38
INT_STS_MSK1   == 77
HDMI           == 82        \* 0x52 and 0xa1 have no name in the code
CHRG           == 161
BuckVol(b)  == <<47, 51, 54, 56>>[b + 1]
BuckSlp(b)  == <<48, 52, 54, 57>>[b + 1]
LdoVol(l)   == IF l = 8 THEN 84 ELSE 59 + 2 * l
LdoSlp(l)   == LdoVol(l) + 1
VolMask     == 0..5
Ldo9VolMask == 0..4
LdoMask(l)  == IF l = 8 THEN Ldo9VolMask ELSE VolMask

\* The registers of the outputs.  The others are written once, at probe.
Regs ==
  {DCDC_EN, LDO_EN, SLEEP_SET_OFF1, SLEEP_SET_OFF2}
  \cup UNION {CASE o = 13 -> {BuckVol(3)}
                [] o \in 4..12 -> {LdoVol(Ldo(o)), LdoSlp(Ldo(o))}
                [] OTHER -> {BuckVol(o), BuckSlp(o), BuckVol(o) + 1} : o \in Outputs}

\* An access: rk818_set_bits, which also stands for rk818_clear_bits; or
\* rk818_reg_read and then rk818_reg_write; or only the latter.
Access(k, r, m, v) == [kind |-> k, reg |-> r, mask |-> m, val |-> v]
Set(r, m, v)       == Access("set", r, m, v)

-----------------------------------------------------------------------------
(* Voltages.                                                                *)

\* ldo_voltage_map, ldo3_voltage_map and ldo6_voltage_map, in millivolts.
LdoMap(l) ==
  CASE l = 2        -> [i \in 0..15 |-> IF i = 15 THEN 2500 ELSE 800 + 100 * i]
    [] l \in {5, 6} -> [i \in 0..17 |-> 800 + 100 * i]
    [] OTHER        -> [i \in 0..16 |-> 1800 + 100 * i]
ldo_list_voltage(l) == [i \in DOMAIN LdoMap(l) |-> 1000 * LdoMap(l)[i]]
LdoVolts(l, byte)   == 1000 * LdoMap(l)[Number(byte \cap LdoMask(l))]

\* The search of rk818_ldo_set_voltage and rk818_ldo_set_sleep_voltage.
LdoInRange(l, uV) ==
  LET mV == uV \div 1000  last == Cardinality(DOMAIN LdoMap(l)) - 1
  IN  mV >= LdoMap(l)[0] /\ mV <= LdoMap(l)[last]
LdoSelect(l, uV) == Min({i \in DOMAIN LdoMap(l) : LdoMap(l)[i] >= uV \div 1000})

dcdc_list_voltage(b, sel) ==
  CASE b \in {0, 1} -> 712500 + sel * 12500
    [] b = 2        -> 1200000
    [] b = 3        -> 1800000 + sel * 100000
BuckVolts(b, byte) == dcdc_list_voltage(b, Number(byte \cap VolMask))

\* -EINVAL is kept as a u16 and then passed as a u8.
EINVAL == 234
dcdc_select_min_voltage(b, min_uV, max_uV) ==
  LET least == dcdc_list_voltage(b, 0)
      step  == dcdc_list_voltage(b, 1) - least
      most  == IF b = 3 THEN 3300000 ELSE 1500000
      vsel  == IF min_uV < least THEN 0 ELSE (min_uV - least) \div step
  IN  IF min_uV > most \/ dcdc_list_voltage(b, vsel) > max_uV THEN EINVAL ELSE vsel

-----------------------------------------------------------------------------
(* The operations of rk818_dcdc_ops and rk818_ldo_ops.                      *)

Modes == {"fast", "normal"}
ModeBitsHigh(m) == IF m = "fast" THEN {8} ELSE {}     \* mutant: 1 << 8
ModeBits(m) == IF m = "fast" THEN {7} ELSE {}

\* LDO9 and LDO10 have their bits among those of the DCDCs.
LdoBit(l)    == IF l \in {8, 9} THEN l - 3 ELSE l
LdoEnReg(l)  == IF l \in {8, 9} THEN DCDC_EN ELSE LDO_EN
LdoSlpReg(l) == IF l \in {8, 9} THEN SLEEP_SET_OFF1 ELSE SLEEP_SET_OFF2

ldo_enable(l)           == <<Set(LdoEnReg(l), {LdoBit(l)}, {LdoBit(l)})>>
ldo_disableAll(l)       == <<Set(LdoEnReg(l), 0..7, {})>>   \* mutant: no mask
ldo_disable(l)          == \* for LDO9 and LDO10 the value is 1 << 0
  <<Set(LdoEnReg(l), {LdoBit(l)}, IF l \in {8, 9} THEN {0} ELSE {})>>
ldo_suspend_enable(l)   == <<Set(LdoSlpReg(l), {LdoBit(l)}, {})>>
ldo_suspend_disable(l)  == <<Set(LdoSlpReg(l), {LdoBit(l)}, {LdoBit(l)})>>
dcdc_enable(b)          == <<Set(DCDC_EN, {b}, {b})>>
dcdc_disable(b)         == <<Set(DCDC_EN, {b}, {})>>
dcdc_suspend_enable(b)  == <<Set(SLEEP_SET_OFF1, {b}, {})>>
dcdc_suspend_disable(b) == <<Set(SLEEP_SET_OFF1, {b}, {b})>>

dcdc_set_voltage(b, uV) ==
  LET once == Set(BuckVol(b), VolMask, Bits(dcdc_select_min_voltage(b, uV, uV)))
  IN  IF b = 2 THEN <<>> ELSE IF b = 3 THEN <<once, once>> ELSE <<once>>
dcdc_set_sleep_voltage(b, uV) ==
  IF b = 2 THEN <<>>
  ELSE <<Set(BuckSlp(b), VolMask, Bits(dcdc_select_min_voltage(b, uV, uV)))>>
dcdc_set_mode(b, m)         == <<Set(BuckVol(b), {7}, ModeBits(m))>>
dcdc_set_suspend_mode(b, m) == <<Set(BuckVol(b) + 1, {7}, ModeBits(m))>>

ldo_set_voltage(l, uV) ==
  IF LdoInRange(l, uV) THEN <<Set(LdoVol(l), LdoMask(l), Bits(LdoSelect(l, uV)))>> ELSE <<>>
ldo_set_sleep_voltage(l, uV) ==
  IF LdoInRange(l, uV) THEN <<Set(LdoSlp(l), LdoMask(l), Bits(LdoSelect(l, uV)))>> ELSE <<>>

\* rk818_pre_init.
rk818_pre_init ==
  <<Set(CHRG, 0..3, 0..2), Set(CHRG, 4..6, 4..6), Set(HDMI, {1}, {1}), Set(HDMI, {0}, {0}),
    Access("rmw", DCDC_EN, {}, {4, 5, 6}), Access("rmw", VB_MON, {0, 1, 2, 4}, {1}),
    Access("rmw", INT_STS_MSK1, {}, {0}), Access("write", CLK32OUT, 0..7, {0}),
    Set(INT_STS_MSK1, {5, 6}, {}), Set(RTC_INT, {3}, {3}),
    Access("rmw", SLEEP_SET_OFF1, {}, {4, 7})>>

-----------------------------------------------------------------------------
(* The state.                                                               *)

VARIABLES
  regs,        \* the registers of the chip
  probe,       \* how far rk818_i2c_probe is
  todo,        \* the outputs it has not come to yet
  registered,  \* the outputs that can be used
  lock,        \* owner of io_lock
  job,         \* the accesses a thread still has to make
  at,          \* is its first access at its start or at its write?
  tmp,         \* the byte it has read
  want,        \* what was last asked of an output: pairs of a field and a value
  events,      \* what MaxEvents bounds
  faulty       \* has a transfer failed?

chip    == <<regs, probe, todo, registered>>
threads == <<lock, job, at, tmp>>
counts  == <<events, faulty>>
rkvars  == <<chip, threads, want, counts>>

\* What can be asked of an output, and what its registers say about it: by
\* is_enabled, get_voltage and get_mode, and for the sleep registers likewise.
ldo_is_enabled(l)  == l # 9 /\ LdoBit(l) \in regs[LdoEnReg(l)]
dcdc_is_enabled(b) == b \in regs[DCDC_EN]
ldo_get_voltage(l) ==
  IF l = 9 THEN BuckVolts(3, regs[BuckVol(3)]) ELSE LdoVolts(l, regs[LdoVol(l)])
dcdc_get_voltage(b) == BuckVolts(b, regs[BuckVol(b)])
dcdc_get_mode(b)    == IF 7 \in regs[BuckVol(b)] THEN "fast" ELSE "normal"
LdoIs(l, f) ==
  CASE f = "on"        -> ldo_is_enabled(l)
    [] f = "uV"        -> ldo_get_voltage(l)
    [] f = "sleep_off" -> LdoBit(l) \in regs[LdoSlpReg(l)]
    [] f = "sleep_uV"  -> LdoVolts(l, regs[LdoSlp(l)])
DcdcIs(b, f) ==
  CASE f = "on"         -> dcdc_is_enabled(b)
    [] f = "uV"         -> dcdc_get_voltage(b)
    [] f = "mode"       -> dcdc_get_mode(b)
    [] f = "sleep_off"  -> b \in regs[SLEEP_SET_OFF1]
    [] f = "sleep_uV"   -> BuckVolts(b, regs[BuckSlp(b)])
    [] f = "sleep_mode" -> IF 7 \in regs[BuckSlp(b)] THEN "fast" ELSE "normal"

RkInit ==
  /\ \E byte \in Bytes : regs = [r \in Regs |-> byte]
  /\ probe = "pre_init" /\ todo = Outputs /\ registered = {}
  /\ lock = None /\ at = [t \in Threads |-> "start"] /\ tmp = [t \in Threads |-> {}]
  /\ job = [t \in Threads |-> IF t = Probe THEN rk818_pre_init ELSE <<>>]
  /\ want = [o \in Outputs |-> {}]
  /\ events = 0 /\ faulty = FALSE

-----------------------------------------------------------------------------
(* Register accesses.                                                       *)

First(t)    == Head(job[t])
Contents(r) == IF r \in Regs THEN regs[r] ELSE {}

\* rk818_i2c_read reports success whatever i2c_transfer returns.  The byte of
\* rk818_set_bits is then what the stack held, that of rk818_reg_read zero.
Event == events < MaxEvents /\ events' = events + 1
Fault == Event /\ faulty' = TRUE
Core  == Event /\ UNCHANGED faulty      \* the core calls an operation
i2c_read(t) ==
  \/ tmp' = [tmp EXCEPT ![t] = Contents(First(t).reg)] /\ UNCHANGED counts
  \/ /\ Fault
     /\ \E byte \in (IF First(t).kind = "set" THEN Bytes ELSE {{}}) : tmp' = [tmp EXCEPT ![t] = byte]

\* rk818_set_bits keeps io_lock from its read to its write; a rk818_reg_read
\* and the rk818_reg_write after it take it one by one.
HeldNot(t) == FALSE          \* mutant: rk818_set_bits without the mutex
Held(t)    == First(t).kind = "set"
Begin(t) ==
  /\ job[t] # <<>> /\ at[t] = "start" /\ at' = [at EXCEPT ![t] = "write"]
  /\ lock = None /\ lock' = IF Held(t) THEN t ELSE None
  /\ \/ First(t).kind # "write" /\ i2c_read(t)
     \/ First(t).kind = "write" /\ UNCHANGED <<tmp, counts>>
  /\ UNCHANGED <<chip, job, want>>

Written(t) == (tmp[t] \ First(t).mask) \cup First(t).val

UnlockIfOk == IF faulty' THEN lock ELSE None   \* mutant: an error return keeps the mutex
Unlock     == None

\* rk818_set_bits returns 0 even if the write failed.  rk818_pre_init returns
\* when a rk818_reg_write fails.
End(t) ==
  /\ job[t] # <<>> /\ at[t] = "write" /\ at' = [at EXCEPT ![t] = "start"]
  /\ lock = (IF Held(t) THEN t ELSE None)
  /\ tmp' = [tmp EXCEPT ![t] = {}]
  /\ \/ /\ regs' = [r \in Regs |-> IF r = First(t).reg THEN Written(t) ELSE regs[r]]
        /\ job' = [job EXCEPT ![t] = Tail(@)] /\ UNCHANGED counts
     \/ /\ Fault /\ UNCHANGED regs
        /\ job' = [job EXCEPT ![t] = IF First(t).kind = "set" THEN Tail(@) ELSE <<>>]
  /\ lock' = Unlock
  /\ UNCHANGED <<probe, todo, registered, want>>

-----------------------------------------------------------------------------
(* rk818_i2c_probe: rk818_pre_init, whose result is only printed, the sleep *)
(* GPIO, and then the outputs one after the other.                          *)

ProbeGpio ==
  /\ probe = "pre_init" /\ job[Probe] = <<>> /\ probe' \in {"register", "failed"}
  /\ UNCHANGED <<regs, todo, registered, threads, want, counts>>

Register(o) ==
  /\ probe = "register" /\ o \in todo /\ \A p \in todo : o <= p
  /\ todo' = todo \ {o} /\ registered' \in {registered, registered \cup {o}}
  /\ probe' = IF todo' = {} THEN "up" ELSE "register"
  /\ UNCHANGED <<regs, threads, want, counts>>

-----------------------------------------------------------------------------
(* The regulator core calls an operation of an output.                      *)

\* One operation at a time: the core holds the output's mutex.
Call(o, program, f, w) ==
  /\ o \in registered /\ job[o] = <<>>
  /\ job' = [job EXCEPT ![o] = program]
  /\ want' = IF program = <<>> THEN want
             ELSE [want EXCEPT ![o] = {p \in @ : p[1] # f} \cup {<<f, w>>}]
  /\ UNCHANGED <<chip, lock, at, tmp>>

\* The voltage an output gets, by the voltages it lists: an LDO the lowest
\* one that is not below the request, a DCDC the highest one not above it.
Nearest(o, uV) ==
  LET ldo  == ldo_list_voltage(Ldo(o))
      dcdc == {dcdc_list_voltage(o, i) : i \in 0..63}
  IN  IF IsLdo(o) THEN Min({ldo[i] : i \in {j \in DOMAIN ldo : ldo[j] >= uV}})
      ELSE Max({v \in dcdc : v <= uV})

LdoSwitch(o) ==
  \/ Call(o, ldo_enable(Ldo(o)), "on", TRUE)
  \/ o \notin AlwaysOn /\ Call(o, ldo_disable(Ldo(o)), "on", FALSE)
LdoSetting(o) ==
  \/ Call(o, ldo_suspend_enable(Ldo(o)), "sleep_off", FALSE)
  \/ Call(o, ldo_suspend_disable(Ldo(o)), "sleep_off", TRUE)
  \/ \E uV \in Requests[o] :
       \/ Call(o, ldo_set_voltage(Ldo(o), uV), "uV", Nearest(o, uV))
       \/ Call(o, ldo_set_sleep_voltage(Ldo(o), uV), "sleep_uV", Nearest(o, uV))
DcdcOperation(b) ==
  \/ Call(b, dcdc_enable(b), "on", TRUE)
  \/ b \notin AlwaysOn /\ Call(b, dcdc_disable(b), "on", FALSE)
  \/ Call(b, dcdc_suspend_enable(b), "sleep_off", FALSE)
  \/ Call(b, dcdc_suspend_disable(b), "sleep_off", TRUE)
  \/ \E uV \in Requests[b] :
       \/ Call(b, dcdc_set_voltage(b, uV), "uV", Nearest(b, uV))
       \/ Call(b, dcdc_set_sleep_voltage(b, uV), "sleep_uV", Nearest(b, uV))
  \/ \E m \in Modes :
       \/ Call(b, dcdc_set_mode(b, m), "mode", m)
       \/ Call(b, dcdc_set_suspend_mode(b, m), "sleep_mode", m)

-----------------------------------------------------------------------------
(* Properties of the chip.                                                  *)

Accesses == [kind : {"set", "rmw", "write"}, reg : Nat, mask : SUBSET (0..7), val : SUBSET (0..7)]
RkTypes ==
  /\ regs \in [Regs -> SUBSET (0..7)]
  /\ probe \in {"pre_init", "register", "failed", "up"}
  /\ todo \subseteq Outputs /\ registered \subseteq Outputs
  /\ lock \in Threads \cup {None} /\ job \in [Threads -> Seq(Accesses)]
  /\ at \in [Threads -> {"start", "write"}] /\ tmp \in [Threads -> SUBSET (0..7)]
  /\ events \in Nat /\ faulty \in BOOLEAN

\* Operations of different outputs that share DCDC_EN, LDO_EN or a sleep
\* register never undo each other: as long as no transfer failed, an output
\* that is not being operated on is in the state last asked of it, and has the
\* voltage the tables promise.
Kept ==
  ~faulty => \A o \in Outputs : job[o] = <<>> =>
    \A p \in want[o] : (IF IsLdo(o) THEN LdoIs(Ldo(o), p[1]) ELSE DcdcIs(o, p[1])) = p[2]

\* A transfer, failed or not, never leaves io_lock taken: its owner is between
\* the read and the write of rk818_set_bits, and has read what is still there.
LockHeld ==
  lock # None =>
    /\ job[lock] # <<>> /\ at[lock] = "write" /\ First(lock).kind = "set"
    /\ ~faulty => tmp[lock] = Contents(First(lock).reg)
=============================================================================
