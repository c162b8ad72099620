------------------------------- MODULE Act8846 -------------------------------
(***************************************************************************)
(* The ACT8846 power chip (rk3288/debug/regulator/act8846.c) between the   *)
(* regulator core, which counts the users of an output, and regmap, which  *)
(* caches registers.  Both are external.  regmap keeps a new value in its  *)
(* cache before it is sent, and sends nothing that the cache has already;  *)
(* the core asks is_enabled and get_mode before it calls enable and        *)
(* set_mode.  An operation is one access under regmap's lock, so a step.   *)
(***************************************************************************)
EXTENDS Integers, FiniteSets

CONSTANTS
  Outputs,     \* ids of regulators[]: 0..3 are DCDC1 to 4, 4..11 are LDO1 to 8
  Windows,     \* pairs of microvolts, minimum and maximum, that are asked for
  MaxUsers,    \* bound: users of one output
  MaxFaults    \* bound: I2C transfers that fail

ASSUME ActAssumption ==
  /\ Outputs \subseteq 0..11 /\ Windows \subseteq Nat \X Nat
  /\ \A w \in Windows : w[1] <= w[2]
  /\ MaxUsers \in Nat /\ MaxFaults \in Nat

VARIABLES
  chip,      \* registers of the chip
  cache,     \* regmap's cache: a register or NotCached
  bound,     \* whether act8846_i2c_probe has registered the outputs
  use,       \* use count of each output in the core
  window,    \* what each output was last asked for and accepted, or NoWindow
  standby,   \* outputs whose mode was set to standby since they were enabled
  broken,    \* registers whose last write failed
  misread,   \* control and voltage registers that an operation left as they were
             \* because its read failed, while it returned 0
  faults     \* how much of MaxFaults is used

vars == <<chip, cache, bound, use, window, standby, broken, misread, faults>>

NotCached == -1
NoWindow  == <<0, 0>>
IsLdo(o)  == o >= 4

\* The voltage registers, buck_set_vol_base_addr and ldo_set_vol_base_addr.
VolReg(o) == <<16, 32, 48, 64, 80, 88, 96, 104, 112, 128, 144, 160>>[o + 1]
\* buck_contr_base_addr and ldo_contr_base_addr.
ContrShared(o) == IF IsLdo(o) THEN VolReg(o) ELSE VolReg(o) + 2   \* mutant: the LDO control addresses are the voltage ones
Contr(o) == VolReg(o) + (IF IsLdo(o) THEN 1 ELSE 2)
SlpReg(o) == VolReg(o) + 1        \* of a DCDC

Regs == {VolReg(o) : o \in Outputs} \cup {Contr(o) : o \in Outputs}
        \cup {SlpReg(o) : o \in {x \in Outputs : ~IsLdo(x)}}

\* Of a control register bit 7 is the enable bit; bit 3 is only looked at by
\* act8846_dcdc_get_mode.  A voltage register holds an index of the map.
Bit7(v)  == v \div 128 = 1
Bit3(v)  == (v \div 8) % 2 = 1
Set7(v)  == 128 + (v % 128)
Clear7(v) == v % 128
IsContr(r) == \E o \in Outputs : r = Contr(o)
Contents(r) == IF IsContr(r) THEN {0, 8, 128, 136} ELSE 0..63

\* buck_voltage_map and ldo_voltage_map, which are equal, in millivolts.
VoltageMap ==
  [i \in 0..63 |-> IF i <= 24 THEN 600 + 25 * i ELSE IF i <= 48 THEN 1200 + 50 * (i - 24) ELSE 2400 + 100 * (i - 48)]
list_voltage(i) == 1000 * VoltageMap[i]

\* The chip may come up with outputs on and with bit 3 set or clear.
Init ==
  /\ \E on \in SUBSET Outputs, pwm \in {0, 8} :
       chip = [r \in Regs |-> IF ~IsContr(r) THEN 0
                             ELSE pwm + (IF \E o \in on : r = Contr(o) THEN 128 ELSE 0)]
  /\ cache = [r \in Regs |-> NotCached]
  /\ bound = FALSE /\ use = [o \in Outputs |-> 0] /\ window = [o \in Outputs |-> NoWindow]
  /\ standby = {} /\ broken = {} /\ misread = {} /\ faults = 0

-----------------------------------------------------------------------------
(* regmap.                                                                  *)

Value(r) == IF cache[r] = NotCached THEN chip[r] ELSE cache[r]

Fails(n) == faults + n <= MaxFaults /\ faults' = faults + n

\* regmap_read of a register that is not cached goes to the chip, and fills the
\* cache or fails.  The driver never looks at the result: v is what it goes on
\* with, which after a failure is what the stack held.
Answers(r, v, heard) == IF heard THEN v = Value(r) ELSE cache[r] = NotCached /\ v \in Contents(r)
Missed(heard) == IF heard THEN 0 ELSE 1
Reads(r, heard) ==
  /\ heard \/ cache[r] = NotCached
  /\ cache' = IF heard THEN [cache EXCEPT ![r] = Value(r)] ELSE cache
  /\ Fails(Missed(heard)) /\ UNCHANGED <<chip, broken>>

\* regmap_update_bits reads a register that is not cached, and writes what
\* differs; either transfer may fail it.  missed is the number of transfers that
\* failed before it in the same operation.
Results == {"done", "unread", "unsent"}
Updates(r, new, res, missed) ==
  /\ Fails(missed + (IF res = "done" THEN 0 ELSE 1))
  /\ \/ /\ res = "done" /\ new = Value(r)
        /\ cache' = [cache EXCEPT ![r] = new] /\ UNCHANGED <<chip, broken>>
     \/ /\ res = "done" /\ new # Value(r)
        /\ chip' = [chip EXCEPT ![r] = new] /\ cache' = [cache EXCEPT ![r] = new]
        /\ broken' = broken \ {r}
     \/ /\ res = "unsent" /\ new # Value(r)
        /\ cache' = [cache EXCEPT ![r] = new] /\ broken' = broken \cup {r} /\ UNCHANGED chip
     \/ res = "unread" /\ cache[r] = NotCached /\ UNCHANGED <<chip, cache, broken>>

\* The same after a regmap_read, which has filled the cache if it was heard.
UpdatesRead(r, new, res, heard) == (heard => res # "unread") /\ Updates(r, new, res, Missed(heard))

-----------------------------------------------------------------------------
(* The driver.                                                              *)

\* act8846_i2c_probe: 0x22, which is DCDC2's control register, is read as the
\* identity, and the answer, if there is one, only printed; the write of 0xf4 and
\* the requests of the two pins can fail it, and then nothing is registered.
probe ==
  /\ ~bound
  /\ \/ \E heard \in BOOLEAN :
          /\ bound' = TRUE /\ Fails(Missed(heard))
          /\ cache' = IF heard /\ 1 \in Outputs THEN [cache EXCEPT ![Contr(1)] = chip[Contr(1)]] ELSE cache
     \/ Fails(1) /\ UNCHANGED <<bound, cache>>
  /\ UNCHANGED <<chip, use, window, standby, broken, misread>>

\* act8846_module_exit, which the module's use count holds up while an output
\* has a user; act8846_i2c_remove does nothing and the cache goes with regmap.
remove ==
  /\ bound /\ \A o \in Outputs : use[o] = 0
  /\ bound' = FALSE /\ cache' = [r \in Regs |-> NotCached] /\ broken' = {} /\ misread' = {}
  /\ window' = [o \in Outputs |-> NoWindow] /\ standby' = {}
  /\ UNCHANGED <<chip, use, faults>>

\* What the two functions make of the value v they have read.
is_enabled(v)  == Bit7(v)
get_mode(o, v) == IF IF IsLdo(o) THEN Bit7(v) ELSE Bit3(v) THEN "normal" ELSE "standby"

\* regulator_enable: only the first user asks is_enabled, and only if the answer
\* is no does the core call enable.
FirstUser(o, v, heard) ==
  LET r == Contr(o) IN
  /\ Answers(r, v, heard)
  /\ \/ /\ is_enabled(v) /\ Reads(r, heard)
        /\ use' = [use EXCEPT ![o] = 1] /\ standby' = standby \ {o}
        /\ misread' = IF heard THEN misread \ {r} ELSE misread \cup {r}
     \/ /\ ~is_enabled(v)
        /\ \E res \in Results :
             /\ UpdatesRead(r, Set7(Value(r)), res, heard)
             /\ IF res = "done"
                THEN use' = [use EXCEPT ![o] = 1] /\ standby' = standby \ {o} /\ misread' = misread \ {r}
                ELSE UNCHANGED <<use, standby, misread>>
enable(o) ==
  /\ bound /\ use[o] < MaxUsers
  /\ \/ use[o] = 0 /\ \E v \in Contents(Contr(o)), heard \in BOOLEAN : FirstUser(o, v, heard)
     \/ /\ use[o] > 0 /\ use' = [use EXCEPT ![o] = @ + 1]
        /\ UNCHANGED <<chip, cache, standby, broken, misread, faults>>
  /\ UNCHANGED <<bound, window>>

\* regulator_disable: the last user; the count stays if the access fails.
disableEach(o) ==            \* mutant: every user switches the output off
  /\ use[o] > 0
  /\ \E res \in Results :
       /\ Updates(Contr(o), Clear7(Value(Contr(o))), res, 0)
       /\ use' = IF res = "done" THEN [use EXCEPT ![o] = @ - 1] ELSE use
  /\ UNCHANGED <<bound, window, standby, misread>>
disable(o) ==
  /\ use[o] > 0
  /\ \/ /\ use[o] = 1
        /\ \E res \in Results :
             /\ Updates(Contr(o), Clear7(Value(Contr(o))), res, 0)
             /\ use' = IF res = "done" THEN [use EXCEPT ![o] = 0] ELSE use
     \/ use[o] > 1 /\ use' = [use EXCEPT ![o] = @ - 1] /\ UNCHANGED <<chip, cache, broken, faults>>
  /\ UNCHANGED <<bound, window, standby, misread>>

\* regulator_set_mode: set_mode of both kinds writes bit 7, the enable bit, and
\* is not called when get_mode has the mode already, which of a DCDC is what bit
\* 3 says.
set_mode(o, mode) ==
  LET r == Contr(o) IN
  /\ bound
  /\ \E v \in Contents(r), heard \in BOOLEAN :
       /\ Answers(r, v, heard)
       /\ \/ get_mode(o, v) = mode /\ Reads(r, heard) /\ UNCHANGED <<standby, misread>>
          \/ /\ get_mode(o, v) # mode
             /\ \E res \in Results :
                  /\ UpdatesRead(r, IF mode = "normal" THEN Set7(Value(r)) ELSE Clear7(Value(r)), res, heard)
                  /\ IF res = "done"
                     THEN /\ standby' = IF mode = "standby" THEN standby \cup {o} ELSE standby \ {o}
                          /\ misread' = misread \ {r}
                     ELSE UNCHANGED <<standby, misread>>
  /\ UNCHANGED <<bound, use, window>>

\* The first entry of the map that is not below the minimum, in millivolts.
Select(min) == CHOOSE i \in 0..63 : VoltageMap[i] >= min /\ \A j \in 0..(i - 1) : VoltageMap[j] < min
InMap(uV)   == uV \div 1000 \in 600..3900

\* act8846_ldo_set_voltage refuses a window that holds no entry of the map;
\* act8846_dcdc_set_voltage sets the next one above it.  Neither looks at the
\* result of the access.
Unheeded(o, res) == misread' = IF res = "unread" THEN misread \cup {VolReg(o)} ELSE misread \ {VolReg(o)}
set_voltageBelow(o, w) ==    \* mutant: the search ends one entry early
  /\ bound /\ InMap(w[1])
  /\ LET i == Select(w[1] \div 1000) IN
       /\ IsLdo(o) => VoltageMap[i] <= w[2] \div 1000
       /\ \E res \in Results : Updates(VolReg(o), IF i = 0 THEN 0 ELSE i - 1, res, 0) /\ Unheeded(o, res)
  /\ window' = [window EXCEPT ![o] = w]
  /\ UNCHANGED <<bound, use, standby>>
set_voltage(o, w) ==
  /\ bound /\ InMap(w[1])
  /\ LET i == Select(w[1] \div 1000) IN
       /\ IsLdo(o) => VoltageMap[i] <= w[2] \div 1000
       /\ \E res \in Results : Updates(VolReg(o), i, res, 0) /\ Unheeded(o, res)
  /\ window' = [window EXCEPT ![o] = w]
  /\ UNCHANGED <<bound, use, standby>>

\* act8846_dcdc_set_sleep_voltage.
set_sleep_voltage(o, uV) ==
  /\ bound /\ ~IsLdo(o) /\ InMap(uV)
  /\ \E res \in Results : Updates(SlpReg(o), Select(uV \div 1000), res, 0)
  /\ UNCHANGED <<bound, use, window, standby, misread>>

\* act8846_dcdc_get_voltage and act8846_ldo_get_voltage: the answer, which of an
\* LDO is taken from a variable never set, goes to the caller alone.
get_voltage(o) ==
  /\ bound /\ \E heard \in BOOLEAN : Reads(VolReg(o), heard)
  /\ UNCHANGED <<bound, use, window, standby, misread>>

Next ==
  \/ probe \/ remove
  \/ \E o \in Outputs :
       \/ enable(o) \/ disable(o) \/ get_voltage(o)
       \/ \E m \in {"normal", "standby"} : set_mode(o, m)
       \/ \E w \in Windows : set_voltage(o, w) \/ set_sleep_voltage(o, w[1])

Spec == Init /\ [][Next]_vars

-----------------------------------------------------------------------------
(* Properties.                                                              *)

\* Registers hold bytes of their kind, so no operation of one output reaches the
\* register of another kind; a cached register whose last write succeeded is the
\* chip's.
TypeOK ==
  /\ \A r \in Regs : chip[r] \in Contents(r) /\ cache[r] \in Contents(r) \cup {NotCached}
  /\ \A r \in Regs \ broken : cache[r] \in {chip[r], NotCached}
  /\ use \in [Outputs -> 0..MaxUsers] /\ faults \in 0..MaxFaults

\* An output with a user is on, whatever was asked of the other outputs.  The
\* exceptions: the last write to its control register failed; is_enabled took
\* what a failed read left on the stack for an answer, so that the core did not
\* call enable, and the register was not written since; or it is in standby,
\* which clears the enable bit (act8846_dcdc_enable, act8846_ldo_enable).
Supplied ==
  \A o \in Outputs : use[o] > 0 /\ Contr(o) \notin broken \cup misread /\ o \notin standby => Bit7(chip[Contr(o)])

\* The voltage an output was last asked for: never below the minimum in whole
\* millivolts, and for an LDO never above the maximum, unless a transfer failed,
\* which set_voltage does not tell its caller (act8846_dcdc_set_voltage,
\* act8846_ldo_set_voltage).
InWindow ==
  \A o \in Outputs : window[o] # NoWindow /\ VolReg(o) \notin broken \cup misread =>
    /\ list_voltage(chip[VolReg(o)]) >= 1000 * (window[o][1] \div 1000)
    /\ IsLdo(o) => list_voltage(chip[VolReg(o)]) <= window[o][2]
=============================================================================
