----------------------------- MODULE PowerProofs -----------------------------
(***************************************************************************)
(* Proofs about Power: the types, what io_lock protects, the use count,    *)
(* that drivers and chip implement SharedSupply, and that operations of    *)
(* different outputs do not undo each other.                               *)
(***************************************************************************)
EXTENDS Power, TLAPS, SequenceTheorems, FiniteSetTheorems

(***************************************************************************)
(* The programs of the outputs.  Only the ones that switch the supply      *)
(* touch its bit.                                                          *)
(***************************************************************************)

SupplyBit == LdoBit(Ldo(Supply))
Harmless(a)    == a.reg = LDO_EN => a.kind = "set" /\ SupplyBit \notin a.mask \cup a.val
HarmlessSeq(p) == p \in Seq(Accesses) /\ \A i \in 1..Len(p) : Harmless(p[i])

LEMMA NothingHarmless == HarmlessSeq(<<>>)
  BY EmptySeq DEF HarmlessSeq

LEMMA OneHarmless ==
  ASSUME NEW r \in Nat, NEW m \in SUBSET (0..7), NEW v \in SUBSET (0..7),
         r = LDO_EN => SupplyBit \notin m \cup v
  PROVE  HarmlessSeq(<<Set(r, m, v)>>) /\ HarmlessSeq(<<Set(r, m, v), Set(r, m, v)>>)
<1> DEFINE a == Set(r, m, v)
<1>1. a \in Accesses /\ Harmless(a)
  BY DEF Set, Access, Accesses, Harmless
<1> HIDE DEF a
<1>2. <<a>> \in Seq(Accesses) /\ <<a, a>> \in Seq(Accesses)
  BY <1>1
<1>3. Len(<<a>>) = 1 /\ Len(<<a, a>>) = 2 /\ <<a>>[1] = a /\ <<a, a>>[1] = a /\ <<a, a>>[2] = a
  OBVIOUS
<1>4. \A i \in 1..2 : i = 1 \/ i = 2
  OBVIOUS
<1>5. HarmlessSeq(<<a>>) /\ HarmlessSeq(<<a, a>>)
  BY <1>1, <1>2, <1>3, <1>4 DEF HarmlessSeq
<1> QED
  BY <1>5 DEF a

LEMMA BitsTypes ==
  /\ \A n : Bits(n) \in SUBSET (0..7)
  /\ \A l : LdoMask(l) \in SUBSET (0..7)
  /\ \A m : ModeBits(m) \in SUBSET (0..7)
  /\ VolMask \in SUBSET (0..7)
  BY DEF Bits, LdoMask, VolMask, Ldo9VolMask, ModeBits

LEMMA Registers ==
  /\ \A b \in 0..3 : /\ BuckVol(b) \in Nat /\ BuckVol(b) > 40 /\ BuckVol(b) + 1 \in Nat
                     /\ BuckSlp(b) \in Nat /\ BuckSlp(b) > 40
  /\ \A l \in 0..9 : /\ LdoVol(l) \in Nat /\ LdoVol(l) > 40 /\ LdoSlp(l) \in Nat /\ LdoSlp(l) > 40
  BY DEF BuckVol, BuckSlp, LdoVol, LdoSlp

LEMMA SupplyBits ==
  /\ SupplyBit \in 0..7 /\ SupplyBit = Supply - 4 /\ Supply \in 4..11
  /\ Supply \in Outputs /\ Supply \in Threads /\ LdoEnReg(Ldo(Supply)) = LDO_EN
  /\ \A l \in 0..9 : LdoBit(l) \in 0..7 /\ LdoEnReg(l) \in Nat /\ LdoSlpReg(l) \in Nat
  /\ \A l \in 0..9 : LdoEnReg(l) = LDO_EN /\ l # Supply - 4 => LdoBit(l) # SupplyBit
  /\ \A l \in 0..9 : LdoSlpReg(l) # LDO_EN
  BY PowerAssumption DEF SupplyBit, Threads, Ldo, LdoBit, LdoEnReg, LdoSlpReg, LDO_EN, DCDC_EN,
     SLEEP_SET_OFF1, SLEEP_SET_OFF2

\* What calling an operation does to the threads, if its program leaves the
\* supply alone.
Starts(o) ==
  \E p : /\ HarmlessSeq(p) /\ job[o] = <<>> /\ job' = [job EXCEPT ![o] = p]
         /\ UNCHANGED <<chip, lock, at, tmp>>

LEMMA CallStarts ==
  ASSUME NEW o, NEW p, NEW f, NEW w, HarmlessSeq(p), Call(o, p, f, w)
  PROVE  Starts(o)
  BY DEF Call, Starts

LEMMA LdoPrograms ==
  ASSUME NEW l \in 0..9, NEW uV
  PROVE  /\ HarmlessSeq(ldo_suspend_enable(l)) /\ HarmlessSeq(ldo_suspend_disable(l))
         /\ HarmlessSeq(ldo_set_voltage(l, uV)) /\ HarmlessSeq(ldo_set_sleep_voltage(l, uV))
         /\ l # Supply - 4 => HarmlessSeq(ldo_enable(l)) /\ HarmlessSeq(ldo_disable(l))
<1>1. HarmlessSeq(ldo_suspend_enable(l)) /\ HarmlessSeq(ldo_suspend_disable(l))
  <2>1. /\ {LdoBit(l)} \in SUBSET (0..7) /\ {} \in SUBSET (0..7)
        /\ LdoSlpReg(l) \in Nat /\ LdoSlpReg(l) # LDO_EN
    BY SupplyBits
  <2> QED
    BY <2>1, OneHarmless DEF ldo_suspend_enable, ldo_suspend_disable
<1>2. HarmlessSeq(ldo_set_voltage(l, uV)) /\ HarmlessSeq(ldo_set_sleep_voltage(l, uV))
  <2> DEFINE v == Bits(LdoSelect(l, uV))
             m == LdoMask(l)
  <2>1. m \in SUBSET (0..7) /\ v \in SUBSET (0..7)
    BY BitsTypes
  <2>2. LdoVol(l) \in Nat /\ LdoVol(l) # LDO_EN /\ LdoSlp(l) \in Nat /\ LdoSlp(l) # LDO_EN
    BY Registers DEF LDO_EN
  <2> HIDE DEF v, m
  <2>3. HarmlessSeq(<<Set(LdoVol(l), m, v)>>) /\ HarmlessSeq(<<Set(LdoSlp(l), m, v)>>)
    BY <2>1, <2>2, OneHarmless
  <2> QED
    BY <2>3, NothingHarmless DEF ldo_set_voltage, ldo_set_sleep_voltage, v, m
<1>3. ASSUME l # Supply - 4 PROVE HarmlessSeq(ldo_enable(l)) /\ HarmlessSeq(ldo_disable(l))
  <2>1. CASE LdoEnReg(l) = LDO_EN
    <3>1. LdoBit(l) # SupplyBit /\ {LdoBit(l)} \in SUBSET (0..7) /\ LDO_EN \in Nat
          /\ l \notin {8, 9} /\ {} \in SUBSET (0..7)
      BY <2>1, <1>3, SupplyBits DEF LdoEnReg, LDO_EN, DCDC_EN
    <3>2. ldo_disable(l) = <<Set(LDO_EN, {LdoBit(l)}, {})>>
      BY <2>1, <3>1 DEF ldo_disable
    <3> QED
      BY <2>1, <3>1, <3>2, OneHarmless DEF ldo_enable
  <2>2. CASE LdoEnReg(l) # LDO_EN
    <3> DEFINE v == IF l \in {8, 9} THEN {0} ELSE {}
    <3>1. {LdoBit(l)} \in SUBSET (0..7) /\ LdoEnReg(l) \in Nat /\ v \in SUBSET (0..7)
      BY SupplyBits
    <3> HIDE DEF v
    <3>2. HarmlessSeq(<<Set(LdoEnReg(l), {LdoBit(l)}, v)>>)
      BY <2>2, <3>1, OneHarmless
    <3>3. HarmlessSeq(ldo_enable(l))
      BY <2>2, <3>1, OneHarmless DEF ldo_enable
    <3> QED
      BY <3>2, <3>3 DEF ldo_disable, v
  <2> QED
    BY <2>1, <2>2
<1> QED
  BY <1>1, <1>2, <1>3

LEMMA DcdcPrograms ==
  ASSUME NEW b \in 0..3, NEW uV, NEW m
  PROVE  /\ HarmlessSeq(dcdc_enable(b)) /\ HarmlessSeq(dcdc_disable(b))
         /\ HarmlessSeq(dcdc_suspend_enable(b)) /\ HarmlessSeq(dcdc_suspend_disable(b))
         /\ HarmlessSeq(dcdc_set_voltage(b, uV)) /\ HarmlessSeq(dcdc_set_sleep_voltage(b, uV))
         /\ HarmlessSeq(dcdc_set_mode(b, m)) /\ HarmlessSeq(dcdc_set_suspend_mode(b, m))
<1>1. /\ {b} \in SUBSET (0..7) /\ {} \in SUBSET (0..7) /\ {7} \in SUBSET (0..7)
      /\ DCDC_EN \in Nat /\ SLEEP_SET_OFF1 \in Nat /\ DCDC_EN # LDO_EN /\ SLEEP_SET_OFF1 # LDO_EN
  BY DEF DCDC_EN, LDO_EN, SLEEP_SET_OFF1
<1>2. /\ BuckVol(b) \in Nat /\ BuckVol(b) # LDO_EN /\ BuckVol(b) + 1 \in Nat
      /\ BuckVol(b) + 1 # LDO_EN /\ BuckSlp(b) \in Nat /\ BuckSlp(b) # LDO_EN
  BY Registers DEF LDO_EN
<1>3. /\ HarmlessSeq(dcdc_enable(b)) /\ HarmlessSeq(dcdc_disable(b))
      /\ HarmlessSeq(dcdc_suspend_enable(b)) /\ HarmlessSeq(dcdc_suspend_disable(b))
  BY <1>1, OneHarmless DEF dcdc_enable, dcdc_disable, dcdc_suspend_enable, dcdc_suspend_disable
<1>4. HarmlessSeq(dcdc_set_mode(b, m)) /\ HarmlessSeq(dcdc_set_suspend_mode(b, m))
  BY <1>1, <1>2, BitsTypes, OneHarmless DEF dcdc_set_mode, dcdc_set_suspend_mode
<1>5. HarmlessSeq(dcdc_set_voltage(b, uV)) /\ HarmlessSeq(dcdc_set_sleep_voltage(b, uV))
  <2> DEFINE v == Bits(dcdc_select_min_voltage(b, uV, uV))
  <2>1. v \in SUBSET (0..7) /\ VolMask \in SUBSET (0..7)
    BY BitsTypes
  <2> HIDE DEF v
  <2>2. /\ HarmlessSeq(<<Set(BuckVol(b), VolMask, v)>>)
        /\ HarmlessSeq(<<Set(BuckVol(b), VolMask, v), Set(BuckVol(b), VolMask, v)>>)
        /\ HarmlessSeq(<<Set(BuckSlp(b), VolMask, v)>>)
    BY <1>2, <2>1, OneHarmless
  <2> QED
    BY <2>2, NothingHarmless DEF dcdc_set_voltage, dcdc_set_sleep_voltage, v
<1> QED
  BY <1>3, <1>4, <1>5

\* No operation of another output, and no setting of the supply, touches the
\* supply's enable bit.
LEMMA OperationsHarmless ==
  ASSUME NEW o \in Outputs
  PROVE  /\ IsLdo(o) /\ o # Supply /\ LdoSwitch(o) => Starts(o)
         /\ IsLdo(o) /\ LdoSetting(o) => Starts(o)
         /\ ~IsLdo(o) /\ DcdcOperation(o) => Starts(o)
<1>1. ASSUME IsLdo(o) PROVE Ldo(o) \in 0..9 /\ (o # Supply => Ldo(o) # Supply - 4)
  BY <1>1, Rk818Assumption, SupplyBits DEF IsLdo, Ldo
<1>2. ASSUME IsLdo(o), o # Supply, LdoSwitch(o) PROVE Starts(o)
  <2>1. HarmlessSeq(ldo_enable(Ldo(o))) /\ HarmlessSeq(ldo_disable(Ldo(o)))
    BY <1>1, <1>2, LdoPrograms
  <2>2. \/ Call(o, ldo_enable(Ldo(o)), "on", TRUE)
        \/ Call(o, ldo_disable(Ldo(o)), "on", FALSE)
    BY <1>2 DEF LdoSwitch
  <2> QED
    BY <2>1, <2>2, CallStarts
<1>3. ASSUME IsLdo(o), LdoSetting(o) PROVE Starts(o)
  <2>1. CASE \E uV \in Requests[o] : Call(o, ldo_set_voltage(Ldo(o), uV), "uV", Nearest(o, uV))
    <3>1. PICK uV : Call(o, ldo_set_voltage(Ldo(o), uV), "uV", Nearest(o, uV))
      BY <2>1
    <3>2. HarmlessSeq(ldo_set_voltage(Ldo(o), uV))
      BY <1>1, <1>3, LdoPrograms
    <3> QED
      BY <3>1, <3>2, CallStarts
  <2>2. CASE \E uV \in Requests[o] : Call(o, ldo_set_sleep_voltage(Ldo(o), uV), "sleep_uV", Nearest(o, uV))
    <3>1. PICK uV : Call(o, ldo_set_sleep_voltage(Ldo(o), uV), "sleep_uV", Nearest(o, uV))
      BY <2>2
    <3>2. HarmlessSeq(ldo_set_sleep_voltage(Ldo(o), uV))
      BY <1>1, <1>3, LdoPrograms
    <3> QED
      BY <3>1, <3>2, CallStarts
  <2>3. CASE \/ Call(o, ldo_suspend_enable(Ldo(o)), "sleep_off", FALSE)
             \/ Call(o, ldo_suspend_disable(Ldo(o)), "sleep_off", TRUE)
    <3>1. HarmlessSeq(ldo_suspend_enable(Ldo(o))) /\ HarmlessSeq(ldo_suspend_disable(Ldo(o)))
      BY <1>1, <1>3, LdoPrograms
    <3> QED
      BY <2>3, <3>1, CallStarts
  <2> QED
    BY <1>3, <2>1, <2>2, <2>3, Zenon DEF LdoSetting
<1>4. ASSUME ~IsLdo(o), DcdcOperation(o) PROVE Starts(o)
  <2>1. o \in 0..3
    BY <1>4, Rk818Assumption DEF IsLdo
  <2>2. /\ HarmlessSeq(dcdc_enable(o)) /\ HarmlessSeq(dcdc_disable(o))
        /\ HarmlessSeq(dcdc_suspend_enable(o)) /\ HarmlessSeq(dcdc_suspend_disable(o))
    BY <2>1, DcdcPrograms
  <2>3. CASE \E uV \in Requests[o] :
               \/ Call(o, dcdc_set_voltage(o, uV), "uV", Nearest(o, uV))
               \/ Call(o, dcdc_set_sleep_voltage(o, uV), "sleep_uV", Nearest(o, uV))
    <3>1. PICK uV : \/ Call(o, dcdc_set_voltage(o, uV), "uV", Nearest(o, uV))
                    \/ Call(o, dcdc_set_sleep_voltage(o, uV), "sleep_uV", Nearest(o, uV))
      BY <2>3
    <3>2. HarmlessSeq(dcdc_set_voltage(o, uV)) /\ HarmlessSeq(dcdc_set_sleep_voltage(o, uV))
      BY <2>1, DcdcPrograms
    <3> QED
      BY <3>1, <3>2, CallStarts
  <2>4. CASE \E m \in Modes : \/ Call(o, dcdc_set_mode(o, m), "mode", m)
                              \/ Call(o, dcdc_set_suspend_mode(o, m), "sleep_mode", m)
    <3>1. PICK m : \/ Call(o, dcdc_set_mode(o, m), "mode", m)
                   \/ Call(o, dcdc_set_suspend_mode(o, m), "sleep_mode", m)
      BY <2>4
    <3>2. HarmlessSeq(dcdc_set_mode(o, m)) /\ HarmlessSeq(dcdc_set_suspend_mode(o, m))
      BY <2>1, DcdcPrograms
    <3> QED
      BY <3>1, <3>2, CallStarts
  <2>5. CASE \/ Call(o, dcdc_enable(o), "on", TRUE) \/ Call(o, dcdc_disable(o), "on", FALSE)
             \/ Call(o, dcdc_suspend_enable(o), "sleep_off", FALSE)
             \/ Call(o, dcdc_suspend_disable(o), "sleep_off", TRUE)
    BY <2>2, <2>5, CallStarts
  <2> QED
    BY <1>4, <2>3, <2>4, <2>5, Zenon DEF DcdcOperation
<1> QED
  BY <1>2, <1>3, <1>4

(***************************************************************************)
(* Types, and what io_lock protects.                                       *)
(***************************************************************************)

\* Whoever is at the write of rk818_set_bits owns io_lock.
AtWrite ==
  \A t \in Threads : at[t] = "write" =>
    job[t] # <<>> /\ (First(t).kind = "set" => lock = t)

ChipInv == RkTypes /\ AtWrite /\ LockHeld

\* An operation is called on an output that is not being operated on.
Calls(o) ==
  \E p \in Seq(Accesses) : /\ job[o] = <<>> /\ job' = [job EXCEPT ![o] = p]
                           /\ UNCHANGED <<chip, lock, at, tmp>>

\* The counters of a step that calls an operation.
Counting == Core \/ Fault \/ UNCHANGED counts

LEMMA CountingTypes ==
  ASSUME RkTypes, Counting
  PROVE  events' \in Nat /\ faulty' \in BOOLEAN /\ (faulty => faulty')
<1>1. events' \in Nat
  BY DEF Counting, Core, Fault, Event, counts, RkTypes
<1>2. faulty' = TRUE \/ faulty' = faulty
  BY DEF Counting, Core, Fault, counts
<1>3. faulty' \in BOOLEAN /\ (faulty => faulty')
  BY <1>2, Zenon DEF RkTypes
<1> QED
  BY <1>1, <1>3

LEMMA NoThread == None \notin Threads /\ Supply \in Threads /\ Outputs \subseteq Threads
  BY Rk818Assumption, PowerAssumption DEF None, Threads, Probe

LEMMA CallsInv ==
  ASSUME NEW o \in Outputs, ChipInv, Calls(o), Counting
  PROVE  ChipInv'
<1>1. PICK p \in Seq(Accesses) : /\ job[o] = <<>> /\ job' = [job EXCEPT ![o] = p]
                                 /\ UNCHANGED <<regs, probe, todo, registered, lock, at, tmp>>
  BY DEF Calls, chip
<1>2. o \in Threads /\ None \notin Threads
  BY NoThread
<1>3. events' \in Nat /\ faulty' \in BOOLEAN /\ (faulty => faulty')
  BY CountingTypes DEF ChipInv
<1>4. RkTypes'
  BY <1>1, <1>2, <1>3 DEF ChipInv, RkTypes
<1>5. \A t \in Threads : t # o => job'[t] = job[t]
  BY <1>1 DEF ChipInv, RkTypes
<1>6. AtWrite'
  <2> SUFFICES ASSUME NEW t \in Threads, at[t] = "write"
               PROVE  job'[t] # <<>> /\ (Head(job'[t]).kind = "set" => lock = t)
    BY <1>1 DEF AtWrite, First
  <2>1. job[t] # <<>> /\ (Head(job[t]).kind = "set" => lock = t)
    BY DEF ChipInv, AtWrite, First
  <2> QED
    BY <2>1, <1>1, <1>5
<1>7. LockHeld'
  <2> SUFFICES ASSUME lock # None
               PROVE  /\ job'[lock] # <<>> /\ at[lock] = "write" /\ Head(job'[lock]).kind = "set"
                      /\ ~faulty' => tmp[lock] = Contents(Head(job'[lock]).reg)
    BY <1>1 DEF LockHeld, First, Contents
  <2>1. /\ lock \in Threads /\ job[lock] # <<>> /\ at[lock] = "write" /\ Head(job[lock]).kind = "set"
        /\ ~faulty => tmp[lock] = Contents(Head(job[lock]).reg)
    BY DEF ChipInv, RkTypes, LockHeld, First
  <2> QED
    BY <2>1, <1>1, <1>3, <1>5
<1> QED
  BY <1>4, <1>6, <1>7 DEF ChipInv

LEMMA BeginInv ==
  ASSUME NEW t \in Threads, ChipInv, Begin(t)
  PROVE  ChipInv'
<1>1. /\ job[t] # <<>> /\ lock = None /\ at' = [at EXCEPT ![t] = "write"]
      /\ lock' = IF First(t).kind = "set" THEN t ELSE None
      /\ UNCHANGED <<regs, probe, todo, registered, job>>
  BY DEF Begin, Held, chip
<1>2. First(t) \in Accesses
  BY <1>1, HeadTailProperties DEF ChipInv, RkTypes, First
<1>3. /\ tmp' \in [Threads -> SUBSET (0..7)] /\ events' \in Nat /\ faulty' \in BOOLEAN
      /\ faulty => faulty'
      /\ First(t).kind = "set" /\ ~faulty' => tmp'[t] = Contents(First(t).reg)
  <2>1. CASE First(t).kind = "write" /\ UNCHANGED <<tmp, counts>>
    BY <2>1 DEF ChipInv, RkTypes, counts
  <2>2. CASE tmp' = [tmp EXCEPT ![t] = Contents(First(t).reg)] /\ UNCHANGED counts
    <3>1. Contents(First(t).reg) \in SUBSET (0..7)
      BY DEF Contents, ChipInv, RkTypes
    <3> QED
      BY <2>2, <3>1 DEF ChipInv, RkTypes, counts
  <2>3. CASE Fault /\ \E byte \in (IF First(t).kind = "set" THEN Bytes ELSE {{}}) :
                        tmp' = [tmp EXCEPT ![t] = byte]
    <3>1. PICK byte \in SUBSET (0..7) : tmp' = [tmp EXCEPT ![t] = byte]
      BY <2>3, Rk818Assumption
    <3>2. events' \in Nat /\ faulty' \in BOOLEAN /\ (faulty => faulty')
      BY <2>3, CountingTypes DEF Counting, ChipInv
    <3>3. faulty'
      BY <2>3, Zenon DEF Fault
    <3>4. tmp' \in [Threads -> SUBSET (0..7)]
      BY <3>1 DEF ChipInv, RkTypes
    <3> QED
      BY <3>2, <3>3, <3>4
  <2> QED
    BY <2>1, <2>2, <2>3 DEF Begin, i2c_read
<1>4. None \notin Threads
  BY NoThread
<1>5. RkTypes'
  BY <1>1, <1>3 DEF ChipInv, RkTypes
<1>6. AtWrite'
  <2> SUFFICES ASSUME NEW u \in Threads, at'[u] = "write"
               PROVE  job[u] # <<>> /\ (First(u).kind = "set" => lock' = u)
    BY <1>1 DEF AtWrite, First
  <2>1. CASE u = t
    BY <2>1, <1>1
  <2>2. CASE u # t
    <3>1. at[u] = "write"
      BY <2>2, <1>1 DEF ChipInv, RkTypes
    <3>2. job[u] # <<>> /\ (First(u).kind = "set" => lock = u)
      BY <3>1 DEF ChipInv, AtWrite
    <3> QED
      BY <3>2, <1>1, <1>4
  <2> QED
    BY <2>1, <2>2
<1>7. LockHeld'
  <2> SUFFICES ASSUME lock' # None
               PROVE  /\ job[t] # <<>> /\ at'[t] = "write" /\ First(t).kind = "set" /\ lock' = t
                      /\ ~faulty' => tmp'[t] = Contents(First(t).reg)
    BY <1>1 DEF LockHeld, First, Contents
  <2> QED
    BY <1>1, <1>3 DEF ChipInv, RkTypes
<1> QED
  BY <1>5, <1>6, <1>7 DEF ChipInv

LEMMA EndInv ==
  ASSUME NEW t \in Threads, ChipInv, End(t)
  PROVE  ChipInv'
<1>1. /\ job[t] # <<>> /\ at[t] = "write" /\ at' = [at EXCEPT ![t] = "start"] /\ lock' = None
      /\ lock = (IF First(t).kind = "set" THEN t ELSE None)
      /\ tmp' = [tmp EXCEPT ![t] = {}] /\ UNCHANGED <<probe, todo, registered>>
  BY DEF End, Held, Unlock
<1>2. First(t) \in Accesses /\ Tail(job[t]) \in Seq(Accesses)
  BY <1>1, HeadTailProperties DEF ChipInv, RkTypes, First
<1>3. /\ regs' \in [Regs -> SUBSET (0..7)] /\ events' \in Nat /\ faulty' \in BOOLEAN
      /\ \E p \in Seq(Accesses) : job' = [job EXCEPT ![t] = p]
  <2>1. CASE /\ regs' = [r \in Regs |-> IF r = First(t).reg THEN Written(t) ELSE regs[r]]
             /\ job' = [job EXCEPT ![t] = Tail(@)] /\ UNCHANGED counts
    <3>1. Written(t) \in SUBSET (0..7)
      BY <1>2 DEF Written, Accesses, ChipInv, RkTypes
    <3> QED
      BY <2>1, <3>1, <1>2 DEF ChipInv, RkTypes, counts
  <2>2. CASE /\ Fault /\ UNCHANGED regs
             /\ job' = [job EXCEPT ![t] = IF First(t).kind = "set" THEN Tail(@) ELSE <<>>]
    <3>1. <<>> \in Seq(Accesses)
      BY EmptySeq
    <3>2. events' \in Nat /\ faulty' \in BOOLEAN
      BY <2>2, CountingTypes DEF Counting, ChipInv
    <3>3. regs' \in [Regs -> SUBSET (0..7)]
      BY <2>2 DEF ChipInv, RkTypes
    <3>4. \E p \in Seq(Accesses) : job' = [job EXCEPT ![t] = p]
      BY <2>2, <3>1, <1>2
    <3> QED
      BY <3>2, <3>3, <3>4
  <2> QED
    BY <2>1, <2>2 DEF End
<1>4. RkTypes'
  BY <1>1, <1>3 DEF ChipInv, RkTypes
<1>5. AtWrite'
  <2> SUFFICES ASSUME NEW u \in Threads, at'[u] = "write"
               PROVE  job'[u] # <<>> /\ (Head(job'[u]).kind = "set" => lock' = u)
    BY DEF AtWrite, First
  <2>1. u # t /\ at[u] = "write" /\ job'[u] = job[u]
    BY <1>1, <1>3 DEF ChipInv, RkTypes
  <2>2. job[u] # <<>> /\ (Head(job[u]).kind = "set" => lock = u)
    BY <2>1 DEF ChipInv, AtWrite, First
  <2>3. Head(job[u]).kind # "set"
    BY <2>1, <2>2, <1>1, NoThread
  <2> QED
    BY <2>1, <2>2, <2>3
<1>6. LockHeld'
  BY <1>1 DEF LockHeld
<1> QED
  BY <1>4, <1>5, <1>6 DEF ChipInv


(***************************************************************************)
(* The steps of the chip, by what they do to the threads.                  *)
(***************************************************************************)

LEMMA StartsCalls == ASSUME NEW o, Starts(o) PROVE Calls(o)
  BY DEF Starts, Calls, HarmlessSeq

LEMMA StepCases ==
  ASSUME ChipStep
  PROVE  \/ ProbeGpio
         \/ \E o \in Outputs : Register(o)
         \/ \E t \in Threads : Begin(t)
         \/ \E t \in Threads : End(t)
         \/ Core /\ \E o \in Outputs : Starts(o) /\ (o = Supply => Free)
<1>1. CASE \E o \in Outputs \ {Supply} : IsLdo(o) /\ Core /\ (LdoSwitch(o) \/ LdoSetting(o))
  <2>1. PICK o \in Outputs \ {Supply} : IsLdo(o) /\ Core /\ (LdoSwitch(o) \/ LdoSetting(o))
    BY <1>1
  <2>2. Starts(o)
    BY <2>1, OperationsHarmless
  <2> QED
    BY <2>1, <2>2, Zenon
<1>2. CASE \E b \in Outputs : ~IsLdo(b) /\ Core /\ DcdcOperation(b)
  <2>1. PICK b \in Outputs : ~IsLdo(b) /\ Core /\ DcdcOperation(b)
    BY <1>2
  <2>2. Starts(b)
    BY <2>1, OperationsHarmless
  <2>3. b # Supply
    BY <2>1, SupplyBits DEF IsLdo
  <2> QED
    BY <2>1, <2>2, <2>3, Zenon
<1>3. CASE Free /\ Core /\ LdoSetting(Supply)
  <2>1. IsLdo(Supply) /\ Supply \in Outputs
    BY SupplyBits DEF IsLdo
  <2>2. Starts(Supply)
    BY <1>3, <2>1, OperationsHarmless
  <2> QED
    BY <1>3, <2>1, <2>2, Zenon
<1> QED
  BY <1>1, <1>2, <1>3, Zenon DEF ChipStep

\* A call of the regulator core for a driver.
LEMMA SupplyPrograms ==
  /\ ldo_enable(Ldo(Supply)) = <<Set(LDO_EN, {SupplyBit}, {SupplyBit})>>
  /\ ldo_disable(Ldo(Supply)) = <<Set(LDO_EN, {SupplyBit}, {})>>
  /\ Set(LDO_EN, {SupplyBit}, {SupplyBit}) \in Accesses /\ Set(LDO_EN, {SupplyBit}, {}) \in Accesses
<1>1. Ldo(Supply) \notin {8, 9} /\ LdoEnReg(Ldo(Supply)) = LDO_EN
  BY SupplyBits DEF Ldo
<1>2. {SupplyBit} \in SUBSET (0..7) /\ {} \in SUBSET (0..7) /\ LDO_EN \in Nat
  BY SupplyBits DEF LDO_EN
<1> QED
  BY <1>1, <1>2 DEF ldo_enable, ldo_disable, SupplyBit, Set, Access, Accesses

LEMMA SupplyCalls ==
  ASSUME NEW f, NEW w, Call(Supply, ldo_enable(Ldo(Supply)), f, w) \/ Call(Supply, ldo_disable(Ldo(Supply)), f, w)
  PROVE  Calls(Supply)
<1>1. ldo_enable(Ldo(Supply)) \in Seq(Accesses) /\ ldo_disable(Ldo(Supply)) \in Seq(Accesses)
  BY SupplyPrograms
<1> HIDE DEF ldo_enable, ldo_disable
<1> QED
  BY <1>1 DEF Call, Calls

LEMMA Same == ASSUME ChipInv, UNCHANGED <<regs, job, lock, at, tmp, faulty>>,
                     probe' \in {"pre_init", "register", "failed", "up"},
                     todo' \subseteq Outputs, registered' \subseteq Outputs, events' = events
              PROVE  ChipInv'
<1>1. RkTypes'
  BY DEF ChipInv, RkTypes
<1>2. AtWrite'
  BY DEF ChipInv, AtWrite, First
<1>3. LockHeld'
  BY DEF ChipInv, LockHeld, First, Contents
<1> QED
  BY <1>1, <1>2, <1>3 DEF ChipInv

LEMMA ChipInductive == ChipInv /\ [Next]_vars => ChipInv'
<1> SUFFICES ASSUME ChipInv, [Next]_vars PROVE ChipInv'
  OBVIOUS
<1>1. CASE UNCHANGED rkvars
  <2>1. /\ UNCHANGED <<regs, job, lock, at, tmp, faulty>> /\ events' = events
        /\ UNCHANGED <<probe, todo, registered>>
    BY <1>1 DEF rkvars, chip, threads, counts
  <2>2. /\ probe' \in {"pre_init", "register", "failed", "up"}
        /\ todo' \subseteq Outputs /\ registered' \subseteq Outputs
    BY <2>1 DEF ChipInv, RkTypes
  <2> QED
    BY <2>1, <2>2, Same
<1>2. CASE ProbeGpio
  <2>1. /\ UNCHANGED <<regs, job, lock, at, tmp, faulty>> /\ events' = events
        /\ probe' \in {"pre_init", "register", "failed", "up"}
        /\ todo' \subseteq Outputs /\ registered' \subseteq Outputs
    BY <1>2 DEF ProbeGpio, threads, counts, ChipInv, RkTypes
  <2> QED
    BY <2>1, Same
<1>3. ASSUME NEW o \in Outputs, Register(o) PROVE ChipInv'
  <2>1. /\ UNCHANGED <<regs, job, lock, at, tmp, faulty>> /\ events' = events
        /\ probe' \in {"pre_init", "register", "failed", "up"}
        /\ todo' \subseteq Outputs /\ registered' \subseteq Outputs
    BY <1>3 DEF Register, threads, counts, ChipInv, RkTypes
  <2> QED
    BY <2>1, Same
<1>4. ASSUME ChipStep PROVE ChipInv'
  <2>1. ASSUME NEW o \in Outputs, Starts(o), Core PROVE ChipInv'
    BY <2>1, StartsCalls, CallsInv DEF Counting
  <2> QED
    BY <1>2, <1>3, <1>4, <2>1, StepCases, BeginInv, EndInv, Zenon
<1>5. ASSUME NEW c \in Consumers, regulator_enable(c) PROVE ChipInv'
  <2>1. CASE UNCHANGED rkvars
    BY <1>1, <2>1
  <2>2. CASE Call(Supply, ldo_enable(Ldo(Supply)), "on", TRUE) /\ (UNCHANGED counts \/ Fault)
    BY <2>2, SupplyCalls, SupplyBits, CallsInv, Zenon DEF Counting
  <2> QED
    BY <1>5, <2>1, <2>2, Zenon DEF regulator_enable
<1>6. ASSUME NEW c \in Consumers, regulator_disable(c) PROVE ChipInv'
  <2>1. CASE UNCHANGED rkvars
    BY <1>1, <2>1
  <2>2. CASE Call(Supply, ldo_disable(Ldo(Supply)), "on", FALSE) /\ UNCHANGED <<num_users, counts>>
    <3>1. UNCHANGED counts
      BY <2>2
    <3> QED
      BY <2>2, <3>1, SupplyCalls, SupplyBits, CallsInv, Zenon DEF Counting
  <2> QED
    BY <1>6, <2>1, <2>2, Zenon DEF regulator_disable
<1>7. ASSUME NEW c \in Consumers, Load(c) \/ Unload(c) \/ remove(c) \/ Counts(c) PROVE ChipInv'
  <2>1. UNCHANGED rkvars
    BY <1>7 DEF Load, Unload, remove, Counts
  <2> QED
    BY <2>1, <1>1
<1>8. CASE UNCHANGED vars
  <2>1. UNCHANGED rkvars
    BY <1>8 DEF vars
  <2> QED
    BY <2>1, <1>1
<1> QED
  BY <1>4, <1>5, <1>6, <1>7, <1>8, Zenon DEF Next

(***************************************************************************)
(* The use count.                                                          *)
(***************************************************************************)

States == {"out", "unbound", "probing", "enabling", "bound", "removing", "disabling"}
Holds  == {"bound", "removing", "disabling"}
Busy   == {"enabling", "disabling"}

\* The core has one caller of the supply at a time, and counts after it.
OneCaller ==
  /\ \A c, d \in Consumers : cons[c] \in Busy /\ cons[d] \in Busy => c = d
  /\ \A c \in Consumers : /\ cons[c] = "enabling" => num_users = 0
                          /\ cons[c] = "disabling" => num_users = 1

DriverTypes == num_users \in Nat /\ loads \in [Consumers -> Nat] /\ cons \in [Consumers -> States]
UsersInv == DriverTypes /\ CountsUsers /\ OneCaller

LEMMA HoldingFinite == IsFiniteSet(Holding) /\ Cardinality(Holding) \in Nat
  BY PowerAssumption, FS_Subset, FS_CardinalityType DEF Holding

\* How a driver's step changes the number of those that hold the supply.
LEMMA HoldingStep ==
  ASSUME NEW c \in Consumers, NEW s \in States, DriverTypes, Becomes(c, s)
  PROVE  /\ cons' \in [Consumers -> States]
         /\ cons'[c] = s /\ \A d \in Consumers : d # c => cons'[d] = cons[d]
         /\ s \in Holds /\ cons[c] \notin Holds => Cardinality(Holding') = Cardinality(Holding) + 1
         /\ s \notin Holds /\ cons[c] \in Holds => Cardinality(Holding') = Cardinality(Holding) - 1
         /\ (s \in Holds <=> cons[c] \in Holds) => Cardinality(Holding') = Cardinality(Holding)
<1>1. cons' = [cons EXCEPT ![c] = s] /\ cons \in [Consumers -> States]
  BY DEF Becomes, DriverTypes
<1>2. cons' \in [Consumers -> States] /\ cons'[c] = s /\ \A d \in Consumers : d # c => cons'[d] = cons[d]
  BY <1>1
<1>3. Holding' = IF s \in Holds THEN Holding \cup {c} ELSE Holding \ {c}
  BY <1>2 DEF Holding, Holds
<1>4. c \in Holding <=> cons[c] \in Holds
  BY DEF Holding, Holds
<1>5. /\ Cardinality(Holding \cup {c}) = IF c \in Holding THEN Cardinality(Holding) ELSE Cardinality(Holding) + 1
      /\ Cardinality(Holding \ {c}) = IF c \in Holding THEN Cardinality(Holding) - 1 ELSE Cardinality(Holding)
  BY HoldingFinite, FS_AddElement, FS_RemoveElement
<1> QED
  BY <1>2, <1>3, <1>4, <1>5

\* A driver that neither takes nor gives back the supply.
LEMMA QuietStep ==
  ASSUME NEW c \in Consumers, NEW s \in States \ Busy, UsersInv, Becomes(c, s),
         s \in Holds <=> cons[c] \in Holds, num_users' = num_users, loads' \in [Consumers -> Nat]
  PROVE  UsersInv'
<1>1. /\ cons' \in [Consumers -> States] /\ cons'[c] = s /\ \A d \in Consumers : d # c => cons'[d] = cons[d]
      /\ Cardinality(Holding') = Cardinality(Holding)
  BY HoldingStep DEF UsersInv
<1>2. DriverTypes'
  BY <1>1 DEF UsersInv, DriverTypes
<1>3. CountsUsers'
  BY <1>1 DEF UsersInv, CountsUsers
<1>4. OneCaller'
  <2>1. \A d \in Consumers : cons'[d] \in Busy => cons'[d] = cons[d]
    BY <1>1
  <2> QED
    BY <2>1 DEF UsersInv, OneCaller, Busy
<1> QED
  BY <1>2, <1>3, <1>4 DEF UsersInv

\* A step that begins or ends while no other driver is called for.
LEMMA SoleStep ==
  ASSUME NEW c \in Consumers, NEW s \in States, UsersInv, Becomes(c, s),
         \A d \in Consumers : d # c => cons[d] \notin Busy,
         num_users' \in Nat, num_users' = Cardinality(Holding'),
         s = "enabling" => num_users' = 0, s = "disabling" => num_users' = 1,
         loads' = loads
  PROVE  UsersInv'
<1>1. cons' \in [Consumers -> States] /\ cons'[c] = s /\ \A d \in Consumers : d # c => cons'[d] = cons[d]
  BY HoldingStep DEF UsersInv
<1>2. DriverTypes'
  BY <1>1 DEF UsersInv, DriverTypes
<1>3. CountsUsers'
  BY DEF CountsUsers
<1>4. OneCaller'
  <2>1. \A d \in Consumers : cons'[d] \in Busy => d = c
    BY <1>1
  <2> QED
    BY <1>1, <2>1 DEF OneCaller, Busy
<1> QED
  BY <1>2, <1>3, <1>4 DEF UsersInv

LEMMA UsersInductive == UsersInv /\ [Next]_vars => UsersInv'
<1> SUFFICES ASSUME UsersInv, [Next]_vars PROVE UsersInv'
  OBVIOUS
<1>1. CASE UNCHANGED drivers
  BY <1>1 DEF drivers, UsersInv, DriverTypes, CountsUsers, OneCaller, Holding
<1>t. /\ num_users \in Nat /\ num_users = Cardinality(Holding) /\ loads \in [Consumers -> Nat]
      /\ cons \in [Consumers -> States] /\ DriverTypes
  BY DEF UsersInv, DriverTypes, CountsUsers
<1>2. ASSUME NEW c \in Consumers, Load(c) PROVE UsersInv'
  <2>1. PICK s \in {"probing", "unbound"} : Becomes(c, s)
    BY <1>2, Zenon DEF Load
  <2>2. cons[c] = "out" /\ num_users' = num_users /\ loads' \in [Consumers -> Nat]
    BY <1>2, <1>t DEF Load
  <2>3. s \in States \ Busy /\ (s \in Holds <=> cons[c] \in Holds)
    BY <2>1, <2>2 DEF States, Busy, Holds
  <2> QED
    BY <2>1, <2>2, <2>3, QuietStep
<1>3. ASSUME NEW c \in Consumers, Unload(c) PROVE UsersInv'
  <2>1. /\ Becomes(c, "out") /\ num_users' = num_users /\ loads' \in [Consumers -> Nat]
        /\ "out" \in States \ Busy /\ ("out" \in Holds <=> cons[c] \in Holds)
    BY <1>3, <1>t DEF Unload, States, Busy, Holds
  <2> QED
    BY <2>1, QuietStep
<1>4. ASSUME NEW c \in Consumers, remove(c) PROVE UsersInv'
  <2>1. /\ Becomes(c, "removing") /\ num_users' = num_users /\ loads' \in [Consumers -> Nat]
        /\ "removing" \in States \ Busy /\ ("removing" \in Holds <=> cons[c] \in Holds)
    BY <1>4, <1>t DEF remove, States, Busy, Holds
  <2> QED
    BY <2>1, QuietStep
<1>5. ASSUME NEW c \in Consumers, regulator_enable(c) PROVE UsersInv'
  <2>1. cons[c] = "probing" /\ loads' = loads /\ \A d \in Consumers : d # c => cons[d] \notin Busy
    BY <1>5 DEF regulator_enable, Free, Busy
  <2>2. CASE num_users = 0 /\ Becomes(c, "enabling") /\ UNCHANGED num_users
    <3>1. "enabling" \in States /\ Cardinality(Holding') = Cardinality(Holding)
      BY <2>1, <2>2, <1>t, HoldingStep DEF States, Holds
    <3> QED
      BY <2>1, <2>2, <3>1, <1>t, SoleStep
  <2>3. CASE num_users' = num_users + 1 /\ Becomes(c, "bound")
    <3>1. "bound" \in States /\ Cardinality(Holding') = Cardinality(Holding) + 1
      BY <2>1, <2>3, <1>t, HoldingStep DEF States, Holds
    <3> QED
      BY <2>1, <2>3, <3>1, <1>t, SoleStep
  <2> QED
    BY <1>5, <2>2, <2>3, Zenon DEF regulator_enable
<1>6. ASSUME NEW c \in Consumers, regulator_disable(c) PROVE UsersInv'
  <2>1. cons[c] = "removing" /\ loads' = loads /\ \A d \in Consumers : d # c => cons[d] \notin Busy
    BY <1>6 DEF regulator_disable, Free, Busy
  <2>2. CASE LastUser /\ Becomes(c, "disabling") /\ UNCHANGED num_users
    <3>1. "disabling" \in States /\ Cardinality(Holding') = Cardinality(Holding)
      BY <2>1, <2>2, <1>t, HoldingStep DEF States, Holds
    <3> QED
      BY <2>1, <2>2, <3>1, <1>t, SoleStep DEF LastUser
  <2>3. CASE num_users' = num_users - 1 /\ Becomes(c, "out")
    <3>1. "out" \in States /\ Cardinality(Holding') = Cardinality(Holding) - 1
      BY <2>1, <2>3, <1>t, HoldingStep DEF States, Holds
    <3>2. num_users # 0
      <4>1. c \in Holding
        BY <2>1 DEF Holding
      <4> QED
        BY <4>1, <1>t, HoldingFinite, FS_EmptySet
    <3> QED
      BY <2>1, <2>3, <3>1, <3>2, <1>t, SoleStep
  <2>4. \/ LastUser /\ Becomes(c, "disabling") /\ UNCHANGED num_users
        \/ num_users' = num_users - 1 /\ Becomes(c, "out")
    BY <1>6 DEF regulator_disable
  <2> QED
    BY <2>2, <2>3, <2>4
<1>7. ASSUME NEW c \in Consumers, Counts(c) PROVE UsersInv'
  <2>1. cons[c] \in Busy /\ loads' = loads
    BY <1>7 DEF Counts, Busy
  <2>2. \A d \in Consumers : d # c => cons[d] \notin Busy
    BY <2>1 DEF UsersInv, OneCaller
  <2>3. CASE cons[c] = "enabling" /\ Becomes(c, "bound") /\ num_users' = num_users + 1
    <3>1. "bound" \in States /\ Cardinality(Holding') = Cardinality(Holding) + 1
      BY <2>3, <1>t, HoldingStep DEF States, Holds
    <3> QED
      BY <2>1, <2>2, <2>3, <3>1, <1>t, SoleStep
  <2>4. CASE cons[c] = "disabling" /\ Becomes(c, "out") /\ num_users' = 0
    <3>1. "out" \in States /\ Cardinality(Holding') = Cardinality(Holding) - 1
      BY <2>4, <1>t, HoldingStep DEF States, Holds
    <3>2. num_users = 1
      BY <2>4 DEF UsersInv, OneCaller
    <3> QED
      BY <2>1, <2>2, <2>4, <3>1, <3>2, <1>t, SoleStep
  <2> QED
    BY <1>7, <2>3, <2>4, Zenon DEF Counts
<1>8. CASE UNCHANGED vars
  BY <1>1, <1>8 DEF vars
<1> QED
  BY <1>1, <1>2, <1>3, <1>4, <1>5, <1>6, <1>7, <1>8, Zenon DEF Next

(***************************************************************************)
(* The initial states, and the first theorems.                             *)
(***************************************************************************)

LEMMA PreInitHarmless == HarmlessSeq(rk818_pre_init)
<1> DEFINE sets == {Set(CHRG, 0..3, 0..2), Set(CHRG, 4..6, 4..6), Set(HDMI, {1}, {1}),
                    Set(HDMI, {0}, {0}), Set(INT_STS_MSK1, {5, 6}, {}), Set(RTC_INT, {3}, {3})}
           rmws == {Access("rmw", DCDC_EN, {}, {4, 5, 6}), Access("rmw", VB_MON, {0, 1, 2, 4}, {1}),
                    Access("rmw", INT_STS_MSK1, {}, {0}), Access("write", CLK32OUT, 0..7, {0}),
                    Access("rmw", SLEEP_SET_OFF1, {}, {4, 7})}
<1>1. /\ CHRG \in Nat \ {LDO_EN} /\ HDMI \in Nat \ {LDO_EN} /\ INT_STS_MSK1 \in Nat \ {LDO_EN}
      /\ RTC_INT \in Nat \ {LDO_EN} /\ DCDC_EN \in Nat \ {LDO_EN} /\ VB_MON \in Nat \ {LDO_EN}
      /\ CLK32OUT \in Nat \ {LDO_EN} /\ SLEEP_SET_OFF1 \in Nat \ {LDO_EN}
  BY DEF CHRG, HDMI, INT_STS_MSK1, RTC_INT, DCDC_EN, VB_MON, CLK32OUT, SLEEP_SET_OFF1, LDO_EN
<1>2. \A a \in sets : a \in Accesses /\ Harmless(a)
  BY <1>1 DEF Set, Access, Accesses, Harmless
<1>3. \A a \in rmws : a \in Accesses /\ Harmless(a)
  BY <1>1 DEF Access, Accesses, Harmless
<1> DEFINE good == {a \in Accesses : Harmless(a)}
<1>4. sets \subseteq good /\ rmws \subseteq good
  BY <1>2, <1>3
<1>5. rk818_pre_init \in Seq(sets \cup rmws)
  <2> DEFINE a1 == Set(CHRG, 0..3, 0..2)        a2 == Set(CHRG, 4..6, 4..6)
             a3 == Set(HDMI, {1}, {1})          a4 == Set(HDMI, {0}, {0})
             a5 == Access("rmw", DCDC_EN, {}, {4, 5, 6})
             a6 == Access("rmw", VB_MON, {0, 1, 2, 4}, {1})
             a7 == Access("rmw", INT_STS_MSK1, {}, {0})
             a8 == Access("write", CLK32OUT, 0..7, {0})
             a9 == Set(INT_STS_MSK1, {5, 6}, {}) b1 == Set(RTC_INT, {3}, {3})
             b2 == Access("rmw", SLEEP_SET_OFF1, {}, {4, 7})
             all == sets \cup rmws
  <2>1. /\ a1 \in all /\ a2 \in all /\ a3 \in all /\ a4 \in all /\ a5 \in all /\ a6 \in all
        /\ a7 \in all /\ a8 \in all /\ a9 \in all /\ b1 \in all /\ b2 \in all
    OBVIOUS
  <2>2. rk818_pre_init = <<a1, a2, a3, a4, a5, a6, a7, a8, a9, b1, b2>>
    BY DEF rk818_pre_init
  <2> HIDE DEF a1, a2, a3, a4, a5, a6, a7, a8, a9, b1, b2, all
  <2>3. <<a1, a2, a3, a4, a5, a6, a7, a8, a9, b1, b2>> \in Seq(all)
    BY <2>1
  <2> QED
    BY <2>2, <2>3 DEF all
<1> HIDE DEF sets, rmws
<1> DEFINE S == sets \cup rmws
<1>6. \A i \in 1..Len(rk818_pre_init) : rk818_pre_init[i] \in good
  <2>1. \A i \in 1..Len(rk818_pre_init) : rk818_pre_init[i] \in S
    BY <1>5, ElementOfSeq
  <2> QED
    BY <2>1, <1>4
<1>7. rk818_pre_init \in Seq(Accesses)
  BY <1>4, <1>5, SeqMonotonic
<1> QED
  BY <1>6, <1>7 DEF HarmlessSeq

LEMMA InitInv == Init => ChipInv /\ UsersInv
<1> SUFFICES ASSUME Init PROVE ChipInv /\ UsersInv
  OBVIOUS
<1>1. UsersInv
  <2>1. Holding = {}
    BY DEF Init, Holding
  <2> QED
    BY <2>1, FS_EmptySet DEF Init, UsersInv, DriverTypes, CountsUsers, OneCaller, States, Busy
<1>2. RkTypes
  <2>1. regs \in [Regs -> SUBSET (0..7)]
    BY Rk818Assumption DEF Init, RkInit
  <2>2. rk818_pre_init \in Seq(Accesses) /\ <<>> \in Seq(Accesses)
    BY PreInitHarmless, EmptySeq DEF HarmlessSeq
  <2>3. job \in [Threads -> Seq(Accesses)]
    BY <2>2 DEF Init, RkInit
  <2>4. /\ probe \in {"pre_init", "register", "failed", "up"} /\ todo \subseteq Outputs
        /\ registered \subseteq Outputs /\ lock \in Threads \cup {None}
        /\ at \in [Threads -> {"start", "write"}] /\ tmp \in [Threads -> SUBSET (0..7)] /\ events \in Nat
    BY DEF Init, RkInit
  <2>5. faulty \in BOOLEAN
    BY Zenon DEF Init, RkInit
  <2> QED
    BY <2>1, <2>3, <2>4, <2>5 DEF RkTypes
<1>3. AtWrite /\ LockHeld
  BY DEF Init, RkInit, AtWrite, LockHeld
<1> QED
  BY <1>1, <1>2, <1>3 DEF ChipInv

\* Every variable keeps its type; in particular no register ever holds more
\* than a byte and the use count never goes below zero.
THEOREM TypeCorrect == Spec => []TypeOK
<1>1. ChipInv /\ UsersInv => TypeOK
  BY DEF ChipInv, UsersInv, DriverTypes, States, TypeOK
<1> QED
  BY <1>1, InitInv, ChipInductive, UsersInductive, PTL DEF Spec

\* io_lock is only held between the read and the write of rk818_set_bits, and
\* what was read is then still in the register: no update is lost.
THEOREM LockProtects == Spec => []LockHeld
<1>1. ChipInv => LockHeld
  BY DEF ChipInv
<1> QED
  BY <1>1, InitInv, ChipInductive, PTL DEF Spec

\* The use count of the supply is the number of drivers that hold it.
THEOREM CountCorrect == Spec => []CountsUsers
<1>1. UsersInv => CountsUsers
  BY DEF UsersInv
<1> QED
  BY <1>1, InitInv, UsersInductive, PTL DEF Spec

(***************************************************************************)
(* The drivers and the chip implement SharedSupply.                        *)
(***************************************************************************)

On == SupplyBit \in regs[LDO_EN]

Enabling  == \E c \in Consumers : cons[c] = "enabling"
Disabling == \E c \in Consumers : cons[c] = "disabling"

\* Only the thread of the supply ever switches it, and only while the core
\* enables or disables it for a driver.
Programs ==
  /\ \A t \in Threads \ {Supply} : HarmlessSeq(job[t])
  /\ Enabling => job[Supply] \in {<<>>, ldo_enable(Ldo(Supply))}
  /\ Disabling => job[Supply] \in {<<>>, ldo_disable(Ldo(Supply))}
  /\ ~Enabling /\ ~Disabling => HarmlessSeq(job[Supply])

\* The supply is on for those who hold it and those about to.
Supplied ==
  ~faulty => /\ num_users > 0 /\ ~Disabling => On
             /\ Enabling /\ job[Supply] = <<>> => On

LEMMA OnIs == ASSUME RkTypes PROVE (SupplyOn <=> On) /\ LDO_EN \in Regs
<1>1. LDO_EN \in Regs
  BY DEF Regs
<1>2. Ldo(Supply) # 9 /\ LdoEnReg(Ldo(Supply)) = LDO_EN
  BY SupplyBits DEF Ldo
<1> QED
  BY <1>1, <1>2 DEF SupplyOn, ldo_is_enabled, On, SupplyBit

LEMMA HarmlessHead ==
  ASSUME NEW p, HarmlessSeq(p), p # <<>>
  PROVE  Harmless(Head(p)) /\ HarmlessSeq(Tail(p))
<1>1. p \in Seq(Accesses) /\ Len(p) \in Nat /\ Len(p) > 0 /\ Head(p) = p[1]
  BY HeadTailProperties, EmptySeq, LenProperties DEF HarmlessSeq
<1>2. /\ Tail(p) \in Seq(Accesses) /\ Len(Tail(p)) = Len(p) - 1
      /\ \A i \in 1..Len(Tail(p)) : Tail(p)[i] = p[i + 1]
  BY <1>1, HeadTailProperties
<1> QED
  BY <1>1, <1>2 DEF HarmlessSeq

\* An access that is over: what it did to the bit of the supply.
LEMMA EndBit ==
  ASSUME NEW t \in Threads, ChipInv, End(t), ~faulty'
  PROVE  /\ ~faulty
         /\ Harmless(First(t)) => (On' <=> On)
         /\ First(t) = Set(LDO_EN, {SupplyBit}, {SupplyBit}) => On'
         /\ First(t) = Set(LDO_EN, {SupplyBit}, {}) => ~On'
<1>1. UNCHANGED counts /\ ~faulty
  <2>1. counts' = counts
    BY Zenon DEF End, Fault
  <2>2. faulty' = faulty
    BY <2>1 DEF counts
  <2> QED
    BY <2>1, <2>2
<1>2. regs' = [r \in Regs |-> IF r = First(t).reg THEN Written(t) ELSE regs[r]]
  BY Zenon DEF End, Fault
<1>3. LDO_EN \in Regs /\ RkTypes
  BY OnIs DEF ChipInv
<1>4. First(t).reg # LDO_EN => regs'[LDO_EN] = regs[LDO_EN]
  BY <1>2, <1>3
<1>5. ASSUME First(t).reg = LDO_EN, First(t).kind = "set"
      PROVE  regs'[LDO_EN] = (regs[LDO_EN] \ First(t).mask) \cup First(t).val
  <2>1. lock = t /\ lock # None
    BY <1>5, NoThread DEF End, Held
  <2>2. tmp[t] = regs[LDO_EN]
    BY <2>1, <1>1, <1>3, <1>5 DEF ChipInv, LockHeld, Contents
  <2> QED
    BY <2>2, <1>2, <1>3, <1>5 DEF Written
<1>6. Harmless(First(t)) => (On' <=> On)
  BY <1>4, <1>5 DEF Harmless, On
<1>7. First(t) = Set(LDO_EN, {SupplyBit}, {SupplyBit}) => On'
  BY <1>5 DEF Set, Access, On
<1>8. First(t) = Set(LDO_EN, {SupplyBit}, {}) => ~On'
  BY <1>5 DEF Set, Access, On
<1> QED
  BY <1>1, <1>6, <1>7, <1>8

\* A step of another thread, or of the supply's while no driver waits for it.
LEMMA EndPrograms ==
  ASSUME NEW t \in Threads, ChipInv, Programs, End(t), UNCHANGED cons
  PROVE  /\ Programs'
         /\ t # Supply \/ (~Enabling /\ ~Disabling) => Harmless(First(t))
         /\ t = Supply /\ Enabling => First(t) = Set(LDO_EN, {SupplyBit}, {SupplyBit}) /\ job'[Supply] = <<>>
         /\ t = Supply /\ Disabling => First(t) = Set(LDO_EN, {SupplyBit}, {}) /\ job'[Supply] = <<>>
         /\ t # Supply => job'[Supply] = job[Supply]
<1>1. job[t] # <<>> /\ (job' = [job EXCEPT ![t] = Tail(@)] \/ job' = [job EXCEPT ![t] = <<>>])
  BY DEF End
<1>2. job \in [Threads -> Seq(Accesses)] /\ Supply \in Threads
  BY SupplyBits DEF ChipInv, RkTypes
<1>3. (Enabling' <=> Enabling) /\ (Disabling' <=> Disabling)
  BY DEF Enabling, Disabling
<1>4. job'[t] \in {Tail(job[t]), <<>>} /\ \A u \in Threads : u # t => job'[u] = job[u]
  BY <1>1, <1>2
<1>5. ASSUME HarmlessSeq(job[t]) PROVE Harmless(First(t)) /\ HarmlessSeq(job'[t])
  BY <1>1, <1>4, <1>5, HarmlessHead, NothingHarmless DEF First
<1>6. ASSUME NEW a \in Accesses, job[t] = <<a>> PROVE First(t) = a /\ job'[t] = <<>>
  <2>1. Head(<<a>>) = a /\ Tail(<<a>>) = <<>>
    OBVIOUS
  <2> QED
    BY <2>1, <1>4, <1>6 DEF First
<1>7. CASE t # Supply
  BY <1>3, <1>4, <1>5, <1>7, <1>2 DEF Programs
<1>8. CASE t = Supply /\ Enabling
  <2>1. job[t] = <<Set(LDO_EN, {SupplyBit}, {SupplyBit})>>
    BY <1>1, <1>8, SupplyPrograms DEF Programs
  <2>2. First(t) = Set(LDO_EN, {SupplyBit}, {SupplyBit}) /\ job'[t] = <<>>
    BY <2>1, <1>6, SupplyPrograms
  <2>3. ~Disabling \/ job[t] = <<Set(LDO_EN, {SupplyBit}, {})>>
    BY <1>1, <1>8, SupplyPrograms DEF Programs
  <2>4. Set(LDO_EN, {SupplyBit}, {SupplyBit}) # Set(LDO_EN, {SupplyBit}, {})
    BY DEF Set, Access
  <2>5. ~Disabling
    BY <2>2, <2>3, <2>4, <1>6, SupplyPrograms
  <2> QED
    BY <2>2, <2>5, <1>3, <1>4, <1>8 DEF Programs
<1>9. CASE t = Supply /\ Disabling /\ ~Enabling
  <2>1. job[t] = <<Set(LDO_EN, {SupplyBit}, {})>>
    BY <1>1, <1>9, SupplyPrograms DEF Programs
  <2>2. First(t) = Set(LDO_EN, {SupplyBit}, {}) /\ job'[t] = <<>>
    BY <2>1, <1>6, SupplyPrograms
  <2> QED
    BY <2>2, <1>3, <1>4, <1>9 DEF Programs
<1>10. CASE t = Supply /\ ~Enabling /\ ~Disabling
  BY <1>3, <1>4, <1>5, <1>10 DEF Programs
<1> QED
  BY <1>7, <1>8, <1>9, <1>10

\* A driver that is not called for, before or after the step.
LEMMA IdleStep ==
  ASSUME NEW c \in Consumers, NEW s \in States \ Busy, UsersInv, Becomes(c, s), cons[c] \notin Busy
  PROVE  (Enabling' <=> Enabling) /\ (Disabling' <=> Disabling)
<1>1. cons'[c] = s /\ \A d \in Consumers : d # c => cons'[d] = cons[d]
  BY HoldingStep DEF UsersInv
<1> QED
  BY <1>1 DEF Enabling, Disabling, Busy

\* The core begins to enable or disable the supply, and nobody else is.
LEMMA BusyStep ==
  ASSUME NEW c \in Consumers, NEW s \in Busy, UsersInv, Free, Becomes(c, s)
  PROVE  (Enabling' <=> s = "enabling") /\ (Disabling' <=> s = "disabling")
<1>1. cons'[c] = s /\ \A d \in Consumers : d # c => cons'[d] = cons[d]
  BY HoldingStep DEF UsersInv, Busy, States
<1> QED
  BY <1>1 DEF Enabling, Disabling, Busy, Free

\* The driver the core was busy for: there is no other.
LEMMA CountsStep ==
  ASSUME NEW c \in Consumers, UsersInv, Counts(c)
  PROVE  /\ ~Enabling' /\ ~Disabling' /\ UNCHANGED rkvars /\ job[Supply] = <<>>
         /\ \/ cons[c] = "enabling" /\ Becomes(c, "bound") /\ num_users' = num_users + 1 /\ ~Disabling
            \/ cons[c] = "disabling" /\ Becomes(c, "out") /\ num_users' = 0 /\ ~Enabling
<1>1. cons[c] \in Busy /\ \A d \in Consumers : d # c => cons[d] \notin Busy
  BY DEF UsersInv, OneCaller, Counts, Busy
<1>2. PICK s \in {"bound", "out"} : Becomes(c, s)
  BY DEF Counts
<1>3. cons'[c] = s /\ \A d \in Consumers : d # c => cons'[d] = cons[d]
  BY <1>2, HoldingStep DEF UsersInv, States
<1> QED
  BY <1>1, <1>3 DEF Enabling, Disabling, Busy, Counts

LEMMA SamePrograms ==
  ASSUME Programs, job' = job, Enabling' <=> Enabling, Disabling' <=> Disabling
  PROVE  Programs'
  BY DEF Programs

LEMMA ProgramsInductive ==
  ASSUME ChipInv, UsersInv, Programs, [Next]_vars
  PROVE  Programs'
<1>1. ASSUME job' = job, cons' = cons PROVE Programs'
  <2>1. (Enabling' <=> Enabling) /\ (Disabling' <=> Disabling)
    BY <1>1 DEF Enabling, Disabling
  <2> QED
    BY <1>1, <2>1, SamePrograms
<1>2. ASSUME ChipStep, UNCHANGED drivers PROVE Programs'
  <2>1. cons' = cons
    BY <1>2 DEF drivers
  <2>2. CASE ProbeGpio
    BY <2>1, <2>2, <1>1 DEF ProbeGpio, threads
  <2>3. ASSUME NEW o \in Outputs, Register(o) PROVE Programs'
    BY <2>1, <2>3, <1>1 DEF Register, threads
  <2>4. ASSUME NEW t \in Threads, Begin(t) PROVE Programs'
    BY <2>1, <2>4, <1>1 DEF Begin
  <2>5. ASSUME NEW t \in Threads, End(t) PROVE Programs'
    BY <2>1, <2>5, EndPrograms
  <2>6. ASSUME NEW o \in Outputs, Starts(o), o = Supply => Free PROVE Programs'
    <3>1. PICK p : HarmlessSeq(p) /\ job' = [job EXCEPT ![o] = p]
      BY <2>6 DEF Starts
    <3>2. job \in [Threads -> Seq(Accesses)] /\ o \in Threads /\ Supply \in Threads
      BY NoThread DEF ChipInv, RkTypes
    <3>3. job'[o] = p /\ \A u \in Threads : u # o => job'[u] = job[u]
      BY <3>1, <3>2
    <3>4. (Enabling' <=> Enabling) /\ (Disabling' <=> Disabling)
      BY <2>1 DEF Enabling, Disabling
    <3>5. o = Supply => ~Enabling /\ ~Disabling
      BY <2>6 DEF Free, Enabling, Disabling
    <3> QED
      BY <3>1, <3>2, <3>3, <3>4, <3>5 DEF Programs
  <2> QED
    BY <1>2, <2>2, <2>3, <2>4, <2>5, <2>6, StepCases, Zenon
<1>3. ASSUME NEW c \in Consumers, Load(c) \/ Unload(c) \/ remove(c) PROVE Programs'
  <2>1. PICK s \in States \ Busy : Becomes(c, s)
    BY <1>3, Zenon DEF Load, Unload, remove, States, Busy
  <2>2. job' = job /\ cons[c] \notin Busy
    BY <1>3 DEF Load, Unload, remove, rkvars, threads, Busy
  <2> QED
    BY <2>1, <2>2, IdleStep, SamePrograms
<1>4. ASSUME NEW c \in Consumers, Counts(c) PROVE Programs'
  <2>1. ~Enabling' /\ ~Disabling' /\ job' = job /\ job[Supply] = <<>>
    BY <1>4, CountsStep DEF rkvars, threads
  <2> QED
    BY <2>1, NothingHarmless DEF Programs
<1>5. ASSUME NEW c \in Consumers, NEW s \in Busy, Free, Becomes(c, s), NEW p,
             job' = [job EXCEPT ![Supply] = p],
             p = IF s = "enabling" THEN ldo_enable(Ldo(Supply)) ELSE ldo_disable(Ldo(Supply))
      PROVE  Programs'
  <2>1. (Enabling' <=> s = "enabling") /\ (Disabling' <=> s = "disabling")
    BY <1>5, BusyStep
  <2>2. job \in [Threads -> Seq(Accesses)] /\ Supply \in Threads
    BY NoThread DEF ChipInv, RkTypes
  <2>3. job'[Supply] = p /\ \A u \in Threads : u # Supply => job'[u] = job[u]
    BY <1>5, <2>2
  <2> QED
    BY <1>5, <2>1, <2>3 DEF Programs, Busy
<1>6. ASSUME NEW c \in Consumers, NEW s \in States \ Busy, Becomes(c, s), cons[c] \notin Busy, UNCHANGED rkvars
      PROVE  Programs'
  <2>1. job' = job
    BY <1>6 DEF rkvars, threads
  <2> QED
    BY <1>6, <2>1, IdleStep, SamePrograms
<1>7. ASSUME NEW c \in Consumers, regulator_enable(c) PROVE Programs'
  <2>1. CASE Becomes(c, "enabling") /\ Call(Supply, ldo_enable(Ldo(Supply)), "on", TRUE)
    <3>1. job' = [job EXCEPT ![Supply] = ldo_enable(Ldo(Supply))] /\ Free /\ "enabling" \in Busy
      BY <1>7, <2>1 DEF Call, regulator_enable, Busy
    <3> QED
      BY <2>1, <3>1, <1>5
  <2>2. CASE Becomes(c, "bound") /\ UNCHANGED rkvars
    <3>1. "bound" \in States \ Busy /\ cons[c] \notin Busy
      BY <1>7 DEF regulator_enable, States, Busy
    <3> QED
      BY <2>2, <3>1, <1>6
  <2> QED
    BY <1>7, <2>1, <2>2, Zenon DEF regulator_enable
<1>8. ASSUME NEW c \in Consumers, regulator_disable(c) PROVE Programs'
  <2>1. CASE Becomes(c, "disabling") /\ Call(Supply, ldo_disable(Ldo(Supply)), "on", FALSE)
    <3>1. /\ job' = [job EXCEPT ![Supply] = ldo_disable(Ldo(Supply))] /\ Free
          /\ "disabling" \in Busy /\ "disabling" # "enabling"
      BY <1>8, <2>1 DEF Call, regulator_disable, Busy
    <3> QED
      BY <2>1, <3>1, <1>5
  <2>2. CASE Becomes(c, "out") /\ UNCHANGED rkvars
    <3>1. "out" \in States \ Busy /\ cons[c] \notin Busy
      BY <1>8 DEF regulator_disable, States, Busy
    <3> QED
      BY <2>2, <3>1, <1>6
  <2> QED
    BY <1>8, <2>1, <2>2, Zenon DEF regulator_disable
<1>9. CASE UNCHANGED vars
  BY <1>9, <1>1 DEF vars, rkvars, threads, drivers
<1> QED
  BY <1>2, <1>3, <1>4, <1>7, <1>8, <1>9, Zenon DEF Next

\* A transfer error is never forgotten.
LEMMA FaultStays == ASSUME [Next]_vars PROVE faulty' = TRUE \/ faulty' = faulty
<1>1. ASSUME UNCHANGED counts PROVE faulty' = faulty
  BY <1>1 DEF counts
<1>2. ASSUME UNCHANGED rkvars PROVE faulty' = faulty
  BY <1>2 DEF rkvars, counts
<1>3. ASSUME Fault PROVE faulty' = TRUE
  BY <1>3 DEF Fault
<1>4. CASE ChipStep
  <2>1. CASE ProbeGpio
    BY <2>1, <1>1 DEF ProbeGpio, counts
  <2>2. ASSUME NEW o \in Outputs, Register(o) PROVE faulty' = faulty
    BY <2>2, <1>1 DEF Register, counts
  <2>3. ASSUME NEW t \in Threads, Begin(t) PROVE faulty' = TRUE \/ faulty' = faulty
    <3>1. UNCHANGED counts \/ UNCHANGED <<tmp, counts>> \/ Fault
      BY <2>3, Zenon DEF Begin, i2c_read
    <3>2. UNCHANGED counts \/ Fault
      BY <3>1
    <3> QED
      BY <3>2, <1>1, <1>3, Zenon
  <2>4. ASSUME NEW t \in Threads, End(t) PROVE faulty' = TRUE \/ faulty' = faulty
    BY <2>4, <1>1, <1>3, Zenon DEF End
  <2>5. CASE Core
    BY <2>5 DEF Core
  <2> QED
    BY <1>4, <2>1, <2>2, <2>3, <2>4, <2>5, StepCases, Zenon
<1>5. ASSUME NEW c \in Consumers, regulator_enable(c) PROVE faulty' = TRUE \/ faulty' = faulty
  BY <1>5, <1>1, <1>2, <1>3, Zenon DEF regulator_enable
<1>6. ASSUME NEW c \in Consumers, Load(c) \/ Unload(c) \/ remove(c) \/ regulator_disable(c) \/ Counts(c)
      PROVE  faulty' = faulty
  <2>1. UNCHANGED rkvars \/ UNCHANGED counts
    BY <1>6 DEF Load, Unload, remove, regulator_disable, Counts
  <2> QED
    BY <2>1, <1>1, <1>2
<1>7. CASE UNCHANGED vars
  BY <1>7, <1>2 DEF vars
<1> QED
  BY <1>4, <1>5, <1>6, <1>7, Zenon DEF Next

\* The steps of SharedSupply while no transfer has failed.
Bound == {c \in Consumers : cons[c] = "bound"}
Allowed ==
  \/ (On' <=> On) /\ Bound' = Bound
  \/ On' /\ Bound' = Bound
  \/ ~On' /\ Bound = {} /\ Bound' = Bound
  \/ \E c \in Consumers : On /\ (On' <=> On) /\ Bound' = Bound \cup {c}
  \/ \E c \in Consumers : (On' <=> On) /\ Bound' = Bound \ {c}

LEMMA NobodyElse ==
  ASSUME UsersInv, Disabling
  PROVE  Bound = {}
<1>1. PICK c \in Consumers : cons[c] = "disabling"
  BY DEF Disabling
<1>2. num_users = 1 /\ num_users = Cardinality(Holding)
  BY <1>1 DEF UsersInv, OneCaller, CountsUsers
<1>3. PICK x : Holding = {x}
  BY <1>2, HoldingFinite, FS_Singleton
<1>4. c \in Holding
  BY <1>1 DEF Holding
<1> QED
  BY <1>1, <1>3, <1>4 DEF Bound, Holding

LEMMA BoundStep ==
  ASSUME NEW c \in Consumers, NEW s \in States, UsersInv, Becomes(c, s)
  PROVE  Bound' = IF s = "bound" THEN Bound \cup {c} ELSE Bound \ {c}
<1>1. cons'[c] = s /\ \A d \in Consumers : d # c => cons'[d] = cons[d]
  BY HoldingStep DEF UsersInv
<1> QED
  BY <1>1 DEF Bound

LEMMA SuppliedStep ==
  ASSUME ChipInv, UsersInv, Programs, Supplied, [Next]_vars, ~faulty'
  PROVE  Supplied' /\ Allowed
<1>f. ~faulty
  BY FaultStays
<1>g. num_users \in Nat /\ cons \in [Consumers -> States]
  BY DEF UsersInv, DriverTypes
<1>1. ASSUME regs' = regs, cons' = cons, num_users' = num_users, Enabling => job'[Supply] = job[Supply]
      PROVE  Supplied' /\ Allowed
  BY <1>1, <1>f DEF Supplied, Allowed, On, Bound, Enabling, Disabling
<1>2. ASSUME NEW t \in Threads, End(t), UNCHANGED drivers PROVE Supplied' /\ Allowed
  <2>1. cons' = cons /\ num_users' = num_users
    BY <1>2 DEF drivers
  <2>2. (Enabling' <=> Enabling) /\ (Disabling' <=> Disabling) /\ Bound' = Bound
    BY <2>1 DEF Enabling, Disabling, Bound
  <2>3. CASE t # Supply
    <3>1. (On' <=> On) /\ job'[Supply] = job[Supply]
      BY <1>2, <2>1, <2>3, EndPrograms, EndBit
    <3> QED
      BY <3>1, <2>1, <2>2, <1>f DEF Supplied, Allowed
  <2>4. CASE t = Supply /\ Enabling
    <3>1. On'
      BY <1>2, <2>1, <2>4, EndPrograms, EndBit
    <3> QED
      BY <3>1, <2>1, <2>2 DEF Supplied, Allowed
  <2>5. CASE t = Supply /\ Disabling /\ ~Enabling
    <3>1. ~On' /\ Bound = {}
      BY <1>2, <2>1, <2>5, EndPrograms, EndBit, NobodyElse
    <3> QED
      BY <3>1, <2>1, <2>2, <2>5 DEF Supplied, Allowed
  <2>6. CASE t = Supply /\ ~Disabling /\ ~Enabling
    <3>1. On' <=> On
      BY <1>2, <2>1, <2>6, EndPrograms, EndBit
    <3> QED
      BY <3>1, <2>1, <2>2, <2>6, <1>f DEF Supplied, Allowed
  <2> QED
    BY <2>3, <2>4, <2>5, <2>6
<1>3. ASSUME ChipStep, UNCHANGED drivers PROVE Supplied' /\ Allowed
  <2>1. cons' = cons /\ num_users' = num_users
    BY <1>3 DEF drivers
  <2>2. CASE ProbeGpio
    BY <2>1, <2>2, <1>1 DEF ProbeGpio, threads
  <2>3. ASSUME NEW o \in Outputs, Register(o) PROVE Supplied' /\ Allowed
    BY <2>1, <2>3, <1>1 DEF Register, threads
  <2>4. ASSUME NEW t \in Threads, Begin(t) PROVE Supplied' /\ Allowed
    BY <2>1, <2>4, <1>1 DEF Begin, chip
  <2>5. ASSUME NEW o \in Outputs, Starts(o), o = Supply => Free PROVE Supplied' /\ Allowed
    <3>1. regs' = regs /\ \E q : job' = [job EXCEPT ![o] = q]
      BY <2>5 DEF Starts, chip
    <3>2. o # Supply => job'[Supply] = job[Supply]
      BY <3>1, NoThread DEF ChipInv, RkTypes
    <3>3. o = Supply => ~Enabling
      BY <2>5 DEF Free, Enabling
    <3> QED
      BY <2>1, <3>1, <3>2, <3>3, <1>1
  <2> QED
    BY <1>3, <2>2, <2>3, <2>4, <2>5, <1>2, StepCases, Zenon
<1>4. ASSUME NEW c \in Consumers, NEW s \in States \ Busy, Becomes(c, s), cons[c] \notin Busy,
             UNCHANGED rkvars, num_users' = num_users, s # "bound"
      PROVE  Supplied' /\ Allowed
  <2>1. (Enabling' <=> Enabling) /\ (Disabling' <=> Disabling)
    BY <1>4, IdleStep
  <2>2. Bound' = Bound \ {c}
    BY <1>4, BoundStep
  <2>3. regs' = regs /\ job' = job
    BY <1>4 DEF rkvars, chip, threads
  <2>4. On' <=> On
    BY <2>3 DEF On
  <2> QED
    BY <1>4, <2>1, <2>2, <2>3, <2>4, <1>f DEF Supplied, Allowed
<1>5. ASSUME NEW c \in Consumers, Load(c) \/ Unload(c) \/ remove(c) PROVE Supplied' /\ Allowed
  <2>1. PICK s \in {"probing", "unbound", "out", "removing"} : Becomes(c, s)
    BY <1>5, Zenon DEF Load, Unload, remove
  <2>2. UNCHANGED rkvars /\ cons[c] \notin Busy /\ num_users' = num_users
    BY <1>5 DEF Load, Unload, remove, Busy
  <2>3. s \in States \ Busy /\ s # "bound"
    BY <2>1 DEF States, Busy
  <2> QED
    BY <2>1, <2>2, <2>3, <1>4
<1>6. ASSUME NEW c \in Consumers, NEW s \in Busy, Free, Becomes(c, s), cons[c] # "bound",
             regs' = regs, num_users' = num_users, job'[Supply] # <<>>,
             s = "enabling" => num_users = 0
      PROVE  Supplied' /\ Allowed
  <2>1. (Enabling' <=> s = "enabling") /\ (Disabling' <=> s = "disabling") /\ s \in States
    BY <1>6, BusyStep DEF Busy, States
  <2>2. Bound' = Bound
    BY <1>6, <2>1, BoundStep DEF Bound, Busy
  <2>3. On' <=> On
    BY <1>6 DEF On
  <2> QED
    BY <1>6, <1>g, <2>1, <2>2, <2>3, <1>f DEF Supplied, Allowed, Busy
<1>7. ASSUME NEW c \in Consumers, regulator_enable(c) PROVE Supplied' /\ Allowed
  <2>1. CASE num_users = 0 /\ Becomes(c, "enabling") /\ num_users' = num_users
             /\ Call(Supply, ldo_enable(Ldo(Supply)), "on", TRUE)
    <3>1. regs' = regs /\ job' = [job EXCEPT ![Supply] = ldo_enable(Ldo(Supply))]
      BY <2>1 DEF Call, chip
    <3>2. job'[Supply] = <<Set(LDO_EN, {SupplyBit}, {SupplyBit})>>
      BY <3>1, SupplyPrograms, NoThread DEF ChipInv, RkTypes
    <3>3. job'[Supply] # <<>>
      BY <3>2
    <3>4. Free /\ cons[c] # "bound" /\ "enabling" \in Busy
      BY <1>7 DEF regulator_enable, Busy
    <3> QED
      BY <2>1, <3>1, <3>3, <3>4, <1>6
  <2>2. CASE /\ num_users > 0 \/ SupplyOn
             /\ num_users' = num_users + 1 /\ Becomes(c, "bound") /\ UNCHANGED rkvars
    <3>1. ~Enabling /\ ~Disabling /\ cons[c] \notin Busy /\ "bound" \in States \ Busy
      BY <1>7 DEF regulator_enable, Free, Enabling, Disabling, Busy, States
    <3>2. On
      BY <2>2, <3>1, <1>f, OnIs DEF Supplied, ChipInv
    <3>3. regs' = regs /\ job' = job
      BY <2>2 DEF rkvars, chip, threads
    <3>4. On'
      BY <3>2, <3>3 DEF On
    <3>5. Bound' = Bound \cup {c}
      BY <2>2, <3>1, BoundStep
    <3> QED
      BY <3>2, <3>4, <3>5 DEF Supplied, Allowed
  <2>3. \/ /\ num_users = 0 /\ Becomes(c, "enabling") /\ num_users' = num_users
           /\ Call(Supply, ldo_enable(Ldo(Supply)), "on", TRUE)
        \/ /\ num_users > 0 \/ SupplyOn
           /\ num_users' = num_users + 1 /\ Becomes(c, "bound") /\ UNCHANGED rkvars
    BY <1>7, Zenon DEF regulator_enable
  <2> QED
    BY <2>1, <2>2, <2>3
<1>8. ASSUME NEW c \in Consumers, regulator_disable(c) PROVE Supplied' /\ Allowed
  <2>1. CASE LastUser /\ Becomes(c, "disabling") /\ num_users' = num_users
             /\ Call(Supply, ldo_disable(Ldo(Supply)), "on", FALSE)
    <3>1. regs' = regs /\ job' = [job EXCEPT ![Supply] = ldo_disable(Ldo(Supply))]
      BY <2>1 DEF Call, chip
    <3>2. job'[Supply] = <<Set(LDO_EN, {SupplyBit}, {})>>
      BY <3>1, SupplyPrograms, NoThread DEF ChipInv, RkTypes
    <3>3. job'[Supply] # <<>>
      BY <3>2
    <3>4. Free /\ cons[c] # "bound" /\ "disabling" \in Busy
      BY <1>8 DEF regulator_disable, Busy
    <3> QED
      BY <2>1, <3>1, <3>3, <3>4, <1>6
  <2>2. CASE num_users' = num_users - 1 /\ Becomes(c, "out") /\ UNCHANGED rkvars
    <3>1. ~Enabling /\ ~Disabling /\ cons[c] = "removing" /\ "out" \in States \ Busy /\ cons[c] \notin Busy
      BY <1>8 DEF regulator_disable, Free, Enabling, Disabling, Busy, States
    <3>2. num_users > 0 => On
      BY <3>1, <1>f DEF Supplied
    <3>3. regs' = regs /\ job' = job
      BY <2>2 DEF rkvars, chip, threads
    <3>4. On' <=> On
      BY <3>3 DEF On
    <3>5. Bound' = Bound \ {c}
      BY <2>2, <3>1, BoundStep
    <3>6. ~Enabling'
      BY <2>2, <3>1, IdleStep
    <3> QED
      BY <2>2, <3>2, <3>4, <3>5, <3>6, <1>g DEF Supplied, Allowed
  <2>3. \/ /\ LastUser /\ Becomes(c, "disabling") /\ num_users' = num_users
           /\ Call(Supply, ldo_disable(Ldo(Supply)), "on", FALSE)
        \/ num_users' = num_users - 1 /\ Becomes(c, "out") /\ UNCHANGED rkvars
    BY <1>8 DEF regulator_disable
  <2> QED
    BY <2>1, <2>2, <2>3
<1>9. ASSUME NEW c \in Consumers, Counts(c) PROVE Supplied' /\ Allowed
  <2>1. ~Enabling' /\ ~Disabling' /\ UNCHANGED rkvars /\ job[Supply] = <<>>
    BY <1>9, CountsStep
  <2>2. regs' = regs /\ (On' <=> On)
    BY <2>1 DEF rkvars, chip, On
  <2>3. CASE cons[c] = "enabling" /\ Becomes(c, "bound")
    <3>1. On
      BY <2>1, <2>3, <1>f DEF Supplied, Enabling
    <3>2. Bound' = Bound \cup {c}
      BY <2>3, BoundStep DEF States
    <3> QED
      BY <2>1, <2>2, <3>1, <3>2 DEF Supplied, Allowed
  <2>4. CASE cons[c] = "disabling" /\ Becomes(c, "out") /\ num_users' = 0
    <3>1. Bound' = Bound \ {c}
      BY <2>4, BoundStep DEF States
    <3> QED
      BY <2>1, <2>2, <2>4, <3>1 DEF Supplied, Allowed
  <2> QED
    BY <1>9, <2>3, <2>4, CountsStep
<1>10. CASE UNCHANGED vars
  BY <1>10, <1>1 DEF vars, rkvars, chip, threads, drivers
<1> QED
  BY <1>3, <1>5, <1>7, <1>8, <1>9, <1>10, Zenon DEF Next

LEMMA Simulation ==
  ASSUME ChipInv, UsersInv, Programs, Supplied, [Next]_vars
  PROVE  [Shared!Next]_<<Bound, SupplyOn, faulty>>
<1>1. CASE faulty' = TRUE
  BY <1>1, Zenon DEF Shared!Next
<1>2. CASE ~(faulty' = TRUE)
  <2>1. ~faulty' /\ faulty' = faulty
    BY <1>2, FaultStays DEF ChipInv, RkTypes
  <2>2. Allowed
    BY <2>1, SuppliedStep
  <2>3. (SupplyOn <=> On) /\ (SupplyOn' <=> On')
    <3>1. Ldo(Supply) # 9 /\ LdoEnReg(Ldo(Supply)) = LDO_EN
      BY SupplyBits DEF Ldo
    <3> QED
      BY <3>1 DEF SupplyOn, ldo_is_enabled, On, SupplyBit
  <2>4. SupplyOn \in BOOLEAN /\ SupplyOn' \in BOOLEAN
    BY Zenon DEF SupplyOn, ldo_is_enabled
  <2> HIDE DEF SupplyOn, On, Bound
  <2> QED
    BY <2>1, <2>2, <2>3, <2>4
       DEF Allowed, Bound, Shared!Next, Shared!SwitchOn, Shared!SwitchOff, Shared!Use, Shared!Release
<1> QED
  BY <1>1, <1>2

\* Drivers, use count and chip together implement the shared supply: while no
\* transfer has failed it is on whenever a driver is bound to it, and is only
\* switched off when none is, whatever the other outputs are asked to do.
THEOREM SupplyRefinement == Spec => ImplementsSharedSupply
<1>1. Init => Programs /\ Supplied
  <2> SUFFICES ASSUME Init PROVE Programs /\ Supplied
    OBVIOUS
  <2>1. ~Enabling /\ ~Disabling /\ num_users = 0
    BY DEF Init, Enabling, Disabling
  <2>2. \A t \in Threads : HarmlessSeq(job[t])
    BY NothingHarmless, PreInitHarmless DEF Init, RkInit
  <2>3. Supply \in Threads
    BY NoThread
  <2> QED
    BY <2>1, <2>2, <2>3 DEF Programs, Supplied
<1>2. Init => Shared!Init
  <2> SUFFICES ASSUME Init PROVE Shared!Init
    OBVIOUS
  <2>1. {c \in Consumers : cons[c] = "bound"} = {}
    BY DEF Init
  <2>2. SupplyOn \in BOOLEAN
    BY Zenon DEF SupplyOn, ldo_is_enabled
  <2>3. faulty = FALSE
    BY DEF Init, RkInit
  <2> QED
    BY <2>1, <2>2, <2>3, Zenon DEF Shared!Init
<1> DEFINE Inv == ChipInv /\ UsersInv /\ Programs /\ Supplied
<1>3. Inv /\ [Next]_vars => Inv'
  <2> SUFFICES ASSUME Inv, [Next]_vars PROVE Inv'
    OBVIOUS
  <2>1. ChipInv' /\ UsersInv' /\ Programs'
    BY ChipInductive, UsersInductive, ProgramsInductive
  <2>2. Supplied'
    BY SuppliedStep DEF Supplied
  <2> QED
    BY <2>1, <2>2
<1>4. Inv /\ [Next]_vars => [Shared!Next]_<<Bound, SupplyOn, faulty>>
  BY Simulation
<1>5. Init => Inv
  BY <1>1, InitInv
<1> QED
  BY <1>2, <1>3, <1>4, <1>5, PTL DEF Spec, ImplementsSharedSupply, Shared!Spec, Bound

(***************************************************************************)
(* Selectors: the bits that are written for a number give that number when *)
(* they are read back (NumberIs: Number, a fold, is the sum of the bits).  *)
(***************************************************************************)

Worth(s) ==
  (IF 0 \in s THEN 1 ELSE 0) + (IF 1 \in s THEN 2 ELSE 0) + (IF 2 \in s THEN 4 ELSE 0)
  + (IF 3 \in s THEN 8 ELSE 0) + (IF 4 \in s THEN 16 ELSE 0) + (IF 5 \in s THEN 32 ELSE 0)

LEMMA Powers == 2^0 = 1 /\ 2^1 = 2 /\ 2^2 = 4 /\ 2^3 = 8 /\ 2^4 = 16 /\ 2^5 = 32 /\ 2^6 = 64 /\ 2^7 = 128
  OBVIOUS

LEMMA WorthStep ==
  ASSUME NEW s \in SUBSET (0..5), NEW x \in s
  PROVE  Worth(s) = 2^x + Worth(s \ {x}) /\ Worth(s) \in Nat
<1> DEFINE r == s \ {x}
<1>1. \A y : y \in r <=> y \in s /\ y # x
  OBVIOUS
<1>2. x \in {0, 1, 2, 3, 4, 5}
  OBVIOUS
<1> HIDE DEF r
<1>3. Worth(s) = 2^x + Worth(r)
  <2>1. CASE x = 0
    BY <1>1, <2>1, Powers DEF Worth
  <2>2. CASE x = 1
    BY <1>1, <2>2, Powers DEF Worth
  <2>3. CASE x = 2
    BY <1>1, <2>3, Powers DEF Worth
  <2>4. CASE x = 3
    BY <1>1, <2>4, Powers DEF Worth
  <2>5. CASE x = 4
    BY <1>1, <2>5, Powers DEF Worth
  <2>6. CASE x = 5
    BY <1>1, <2>6, Powers DEF Worth
  <2> QED
    BY <1>2, <2>1, <2>2, <2>3, <2>4, <2>5, <2>6
<1> QED
  BY <1>3 DEF Worth, r

LEMMA NumberIs == ASSUME NEW S \in SUBSET (0..5) PROVE Number(S) = Worth(S)
<1> DEFINE pick(s) == CHOOSE x \in s : TRUE
           F(f) == [s \in SUBSET S |-> IF s = {} THEN 0 ELSE 2^pick(s) + f[s \ {pick(s)}]]
           sum  == CHOOSE f : f = F(f)
           W == [s \in SUBSET S |-> Worth(s)]
<1>1. Number(S) = sum[S]
  BY DEF Number, MapThenSumSet, MapThenFoldSet
<1>2. \A s \in SUBSET S : s # {} => pick(s) \in s
  OBVIOUS
<1> HIDE DEF pick
<1>3. W = F(W)
  <2> SUFFICES ASSUME NEW s \in SUBSET S
               PROVE  Worth(s) = IF s = {} THEN 0 ELSE 2^pick(s) + W[s \ {pick(s)}]
    BY DEF W, F
  <2>1. CASE s = {}
    BY <2>1 DEF Worth
  <2>2. CASE s # {}
    <3>1. Worth(s) = 2^pick(s) + Worth(s \ {pick(s)})
      BY <1>2, <2>2, WorthStep
    <3>2. s \ {pick(s)} \in SUBSET S
      OBVIOUS
    <3> QED
      BY <3>1, <3>2, <2>2 DEF W
  <2> QED
    BY <2>1, <2>2
<1>4. sum = F(sum)
  <2> HIDE DEF F, W
  <2> QED
  BY <1>3, Zenon
<1> HIDE DEF sum
<1>5. \A s \in SUBSET S : sum[s] = IF s = {} THEN 0 ELSE 2^pick(s) + sum[s \ {pick(s)}]
  BY <1>4, Zenon DEF F
<1>e. sum[{}] = Worth({})
  <2>1. sum[{}] = 0
    BY <1>5, Zenon
  <2>2. Worth({}) = 0
    BY DEF Worth
  <2> QED
    BY <2>1, <2>2
<1>6. IsFiniteSet(S) /\ \A s \in SUBSET S : IsFiniteSet(s) /\ Cardinality(s) \in 0..6
  <2>1. IsFiniteSet(0..5) /\ Cardinality(0..5) = 6
    <3>1. 0 \in Int /\ 5 \in Int
      OBVIOUS
    <3>2. IsFiniteSet(0..5) /\ Cardinality(0..5) = IF 0 > 5 THEN 0 ELSE 5 - 0 + 1
      BY <3>1, FS_Interval, Zenon
    <3> QED
      BY <3>2
  <2>2. ASSUME NEW s \in SUBSET (0..5) PROVE IsFiniteSet(s) /\ Cardinality(s) \in 0..6
    <3>1. IsFiniteSet(s) /\ Cardinality(s) <= Cardinality(0..5)
      BY <2>1, FS_Subset, Zenon
    <3>2. Cardinality(s) \in Nat
      BY <3>1, FS_CardinalityType
    <3> QED
      BY <2>1, <3>1, <3>2
  <2> QED
    BY <2>2
<1> DEFINE Upto(k) == \A s \in SUBSET S : Cardinality(s) <= k => sum[s] = Worth(s)
<1>7. Upto(0)
  <2> SUFFICES ASSUME NEW s \in SUBSET S, Cardinality(s) <= 0 PROVE sum[s] = Worth(s)
    OBVIOUS
  <2>0. IsFiniteSet(s) /\ Cardinality(s) = 0
    BY <1>6
  <2>1. s = {}
    BY <2>0, FS_EmptySet
  <2> QED
    BY <2>1, <1>e
<1>8. ASSUME NEW k \in Nat, Upto(k) PROVE Upto(k + 1)
  <2> SUFFICES ASSUME NEW s \in SUBSET S, Cardinality(s) <= k + 1, s # {} PROVE sum[s] = Worth(s)
    BY <1>e
  <2> DEFINE x == pick(s)
  <2>1. x \in s
    BY <1>2
  <2>2. Cardinality(s \ {x}) <= k
    BY <2>1, <1>6, FS_RemoveElement
  <2>3. sum[s \ {x}] = Worth(s \ {x})
    BY <2>2, <1>8
  <2>4. sum[s] = 2^x + sum[s \ {x}]
    BY <1>5
  <2> QED
    BY <2>1, <2>3, <2>4, WorthStep
<1> HIDE DEF Upto
<1>9. Upto(6)
  <2>1. Upto(1)
    BY <1>7, <1>8
  <2>2. Upto(2)
    BY <2>1, <1>8
  <2>3. Upto(3)
    BY <2>2, <1>8
  <2>4. Upto(4)
    BY <2>3, <1>8
  <2>5. Upto(5)
    BY <2>4, <1>8
  <2> QED
    BY <2>5, <1>8
<1> QED
  BY <1>1, <1>6, <1>9 DEF Upto

\* The driver writes a selector as bits; what is read back is the selector.
LEMMA ReadBack ==
  ASSUME NEW n \in 0..63
  PROVE  /\ Bits(n) \in SUBSET (0..5) /\ Number(Bits(n)) = n
         /\ n < 32 => Bits(n) \in SUBSET (0..4)
<1>1. \A i \in 0..7 : i \in Bits(n) <=> (n \div 2^i) % 2 = 1
  BY DEF Bits
<1>2. Bits(n) \in SUBSET (0..7)
  BY DEF Bits
<1>3. /\ 0 \in Bits(n) <=> n % 2 = 1
      /\ 1 \in Bits(n) <=> (n \div 2) % 2 = 1
      /\ 2 \in Bits(n) <=> (n \div 4) % 2 = 1
      /\ 3 \in Bits(n) <=> (n \div 8) % 2 = 1
      /\ 4 \in Bits(n) <=> (n \div 16) % 2 = 1
      /\ 5 \in Bits(n) <=> (n \div 32) % 2 = 1
      /\ 6 \in Bits(n) <=> (n \div 64) % 2 = 1
      /\ 7 \in Bits(n) <=> (n \div 128) % 2 = 1
  <2>1. n \div 1 = n
    OBVIOUS
  <2> QED
    BY <1>1, <2>1, Powers
<1>4. n \div 64 = 0 /\ n \div 128 = 0 /\ (n < 32 => n \div 32 = 0)
  OBVIOUS
<1>5. 6 \notin Bits(n) /\ 7 \notin Bits(n) /\ (n < 32 => 5 \notin Bits(n))
  BY <1>3, <1>4
<1>6. Bits(n) \in SUBSET (0..5) /\ (n < 32 => Bits(n) \in SUBSET (0..4))
  BY <1>2, <1>5
<1>7. /\ n % 2 \in {0, 1} /\ (n \div 2) % 2 \in {0, 1} /\ (n \div 4) % 2 \in {0, 1}
      /\ (n \div 8) % 2 \in {0, 1} /\ (n \div 16) % 2 \in {0, 1} /\ (n \div 32) % 2 \in {0, 1}
  OBVIOUS
<1>8. (n % 2) + 2 * ((n \div 2) % 2) + 4 * ((n \div 4) % 2) + 8 * ((n \div 8) % 2)
      + 16 * ((n \div 16) % 2) + 32 * ((n \div 32) % 2) = n
  OBVIOUS
<1>9. Worth(Bits(n)) = n
  BY <1>3, <1>7, <1>8 DEF Worth
<1> QED
  BY <1>6, <1>9, NumberIs

(***************************************************************************)
(* Voltages: the selector that an operation computes is that of the        *)
(* voltage the output should get.                                          *)
(***************************************************************************)

LEMMA MinIs == ASSUME NEW S \in SUBSET Int, NEW x \in S, \A y \in S : x <= y PROVE Min(S) = x
<1> DEFINE m == Min(S)
<1>1. m \in S /\ \A y \in S : m <= y
  BY Zenon DEF Min
<1> HIDE DEF m
<1>2. m \in Int /\ x \in Int /\ m <= x /\ x <= m
  BY <1>1
<1>3. m = x
  BY <1>2
<1> QED
  BY <1>3 DEF m

LEMMA MaxIs == ASSUME NEW S \in SUBSET Int, NEW x \in S, \A y \in S : x >= y PROVE Max(S) = x
<1> DEFINE m == Max(S)
<1>1. m \in S /\ \A y \in S : m >= y
  BY Zenon DEF Max
<1> HIDE DEF m
<1>2. m \in Int /\ x \in Int /\ m <= x /\ x <= m
  BY <1>1
<1>3. m = x
  BY <1>2
<1> QED
  BY <1>3 DEF m

LEMMA MinExists ==
  ASSUME NEW S \in SUBSET Nat, S # {}
  PROVE  Min(S) \in S /\ \A y \in S : Min(S) <= y
<1>1. PICK x \in S : \A y \in S : ~(<<y, x>> \in OpToRel(<, Nat))
  BY NatLessThanWellFounded, WFMin
<1>2. \A y \in S : ~(y < x)
  BY <1>1 DEF OpToRel
<1>3. \A y \in S : x <= y
  BY <1>2
<1> QED
  BY <1>3, MinIs

LdoTop(l) == CASE l = 2 -> 15 [] l \in {5, 6} -> 17 [] OTHER -> 16

LEMMA LdoTable ==
  ASSUME NEW l \in 0..8
  PROVE  /\ LdoTop(l) \in 15..17 /\ (l = 8 => LdoTop(l) = 16)
         /\ DOMAIN LdoMap(l) = 0..LdoTop(l)
         /\ \A i \in 0..LdoTop(l) : LdoMap(l)[i] \in Nat
         /\ \A i, j \in 0..LdoTop(l) : i < j => LdoMap(l)[i] < LdoMap(l)[j]
<1>1. CASE l = 2
  BY <1>1 DEF LdoTop, LdoMap
<1>2. CASE l \in {5, 6}
  BY <1>2 DEF LdoTop, LdoMap
<1>3. CASE l \notin {2, 5, 6}
  <2>1. LdoTop(l) = 16 /\ LdoMap(l) = [i \in 0..16 |-> 1800 + 100 * i]
    BY <1>3 DEF LdoTop, LdoMap
  <2> QED
    BY <1>3, <2>1
<1> QED
  BY <1>1, <1>2, <1>3

\* An LDO gets the least voltage of its table that is not below the request.
LEMMA LdoVoltage ==
  ASSUME NEW l \in 0..8, NEW uV \in Nat, uV % 1000 = 0, LdoInRange(l, uV)
  PROVE  /\ LdoSelect(l, uV) \in 0..LdoTop(l)
         /\ Nearest(l + 4, uV) = 1000 * LdoMap(l)[LdoSelect(l, uV)]
<1> DEFINE top == LdoTop(l)
           map == LdoMap(l)
           mV  == uV \div 1000
           S   == {i \in 0..top : map[i] >= mV}
           x   == Min(S)
<1>1. /\ top \in 15..17 /\ DOMAIN map = 0..top /\ \A i \in 0..top : map[i] \in Nat
      /\ \A i, j \in 0..top : i < j => map[i] < map[j]
  BY LdoTable
<1>2. mV \in Nat /\ uV = 1000 * mV
  OBVIOUS
<1>3. Cardinality(0..top) - 1 = top
  <2>1. 0 \in Int /\ top \in Int
    BY <1>1
  <2>2. Cardinality(0..top) = IF 0 > top THEN 0 ELSE top - 0 + 1
    BY <2>1, FS_Interval, Zenon
  <2> QED
    BY <1>1, <2>2
<1>4. mV <= map[top]
  BY <1>1, <1>3 DEF LdoInRange
<1> HIDE DEF top, map, mV
<1>5. top \in S /\ S \in SUBSET Nat
  BY <1>1, <1>2, <1>4
<1>6. x \in S /\ \A y \in S : x <= y
  BY <1>5, MinExists
<1>7. LdoSelect(l, uV) = x
  BY <1>1 DEF LdoSelect, map, mV
<1>8. x \in 0..top /\ map[x] >= mV /\ \A i \in 0..top : map[i] >= mV => map[x] <= map[i]
  <2>1. x \in 0..top /\ map[x] >= mV
    BY <1>6
  <2>2. ASSUME NEW i \in 0..top, map[i] >= mV PROVE map[x] <= map[i]
    <3>1. x <= i
      BY <1>6, <2>2
    <3>2. x = i \/ map[x] < map[i]
      BY <3>1, <2>1, <1>1
    <3> QED
      BY <3>2, <2>1, <1>1
  <2> QED
    BY <2>1, <2>2
<1> HIDE DEF x, S
<1> DEFINE ldo == ldo_list_voltage(l)
           V   == {ldo[i] : i \in {j \in DOMAIN ldo : ldo[j] >= uV}}
<1>9. DOMAIN ldo = 0..top /\ \A i \in 0..top : ldo[i] = 1000 * map[i] /\ (ldo[i] >= uV <=> map[i] >= mV)
  <2>1. DOMAIN ldo = 0..top /\ \A i \in 0..top : ldo[i] = 1000 * map[i]
    BY <1>1 DEF ldo_list_voltage, map
  <2>2. \A i \in 0..top : ldo[i] >= uV <=> map[i] >= mV
    BY <2>1, <1>1, <1>2
  <2> QED
    BY <2>1, <2>2
<1> HIDE DEF ldo
<1>10. 1000 * map[x] \in V /\ V \in SUBSET Int /\ \A v \in V : 1000 * map[x] <= v
  <2>1. 1000 * map[x] \in V
    BY <1>8, <1>9
  <2>2. ASSUME NEW v \in V PROVE v \in Int /\ 1000 * map[x] <= v
    <3>1. PICK i \in 0..top : v = ldo[i] /\ ldo[i] >= uV
      BY <1>9
    <3>2. v = 1000 * map[i] /\ map[x] <= map[i]
      BY <3>1, <1>8, <1>9
    <3> QED
      BY <3>1, <3>2, <1>1, <1>8
  <2> QED
    BY <2>1, <2>2
<1> HIDE DEF V
<1>11. Min(V) = 1000 * map[x]
  <2> DEFINE w == 1000 * map[x]
  <2>1. w \in V /\ V \in SUBSET Int /\ \A v \in V : w <= v
    BY <1>10
  <2> HIDE DEF w
  <2>2. Min(V) = w
    BY <2>1, MinIs
  <2> QED
    BY <2>2 DEF w
<1>12. Nearest(l + 4, uV) = Min(V)
  <2>1. IsLdo(l + 4) /\ Ldo(l + 4) = l
    BY DEF IsLdo, Ldo
  <2> QED
    BY <2>1, Zenon DEF Nearest, V, ldo
<1> QED
  BY <1>7, <1>8, <1>11, <1>12 DEF map, top

\* A DCDC gets the greatest of its voltages that is not above the request.
BuckLeast(b) == IF b = 3 THEN 1800000 ELSE 712500
BuckMost(b)  == IF b = 3 THEN 3300000 ELSE 1500000
BuckStep(b)  == IF b = 3 THEN 100000 ELSE 12500

LEMMA BuckNumbers ==
  ASSUME NEW b \in {0, 1, 3}, NEW uV \in Nat, BuckLeast(b) <= uV, uV <= BuckMost(b)
  PROVE  LET vsel == (uV - BuckLeast(b)) \div BuckStep(b)
         IN  /\ vsel \in 0..63 /\ BuckLeast(b) + vsel * BuckStep(b) <= uV
             /\ uV < BuckLeast(b) + (vsel + 1) * BuckStep(b)
<1>1. CASE b = 3
  <2>1. /\ BuckLeast(b) = 1800000 /\ BuckMost(b) = 3300000 /\ BuckStep(b) = 100000
        /\ uV - 1800000 \in Nat /\ uV - 1800000 <= 1500000 /\ uV \in Nat
    BY <1>1, SMT DEF BuckLeast, BuckMost, BuckStep
  <2>2. \A d \in Nat : d <= 1500000 => /\ d \div 100000 \in 0..63 /\ (d \div 100000) * 100000 <= d
                                       /\ d < (d \div 100000 + 1) * 100000
    BY SMT
  <2> QED
    BY <2>1, <2>2, SMT
<1>2. CASE b # 3
  BY <1>2, SMT DEF BuckLeast, BuckMost, BuckStep
<1> QED
  BY <1>1, <1>2, SMT

LEMMA BuckList ==
  ASSUME NEW b \in {0, 1, 3}
  PROVE  /\ BuckLeast(b) \in Nat /\ BuckStep(b) \in Nat /\ BuckStep(b) > 0 /\ BuckMost(b) \in Nat
         /\ \A i \in Nat : dcdc_list_voltage(b, i) = BuckLeast(b) + i * BuckStep(b)
         /\ BuckMost(b) = IF b = 3 THEN 3300000 ELSE 1500000
<1>1. CASE b = 3
  BY <1>1, SMT DEF BuckLeast, BuckStep, BuckMost, dcdc_list_voltage
<1>2. CASE b # 3
  BY <1>2, SMT DEF BuckLeast, BuckStep, BuckMost, dcdc_list_voltage
<1> QED
  BY <1>1, <1>2, SMT

LEMMA BuckSelect ==
  ASSUME NEW b \in {0, 1, 3}, NEW uV \in Nat, BuckLeast(b) <= uV, uV <= BuckMost(b)
  PROVE  dcdc_select_min_voltage(b, uV, uV) = (uV - BuckLeast(b)) \div BuckStep(b)
<1> DEFINE least == BuckLeast(b)  step == BuckStep(b)
           vsel == (uV - least) \div step
<1>1. /\ least \in Nat /\ step \in Nat
      /\ \A i \in Nat : dcdc_list_voltage(b, i) = least + i * step
      /\ BuckMost(b) = IF b = 3 THEN 3300000 ELSE 1500000
  BY BuckList, SMT
<1>2. vsel \in 0..63 /\ least + vsel * step <= uV
  BY BuckNumbers, SMT
<1> HIDE DEF least, step
<1>3. dcdc_list_voltage(b, 0) = least /\ dcdc_list_voltage(b, 1) - dcdc_list_voltage(b, 0) = step
  BY <1>1, SMT
<1>4. dcdc_list_voltage(b, vsel) <= uV
  BY <1>1, <1>2, SMT
<1>5. ~(uV < least) /\ ~(uV > IF b = 3 THEN 3300000 ELSE 1500000)
  BY <1>1, SMT DEF least
<1>6. ~(dcdc_list_voltage(b, vsel) > uV)
  BY <1>1, <1>2, <1>4, SMT
<1> HIDE DEF vsel
<1>7. vsel = (uV - dcdc_list_voltage(b, 0)) \div (dcdc_list_voltage(b, 1) - dcdc_list_voltage(b, 0))
  BY <1>3, SMT DEF vsel
<1>8. dcdc_select_min_voltage(b, uV, uV) = vsel
  BY <1>3, <1>5, <1>6, <1>7, SMT DEF dcdc_select_min_voltage
<1> QED
  BY <1>8, SMT DEF vsel, least, step

LEMMA BuckVoltage ==
  ASSUME NEW b \in {0, 1, 3}, NEW uV \in Nat, BuckLeast(b) <= uV, uV <= BuckMost(b)
  PROVE  /\ dcdc_select_min_voltage(b, uV, uV) \in 0..63
         /\ Nearest(b, uV) = dcdc_list_voltage(b, dcdc_select_min_voltage(b, uV, uV))
<1> DEFINE least == BuckLeast(b)  step == BuckStep(b)
           vsel  == (uV - least) \div step
           V     == {v \in {dcdc_list_voltage(b, i) : i \in 0..63} : v <= uV}
<1>1. /\ least \in Nat /\ step \in Nat /\ step > 0 /\ uV \in Nat
      /\ \A i \in Nat : dcdc_list_voltage(b, i) = least + i * step
  BY BuckList
<1>3. vsel \in 0..63 /\ least + vsel * step <= uV /\ uV < least + (vsel + 1) * step
  BY BuckNumbers
<1>4. dcdc_select_min_voltage(b, uV, uV) = vsel
  BY BuckSelect
<1> HIDE DEF least, step, vsel
<1>5. dcdc_list_voltage(b, vsel) \in V
  BY <1>1, <1>3
<1>6. ASSUME NEW v \in V PROVE v \in Int /\ dcdc_list_voltage(b, vsel) >= v
  <2>1. PICK i \in 0..63 : v = least + i * step /\ v <= uV
    BY <1>1
  <2>2. i <= vsel
    <3>1. i * step < (vsel + 1) * step
      BY <2>1, <1>1, <1>3
    <3>2. ASSUME i >= vsel + 1 PROVE FALSE
      <4>1. i * step >= (vsel + 1) * step
        BY <3>2, <1>1, <1>3
      <4> QED
        BY <3>1, <4>1, <1>1, <1>3
    <3> QED
      BY <3>2, <1>3
  <2>3. i * step <= vsel * step
    BY <2>2, <1>1, <1>3
  <2> QED
    BY <2>1, <2>3, <1>1, <1>3
<1>7. Max(V) = dcdc_list_voltage(b, vsel)
  <2>1. V \in SUBSET Int
    BY <1>6
  <2> HIDE DEF V
  <2> QED
    BY <2>1, <1>5, <1>6, MaxIs
<1>8. Nearest(b, uV) = Max(V)
  BY DEF Nearest, IsLdo
<1> QED
  BY <1>3, <1>4, <1>7, <1>8

(***************************************************************************)
(* The fields of the outputs: the register and the bits of a switch, a     *)
(* voltage or a mode, and what they say.  Those of two fields are apart.   *)
(***************************************************************************)

Fields(o) ==
  {"on", "sleep_off"} \cup (IF o = 13 THEN {} ELSE {"uV", "sleep_uV"})
                      \cup (IF IsLdo(o) THEN {} ELSE {"mode", "sleep_mode"})
FieldReg(o, f) ==
  CASE f = "on"             -> IF IsLdo(o) THEN LdoEnReg(Ldo(o)) ELSE DCDC_EN
    [] f = "sleep_off"      -> IF IsLdo(o) THEN LdoSlpReg(Ldo(o)) ELSE SLEEP_SET_OFF1
    [] f \in {"uV", "mode"} -> IF IsLdo(o) THEN LdoVol(Ldo(o)) ELSE BuckVol(o)
    [] f = "sleep_uV"       -> IF IsLdo(o) THEN LdoSlp(Ldo(o)) ELSE BuckSlp(o)
    [] f = "sleep_mode"     -> BuckVol(o) + 1
FieldMask(o, f) ==
  CASE f \in {"on", "sleep_off"}    -> {IF IsLdo(o) THEN LdoBit(Ldo(o)) ELSE o}
    [] f \in {"uV", "sleep_uV"}     -> IF IsLdo(o) THEN LdoMask(Ldo(o)) ELSE VolMask
    [] f \in {"mode", "sleep_mode"} -> {7}

\* The bits that an operation may change: switching LDO9 or LDO10 off sets
\* bit 0 too.
FieldFoot(o, f) ==
  FieldMask(o, f) \cup IF o \in {12, 13} /\ f = "on" /\ o \notin AlwaysOn THEN {0} ELSE {}

\* What a byte says about a field, and what the register says.
Shows(o, f, s) ==
  CASE f = "on"                       -> IF IsLdo(o) THEN Ldo(o) # 9 /\ LdoBit(Ldo(o)) \in s ELSE o \in s
    [] f = "sleep_off"                -> IF IsLdo(o) THEN LdoBit(Ldo(o)) \in s ELSE o \in s
    [] f \in {"uV", "sleep_uV"}       -> IF IsLdo(o) THEN LdoVolts(Ldo(o), s) ELSE BuckVolts(o, s)
    [] f \in {"mode", "sleep_mode"}   -> IF 7 \in s THEN "fast" ELSE "normal"
Shown(o, f) == IF IsLdo(o) THEN LdoIs(Ldo(o), f) ELSE DcdcIs(o, f)

\* The outputs that the code does not disturb itself: DCDC3's sleep mode is not
\* written where it is read, LDO10 always reads as off, and switching LDO9 or
\* LDO10 off switches DCDC1 on.
Reliable ==
  {o \in Outputs : o \notin {2, 13} /\ (o = 0 => Outputs \cap {12, 13} \subseteq AlwaysOn)}

\* Whole millivolts are asked of the LDOs: their tables have no others.
WholeMillivolts == \A o \in Outputs : IsLdo(o) => \A uV \in Requests[o] : uV % 1000 = 0

LEMMA OutputCases ==
  ASSUME NEW o \in Outputs
  PROVE  /\ o \in 0..13 /\ (IsLdo(o) <=> o >= 4)
         /\ IsLdo(o) => Ldo(o) \in 0..9 /\ Ldo(o) = o - 4
         /\ ~IsLdo(o) => o \in {0, 1, 2, 3}
         /\ o \in Reliable => o # 2 /\ o # 13
  BY Rk818Assumption DEF Reliable, IsLdo, Ldo

LEMMA FieldCases ==
  ASSUME NEW o \in Outputs, NEW f \in Fields(o)
  PROVE  /\ f \in {"on", "uV", "sleep_off", "sleep_uV", "mode", "sleep_mode"}
         /\ IsLdo(o) => f \notin {"mode", "sleep_mode"}
         /\ o = 13 => f \in {"on", "sleep_off"}
  BY OutputCases DEF Fields

LEMMA BuckRegs ==
  /\ BuckVol(0) = 47 /\ BuckVol(1) = 51 /\ BuckVol(2) = 54 /\ BuckVol(3) = 56
  /\ BuckSlp(0) = 48 /\ BuckSlp(1) = 52 /\ BuckSlp(2) = 54 /\ BuckSlp(3) = 57
  BY DEF BuckVol, BuckSlp

LEMMA FieldTypes ==
  ASSUME NEW o \in Outputs, NEW f \in Fields(o)
  PROVE  /\ FieldReg(o, f) \in Nat /\ FieldReg(o, f) \in Regs
         /\ FieldMask(o, f) \in SUBSET (0..7) /\ FieldFoot(o, f) \in SUBSET (0..7)
<1>0. /\ o \in 0..13 /\ (IsLdo(o) => Ldo(o) \in 0..9 /\ Ldo(o) = o - 4)
      /\ (~IsLdo(o) => o \in {0, 1, 2, 3}) /\ (IsLdo(o) <=> o >= 4)
  BY OutputCases
<1>r. /\ {DCDC_EN, LDO_EN, SLEEP_SET_OFF1, SLEEP_SET_OFF2} \subseteq Regs
      /\ IsLdo(o) /\ o # 13 => LdoVol(Ldo(o)) \in Regs /\ LdoSlp(Ldo(o)) \in Regs
      /\ ~IsLdo(o) => BuckVol(o) \in Regs /\ BuckSlp(o) \in Regs /\ BuckVol(o) + 1 \in Regs
  <2> DEFINE Own(p) == CASE p = 13 -> {BuckVol(3)}
                         [] p \in 4..12 -> {LdoVol(Ldo(p)), LdoSlp(Ldo(p))}
                         [] OTHER -> {BuckVol(p), BuckSlp(p), BuckVol(p) + 1}
  <2>1. Own(o) \subseteq Regs /\ {DCDC_EN, LDO_EN, SLEEP_SET_OFF1, SLEEP_SET_OFF2} \subseteq Regs
    BY Zenon DEF Regs
  <2>2. IsLdo(o) /\ o # 13 => Own(o) = {LdoVol(Ldo(o)), LdoSlp(Ldo(o))}
    BY <1>0
  <2>3. ~IsLdo(o) => Own(o) = {BuckVol(o), BuckSlp(o), BuckVol(o) + 1}
    BY <1>0
  <2> HIDE DEF Own
  <2> QED
    BY <2>1, <2>2, <2>3
<1>n. /\ DCDC_EN \in Nat /\ LDO_EN \in Nat /\ SLEEP_SET_OFF1 \in Nat /\ SLEEP_SET_OFF2 \in Nat
      /\ IsLdo(o) => LdoVol(Ldo(o)) \in Nat /\ LdoSlp(Ldo(o)) \in Nat
      /\ ~IsLdo(o) => BuckVol(o) \in Nat /\ BuckSlp(o) \in Nat /\ BuckVol(o) + 1 \in Nat
  BY <1>0, Registers DEF DCDC_EN, LDO_EN, SLEEP_SET_OFF1, SLEEP_SET_OFF2
<1>f. /\ f \in {"on", "uV", "sleep_off", "sleep_uV", "mode", "sleep_mode"}
      /\ IsLdo(o) => f \notin {"mode", "sleep_mode"}
      /\ o = 13 => f \in {"on", "sleep_off"}
  BY FieldCases
<1>1. FieldReg(o, f) \in Nat /\ FieldReg(o, f) \in Regs
  BY <1>r, <1>n, <1>f DEF FieldReg, LdoEnReg, LdoSlpReg
<1>2. FieldMask(o, f) \in SUBSET (0..7)
  <2>1. IsLdo(o) => LdoBit(Ldo(o)) \in 0..7
    BY <1>0 DEF LdoBit
  <2> QED
    BY <1>0, <1>f, <2>1, BitsTypes DEF FieldMask
<1>3. FieldFoot(o, f) \in SUBSET (0..7)
  BY <1>2 DEF FieldFoot
<1> QED
  BY <1>1, <1>2, <1>3

LEMMA ShownIs ==
  ASSUME NEW o \in Reliable, NEW f \in Fields(o)
  PROVE  Shown(o, f) = Shows(o, f, regs[FieldReg(o, f)])
<1>o. o \in Outputs
  BY DEF Reliable
<1>0. (IsLdo(o) => Ldo(o) # 9) /\ (~IsLdo(o) => o \in {0, 1, 3})
  BY <1>o, OutputCases
<1>f. /\ f \in {"on", "uV", "sleep_off", "sleep_uV", "mode", "sleep_mode"}
      /\ IsLdo(o) => f \notin {"mode", "sleep_mode"}
  BY <1>o, FieldCases
<1>1. CASE IsLdo(o)
  <2>1. CASE f = "on"
    BY <2>1, <1>1, Zenon DEF Shown, Shows, FieldReg, LdoIs, ldo_is_enabled
  <2>2. CASE f = "uV"
    BY <2>2, <1>1, <1>0 DEF Shown, Shows, FieldReg, LdoIs, ldo_get_voltage
  <2>3. CASE f = "sleep_off"
    BY <2>3, <1>1, Zenon DEF Shown, Shows, FieldReg, LdoIs
  <2>4. CASE f = "sleep_uV"
    BY <2>4, <1>1 DEF Shown, Shows, FieldReg, LdoIs
  <2> QED
    BY <1>f, <1>1, <2>1, <2>2, <2>3, <2>4
<1>2. CASE ~IsLdo(o)
  <2>1. CASE f = "on"
    BY <2>1, <1>2, Zenon DEF Shown, Shows, FieldReg, DcdcIs, dcdc_is_enabled
  <2>2. CASE f = "uV"
    BY <2>2, <1>2 DEF Shown, Shows, FieldReg, DcdcIs, dcdc_get_voltage
  <2>3. CASE f = "sleep_off"
    BY <2>3, <1>2, Zenon DEF Shown, Shows, FieldReg, DcdcIs
  <2>4. CASE f = "sleep_uV"
    BY <2>4, <1>2 DEF Shown, Shows, FieldReg, DcdcIs
  <2>5. CASE f = "mode"
    BY <2>5, <1>2 DEF Shown, Shows, FieldReg, DcdcIs, dcdc_get_mode
  <2>6. CASE f = "sleep_mode"
    <3>1. BuckVol(o) + 1 = BuckSlp(o)
      BY <1>0, <1>2, BuckRegs
    <3> QED
      BY <2>6, <1>2, <3>1 DEF Shown, Shows, FieldReg, DcdcIs
  <2> QED
    BY <1>f, <2>1, <2>2, <2>3, <2>4, <2>5, <2>6
<1> QED
  BY <1>1, <1>2

\* Only the bits of a field say anything about it.
LEMMA ShowsMask ==
  ASSUME NEW o, NEW f \in {"on", "uV", "sleep_off", "sleep_uV", "mode", "sleep_mode"}, NEW s, NEW t,
         \A i \in FieldMask(o, f) : i \in s <=> i \in t
  PROVE  Shows(o, f, s) = Shows(o, f, t)
<1> DEFINE bit == IF IsLdo(o) THEN LdoBit(Ldo(o)) ELSE o
<1>1. CASE f \in {"on", "sleep_off"}
  <2>1. bit \in s <=> bit \in t
    BY <1>1 DEF FieldMask
  <2>2. CASE f = "on" /\ IsLdo(o)
    <3> DEFINE P(u) == Ldo(o) # 9 /\ LdoBit(Ldo(o)) \in u
    <3>1. Shows(o, f, s) = P(s) /\ Shows(o, f, t) = P(t)
      BY <2>2, Zenon DEF Shows
    <3>2. P(s) <=> P(t)
      BY <2>1, <2>2, Zenon
    <3>3. P(s) \in BOOLEAN /\ P(t) \in BOOLEAN
      BY Zenon
    <3> HIDE DEF P
    <3> QED
      BY <3>1, <3>2, <3>3
  <2>3. CASE f = "on" /\ ~IsLdo(o)
    BY <2>1, <2>3, SMT DEF Shows
  <2>4. "sleep_off" # "on"
    OBVIOUS
  <2>5. CASE f = "sleep_off" /\ IsLdo(o)
    BY <2>1, <2>4, <2>5, SMT DEF Shows
  <2>6. CASE f = "sleep_off" /\ ~IsLdo(o)
    BY <2>1, <2>4, <2>6, SMT DEF Shows
  <2> QED
    BY <1>1, <2>2, <2>3, <2>5, <2>6
<1>2. CASE f \in {"uV", "sleep_uV"}
  <2>1. CASE IsLdo(o)
    <3>1. s \cap LdoMask(Ldo(o)) = t \cap LdoMask(Ldo(o))
      BY <1>2, <2>1 DEF FieldMask
    <3>2. LdoVolts(Ldo(o), s) = LdoVolts(Ldo(o), t)
      BY <3>1 DEF LdoVolts
    <3> QED
      BY <1>2, <2>1, <3>2 DEF Shows
  <2>2. CASE ~IsLdo(o)
    <3>1. s \cap VolMask = t \cap VolMask
      BY <1>2, <2>2 DEF FieldMask
    <3>2. BuckVolts(o, s) = BuckVolts(o, t)
      BY <3>1 DEF BuckVolts
    <3> QED
      BY <1>2, <2>2, <3>2 DEF Shows
  <2> QED
    BY <2>1, <2>2
<1>3. CASE f \in {"mode", "sleep_mode"}
  BY <1>3 DEF Shows, FieldMask
<1> QED
  BY <1>1, <1>2, <1>3

\* No operation touches the bits of another field, of its output or another.
LEMMA FieldsApart ==
  ASSUME NEW o \in Outputs, NEW f \in Fields(o), NEW p \in Reliable, NEW g \in Fields(p),
         o # p \/ f # g, FieldReg(o, f) = FieldReg(p, g)
  PROVE  FieldFoot(o, f) \cap FieldMask(p, g) = {}
<1>o. /\ o \in 0..13 /\ (IsLdo(o) <=> o >= 4) /\ (IsLdo(o) => Ldo(o) = o - 4)
      /\ ~IsLdo(o) => o \in {0, 1, 2, 3}
  BY OutputCases
<1>p. /\ p \in Outputs /\ p \in 0..13 /\ p # 2 /\ p # 13 /\ (IsLdo(p) <=> p >= 4)
      /\ (IsLdo(p) => Ldo(p) = p - 4) /\ (~IsLdo(p) => p \in {0, 1, 2, 3})
  <2>1. p \in Outputs
    BY DEF Reliable
  <2> QED
    BY <2>1, OutputCases
<1>f. /\ f \in {"on", "uV", "sleep_off", "sleep_uV", "mode", "sleep_mode"}
      /\ IsLdo(o) => f \notin {"mode", "sleep_mode"}
      /\ o = 13 => f \in {"on", "sleep_off"}
  BY FieldCases
<1>g. /\ g \in {"on", "uV", "sleep_off", "sleep_uV", "mode", "sleep_mode"}
      /\ IsLdo(p) => g \notin {"mode", "sleep_mode"}
  BY <1>p, FieldCases
<1> DEFINE Low(x, k) ==   \* the register of a switch or a sleep switch
      CASE k = "on" /\ x \in 4..11        -> 36 [] k = "on" /\ x \notin 4..11        -> 35
        [] k = "sleep_off" /\ x \in 4..11 -> 38 [] k = "sleep_off" /\ x \notin 4..11 -> 37
           Vol(x) == CASE x = 0 -> 47 [] x = 1 -> 51 [] x = 2 -> 54 [] x = 3 -> 56
                       [] x = 12 -> 84 [] x \in 4..11 -> 51 + 2 * x
           Slp(x) == IF x = 2 THEN 54 ELSE Vol(x) + 1
<1>1. ASSUME NEW x \in 0..13, IsLdo(x) <=> x >= 4, IsLdo(x) => Ldo(x) = x - 4,
             ~IsLdo(x) => x \in {0, 1, 2, 3},
             NEW k \in {"on", "uV", "sleep_off", "sleep_uV", "mode", "sleep_mode"},
             IsLdo(x) => k \notin {"mode", "sleep_mode"}, x = 13 => k \in {"on", "sleep_off"}
      PROVE  /\ k \in {"on", "sleep_off"} => FieldReg(x, k) = Low(x, k)
             /\ k \in {"uV", "mode"} => FieldReg(x, k) = Vol(x)
             /\ k = "sleep_uV" => FieldReg(x, k) = Slp(x)
             /\ k = "sleep_mode" => FieldReg(x, k) = Vol(x) + 1
  <2>1. CASE IsLdo(x)
    BY <2>1, <1>1 DEF FieldReg, LdoEnReg, LdoSlpReg, LdoVol, LdoSlp, DCDC_EN, LDO_EN,
      SLEEP_SET_OFF1, SLEEP_SET_OFF2
  <2>2. CASE ~IsLdo(x)
    BY <2>2, <1>1, BuckRegs DEF FieldReg, DCDC_EN, LDO_EN, SLEEP_SET_OFF1, SLEEP_SET_OFF2
  <2> QED
    BY <2>1, <2>2
<1>v. \A x \in 0..12 : /\ x = 0 => Vol(x) = 47 /\ Slp(x) = 48
                       /\ x = 1 => Vol(x) = 51 /\ Slp(x) = 52
                       /\ x = 2 => Vol(x) = 54 /\ Slp(x) = 54
                       /\ x = 3 => Vol(x) = 56 /\ Slp(x) = 57
                       /\ x = 12 => Vol(x) = 84 /\ Slp(x) = 85
                       /\ x \in 4..11 => Vol(x) = 51 + 2 * x /\ Slp(x) = 52 + 2 * x
  OBVIOUS
<1>l. \A x, k : k \in {"on", "sleep_off"} => Low(x, k) \in 35..38
  OBVIOUS
<1>2. CASE f \in {"on", "sleep_off"}
  <2>1. g = f /\ o # p /\ (o \in 4..11 <=> p \in 4..11)
    BY <1>2, <1>o, <1>p, <1>f, <1>g, <1>1
  <2>2. FieldMask(o, f) = {IF o = 13 THEN 6 ELSE IF o = 12 THEN 5 ELSE IF o >= 4 THEN o - 4 ELSE o}
    BY <1>2, <1>o DEF FieldMask, LdoBit
  <2>3. FieldMask(p, g) = {IF p = 12 THEN 5 ELSE IF p >= 4 THEN p - 4 ELSE p}
    BY <1>2, <2>1, <1>p DEF FieldMask, LdoBit
  <2>4. o \in {12, 13} /\ o \notin AlwaysOn => p # 0
    BY DEF Reliable
  <2> QED
    BY <1>o, <1>p, <2>1, <2>2, <2>3, <2>4 DEF FieldFoot
<1> HIDE DEF Vol, Slp, Low
<1>x. o # 13 => Vol(o) # Vol(p) + 1
  <2> SUFFICES ASSUME o \in 0..12, Vol(o) = Vol(p) + 1 PROVE FALSE
    BY <1>o
  <2>1. CASE o \in 4..11 /\ p \in 4..11
    BY <2>1, <1>v
  <2>2. CASE o \in 4..11 /\ p \notin 4..11
    BY <2>2, <1>p, <1>v
  <2>3. CASE o \notin 4..11 /\ p \in 4..11
    BY <2>3, <1>v
  <2>4. CASE o \notin 4..11 /\ p \notin 4..11
    BY <2>4, <1>p, <1>v
  <2> QED
    BY <2>1, <2>2, <2>3, <2>4
<1>3. CASE f \in {"uV", "mode"}
  <2>1. g \in {"uV", "mode"} /\ Vol(o) = Vol(p)
    <3>1. FieldReg(o, f) = Vol(o) /\ o # 13
      BY <1>3, <1>o, <1>f, <1>1
    <3>2. CASE g \in {"on", "sleep_off"}
      <4>1. FieldReg(p, g) \in 35..38
        BY <3>2, <1>p, <1>g, <1>1, <1>l
      <4>2. Vol(o) \in Nat /\ Vol(o) >= 47
        BY <3>1, <1>o, <1>v
      <4> QED
        BY <3>1, <4>1, <4>2
    <3>3. CASE g \in {"sleep_uV", "sleep_mode"}
      <4>1. FieldReg(p, g) = Vol(p) + 1
        BY <3>3, <1>p, <1>g, <1>1, <1>v
      <4> QED
        BY <3>1, <4>1, <1>x
    <3>4. CASE g \in {"uV", "mode"}
      BY <3>1, <3>4, <1>p, <1>g, <1>1
    <3> QED
      BY <3>2, <3>3, <3>4, <1>g
  <2>2. o = p
    BY <2>1, <1>o, <1>p, <1>f, <1>3, <1>v
  <2>3. ~IsLdo(o)
    BY <1>3, <2>1, <2>2, <1>f, <1>g
  <2> QED
    BY <1>3, <2>1, <2>2, <2>3, <1>o DEF FieldFoot, FieldMask, VolMask
<1>4. CASE f \in {"sleep_uV", "sleep_mode"}
  <2>0. FieldReg(o, f) \in {Slp(o), Vol(o) + 1} /\ o # 13
    BY <1>4, <1>o, <1>f, <1>1
  <2>1. g \in {"sleep_uV", "sleep_mode"} /\ FieldReg(p, g) = Vol(p) + 1
    <3>2. CASE g \in {"on", "sleep_off"}
      BY <2>0, <3>2, <1>o, <1>p, <1>g, <1>1, <1>v, <1>l
    <3>3. CASE g \in {"uV", "mode"}
      <4>1. FieldReg(p, g) = Vol(p)
        BY <3>3, <1>p, <1>g, <1>1, <1>v
      <4> QED
        BY <2>0, <4>1, <1>o, <1>p, <1>v
    <3>4. CASE g \in {"sleep_uV", "sleep_mode"}
      BY <3>4, <1>p, <1>g, <1>1, <1>v
    <3> QED
      BY <3>2, <3>3, <3>4, <1>g
  <2>2. o = p
    BY <2>0, <2>1, <1>o, <1>p, <1>v
  <2>3. ~IsLdo(o)
    BY <1>4, <2>1, <2>2, <1>f, <1>g
  <2> QED
    BY <1>4, <2>1, <2>2, <2>3, <1>o DEF FieldFoot, FieldMask, VolMask
<1> QED
  BY <1>f, <1>2, <1>3, <1>4

(***************************************************************************)
(* The operations: each is a program that writes one field, and leaves it  *)
(* as it was asked.                                                        *)
(***************************************************************************)

\* The program of an operation that sets field f to w: nothing, or one access
\* to the field, once or twice.
Uniform(p, a) == p \in Seq(Accesses) /\ \A i \in 1..Len(p) : p[i] = a
Writes(o, f, v) == Set(FieldReg(o, f), FieldMask(o, f), v)
Proper(o, p, f, w) ==
  p # <<>> => /\ f \in Fields(o)
              /\ \E v \in SUBSET FieldFoot(o, f) :
                   (o \in Reliable => Shows(o, f, v) = w) /\ Uniform(p, Writes(o, f, v))
Asks(o) == \E p, f, w : Proper(o, p, f, w) /\ Call(o, p, f, w)

LEMMA OneProper ==
  ASSUME NEW o \in Outputs, NEW f \in Fields(o), NEW v \in SUBSET FieldFoot(o, f), NEW w,
         o \in Reliable => Shows(o, f, v) = w
  PROVE  LET a == Writes(o, f, v) IN Proper(o, <<a>>, f, w) /\ Proper(o, <<a, a>>, f, w)
<1> DEFINE a == Writes(o, f, v)
<1>1. a \in Accesses
  <2>1. FieldReg(o, f) \in Nat /\ FieldMask(o, f) \in SUBSET (0..7) /\ v \in SUBSET (0..7)
    BY FieldTypes
  <2> QED
    BY <2>1 DEF Writes, Set, Access, Accesses
<1> HIDE DEF a
<1>2. <<a>> \in Seq(Accesses) /\ <<a, a>> \in Seq(Accesses)
  BY <1>1
<1>3. Len(<<a>>) = 1 /\ Len(<<a, a>>) = 2 /\ <<a>>[1] = a /\ <<a, a>>[1] = a /\ <<a, a>>[2] = a
  OBVIOUS
<1>4. \A i \in 1..2 : i = 1 \/ i = 2
  OBVIOUS
<1>5. Uniform(<<a>>, a) /\ Uniform(<<a, a>>, a)
  BY <1>2, <1>3, <1>4 DEF Uniform
<1> HIDE DEF Uniform
<1>6. Proper(o, <<a>>, f, w) /\ Proper(o, <<a, a>>, f, w)
  BY <1>5, Zenon DEF Proper, a
<1> QED
  BY <1>6 DEF a

LEMMA NothingProper == \A o, f, w : Proper(o, <<>>, f, w)
  BY DEF Proper

LEMMA LdoProper ==
  ASSUME WholeMillivolts, NEW o \in Outputs, IsLdo(o)
  PROVE  /\ Proper(o, ldo_enable(Ldo(o)), "on", TRUE)
         /\ o \notin AlwaysOn => Proper(o, ldo_disable(Ldo(o)), "on", FALSE)
         /\ Proper(o, ldo_suspend_enable(Ldo(o)), "sleep_off", FALSE)
         /\ Proper(o, ldo_suspend_disable(Ldo(o)), "sleep_off", TRUE)
         /\ \A uV \in Requests[o] :
              /\ Proper(o, ldo_set_voltage(Ldo(o), uV), "uV", Nearest(o, uV))
              /\ Proper(o, ldo_set_sleep_voltage(Ldo(o), uV), "sleep_uV", Nearest(o, uV))
<1> DEFINE l == Ldo(o)
           bit == LdoBit(l)
<1>0. l \in 0..9 /\ o = l + 4 /\ (l = 8 <=> o = 12) /\ (l = 9 <=> o = 13) /\ (o \in Reliable => l # 9)
  BY OutputCases
<1>f. /\ "on" \in Fields(o) /\ "sleep_off" \in Fields(o)
      /\ o # 13 => "uV" \in Fields(o) /\ "sleep_uV" \in Fields(o)
      /\ "sleep_off" # "on"
  BY DEF Fields
<1>r. /\ FieldReg(o, "on") = LdoEnReg(l) /\ FieldReg(o, "sleep_off") = LdoSlpReg(l)
      /\ FieldReg(o, "uV") = LdoVol(l) /\ FieldReg(o, "sleep_uV") = LdoSlp(l)
      /\ FieldMask(o, "on") = {bit} /\ FieldMask(o, "sleep_off") = {bit}
      /\ FieldMask(o, "uV") = LdoMask(l) /\ FieldMask(o, "sleep_uV") = LdoMask(l)
  BY DEF FieldReg, FieldMask
<1>b. \A f : FieldMask(o, f) \subseteq FieldFoot(o, f)
  BY DEF FieldFoot
<1>1. Proper(o, ldo_enable(l), "on", TRUE)
  <2>1. o \in Reliable => Shows(o, "on", {bit}) = TRUE
    <3>1. Shows(o, "on", {bit}) = (l # 9 /\ bit \in {bit})
      BY Zenon DEF Shows
    <3> QED
      BY <3>1, <1>0, Zenon
  <2>2. {bit} \in SUBSET FieldFoot(o, "on")
    BY <1>b, <1>r
  <2>3. ldo_enable(l) = <<Writes(o, "on", {bit})>>
    BY <1>r DEF ldo_enable, Writes
  <2> QED
    BY <2>1, <2>2, <2>3, <1>f, OneProper, Zenon
<1>2. ASSUME o \notin AlwaysOn PROVE Proper(o, ldo_disable(l), "on", FALSE)
  <2> DEFINE v == IF l \in {8, 9} THEN {0} ELSE {}
  <2>1. Shows(o, "on", v) = FALSE
    <3>1. Shows(o, "on", v) = (l # 9 /\ bit \in v)
      BY Zenon DEF Shows
    <3>2. bit \notin v
      BY <1>0 DEF LdoBit
    <3> QED
      BY <3>1, <3>2, Zenon
  <2>2. v \in SUBSET FieldFoot(o, "on")
    BY <1>0, <1>2 DEF FieldFoot
  <2>3. ldo_disable(l) = <<Writes(o, "on", v)>>
    BY <1>r DEF ldo_disable, Writes
  <2> HIDE DEF v
  <2> QED
    BY <2>1, <2>2, <2>3, <1>f, OneProper, Zenon
<1>3. Proper(o, ldo_suspend_enable(l), "sleep_off", FALSE)
  <2>1. Shows(o, "sleep_off", {}) = FALSE
    <3>1. Shows(o, "sleep_off", {}) = (bit \in {})
      BY <1>f, Zenon DEF Shows
    <3>2. (bit \in {}) = FALSE
      BY SMT
    <3> QED
      BY <3>1, <3>2, Zenon
  <2>2. ldo_suspend_enable(l) = <<Writes(o, "sleep_off", {})>>
    BY <1>r DEF ldo_suspend_enable, Writes
  <2>3. {} \in SUBSET FieldFoot(o, "sleep_off")
    OBVIOUS
  <2> QED
    BY <2>1, <2>2, <2>3, <1>f, OneProper, Zenon
<1>4. Proper(o, ldo_suspend_disable(l), "sleep_off", TRUE)
  <2>1. Shows(o, "sleep_off", {bit}) = TRUE
    <3>1. Shows(o, "sleep_off", {bit}) = (bit \in {bit})
      BY <1>f, Zenon DEF Shows
    <3> QED
      BY <3>1, Zenon
  <2>2. ldo_suspend_disable(l) = <<Writes(o, "sleep_off", {bit})>>
    BY <1>r DEF ldo_suspend_disable, Writes
  <2>3. {bit} \in SUBSET FieldFoot(o, "sleep_off")
    BY <1>b, <1>r
  <2> QED
    BY <2>1, <2>2, <2>3, <1>f, OneProper, Zenon
<1>5. ASSUME NEW uV \in Requests[o]
      PROVE  /\ Proper(o, ldo_set_voltage(l, uV), "uV", Nearest(o, uV))
             /\ Proper(o, ldo_set_sleep_voltage(l, uV), "sleep_uV", Nearest(o, uV))
  <2>0. o # 13 /\ l \in 0..8
    BY <1>0, <1>5, VoltAssumption
  <2>1. CASE ~LdoInRange(l, uV)
    BY <2>1, NothingProper DEF ldo_set_voltage, ldo_set_sleep_voltage
  <2>2. CASE LdoInRange(l, uV)
    <3> DEFINE sel == LdoSelect(l, uV)
               v == Bits(sel)
    <3>1. uV \in Nat /\ uV % 1000 = 0
      BY Rk818Assumption DEF WholeMillivolts
    <3>2. sel \in 0..LdoTop(l) /\ Nearest(o, uV) = 1000 * LdoMap(l)[sel]
      BY <3>1, <2>0, <2>2, <1>0, LdoVoltage
    <3> HIDE DEF sel, l
    <3>3. sel \in 0..63 /\ sel < 32
      BY <3>2, <2>0, LdoTable
    <3>4. v \in SUBSET (0..4) /\ Number(v) = sel
      BY <3>3, ReadBack
    <3>5. v \in SUBSET LdoMask(l)
      BY <3>4 DEF LdoMask, VolMask, Ldo9VolMask
    <3>6. v \cap LdoMask(l) = v
      BY <3>5
    <3> HIDE DEF v
    <3>7. LdoVolts(l, v) = Nearest(o, uV)
      <4>1. Number(v \cap LdoMask(l)) = sel
        BY <3>4, <3>6
      <4> QED
        BY <4>1, <3>2, Zenon DEF LdoVolts
    <3>8. Shows(o, "uV", v) = LdoVolts(l, v) /\ Shows(o, "sleep_uV", v) = LdoVolts(l, v)
      BY DEF Shows, l
    <3>9. /\ ldo_set_voltage(l, uV) = <<Writes(o, "uV", v)>>
          /\ ldo_set_sleep_voltage(l, uV) = <<Writes(o, "sleep_uV", v)>>
      BY <2>2, <1>r DEF ldo_set_voltage, ldo_set_sleep_voltage, Writes, v, sel
    <3>10. v \in SUBSET FieldFoot(o, "uV") /\ v \in SUBSET FieldFoot(o, "sleep_uV")
      BY <3>5, <1>b, <1>r
    <3>11. Proper(o, <<Writes(o, "uV", v)>>, "uV", Nearest(o, uV))
      BY <3>7, <3>8, <3>10, <1>f, <2>0, OneProper
    <3>12. Proper(o, <<Writes(o, "sleep_uV", v)>>, "sleep_uV", Nearest(o, uV))
      BY <3>7, <3>8, <3>10, <1>f, <2>0, OneProper
    <3> QED
      BY <3>9, <3>11, <3>12
  <2> QED
    BY <2>1, <2>2
<1> QED
  BY <1>1, <1>2, <1>3, <1>4, <1>5

LEMMA DcdcProper ==
  ASSUME NEW b \in Outputs, ~IsLdo(b)
  PROVE  /\ Proper(b, dcdc_enable(b), "on", TRUE)
         /\ Proper(b, dcdc_disable(b), "on", FALSE)
         /\ Proper(b, dcdc_suspend_enable(b), "sleep_off", FALSE)
         /\ Proper(b, dcdc_suspend_disable(b), "sleep_off", TRUE)
         /\ \A uV \in Requests[b] :
              /\ Proper(b, dcdc_set_voltage(b, uV), "uV", Nearest(b, uV))
              /\ Proper(b, dcdc_set_sleep_voltage(b, uV), "sleep_uV", Nearest(b, uV))
         /\ \A m \in Modes : /\ Proper(b, dcdc_set_mode(b, m), "mode", m)
                             /\ Proper(b, dcdc_set_suspend_mode(b, m), "sleep_mode", m)
<1>0. b \in {0, 1, 2, 3}
  BY OutputCases
<1>f. /\ "on" \in Fields(b) /\ "sleep_off" \in Fields(b) /\ "uV" \in Fields(b) /\ "sleep_uV" \in Fields(b)
      /\ "mode" \in Fields(b) /\ "sleep_mode" \in Fields(b) /\ "sleep_off" # "on"
  BY <1>0 DEF Fields
<1>r. /\ FieldReg(b, "on") = DCDC_EN /\ FieldReg(b, "sleep_off") = SLEEP_SET_OFF1
      /\ FieldReg(b, "uV") = BuckVol(b) /\ FieldReg(b, "sleep_uV") = BuckSlp(b)
      /\ FieldReg(b, "mode") = BuckVol(b) /\ FieldReg(b, "sleep_mode") = BuckVol(b) + 1
      /\ FieldMask(b, "on") = {b} /\ FieldMask(b, "sleep_off") = {b}
      /\ FieldMask(b, "uV") = VolMask /\ FieldMask(b, "sleep_uV") = VolMask
      /\ FieldMask(b, "mode") = {7} /\ FieldMask(b, "sleep_mode") = {7}
  BY DEF FieldReg, FieldMask
<1>b. \A f : FieldMask(b, f) \subseteq FieldFoot(b, f)
  BY DEF FieldFoot
<1>1. Proper(b, dcdc_enable(b), "on", TRUE) /\ Proper(b, dcdc_disable(b), "on", FALSE)
  <2>1. Shows(b, "on", {b}) = TRUE /\ Shows(b, "on", {}) = FALSE
    <3>1. Shows(b, "on", {b}) = (b \in {b}) /\ Shows(b, "on", {}) = (b \in {})
      BY <1>f, Zenon DEF Shows
    <3>2. (b \in {}) = FALSE
      BY SMT
    <3> QED
      BY <3>1, <3>2, Zenon
  <2>2. {b} \in SUBSET FieldFoot(b, "on") /\ {} \in SUBSET FieldFoot(b, "on")
    BY <1>b, <1>r
  <2>3. dcdc_enable(b) = <<Writes(b, "on", {b})>> /\ dcdc_disable(b) = <<Writes(b, "on", {})>>
    BY <1>r DEF dcdc_enable, dcdc_disable, Writes
  <2> QED
    BY <2>1, <2>2, <2>3, <1>f, OneProper, Zenon
<1>2. /\ Proper(b, dcdc_suspend_enable(b), "sleep_off", FALSE)
      /\ Proper(b, dcdc_suspend_disable(b), "sleep_off", TRUE)
  <2>1. Shows(b, "sleep_off", {b}) = TRUE /\ Shows(b, "sleep_off", {}) = FALSE
    <3>1. Shows(b, "sleep_off", {b}) = (b \in {b}) /\ Shows(b, "sleep_off", {}) = (b \in {})
      BY <1>f, Zenon DEF Shows
    <3>2. (b \in {}) = FALSE
      BY SMT
    <3> QED
      BY <3>1, <3>2, Zenon
  <2>2. {b} \in SUBSET FieldFoot(b, "sleep_off") /\ {} \in SUBSET FieldFoot(b, "sleep_off")
    BY <1>b, <1>r
  <2>3. /\ dcdc_suspend_disable(b) = <<Writes(b, "sleep_off", {b})>>
        /\ dcdc_suspend_enable(b) = <<Writes(b, "sleep_off", {})>>
    BY <1>r DEF dcdc_suspend_enable, dcdc_suspend_disable, Writes
  <2> QED
    BY <2>1, <2>2, <2>3, <1>f, OneProper, Zenon
<1>3. ASSUME NEW m \in Modes
      PROVE  /\ Proper(b, dcdc_set_mode(b, m), "mode", m)
             /\ Proper(b, dcdc_set_suspend_mode(b, m), "sleep_mode", m)
  <2> DEFINE v == ModeBits(m)
  <2>1. Shows(b, "mode", v) = m /\ Shows(b, "sleep_mode", v) = m
    BY DEF Shows, ModeBits, Modes
  <2>2. v \in SUBSET FieldFoot(b, "mode") /\ v \in SUBSET FieldFoot(b, "sleep_mode")
    BY <1>b, <1>r DEF ModeBits
  <2>3. /\ dcdc_set_mode(b, m) = <<Writes(b, "mode", v)>>
        /\ dcdc_set_suspend_mode(b, m) = <<Writes(b, "sleep_mode", v)>>
    BY <1>r DEF dcdc_set_mode, dcdc_set_suspend_mode, Writes
  <2> HIDE DEF v
  <2>4. Proper(b, <<Writes(b, "mode", v)>>, "mode", m)
    BY <2>1, <2>2, <1>f, OneProper
  <2>5. Proper(b, <<Writes(b, "sleep_mode", v)>>, "sleep_mode", m)
    BY <2>1, <2>2, <1>f, OneProper
  <2> QED
    BY <2>3, <2>4, <2>5
<1>4. ASSUME NEW uV \in Requests[b]
      PROVE  /\ Proper(b, dcdc_set_voltage(b, uV), "uV", Nearest(b, uV))
             /\ Proper(b, dcdc_set_sleep_voltage(b, uV), "sleep_uV", Nearest(b, uV))
  <2>a. CASE b = 2
    BY <2>a, NothingProper DEF dcdc_set_voltage, dcdc_set_sleep_voltage
  <2>b. CASE b \in {0, 1, 3}
    <3> DEFINE sel == dcdc_select_min_voltage(b, uV, uV)
               v == Bits(sel)
    <3>1. uV \in Nat /\ BuckLeast(b) <= uV /\ uV <= BuckMost(b)
      <4>1. uV \in Nat
        BY Rk818Assumption
      <4>2. b \in {0, 1} => 712500 <= uV /\ uV <= 1500000
        BY <4>1, VoltAssumption, SMT
      <4>3. b = 3 => 1800000 <= uV /\ uV <= 3300000
        BY <4>1, VoltAssumption, SMT
      <4> QED
        BY <4>1, <4>2, <4>3, <2>b, SMT DEF BuckLeast, BuckMost
    <3>2. sel \in 0..63 /\ Nearest(b, uV) = dcdc_list_voltage(b, sel)
      BY <2>b, <3>1, BuckVoltage
    <3> HIDE DEF sel
    <3>3. v \in SUBSET (0..5) /\ Number(v) = sel
      BY <3>2, ReadBack
    <3>4. v \cap VolMask = v /\ v \in SUBSET VolMask
      BY <3>3 DEF VolMask
    <3> HIDE DEF v
    <3>5. BuckVolts(b, v) = Nearest(b, uV)
      BY <3>2, <3>3, <3>4 DEF BuckVolts
    <3>6. Shows(b, "uV", v) = BuckVolts(b, v) /\ Shows(b, "sleep_uV", v) = BuckVolts(b, v)
      BY DEF Shows
    <3>7. v \in SUBSET FieldFoot(b, "uV") /\ v \in SUBSET FieldFoot(b, "sleep_uV")
      BY <3>4, <1>b, <1>r
    <3> DEFINE a == Writes(b, "uV", v)
               c == Writes(b, "sleep_uV", v)
    <3>8. a = Set(BuckVol(b), VolMask, v) /\ c = Set(BuckSlp(b), VolMask, v)
      BY <1>r DEF Writes
    <3>9. Proper(b, <<a>>, "uV", Nearest(b, uV)) /\ Proper(b, <<a, a>>, "uV", Nearest(b, uV))
      BY <3>5, <3>6, <3>7, <1>f, OneProper
    <3>10. Proper(b, <<c>>, "sleep_uV", Nearest(b, uV))
      BY <3>5, <3>6, <3>7, <1>f, OneProper
    <3> HIDE DEF a, c
    <3>11. /\ dcdc_set_voltage(b, uV) = IF b = 3 THEN <<a, a>> ELSE <<a>>
           /\ dcdc_set_sleep_voltage(b, uV) = <<c>>
      BY <3>8, <2>b DEF dcdc_set_voltage, dcdc_set_sleep_voltage, v, sel
    <3> QED
      BY <3>9, <3>10, <3>11
  <2> QED
    BY <1>0, <2>a, <2>b
<1> QED
  BY <1>1, <1>2, <1>3, <1>4

(***************************************************************************)
(* Settings, the inductive invariant: an output has what was asked of it,  *)
(* or its thread is about to write it.                                     *)
(***************************************************************************)

\* What an output the code does not disturb has been asked for.
Due(o) == {p \in want[o] : o \in Reliable}

\* The thread of an output writes one field of it; the output is where it was
\* last asked to be, but for that field until the thread is done.
Doing(o) ==
  \E f \in Fields(o) : \E v \in SUBSET FieldFoot(o, f) :
    /\ Uniform(job[o], Writes(o, f, v))
    /\ \A p \in Due(o) :
         /\ p[1] \in Fields(o)
         /\ job[o] # <<>> /\ p[1] = f => Shows(o, f, v) = p[2]
         /\ job[o] = <<>> \/ p[1] # f => Shows(o, p[1], regs[FieldReg(o, p[1])]) = p[2]

\* rk818_pre_init is over before an output can be asked for anything.
Settings ==
  /\ want = [o \in Outputs |-> want[o]]
  /\ \A o \in Outputs : Doing(o)
  /\ \A o \in Outputs : o \notin registered => job[o] = <<>> /\ want[o] = {}
  /\ probe = "pre_init" => registered = {}
  /\ probe # "pre_init" => job[Probe] = <<>>

LEMMA SettingsKept ==
  ASSUME Settings, NEW o \in Reliable, job[o] = <<>>, NEW p \in want[o]
  PROVE  Shown(o, p[1]) = p[2]
<1>0. o \in Outputs /\ p \in Due(o)
  BY DEF Due, Reliable
<1>1. PICK f \in Fields(o) : \E v \in SUBSET FieldFoot(o, f) :
        /\ Uniform(job[o], Writes(o, f, v))
        /\ \A q \in Due(o) :
             /\ q[1] \in Fields(o)
             /\ job[o] # <<>> /\ q[1] = f => Shows(o, f, v) = q[2]
             /\ job[o] = <<>> \/ q[1] # f => Shows(o, q[1], regs[FieldReg(o, q[1])]) = q[2]
  BY <1>0, Zenon DEF Settings, Doing
<1>2. p[1] \in Fields(o) /\ Shows(o, p[1], regs[FieldReg(o, p[1])]) = p[2]
  BY <1>0, <1>1, Zenon
<1>3. Shown(o, p[1]) = Shows(o, p[1], regs[FieldReg(o, p[1])])
  BY <1>2, ShownIs
<1> QED
  BY <1>2, <1>3, Zenon

LEMMA Idle ==
  ASSUME NEW o
  PROVE  /\ job[o] = <<>> /\ want[o] = {} => Doing(o)
         /\ job'[o] = <<>> /\ want'[o] = {} => Doing(o)'
<1>1. "on" \in Fields(o) /\ {} \in SUBSET FieldFoot(o, "on") /\ Uniform(<<>>, Writes(o, "on", {}))
  <2>1. "on" \in Fields(o) /\ {} \in SUBSET FieldFoot(o, "on")
    BY DEF Fields
  <2>2. <<>> \in Seq(Accesses) /\ \A i \in 1..Len(<<>>) : FALSE
    BY EmptySeq
  <2> QED
    BY <2>1, <2>2 DEF Uniform
<1>2. (want[o] = {} => Due(o) = {}) /\ (want'[o] = {} => Due(o)' = {})
  BY DEF Due
<1> QED
  BY <1>1, <1>2, Zenon DEF Doing

LEMMA SettingsInit == ASSUME Init PROVE Settings
<1>1. /\ want = [o \in Outputs |-> {}] /\ \A o \in Outputs : want[o] = {} /\ job[o] = <<>>
      /\ registered = {} /\ probe = "pre_init"
  <2>1. \A o \in Outputs : o \in Threads /\ o # Probe
    BY NoThread, Rk818Assumption DEF Probe
  <2> QED
    BY <2>1 DEF Init, RkInit
<1>2. \A o \in Outputs : Doing(o)
  BY <1>1, Idle
<1> QED
  BY <1>1, <1>2 DEF Settings

\* A step that leaves the threads, the registers and the requests alone.
LEMMA SettingsSame ==
  ASSUME Settings, UNCHANGED <<regs, job, want>>, registered \subseteq registered',
         probe' = "pre_init" => registered' = {}, probe' # "pre_init" => job[Probe] = <<>>
  PROVE  Settings'
<1>1. ASSUME NEW o \in Outputs PROVE Doing(o)'
  <2>1. Doing(o)
    BY DEF Settings
  <2> QED
    BY <2>1 DEF Doing, Due
<1> QED
  BY <1>1 DEF Settings

\* An operation is called.
LEMMA SettingsAsk ==
  ASSUME ChipInv, Settings, NEW o \in Outputs, Asks(o)
  PROVE  Settings'
<1>1. PICK p, f, w : Proper(o, p, f, w) /\ Call(o, p, f, w)
  BY DEF Asks
<1>2. /\ o \in registered /\ job[o] = <<>> /\ job' = [job EXCEPT ![o] = p]
      /\ UNCHANGED <<regs, probe, todo, registered>>
      /\ want' = IF p = <<>> THEN want ELSE [want EXCEPT ![o] = {q \in @ : q[1] # f} \cup {<<f, w>>}]
  BY <1>1 DEF Call, chip
<1>3. job \in [Threads -> Seq(Accesses)] /\ o \in Threads /\ Probe \in Threads /\ o # Probe
  BY NoThread, Rk818Assumption DEF ChipInv, RkTypes, Threads, Probe
<1>4. /\ job'[o] = p /\ job' \in [Threads -> Seq(Accesses) \cup {p}]
      /\ \A t \in Threads : t # o => job'[t] = job[t]
  BY <1>2, <1>3
<1>5. want = [x \in Outputs |-> want[x]]
  BY DEF Settings
<1>6. CASE p = <<>>
  <2>1. job' = job /\ want' = want
    BY <1>2, <1>3, <1>6
  <2> QED
    BY <2>1, <1>2, SettingsSame DEF Settings
<1>7. CASE p # <<>>
  <2>1. /\ want'[o] = {q \in want[o] : q[1] # f} \cup {<<f, w>>}
        /\ \A x \in Outputs : x # o => want'[x] = want[x]
        /\ want' = [x \in Outputs |-> want'[x]]
    BY <1>2, <1>5, <1>7
  <2>2. PICK v \in SUBSET FieldFoot(o, f) :
          f \in Fields(o) /\ (o \in Reliable => Shows(o, f, v) = w) /\ Uniform(p, Writes(o, f, v))
    BY <1>1, <1>7 DEF Proper
  <2>3. \A q \in Due(o) : q[1] \in Fields(o) /\ Shows(o, q[1], regs[FieldReg(o, q[1])]) = q[2]
    <3>1. Doing(o)
      BY DEF Settings
    <3> QED
      BY <1>2, <3>1, Zenon DEF Doing
  <2>4. Doing(o)'
    <3>1. ASSUME NEW q \in Due(o)'
          PROVE  /\ q[1] \in Fields(o)
                 /\ job'[o] # <<>> /\ q[1] = f => Shows(o, f, v) = q[2]
                 /\ job'[o] = <<>> \/ q[1] # f => Shows(o, q[1], regs'[FieldReg(o, q[1])]) = q[2]
      <4>0. q \in want'[o] /\ o \in Reliable /\ (q \in want[o] => q \in Due(o))
        BY DEF Due
      <4>1. CASE q \in want[o] /\ q[1] # f
        BY <4>0, <4>1, <2>3, <1>2
      <4>2. CASE q = <<f, w>>
        BY <4>0, <4>2, <2>2, <1>4, <1>7
      <4> QED
        BY <4>0, <4>1, <4>2, <2>1
    <3>2. Uniform(job'[o], Writes(o, f, v)) /\ f \in Fields(o)
      BY <2>2, <1>4
    <3> QED
      BY <3>1, <3>2, Zenon DEF Doing
  <2>5. ASSUME NEW x \in Outputs, x # o PROVE Doing(x)'
    <3>1. Doing(x) /\ want'[x] = want[x] /\ job'[x] = job[x] /\ regs' = regs
      BY <1>2, <1>4, <2>1, <2>5, NoThread DEF Settings
    <3> QED
      BY <3>1 DEF Doing, Due
  <2>6. ASSUME NEW x \in Outputs, x \notin registered PROVE job'[x] = <<>> /\ want'[x] = {}
    BY <2>6, <1>2, <1>4, <2>1, NoThread DEF Settings
  <2> QED
    BY <1>2, <1>3, <1>4, <2>1, <2>4, <2>5, <2>6 DEF Settings
<1> QED
  BY <1>6, <1>7

LEMMA UniformHead ==
  ASSUME NEW p, NEW a, Uniform(p, a), p # <<>>
  PROVE  Head(p) = a /\ Uniform(Tail(p), a)
<1>1. p \in Seq(Accesses) /\ Len(p) \in Nat /\ Len(p) > 0 /\ Head(p) = p[1]
  BY HeadTailProperties, EmptySeq, LenProperties DEF Uniform
<1>2. /\ Tail(p) \in Seq(Accesses) /\ Len(Tail(p)) = Len(p) - 1
      /\ \A i \in 1..Len(Tail(p)) : Tail(p)[i] = p[i + 1]
  BY <1>1, HeadTailProperties
<1> QED
  BY <1>1, <1>2 DEF Uniform

\* What an access that is over has done to the registers.
LEMMA EndRegs ==
  ASSUME NEW t \in Threads, ChipInv, End(t), ~faulty'
  PROVE  /\ ~faulty /\ job' = [job EXCEPT ![t] = Tail(@)]
         /\ UNCHANGED <<probe, todo, registered, want>> /\ job[t] # <<>>
         /\ \A r \in Regs : r # First(t).reg => regs'[r] = regs[r]
         /\ First(t).kind = "set" /\ First(t).reg \in Regs =>
              regs'[First(t).reg] = (regs[First(t).reg] \ First(t).mask) \cup First(t).val
<1>1. UNCHANGED counts /\ ~faulty
  <2>1. counts' = counts
    BY Zenon DEF End, Fault
  <2>2. faulty' = faulty
    BY <2>1 DEF counts
  <2> QED
    BY <2>1, <2>2
<1>2. regs' = [r \in Regs |-> IF r = First(t).reg THEN Written(t) ELSE regs[r]]
  BY Zenon DEF End, Fault
<1>3. job' = [job EXCEPT ![t] = Tail(@)]
  BY Zenon DEF End, Fault
<1>4. job[t] # <<>> /\ UNCHANGED <<probe, todo, registered, want>>
  BY DEF End
<1>5. ASSUME First(t).kind = "set", First(t).reg \in Regs
      PROVE  regs'[First(t).reg] = (regs[First(t).reg] \ First(t).mask) \cup First(t).val
  <2>1. lock = t /\ lock # None
    BY <1>5, NoThread DEF End, Held
  <2>2. tmp[t] = regs[First(t).reg]
    BY <2>1, <1>1, <1>5 DEF ChipInv, LockHeld, Contents
  <2> QED
    BY <2>2, <1>2, <1>5 DEF Written
<1> QED
  BY <1>1, <1>2, <1>3, <1>4, <1>5

LEMMA EndFields ==
  ASSUME NEW t \in Outputs, NEW f \in Fields(t), NEW v \in SUBSET FieldFoot(t, f),
         ChipInv, End(t), ~faulty', First(t) = Writes(t, f, v)
  PROVE  /\ Shows(t, f, regs'[FieldReg(t, f)]) = Shows(t, f, v)
         /\ \A o \in Reliable : \A g \in Fields(o) : o # t \/ g # f =>
              Shows(o, g, regs'[FieldReg(o, g)]) = Shows(o, g, regs[FieldReg(o, g)])
<1> DEFINE R == FieldReg(t, f)
           M == FieldMask(t, f)
<1>1. R \in Regs /\ t \in Threads
  BY FieldTypes, NoThread
<1>2. First(t).kind = "set" /\ First(t).reg = R /\ First(t).mask = M /\ First(t).val = v
  BY DEF Writes, Set, Access
<1>3. regs'[R] = (regs[R] \ M) \cup v /\ \A r \in Regs : r # R => regs'[r] = regs[r]
  BY <1>1, <1>2, EndRegs
<1>4. \A o : \A g \in Fields(o) : g \in {"on", "uV", "sleep_off", "sleep_uV", "mode", "sleep_mode"}
  BY DEF Fields
<1> HIDE DEF R, M
<1>5. Shows(t, f, regs'[FieldReg(t, f)]) = Shows(t, f, v)
  <2>1. \A i \in FieldMask(t, f) : i \in regs'[R] <=> i \in v
    BY <1>3 DEF M
  <2> QED
    BY <2>1, <1>4, ShowsMask DEF R
<1>6. ASSUME NEW o \in Reliable, NEW g \in Fields(o), o # t \/ g # f
      PROVE  Shows(o, g, regs'[FieldReg(o, g)]) = Shows(o, g, regs[FieldReg(o, g)])
  <2> DEFINE Q == FieldReg(o, g)
  <2>1. Q \in Regs
    BY FieldTypes DEF Reliable
  <2>2. CASE Q # R
    BY <2>1, <2>2, <1>3
  <2>3. CASE Q = R
    <3>1. FieldFoot(t, f) \cap FieldMask(o, g) = {}
      BY <2>3, <1>6, FieldsApart DEF R
    <3>2. M \subseteq FieldFoot(t, f) /\ v \subseteq FieldFoot(t, f)
      BY DEF FieldFoot, M
    <3> HIDE DEF Q
    <3>3. \A i \in FieldMask(o, g) : i \in regs'[Q] <=> i \in regs[Q]
      BY <3>1, <3>2, <2>3, <1>3
    <3>4. Shows(o, g, regs'[Q]) = Shows(o, g, regs[Q])
      BY <3>3, <1>4, ShowsMask
    <3> QED
      BY <3>4 DEF Q
  <2> QED
    BY <2>2, <2>3
<1> QED
  BY <1>5, <1>6

\* A step that leaves the thread and the fields of an output alone.
LEMMA DoingStays ==
  ASSUME NEW o, Doing(o), job'[o] = job[o], want'[o] = want[o],
         o \in Reliable => \A g \in Fields(o) :
           Shows(o, g, regs'[FieldReg(o, g)]) = Shows(o, g, regs[FieldReg(o, g)])
  PROVE  Doing(o)'
<1>1. PICK f \in Fields(o) : \E v \in SUBSET FieldFoot(o, f) :
        /\ Uniform(job[o], Writes(o, f, v))
        /\ \A p \in Due(o) :
             /\ p[1] \in Fields(o)
             /\ job[o] # <<>> /\ p[1] = f => Shows(o, f, v) = p[2]
             /\ job[o] = <<>> \/ p[1] # f => Shows(o, p[1], regs[FieldReg(o, p[1])]) = p[2]
  BY Zenon DEF Doing
<1>2. PICK v \in SUBSET FieldFoot(o, f) :
        /\ Uniform(job[o], Writes(o, f, v))
        /\ \A p \in Due(o) :
             /\ p[1] \in Fields(o)
             /\ job[o] # <<>> /\ p[1] = f => Shows(o, f, v) = p[2]
             /\ job[o] = <<>> \/ p[1] # f => Shows(o, p[1], regs[FieldReg(o, p[1])]) = p[2]
  BY <1>1, Zenon
<1>0. Due(o)' = Due(o) /\ \A p \in Due(o) : o \in Reliable
  BY DEF Due
<1>3. ASSUME NEW p \in Due(o)'
      PROVE  /\ p[1] \in Fields(o)
             /\ job'[o] # <<>> /\ p[1] = f => Shows(o, f, v) = p[2]
             /\ job'[o] = <<>> \/ p[1] # f => Shows(o, p[1], regs'[FieldReg(o, p[1])]) = p[2]
  <2>1. /\ p[1] \in Fields(o)
        /\ job[o] # <<>> /\ p[1] = f => Shows(o, f, v) = p[2]
        /\ job[o] = <<>> \/ p[1] # f => Shows(o, p[1], regs[FieldReg(o, p[1])]) = p[2]
    BY <1>0, <1>2
  <2>2. Shows(o, p[1], regs'[FieldReg(o, p[1])]) = Shows(o, p[1], regs[FieldReg(o, p[1])])
    BY <1>0, <2>1
  <2> QED
    BY <2>1, <2>2
<1>4. Uniform(job'[o], Writes(o, f, v))
  BY <1>2
<1> QED
  BY <1>3, <1>4, Zenon DEF Doing

LEMMA SettingsEnd ==
  ASSUME ChipInv, Settings, NEW t \in Threads, End(t), ~faulty'
  PROVE  Settings'
<1>1. /\ job' = [job EXCEPT ![t] = Tail(@)] /\ UNCHANGED <<probe, todo, registered, want>> /\ job[t] # <<>>
  BY EndRegs
<1>2. job \in [Threads -> Seq(Accesses)] /\ Outputs \subseteq Threads /\ Probe \in Threads /\ Probe \notin Outputs
  BY NoThread, Rk818Assumption DEF ChipInv, RkTypes, Threads, Probe
<1>3. job'[t] = Tail(job[t]) /\ \A u \in Threads : u # t => job'[u] = job[u]
  BY <1>1, <1>2
<1>4. CASE t = Probe
  <2>1. registered = {} /\ probe = "pre_init"
    BY <1>1, <1>4 DEF Settings
  <2>2. ASSUME NEW o \in Outputs PROVE job'[o] = <<>> /\ want'[o] = {} /\ Doing(o)'
    <3>1. job[o] = <<>> /\ want[o] = {}
      BY <2>1 DEF Settings
    <3>2. job'[o] = <<>> /\ want'[o] = {}
      BY <3>1, <1>1, <1>2, <1>3, <1>4
    <3> QED
      BY <3>2, Idle
  <2> QED
    BY <2>1, <2>2, <1>1 DEF Settings
<1>5. CASE t # Probe
  <2>1. t \in Outputs
    BY <1>5 DEF Threads
  <2>d. Doing(t)
    BY <2>1 DEF Settings
  <2>f. PICK f \in Fields(t) : \E v \in SUBSET FieldFoot(t, f) :
          /\ Uniform(job[t], Writes(t, f, v))
          /\ \A p \in Due(t) :
               /\ p[1] \in Fields(t)
               /\ job[t] # <<>> /\ p[1] = f => Shows(t, f, v) = p[2]
               /\ job[t] = <<>> \/ p[1] # f => Shows(t, p[1], regs[FieldReg(t, p[1])]) = p[2]
    BY <2>d, Zenon DEF Doing
  <2>2. PICK v \in SUBSET FieldFoot(t, f) :
          /\ Uniform(job[t], Writes(t, f, v))
          /\ \A p \in Due(t) :
               /\ p[1] \in Fields(t)
               /\ job[t] # <<>> /\ p[1] = f => Shows(t, f, v) = p[2]
               /\ job[t] = <<>> \/ p[1] # f => Shows(t, p[1], regs[FieldReg(t, p[1])]) = p[2]
    BY <2>f, Zenon
  <2>3. First(t) = Writes(t, f, v) /\ Uniform(Tail(job[t]), Writes(t, f, v))
    BY <1>1, <2>2, UniformHead DEF First
  <2>4. /\ Shows(t, f, regs'[FieldReg(t, f)]) = Shows(t, f, v)
        /\ \A o \in Reliable : \A g \in Fields(o) : o # t \/ g # f =>
             Shows(o, g, regs'[FieldReg(o, g)]) = Shows(o, g, regs[FieldReg(o, g)])
    BY <2>1, <2>2, <2>3, EndFields
  <2>5. Doing(t)'
    <3>0. Due(t)' = Due(t) /\ \A p \in Due(t) : t \in Reliable
      BY <1>1 DEF Due
    <3>1. ASSUME NEW p \in Due(t)
          PROVE  /\ p[1] \in Fields(t) /\ Shows(t, p[1], regs'[FieldReg(t, p[1])]) = p[2]
                 /\ p[1] = f => Shows(t, f, v) = p[2]
      <4>1. CASE p[1] = f
        BY <4>1, <1>1, <2>2, <2>4, Zenon
      <4>2. CASE p[1] # f
        <5>1. p[1] \in Fields(t) /\ Shows(t, p[1], regs[FieldReg(t, p[1])]) = p[2]
          BY <4>2, <2>2, Zenon
        <5> QED
          BY <3>0, <4>2, <5>1, <2>4, Zenon
      <4> QED
        BY <4>1, <4>2
    <3>2. Uniform(job'[t], Writes(t, f, v))
      BY <2>3, <1>3
    <3>3. \A p \in Due(t)' :
            /\ p[1] \in Fields(t)
            /\ job'[t] # <<>> /\ p[1] = f => Shows(t, f, v) = p[2]
            /\ job'[t] = <<>> \/ p[1] # f => Shows(t, p[1], regs'[FieldReg(t, p[1])]) = p[2]
      BY <3>0, <3>1
    <3> QED
      BY <3>2, <3>3, Zenon DEF Doing
  <2>6. ASSUME NEW o \in Outputs, o # t PROVE Doing(o)'
    <3>1. job'[o] = job[o] /\ want' = want
      BY <1>1, <1>2, <1>3, <2>6
    <3>2. Doing(o)
      BY DEF Settings
    <3>3. o \in Reliable => \A g \in Fields(o) :
            Shows(o, g, regs'[FieldReg(o, g)]) = Shows(o, g, regs[FieldReg(o, g)])
      BY <2>4, <2>6
    <3> QED
      BY <3>1, <3>2, <3>3, DoingStays
  <2>7. ASSUME NEW o \in Outputs, o \notin registered PROVE job'[o] = <<>> /\ want'[o] = {}
    <3>1. job[o] = <<>> /\ want[o] = {}
      BY <2>7 DEF Settings
    <3>2. o # t
      BY <3>1, <1>1
    <3> QED
      BY <3>1, <3>2, <1>1, <1>2, <1>3
  <2>8. job'[Probe] = job[Probe]
    BY <1>2, <1>3, <1>5
  <2> QED
    BY <1>1, <2>5, <2>6, <2>7, <2>8 DEF Settings
<1> QED
  BY <1>4, <1>5

LEMMA OperationsAsk ==
  ASSUME WholeMillivolts, NEW o \in Outputs
  PROVE  /\ IsLdo(o) /\ LdoSwitch(o) => Asks(o)
         /\ IsLdo(o) /\ LdoSetting(o) => Asks(o)
         /\ ~IsLdo(o) /\ DcdcOperation(o) => Asks(o)
<1>c. ASSUME NEW p, NEW f, NEW w, Proper(o, p, f, w), Call(o, p, f, w) PROVE Asks(o)
  BY <1>c DEF Asks
<1>1. ASSUME IsLdo(o), LdoSwitch(o) PROVE Asks(o)
  <2>1. /\ Proper(o, ldo_enable(Ldo(o)), "on", TRUE)
        /\ o \notin AlwaysOn => Proper(o, ldo_disable(Ldo(o)), "on", FALSE)
    BY <1>1, LdoProper
  <2> QED
    BY <1>1, <2>1, <1>c, Zenon DEF LdoSwitch
<1>2. ASSUME IsLdo(o), LdoSetting(o) PROVE Asks(o)
  <2>1. CASE \/ Call(o, ldo_suspend_enable(Ldo(o)), "sleep_off", FALSE)
             \/ Call(o, ldo_suspend_disable(Ldo(o)), "sleep_off", TRUE)
    <3>1. /\ Proper(o, ldo_suspend_enable(Ldo(o)), "sleep_off", FALSE)
          /\ Proper(o, ldo_suspend_disable(Ldo(o)), "sleep_off", TRUE)
      BY <1>2, LdoProper
    <3> QED
      BY <2>1, <3>1, <1>c, Zenon
  <2>2. CASE \E uV \in Requests[o] :
               \/ Call(o, ldo_set_voltage(Ldo(o), uV), "uV", Nearest(o, uV))
               \/ Call(o, ldo_set_sleep_voltage(Ldo(o), uV), "sleep_uV", Nearest(o, uV))
    <3>1. PICK uV \in Requests[o] :
               \/ Call(o, ldo_set_voltage(Ldo(o), uV), "uV", Nearest(o, uV))
               \/ Call(o, ldo_set_sleep_voltage(Ldo(o), uV), "sleep_uV", Nearest(o, uV))
      BY <2>2
    <3>2. /\ Proper(o, ldo_set_voltage(Ldo(o), uV), "uV", Nearest(o, uV))
          /\ Proper(o, ldo_set_sleep_voltage(Ldo(o), uV), "sleep_uV", Nearest(o, uV))
      BY <1>2, LdoProper
    <3> QED
      BY <3>1, <3>2, <1>c, Zenon
  <2> QED
    BY <1>2, <2>1, <2>2, Zenon DEF LdoSetting
<1>3. ASSUME ~IsLdo(o), DcdcOperation(o) PROVE Asks(o)
  <2>1. CASE \/ Call(o, dcdc_enable(o), "on", TRUE) \/ Call(o, dcdc_disable(o), "on", FALSE)
             \/ Call(o, dcdc_suspend_enable(o), "sleep_off", FALSE)
             \/ Call(o, dcdc_suspend_disable(o), "sleep_off", TRUE)
    <3>1. /\ Proper(o, dcdc_enable(o), "on", TRUE) /\ Proper(o, dcdc_disable(o), "on", FALSE)
          /\ Proper(o, dcdc_suspend_enable(o), "sleep_off", FALSE)
          /\ Proper(o, dcdc_suspend_disable(o), "sleep_off", TRUE)
      BY <1>3, DcdcProper
    <3> QED
      BY <2>1, <3>1, <1>c, Zenon
  <2>2. CASE \E uV \in Requests[o] :
               \/ Call(o, dcdc_set_voltage(o, uV), "uV", Nearest(o, uV))
               \/ Call(o, dcdc_set_sleep_voltage(o, uV), "sleep_uV", Nearest(o, uV))
    <3>1. PICK uV \in Requests[o] :
               \/ Call(o, dcdc_set_voltage(o, uV), "uV", Nearest(o, uV))
               \/ Call(o, dcdc_set_sleep_voltage(o, uV), "sleep_uV", Nearest(o, uV))
      BY <2>2
    <3>2. /\ Proper(o, dcdc_set_voltage(o, uV), "uV", Nearest(o, uV))
          /\ Proper(o, dcdc_set_sleep_voltage(o, uV), "sleep_uV", Nearest(o, uV))
      BY <1>3, DcdcProper
    <3> QED
      BY <3>1, <3>2, <1>c, Zenon
  <2>3. CASE \E m \in Modes : \/ Call(o, dcdc_set_mode(o, m), "mode", m)
                              \/ Call(o, dcdc_set_suspend_mode(o, m), "sleep_mode", m)
    <3>1. PICK m \in Modes : \/ Call(o, dcdc_set_mode(o, m), "mode", m)
                             \/ Call(o, dcdc_set_suspend_mode(o, m), "sleep_mode", m)
      BY <2>3
    <3>2. /\ Proper(o, dcdc_set_mode(o, m), "mode", m)
          /\ Proper(o, dcdc_set_suspend_mode(o, m), "sleep_mode", m)
      BY <1>3, DcdcProper
    <3> QED
      BY <3>1, <3>2, <1>c, Zenon
  <2> QED
    BY <1>3, <2>1, <2>2, <2>3, Zenon DEF DcdcOperation
<1> QED
  BY <1>1, <1>2, <1>3

LEMMA SettingsStep ==
  ASSUME WholeMillivolts, ChipInv, Settings, [Next]_vars, ~faulty'
  PROVE  Settings'
<1>1. ASSUME UNCHANGED rkvars PROVE Settings'
  <2>1. UNCHANGED <<regs, job, want>> /\ UNCHANGED <<probe, registered>>
    BY <1>1 DEF rkvars, chip, threads
  <2>2. /\ registered \subseteq registered' /\ probe' = "pre_init" => registered' = {}
        /\ probe' # "pre_init" => job[Probe] = <<>>
    BY <2>1 DEF Settings
  <2> QED
    BY <2>1, <2>2, SettingsSame
<1>2. ASSUME ProbeGpio PROVE Settings'
  <2>1. /\ UNCHANGED <<regs, job, want>> /\ registered' = registered /\ job[Probe] = <<>>
        /\ probe' # "pre_init"
    BY <1>2 DEF ProbeGpio, threads
  <2> QED
    BY <2>1, SettingsSame
<1>3. ASSUME NEW o \in Outputs, Register(o) PROVE Settings'
  <2>1. /\ UNCHANGED <<regs, job, want>> /\ registered \subseteq registered'
        /\ probe = "register" /\ probe' \in {"up", "register"}
    BY <1>3 DEF Register, threads
  <2>2. probe' # "pre_init" /\ job[Probe] = <<>>
    BY <2>1 DEF Settings
  <2> QED
    BY <2>1, <2>2, SettingsSame
<1>4. ASSUME NEW t \in Threads, Begin(t) PROVE Settings'
  <2>1. UNCHANGED <<regs, job, want>> /\ UNCHANGED <<probe, registered>>
    BY <1>4 DEF Begin, chip
  <2>2. /\ registered \subseteq registered' /\ probe' = "pre_init" => registered' = {}
        /\ probe' # "pre_init" => job[Probe] = <<>>
    BY <2>1 DEF Settings
  <2> QED
    BY <2>1, <2>2, SettingsSame
<1>5. IsLdo(Supply) /\ Supply \in Outputs /\ Supply \notin AlwaysOn
  BY SupplyBits, PowerAssumption DEF IsLdo
<1>6. ASSUME ChipStep PROVE Settings'
  <2>1. ASSUME NEW o \in Outputs, IsLdo(o), LdoSwitch(o) \/ LdoSetting(o) PROVE Settings'
    BY <2>1, OperationsAsk, SettingsAsk
  <2>2. ASSUME NEW o \in Outputs, ~IsLdo(o), DcdcOperation(o) PROVE Settings'
    BY <2>2, OperationsAsk, SettingsAsk
  <2>3. ASSUME LdoSetting(Supply) PROVE Settings'
    BY <2>3, <1>5, <2>1
  <2>4. ASSUME NEW t \in Threads, End(t) PROVE Settings'
    BY <2>4, SettingsEnd
  <2> QED
    BY <1>2, <1>3, <1>4, <1>6, <2>1, <2>2, <2>3, <2>4, Zenon DEF ChipStep
<1>7. ASSUME NEW c \in Consumers, regulator_enable(c) PROVE Settings'
  <2>1. ASSUME Call(Supply, ldo_enable(Ldo(Supply)), "on", TRUE) PROVE Settings'
    <3>1. Proper(Supply, ldo_enable(Ldo(Supply)), "on", TRUE)
      BY <1>5, LdoProper
    <3>2. Asks(Supply)
      BY <2>1, <3>1 DEF Asks
    <3> QED
      BY <3>2, <1>5, SettingsAsk
  <2> QED
    BY <1>1, <1>7, <2>1, Zenon DEF regulator_enable
<1>8. ASSUME NEW c \in Consumers, regulator_disable(c) PROVE Settings'
  <2>1. ASSUME Call(Supply, ldo_disable(Ldo(Supply)), "on", FALSE) PROVE Settings'
    <3>1. Proper(Supply, ldo_disable(Ldo(Supply)), "on", FALSE)
      BY <1>5, LdoProper
    <3>2. Asks(Supply)
      BY <2>1, <3>1 DEF Asks
    <3> QED
      BY <3>2, <1>5, SettingsAsk
  <2> QED
    BY <1>1, <1>8, <2>1, Zenon DEF regulator_disable
<1>9. ASSUME NEW c \in Consumers, Load(c) \/ Unload(c) \/ remove(c) \/ Counts(c) PROVE Settings'
  <2>1. UNCHANGED rkvars
    BY <1>9 DEF Load, Unload, remove, Counts
  <2> QED
    BY <2>1, <1>1
<1>10. ASSUME UNCHANGED vars PROVE Settings'
  <2>1. UNCHANGED rkvars
    BY <1>10 DEF vars
  <2> QED
    BY <2>1, <1>1
<1> QED
  BY <1>6, <1>7, <1>8, <1>9, <1>10, Zenon DEF Next

\* What an output was asked for is what it has, while no transfer has failed.
KeptBy(o) == ~faulty /\ job[o] = <<>> => \A p \in want[o] : Shown(o, p[1]) = p[2]

\* Whatever outputs the board has, each one that the code does not disturb
\* itself has every voltage, switch and mode last asked of it (rk818_set_bits
\* under io_lock): operations of other outputs, which share its registers, in
\* any interleaving with its own, do not undo it.
THEOREM ReliableKept == WholeMillivolts => (Spec => [](\A o \in Reliable : KeptBy(o)))
<1> SUFFICES ASSUME WholeMillivolts PROVE Spec => [](\A o \in Reliable : KeptBy(o))
  OBVIOUS
<1> DEFINE SettingsInv == ChipInv /\ (~faulty => Settings)
<1>1. Init => SettingsInv
  BY InitInv, SettingsInit
<1>2. SettingsInv /\ [Next]_vars => SettingsInv'
  <2> SUFFICES ASSUME SettingsInv, [Next]_vars PROVE SettingsInv'
    OBVIOUS
  <2>1. ChipInv'
    BY ChipInductive
  <2>2. ASSUME ~faulty' PROVE Settings'
    <3>1. ~faulty
      BY <2>2, FaultStays
    <3> QED
      BY <2>2, <3>1, SettingsStep
  <2> QED
    BY <2>1, <2>2
<1>3. SettingsInv => \A o \in Reliable : KeptBy(o)
  BY SettingsKept DEF KeptBy
<1> QED
  BY <1>1, <1>2, <1>3, PTL DEF Spec

\* On a board whose outputs are all of that kind, operations of different
\* outputs never undo each other (the read-modify-write of rk818_set_bits).
THEOREM OperationsKept == WholeMillivolts /\ Outputs = Reliable => (Spec => []Kept)
<1> SUFFICES ASSUME WholeMillivolts, Outputs = Reliable PROVE Spec => []Kept
  OBVIOUS
<1>1. (\A o \in Reliable : KeptBy(o)) => Kept
  BY Zenon DEF Kept, KeptBy, Shown
<1>2. Spec => [](\A o \in Reliable : KeptBy(o))
  BY ReliableKept
<1> QED
  BY <1>1, <1>2, PTL
=============================================================================
