---------------------------- MODULE Act8846Proofs ----------------------------
(***************************************************************************)
(* Proofs about Act8846, for any outputs, windows, users and failures.     *)
(***************************************************************************)
EXTENDS Act8846, TLAPS

(***************************************************************************)
(* Addresses: no register serves two outputs or two purposes.              *)
(***************************************************************************)

LEMMA VolRegValues ==
  /\ VolReg(0) = 16 /\ VolReg(1) = 32 /\ VolReg(2) = 48 /\ VolReg(3) = 64
  /\ VolReg(4) = 80 /\ VolReg(5) = 88 /\ VolReg(6) = 96 /\ VolReg(7) = 104
  /\ VolReg(8) = 112 /\ VolReg(9) = 128 /\ VolReg(10) = 144 /\ VolReg(11) = 160
  BY DEF VolReg

\* Below 80 the addresses are 16 apart, from there on 8 at least.
LEMMA VolRegSpaced ==
  /\ \A o \in 0..11 : VolReg(o) \in Nat
  /\ \A o, p \in 0..11 : o < p => VolReg(o) + 8 <= VolReg(p)
  BY VolRegValues

LEMMA Addresses ==
  ASSUME NEW o \in 0..11, NEW p \in 0..11
  PROVE  /\ VolReg(o) # Contr(p) /\ (~IsLdo(o) => SlpReg(o) # Contr(p) /\ SlpReg(o) # VolReg(p))
         /\ (VolReg(o) = VolReg(p) => o = p) /\ (Contr(o) = Contr(p) => o = p)
<1>1. VolReg(o) \in Nat /\ VolReg(p) \in Nat
  BY VolRegSpaced
<1>2. CASE o < p
  BY <1>1, <1>2, VolRegSpaced DEF Contr, SlpReg, IsLdo
<1>3. CASE p < o
  BY <1>1, <1>3, VolRegSpaced DEF Contr, SlpReg, IsLdo
<1>4. CASE o = p
  BY <1>1, <1>4 DEF Contr, SlpReg, IsLdo
<1> QED
  BY <1>2, <1>3, <1>4

LEMMA Kinds ==
  ASSUME NEW o \in Outputs
  PROVE  /\ Contr(o) \in Regs /\ IsContr(Contr(o)) /\ Contents(Contr(o)) = {0, 8, 128, 136}
         /\ VolReg(o) \in Regs /\ ~IsContr(VolReg(o)) /\ Contents(VolReg(o)) = 0..63
         /\ ~IsLdo(o) => /\ SlpReg(o) \in Regs /\ ~IsContr(SlpReg(o)) /\ Contents(SlpReg(o)) = 0..63
  BY Addresses, ActAssumption DEF Regs, IsContr, Contents

(***************************************************************************)
(* The search of the voltage map finds the least entry that is enough.     *)
(***************************************************************************)

First(i, min) == VoltageMap[i] >= min /\ \A j \in 0..(i - 1) : VoltageMap[j] < min
Found(min) == \E i \in 0..63 : First(i, min)

LEMMA SelectExists ==
  ASSUME NEW min \in Nat, 600 <= min, min <= 3900
  PROVE  Found(min)
<1>1. CASE min <= 1200
  <2> DEFINE i == (min - 600 + 24) \div 25
  <2>1. i \in 0..24 /\ 600 + 25 * i >= min /\ 600 + 25 * (i - 1) < min
    BY <1>1
  <2> HIDE DEF i
  <2>2. \A j \in 0..(i - 1) : VoltageMap[j] < min
    BY <2>1, <1>1 DEF VoltageMap
  <2>3. i \in 0..63 /\ VoltageMap[i] >= min
    BY <2>1 DEF VoltageMap
  <2> QED
    BY <2>2, <2>3 DEF First, Found
<1>2. CASE min > 1200 /\ min <= 2400
  <2> DEFINE i == 24 + (min - 1200 + 49) \div 50
  <2>1. i \in 25..48 /\ 1200 + 50 * (i - 24) >= min /\ 1200 + 50 * (i - 25) < min
    BY <1>2
  <2> HIDE DEF i
  <2>2. \A j \in 0..(i - 1) : VoltageMap[j] < min
    BY <2>1, <1>2 DEF VoltageMap
  <2>3. i \in 0..63 /\ VoltageMap[i] >= min
    BY <2>1 DEF VoltageMap
  <2> QED
    BY <2>2, <2>3 DEF First, Found
<1>3. CASE min > 2400
  <2> DEFINE i == 48 + (min - 2400 + 99) \div 100
  <2>1. i \in 49..63 /\ 2400 + 100 * (i - 48) >= min /\ 2400 + 100 * (i - 49) < min
    BY <1>3
  <2> HIDE DEF i
  <2>2. \A j \in 0..(i - 1) : VoltageMap[j] < min
    BY <2>1, <1>3 DEF VoltageMap
  <2>3. i \in 0..63 /\ VoltageMap[i] >= min
    BY <2>1 DEF VoltageMap
  <2> QED
    BY <2>2, <2>3 DEF First, Found
<1> QED
  BY <1>1, <1>2, <1>3

LEMMA SelectFinds ==
  ASSUME NEW uV \in Nat, InMap(uV)
  PROVE  /\ Select(uV \div 1000) \in 0..63
         /\ VoltageMap[Select(uV \div 1000)] \in Nat
         /\ VoltageMap[Select(uV \div 1000)] >= uV \div 1000
<1> DEFINE min == uV \div 1000
<1>1. min \in Nat /\ 600 <= min /\ min <= 3900
  BY DEF InMap
<1> HIDE DEF min
<1>2. Found(min)
  BY <1>1, SelectExists
<1>3. Select(min) = CHOOSE i \in 0..63 : First(i, min)
  BY Zenon DEF Select, First
<1>4. Select(min) \in 0..63 /\ First(Select(min), min)
  BY <1>2, <1>3, Zenon DEF Found
<1>5. \A i \in 0..63 : VoltageMap[i] \in Nat
  BY DEF VoltageMap
<1> QED
  BY <1>4, <1>5 DEF min, First

(***************************************************************************)
(* The invariant.  TypeOK says of chip and cache what their registers      *)
(* hold; Domains adds that they are functions on Regs.                     *)
(***************************************************************************)

Domains ==
  /\ chip = [r \in Regs |-> chip[r]] /\ cache = [r \in Regs |-> cache[r]]
  /\ window = [o \in Outputs |-> window[o]]
  /\ \A o \in Outputs : window[o] # NoWindow => window[o] \in Windows

ActInv == TypeOK /\ Domains /\ Supplied /\ InWindow

LEMMA Numbers ==
  /\ MaxUsers \in Nat /\ MaxFaults \in Nat /\ Outputs \subseteq 0..11
  /\ \A w \in Windows : w[1] \in Nat /\ w[2] \in Nat
  BY ActAssumption

\* What the bit operations return.
LEMMA BitOperations ==
  ASSUME NEW v \in {0, 8, 128, 136}
  PROVE  /\ Set7(v) \in {0, 8, 128, 136} /\ Clear7(v) \in {0, 8, 128, 136}
         /\ Bit7(Set7(v)) /\ (Bit7(v) => Set7(v) = v)
  BY DEF Set7, Clear7, Bit7

\* What an access to register r leaves behind: the other registers are as they
\* were, and what it leaves in the cache was sent, or the register is broken.
Accessed(r) ==
  /\ chip' = [q \in Regs |-> chip'[q]] /\ cache' = [q \in Regs |-> cache'[q]]
  /\ \A q \in Regs \ {r} : chip'[q] = chip[q] /\ cache'[q] = cache[q] /\ (q \in broken' <=> q \in broken)
  /\ chip'[r] \in Contents(r) /\ cache'[r] \in Contents(r) \cup {NotCached}
  /\ r \notin broken' => cache'[r] \in {chip'[r], NotCached}
  /\ faults' \in 0..MaxFaults

LEMMA FailsBounded ==
  ASSUME ActInv, NEW n \in Nat, Fails(n)
  PROVE  faults' \in 0..MaxFaults
  BY Numbers DEF ActInv, TypeOK, Fails

LEMMA ValueType ==
  ASSUME ActInv, NEW r \in Regs
  PROVE  Value(r) \in Contents(r) /\ (r \notin broken => Value(r) = chip[r])
  BY DEF ActInv, TypeOK, Value, NotCached

LEMMA ReadsValue ==
  ASSUME ActInv, NEW r \in Regs, NEW heard \in BOOLEAN, Reads(r, heard)
  PROVE  Accessed(r) /\ chip' = chip /\ broken' = broken
<1>1. faults' \in 0..MaxFaults
  BY FailsBounded DEF Reads, Missed
<1>2. Value(r) \in Contents(r) /\ (r \notin broken => Value(r) = chip[r])
  BY ValueType
<1>3. cache' = [cache EXCEPT ![r] = Value(r)] \/ cache' = cache
  BY DEF Reads
<1>4. chip' = chip /\ broken' = broken
  BY DEF Reads
<1> QED
  BY <1>1, <1>2, <1>3, <1>4 DEF ActInv, TypeOK, Domains, Accessed

\* An update that is done leaves the new value in the chip, unless the cache,
\* which has it already, hides that an earlier write failed.
LEMMA UpdatesValue ==
  ASSUME ActInv, NEW r \in Regs, NEW new \in Contents(r), NEW res \in Results,
         NEW missed \in Nat, Updates(r, new, res, missed)
  PROVE  /\ Accessed(r)
         /\ res = "done" /\ r \notin broken' => chip'[r] = new
         /\ res = "unsent" => r \in broken'
         /\ res = "unread" => chip' = chip /\ broken' = broken
<1>1. faults' \in 0..MaxFaults
  BY FailsBounded DEF Updates
<1>2. Value(r) \in Contents(r) /\ (r \notin broken => Value(r) = chip[r])
  BY ValueType
<1>3. CASE res = "done" /\ new = Value(r)
  <2>1. cache' = [cache EXCEPT ![r] = new] /\ chip' = chip /\ broken' = broken
    BY <1>3 DEF Updates
  <2> QED
    BY <1>1, <1>2, <1>3, <2>1 DEF ActInv, TypeOK, Domains, Accessed
<1>4. CASE res = "done" /\ new # Value(r)
  <2>1. /\ cache' = [cache EXCEPT ![r] = new] /\ chip' = [chip EXCEPT ![r] = new]
        /\ broken' = broken \ {r}
    BY <1>4 DEF Updates
  <2> QED
    BY <1>1, <1>4, <2>1 DEF ActInv, TypeOK, Domains, Accessed
<1>5. CASE res = "unsent"
  <2>1. cache' = [cache EXCEPT ![r] = new] /\ chip' = chip /\ broken' = broken \cup {r}
    BY <1>5 DEF Updates
  <2> QED
    BY <1>1, <1>5, <2>1 DEF ActInv, TypeOK, Domains, Accessed
<1>6. CASE res = "unread"
  <2>1. UNCHANGED <<chip, cache, broken>>
    BY <1>6 DEF Updates
  <2> QED
    BY <1>1, <1>6, <2>1 DEF ActInv, TypeOK, Domains, Accessed
<1> QED
  BY <1>3, <1>4, <1>5, <1>6 DEF Results

LEMMA UpdatesReadValue ==
  ASSUME ActInv, NEW r \in Regs, NEW new \in Contents(r), NEW res \in Results,
         NEW heard \in BOOLEAN, UpdatesRead(r, new, res, heard)
  PROVE  /\ Accessed(r)
         /\ res = "done" /\ r \notin broken' => chip'[r] = new
         /\ res = "unsent" => r \in broken'
         /\ res = "unread" => chip' = chip /\ broken' = broken
<1>1. Missed(heard) \in Nat /\ Updates(r, new, res, Missed(heard))
  BY DEF UpdatesRead, Missed
<1> QED
  BY <1>1, UpdatesValue

\* An access keeps the types, and what is promised of every other register.
LEMMA AccessKeepsTypes ==
  ASSUME ActInv, NEW r \in Regs, Accessed(r), use' \in [Outputs -> 0..MaxUsers]
  PROVE  /\ TypeOK'
         /\ chip' = [q \in Regs |-> chip'[q]] /\ cache' = [q \in Regs |-> cache'[q]]
  BY DEF ActInv, TypeOK, Accessed, NotCached

\* An access to a control register does not concern the voltages, and one to
\* another register not the supplies.
LEMMA ContrKeepsWindow ==
  ASSUME ActInv, NEW o \in Outputs, Accessed(Contr(o)), UNCHANGED window,
         misread' \in {misread, misread \ {Contr(o)}, misread \cup {Contr(o)}}
  PROVE  InWindow' /\ window' = [p \in Outputs |-> window'[p]]
         /\ \A p \in Outputs : window'[p] # NoWindow => window'[p] \in Windows
<1>1. \A p \in Outputs : VolReg(p) \in Regs /\ VolReg(p) # Contr(o)
  BY Kinds, Addresses, Numbers
<1>2. \A p \in Outputs : /\ chip'[VolReg(p)] = chip[VolReg(p)]
                         /\ (VolReg(p) \in broken' <=> VolReg(p) \in broken)
                         /\ (VolReg(p) \in misread' <=> VolReg(p) \in misread)
  BY <1>1 DEF Accessed
<1> QED
  BY <1>2 DEF ActInv, InWindow, Domains

LEMMA OtherKeepsSupplied ==
  ASSUME ActInv, NEW r \in Regs, ~IsContr(r), Accessed(r), UNCHANGED <<use, standby>>,
         misread' \in {misread, misread \ {r}, misread \cup {r}}
  PROVE  Supplied'
<1>1. \A p \in Outputs : Contr(p) \in Regs /\ Contr(p) # r
  BY Kinds DEF IsContr
<1>2. \A p \in Outputs : /\ chip'[Contr(p)] = chip[Contr(p)]
                         /\ (Contr(p) \in broken' <=> Contr(p) \in broken)
                         /\ (Contr(p) \in misread' <=> Contr(p) \in misread)
  BY <1>1 DEF Accessed
<1> QED
  BY <1>2 DEF ActInv, Supplied

\* What is left to show for an access to the control register of o.
LEMMA ContrKeepsOthers ==
  ASSUME ActInv, NEW o \in Outputs, Accessed(Contr(o)),
         misread' \in {misread, misread \ {Contr(o)}, misread \cup {Contr(o)}},
         \A p \in Outputs \ {o} : use'[p] = use[p] /\ (p \in standby' <=> p \in standby),
         use'[o] > 0 /\ Contr(o) \notin broken' \cup misread' /\ o \notin standby' => Bit7(chip'[Contr(o)])
  PROVE  Supplied'
<1>1. \A p \in Outputs \ {o} : Contr(p) \in Regs /\ Contr(p) # Contr(o)
  BY Kinds, Addresses, Numbers
<1>2. \A p \in Outputs \ {o} : /\ chip'[Contr(p)] = chip[Contr(p)]
                               /\ (Contr(p) \in broken' <=> Contr(p) \in broken)
                               /\ (Contr(p) \in misread' <=> Contr(p) \in misread)
  BY <1>1 DEF Accessed
<1> QED
  BY <1>2 DEF ActInv, Supplied

\* The operations on a control register end alike.
LEMMA ContrInv ==
  ASSUME ActInv, NEW o \in Outputs, Accessed(Contr(o)), UNCHANGED window,
         use' \in [Outputs -> 0..MaxUsers],
         misread' \in {misread, misread \ {Contr(o)}, misread \cup {Contr(o)}},
         \A p \in Outputs \ {o} : use'[p] = use[p] /\ (p \in standby' <=> p \in standby),
         use'[o] > 0 /\ Contr(o) \notin broken' \cup misread' /\ o \notin standby' => Bit7(chip'[Contr(o)])
  PROVE  ActInv'
<1>1. Contr(o) \in Regs
  BY Kinds
<1> QED
  BY <1>1, AccessKeepsTypes, ContrKeepsOthers, ContrKeepsWindow DEF ActInv, Domains

(***************************************************************************)
(* The steps.                                                              *)
(***************************************************************************)

LEMMA InitInv == Init => ActInv
<1> SUFFICES ASSUME Init PROVE ActInv
  OBVIOUS
<1>1. \A r \in Regs : chip[r] \in Contents(r)
  BY DEF Init, Contents
<1>2. TypeOK
  BY <1>1, Numbers DEF Init, TypeOK, NotCached
<1>3. Domains
  BY DEF Init, Domains
<1>4. Supplied /\ InWindow
  BY DEF Init, Supplied, InWindow
<1> QED
  BY <1>2, <1>3, <1>4 DEF ActInv

LEMMA ProbeInv == ActInv /\ probe => ActInv'
<1> SUFFICES ASSUME ActInv, probe PROVE ActInv'
  OBVIOUS
<1>1. faults' \in 0..MaxFaults
  <2>1. \E n \in Nat : Fails(n)
    BY DEF probe, Missed
  <2> QED
    BY <2>1, FailsBounded
<1>2. cache' = cache \/ (1 \in Outputs /\ cache' = [cache EXCEPT ![Contr(1)] = chip[Contr(1)]])
  BY DEF probe
<1>3. 1 \in Outputs => Contr(1) \in Regs
  BY Kinds
<1>4. TypeOK'
  BY <1>1, <1>2, <1>3 DEF ActInv, TypeOK, Domains, probe
<1>5. Domains'
  BY <1>2 DEF ActInv, Domains, probe
<1>6. Supplied' /\ InWindow'
  BY DEF ActInv, Supplied, InWindow, probe
<1> QED
  BY <1>4, <1>5, <1>6 DEF ActInv

LEMMA RemoveInv == ActInv /\ remove => ActInv'
<1> SUFFICES ASSUME ActInv, remove PROVE ActInv'
  OBVIOUS
<1>1. TypeOK'
  BY DEF ActInv, TypeOK, remove
<1>2. Domains'
  BY DEF ActInv, Domains, remove
<1>3. Supplied' /\ InWindow'
  BY DEF ActInv, Supplied, InWindow, remove
<1> QED
  BY <1>1, <1>2, <1>3 DEF ActInv

LEMMA EnableInv == ASSUME ActInv, NEW o \in Outputs, enable(o) PROVE ActInv'
<1> DEFINE r == Contr(o)
<1>1. r \in Regs /\ Contents(r) = {0, 8, 128, 136}
  BY Kinds
<1>2. Value(r) \in {0, 8, 128, 136} /\ (r \notin broken => Value(r) = chip[r])
  BY <1>1, ValueType
<1>3. Set7(Value(r)) \in Contents(r) /\ Bit7(Set7(Value(r)))
  BY <1>1, <1>2, BitOperations
<1>4. use \in [Outputs -> 0..MaxUsers] /\ MaxUsers \in Nat /\ use[o] < MaxUsers /\ window' = window
  BY Numbers DEF ActInv, TypeOK, enable
<1>5. CASE use[o] > 0
  <2>1. use' = [use EXCEPT ![o] = @ + 1] /\ UNCHANGED <<chip, cache, standby, broken, misread, faults, window>>
    BY <1>4, <1>5 DEF enable
  <2>2. use' \in [Outputs -> 0..MaxUsers] /\ \A p \in Outputs : use'[p] > 0 => use[p] > 0
    BY <1>4, <1>5, <2>1
  <2>3. TypeOK'
    BY <2>1, <2>2 DEF ActInv, TypeOK
  <2>4. Domains' /\ InWindow'
    BY <2>1 DEF ActInv, Domains, InWindow
  <2>5. Supplied'
    BY <2>1, <2>2 DEF ActInv, Supplied
  <2> QED
    BY <2>3, <2>4, <2>5 DEF ActInv
<1>6. CASE use[o] = 0
  <2>1. PICK v \in Contents(r), heard \in BOOLEAN : FirstUser(o, v, heard)
    BY <1>6 DEF enable
  <2>2. CASE is_enabled(v) /\ Reads(r, heard)
    <3>1. Accessed(r) /\ chip' = chip /\ broken' = broken
      BY <1>1, <2>2, ReadsValue
    <3>2. /\ use' = [use EXCEPT ![o] = 1] /\ standby' = standby \ {o}
          /\ misread' = IF heard THEN misread \ {r} ELSE misread \cup {r}
      <4>1. ~(~is_enabled(v))
        BY <2>2
      <4> QED
        BY <2>1, <4>1 DEF FirstUser
    <3>3. r \notin broken' \cup misread' => Bit7(chip'[r])
      <4>1. heard => v = Value(r)
        BY <2>1 DEF FirstUser, Answers
      <4> QED
        BY <1>2, <2>2, <3>1, <3>2, <4>1 DEF is_enabled
    <3>4. use' \in [Outputs -> 0..MaxUsers]
      BY <1>4, <1>6, <3>2
    <3>5. \A p \in Outputs \ {o} : use'[p] = use[p] /\ (p \in standby' <=> p \in standby)
      BY <1>4, <3>2
    <3>6. misread' \in {misread, misread \ {r}, misread \cup {r}}
      BY <3>2
    <3> QED
      BY <1>4, <3>1, <3>3, <3>4, <3>5, <3>6, ContrInv
  <2>3. CASE ~is_enabled(v)
    <3>1. PICK res \in Results :
            /\ UpdatesRead(r, Set7(Value(r)), res, heard)
            /\ IF res = "done"
               THEN use' = [use EXCEPT ![o] = 1] /\ standby' = standby \ {o} /\ misread' = misread \ {r}
               ELSE UNCHANGED <<use, standby, misread>>
      BY <2>1, <2>3 DEF FirstUser
    <3>2. Accessed(r) /\ (res = "done" /\ r \notin broken' => chip'[r] = Set7(Value(r)))
      BY <1>1, <1>3, <3>1, UpdatesReadValue
    <3>3. use'[o] > 0 /\ r \notin broken' => Bit7(chip'[r])
      BY <1>3, <1>6, <3>1, <3>2
    <3>4. use' \in [Outputs -> 0..MaxUsers]
      BY <1>4, <1>6, <3>1
    <3>5. \A p \in Outputs \ {o} : use'[p] = use[p] /\ (p \in standby' <=> p \in standby)
      BY <1>4, <3>1
    <3>6. misread' \in {misread, misread \ {r}, misread \cup {r}}
      BY <3>1
    <3> QED
      BY <1>4, <3>2, <3>3, <3>4, <3>5, <3>6, ContrInv
  <2> QED
    BY <2>1, <2>2, <2>3 DEF FirstUser
<1> QED
  BY <1>4, <1>5, <1>6

LEMMA DisableInv == ASSUME ActInv, NEW o \in Outputs, disable(o) PROVE ActInv'
<1> DEFINE r == Contr(o)
<1>1. r \in Regs /\ Contents(r) = {0, 8, 128, 136}
  BY Kinds
<1>2. Clear7(Value(r)) \in Contents(r)
  BY <1>1, ValueType, BitOperations
<1>4. /\ use \in [Outputs -> 0..MaxUsers] /\ MaxUsers \in Nat /\ use[o] > 0
      /\ UNCHANGED <<window, standby, misread>>
  BY Numbers DEF ActInv, TypeOK, disable
<1>5. CASE use[o] = 1
  <2>1. PICK res \in Results : /\ Updates(r, Clear7(Value(r)), res, 0)
                               /\ use' = IF res = "done" THEN [use EXCEPT ![o] = 0] ELSE use
    BY <1>5 DEF disable
  <2>2. /\ Accessed(r) /\ (res = "unsent" => r \in broken')
        /\ res = "unread" => chip' = chip /\ broken' = broken
    BY <1>1, <1>2, <2>1, UpdatesValue
  <2>3. use'[o] > 0 /\ r \notin broken' \cup misread' /\ o \notin standby' => Bit7(chip'[r])
    <3>1. CASE res = "done"
      BY <1>4, <2>1, <3>1
    <3>2. CASE res = "unread"
      BY <1>4, <2>1, <2>2, <3>2 DEF ActInv, Supplied
    <3> QED
      BY <2>2, <3>1, <3>2 DEF Results
  <2>4. use' \in [Outputs -> 0..MaxUsers]
    BY <1>4, <2>1
  <2>5. \A p \in Outputs \ {o} : use'[p] = use[p] /\ (p \in standby' <=> p \in standby)
    BY <1>4, <2>1
  <2> QED
    BY <1>4, <2>2, <2>3, <2>4, <2>5, ContrInv
<1>6. CASE use[o] # 1
  <2>1. use' = [use EXCEPT ![o] = @ - 1] /\ UNCHANGED <<chip, cache, broken, faults>>
    BY <1>6 DEF disable
  <2> QED
    BY <1>4, <1>6, <2>1 DEF ActInv, TypeOK, Domains, Supplied, InWindow
<1> QED
  BY <1>5, <1>6

LEMMA SetModeInv ==
  ASSUME ActInv, NEW o \in Outputs, NEW mode \in {"normal", "standby"}, set_mode(o, mode)
  PROVE  ActInv'
<1> DEFINE r == Contr(o)
           new == IF mode = "normal" THEN Set7(Value(r)) ELSE Clear7(Value(r))
<1>1. r \in Regs /\ Contents(r) = {0, 8, 128, 136}
  BY Kinds
<1>2. new \in Contents(r) /\ (mode = "normal" => Bit7(new))
  BY <1>1, ValueType, BitOperations
<1>3. use' \in [Outputs -> 0..MaxUsers] /\ use' = use /\ window' = window
  BY DEF ActInv, TypeOK, set_mode
<1> HIDE DEF new
<1>4. PICK v \in Contents(r), heard \in BOOLEAN :
        \/ Reads(r, heard) /\ UNCHANGED <<standby, misread>>
        \/ \E res \in Results :
             /\ UpdatesRead(r, new, res, heard)
             /\ IF res = "done"
                THEN /\ standby' = IF mode = "standby" THEN standby \cup {o} ELSE standby \ {o}
                     /\ misread' = misread \ {r}
                ELSE UNCHANGED <<standby, misread>>
  BY DEF set_mode, new
<1>5. CASE Reads(r, heard) /\ UNCHANGED <<standby, misread>>
  <2>1. Accessed(r) /\ chip' = chip /\ broken' = broken
    BY <1>1, <1>5, ReadsValue
  <2>2. use'[o] > 0 /\ r \notin broken' \cup misread' /\ o \notin standby' => Bit7(chip'[r])
    BY <1>3, <1>5, <2>1 DEF ActInv, Supplied
  <2> QED
    BY <1>3, <1>5, <2>1, <2>2, ContrInv
<1>6. ASSUME NEW res \in Results,
             UpdatesRead(r, new, res, heard),
             IF res = "done"
             THEN /\ standby' = IF mode = "standby" THEN standby \cup {o} ELSE standby \ {o}
                  /\ misread' = misread \ {r}
             ELSE UNCHANGED <<standby, misread>>
      PROVE  ActInv'
  <2>1. /\ Accessed(r) /\ (res = "unsent" => r \in broken')
        /\ res = "done" /\ r \notin broken' => chip'[r] = new
        /\ res = "unread" => chip' = chip /\ broken' = broken
    BY <1>1, <1>2, <1>6, UpdatesReadValue
  <2>2. use'[o] > 0 /\ r \notin broken' \cup misread' /\ o \notin standby' => Bit7(chip'[r])
    <3>1. CASE res = "done"
      BY <1>2, <1>6, <2>1, <3>1
    <3>2. CASE res = "unread"
      BY <1>3, <1>6, <2>1, <3>2 DEF ActInv, Supplied
    <3> QED
      BY <2>1, <3>1, <3>2 DEF Results
  <2>3. \A p \in Outputs \ {o} : use'[p] = use[p] /\ (p \in standby' <=> p \in standby)
    BY <1>3, <1>6
  <2>4. misread' \in {misread, misread \ {r}}
    BY <1>6
  <2> QED
    BY <1>3, <2>1, <2>2, <2>3, <2>4, ContrInv
<1> QED
  BY <1>4, <1>5, <1>6

LEMMA SetVoltageInv ==
  ASSUME ActInv, NEW o \in Outputs, NEW w \in Windows, set_voltage(o, w)
  PROVE  ActInv'
<1> DEFINE r == VolReg(o)
           i == Select(w[1] \div 1000)
<1>1. r \in Regs /\ Contents(r) = 0..63 /\ ~IsContr(r)
  BY Kinds
<1>2. w[1] \in Nat /\ w[2] \in Nat /\ InMap(w[1])
  BY Numbers DEF set_voltage
<1>3. i \in 0..63 /\ VoltageMap[i] \in Nat /\ VoltageMap[i] >= w[1] \div 1000
  BY <1>2, SelectFinds
<1>4. PICK res \in Results : Updates(r, i, res, 0) /\ Unheeded(o, res)
  BY DEF set_voltage
<1>5. IsLdo(o) => VoltageMap[i] <= w[2] \div 1000
  BY DEF set_voltage
<1>6. /\ window' = [window EXCEPT ![o] = w] /\ UNCHANGED <<use, standby>>
      /\ use' \in [Outputs -> 0..MaxUsers]
  BY DEF set_voltage, ActInv, TypeOK
<1> HIDE DEF i
<1>7. /\ Accessed(r) /\ (res = "unsent" => r \in broken')
      /\ res = "done" /\ r \notin broken' => chip'[r] = i
  BY <1>1, <1>3, <1>4, UpdatesValue
<1>m. misread' = IF res = "unread" THEN misread \cup {r} ELSE misread \ {r}
  BY <1>4 DEF Unheeded
<1>8. TypeOK' /\ Supplied' /\ Domains'
  BY <1>1, <1>6, <1>7, <1>m, AccessKeepsTypes, OtherKeepsSupplied DEF ActInv, Domains
<1>9. InWindow'
  <2> SUFFICES ASSUME NEW p \in Outputs, window'[p] # NoWindow,
                      VolReg(p) \notin broken' \cup misread'
               PROVE  /\ list_voltage(chip'[VolReg(p)]) >= 1000 * (window'[p][1] \div 1000)
                      /\ IsLdo(p) => list_voltage(chip'[VolReg(p)]) <= window'[p][2]
    BY DEF InWindow
  <2>1. CASE p # o
    <3>1. VolReg(p) \in Regs \ {r} /\ window'[p] = window[p]
      BY <1>6, <2>1, Kinds, Addresses, Numbers DEF ActInv, Domains
    <3> QED
      BY <3>1, <1>7, <1>m DEF ActInv, InWindow, Accessed
  <2>2. CASE p = o
    <3>1. chip'[VolReg(p)] = i /\ window'[p] = w
      BY <1>6, <1>7, <1>m, <2>2 DEF Results, ActInv, Domains
    <3>2. 1000 * VoltageMap[i] >= 1000 * (w[1] \div 1000)
      BY <1>2, <1>3
    <3>3. IsLdo(p) => 1000 * VoltageMap[i] <= w[2]
      BY <1>2, <1>3, <1>5, <2>2
    <3> QED
      BY <3>1, <3>2, <3>3 DEF list_voltage
  <2> QED
    BY <2>1, <2>2
<1> QED
  BY <1>8, <1>9 DEF ActInv

LEMMA SleepVoltageInv ==
  ASSUME ActInv, NEW o \in Outputs, NEW w \in Windows, set_sleep_voltage(o, w[1])
  PROVE  ActInv'
<1> DEFINE r == SlpReg(o)
           i == Select(w[1] \div 1000)
<1>1. r \in Regs /\ Contents(r) = 0..63 /\ ~IsContr(r) /\ ~IsLdo(o)
  BY Kinds DEF set_sleep_voltage
<1>2. i \in 0..63
  BY Numbers, SelectFinds DEF set_sleep_voltage
<1>3. PICK res \in Results : Updates(r, i, res, 0)
  BY DEF set_sleep_voltage
<1> HIDE DEF i
<1>4. UNCHANGED <<use, window, standby, misread>> /\ use' \in [Outputs -> 0..MaxUsers]
  BY DEF set_sleep_voltage, ActInv, TypeOK
<1>5. Accessed(r)
  BY <1>1, <1>2, <1>3, UpdatesValue
<1>6. \A p \in Outputs : VolReg(p) \in Regs \ {r}
  BY <1>1, Kinds, Addresses, Numbers
<1>7. InWindow'
  BY <1>4, <1>5, <1>6 DEF ActInv, InWindow, Accessed
<1> QED
  BY <1>1, <1>4, <1>5, <1>7, AccessKeepsTypes, OtherKeepsSupplied DEF ActInv, Domains

LEMMA GetVoltageInv == ASSUME ActInv, NEW o \in Outputs, get_voltage(o) PROVE ActInv'
<1> DEFINE r == VolReg(o)
<1>1. r \in Regs /\ ~IsContr(r)
  BY Kinds
<1>2. UNCHANGED <<use, window, standby, misread>> /\ use' \in [Outputs -> 0..MaxUsers]
  BY DEF get_voltage, ActInv, TypeOK
<1>3. Accessed(r) /\ chip' = chip /\ broken' = broken
  BY <1>1, ReadsValue DEF get_voltage
<1>4. InWindow'
  BY <1>2, <1>3 DEF ActInv, InWindow
<1> QED
  BY <1>1, <1>2, <1>3, <1>4, AccessKeepsTypes, OtherKeepsSupplied DEF ActInv, Domains

LEMMA StepInv == ActInv /\ [Next]_vars => ActInv'
<1> SUFFICES ASSUME ActInv, [Next]_vars PROVE ActInv'
  OBVIOUS
<1>1. CASE UNCHANGED vars
  BY <1>1 DEF ActInv, TypeOK, Domains, Supplied, InWindow, vars
<1>2. CASE Next
  BY <1>2, ProbeInv, RemoveInv, EnableInv, DisableInv, SetModeInv, SetVoltageInv, SleepVoltageInv,
     GetVoltageInv DEF Next
<1> QED
  BY <1>1, <1>2

\* Registers keep to their kind, and regmap's cache agrees with the chip where
\* the last write succeeded.
THEOREM TypeCorrect == Spec => []TypeOK
<1>1. ActInv => TypeOK
  BY DEF ActInv
<1> QED
  BY <1>1, InitInv, StepInv, PTL DEF Spec

\* Whatever is asked of the other outputs, and whichever transfers, reads or
\* writes, fail, an output with a user is on, except where its own last write
\* failed, where its enable was skipped on the answer of a failed read, and in
\* standby (act8846_dcdc_is_enabled, act8846_dcdc_enable and those of the LDOs).
THEOREM UsersSupplied == Spec => []Supplied
<1>1. ActInv => Supplied
  BY DEF ActInv
<1> QED
  BY <1>1, InitInv, StepInv, PTL DEF Spec

\* An output has the voltage it was asked for (act8846_dcdc_set_voltage,
\* act8846_ldo_set_voltage).
THEOREM VoltageInWindow == Spec => []InWindow
<1>1. ActInv => InWindow
  BY DEF ActInv
<1> QED
  BY <1>1, InitInv, StepInv, PTL DEF Spec
=============================================================================
