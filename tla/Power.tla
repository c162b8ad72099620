-------------------------------- MODULE Power --------------------------------
(***************************************************************************)
(* The drivers of rk3288/debug/regulator that share one output of the chip *)
(* (consumer1.c, consumer2.c, rk818_test.c), the use count of              *)
(* the regulator core between them, and the chip with its other outputs.   *)
(***************************************************************************)
EXTENDS Rk818

CONSTANTS
  Consumers,   \* the drivers
  Supply,      \* the output they share
  MaxLoads     \* bound: how often a driver is loaded

ASSUME PowerAssumption ==
  /\ Supply \in Outputs \cap 4..11 /\ Supply \notin AlwaysOn
  /\ MaxLoads \in Nat /\ IsFiniteSet(Consumers)

VARIABLES
  cons,        \* what a driver is doing
  num_users,   \* the use count of the supply
  loads

drivers == <<cons, num_users, loads>>
vars    == <<rkvars, drivers>>

Init ==
  /\ RkInit /\ cons = [c \in Consumers |-> "out"] /\ num_users = 0
  /\ loads = [c \in Consumers |-> 0]

\* The core's mutex of the supply is free.
Free == job[Supply] = <<>> /\ \A c \in Consumers : cons[c] \notin {"enabling", "disabling"}

SupplyOn == ldo_is_enabled(Ldo(Supply))

Becomes(c, s) == cons' = [cons EXCEPT ![c] = s]

\* The beginning of consumer1_probe (the others alike): it may find no supply, no memory or fail
\* to create its attributes, and then it never asks for the supply.
Load(c) ==
  /\ cons[c] = "out" /\ loads[c] < MaxLoads /\ loads' = [loads EXCEPT ![c] = @ + 1]
  /\ Becomes(c, IF Supply \in registered THEN "probing" ELSE "unbound") \/ Becomes(c, "unbound")
  /\ UNCHANGED <<rkvars, num_users>>

\* A driver without device is unloaded; its remove function is not called.
Unload(c) ==
  /\ cons[c] = "unbound" /\ Becomes(c, "out")
  /\ UNCHANGED <<rkvars, num_users, loads>>

\* regulator_enable: the first user has the output switched on if it is off,
\* or reads as off because the transfer failed.
regulator_enable(c) ==
  /\ cons[c] = "probing" /\ Free /\ lock = None
  /\ \/ /\ num_users = 0 /\ ((~SupplyOn /\ UNCHANGED counts) \/ Fault)
        /\ Becomes(c, "enabling")
        /\ Call(Supply, ldo_enable(Ldo(Supply)), "on", TRUE) /\ UNCHANGED num_users
     \/ /\ num_users > 0 \/ SupplyOn
        /\ num_users' = num_users + 1 /\ Becomes(c, "bound") /\ UNCHANGED rkvars
  /\ UNCHANGED loads

\* consumer1_remove calls regulator_disable: the last user has the output
\* switched off.
removeOnly(c) ==              \* mutant: the supply is not given back
  /\ cons[c] = "bound" /\ Becomes(c, "out")
  /\ UNCHANGED <<rkvars, num_users, loads>>
remove(c) ==
  /\ cons[c] = "bound" /\ Becomes(c, "removing")
  /\ UNCHANGED <<rkvars, num_users, loads>>

LastUser == num_users = 1
regulator_disable(c) ==
  /\ cons[c] = "removing" /\ Free
  /\ \/ /\ LastUser /\ Becomes(c, "disabling")
        /\ Call(Supply, ldo_disable(Ldo(Supply)), "on", FALSE) /\ UNCHANGED <<num_users, counts>>
     \/ /\ ~LastUser /\ num_users' = num_users - 1 /\ Becomes(c, "out") /\ UNCHANGED rkvars
  /\ UNCHANGED loads

\* The operation of the chip returns, and the core counts.
Counts(c) ==
  /\ job[Supply] = <<>>
  /\ \/ cons[c] = "enabling" /\ Becomes(c, "bound") /\ num_users' = num_users + 1
     \/ cons[c] = "disabling" /\ Becomes(c, "out") /\ num_users' = 0
  /\ UNCHANGED <<rkvars, loads>>

ChipStep ==
  \/ ProbeGpio
  \/ \E o \in Outputs : Register(o)
  \/ \E t \in Threads : Begin(t) \/ End(t)
  \/ \E o \in Outputs \ {Supply} : IsLdo(o) /\ Core /\ (LdoSwitch(o) \/ LdoSetting(o))
  \/ \E b \in Outputs : ~IsLdo(b) /\ Core /\ DcdcOperation(b)
  \/ Free /\ Core /\ LdoSetting(Supply)

Next ==
  \/ ChipStep /\ UNCHANGED drivers
  \/ \E c \in Consumers :
       \/ Load(c) \/ Unload(c) \/ regulator_enable(c) \/ remove(c)
       \/ regulator_disable(c) \/ Counts(c)

Spec == Init /\ [][Next]_vars

-----------------------------------------------------------------------------
(* Properties.                                                              *)

\* Every variable keeps its type.
TypeOK ==
  /\ RkTypes /\ num_users \in Nat /\ loads \in [Consumers -> Nat]
  /\ cons \in [Consumers -> {"out", "unbound", "probing", "enabling", "bound",
                              "removing", "disabling"}]

\* The use count of the supply is the number of drivers that enabled it and
\* have not given it back, whatever else happens to the chip.
Holding == {c \in Consumers : cons[c] \in {"bound", "removing", "disabling"}}
CountsUsers == num_users = Cardinality(Holding)

\* The drivers and the chip together implement the shared supply: it is on
\* whenever a driver is bound to it, and nobody else's operation switches it.
Shared == INSTANCE SharedSupply WITH
  Users <- Consumers,
  users <- {c \in Consumers : cons[c] = "bound"}, on <- SupplyOn,
  broken <- faulty
ImplementsSharedSupply == Shared!Spec
=============================================================================
