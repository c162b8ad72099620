---------------------------- MODULE NetlinkProofs ----------------------------
(***************************************************************************)
(* Proofs about Netlink, for any programs, queue lengths and bounds.       *)
(***************************************************************************)
EXTENDS Netlink, TLAPS

\* What is registered at every step of genetlink_init and genetlink_exit: each
\* part belongs to the steps between the call that adds it and the one that
\* removes it.
ModSteps == {"out", "family", "ops", "group", "sysfs", "in", "freed", "out_group", "out_ops", "out_family"}
HasFamily == mod.at \notin {"out", "family"} /\ ~(mod.at = "in" /\ demo = 1)
HasOps    == HasFamily /\ mod.at \notin {"ops", "out_family"}
HasGroup  == HasOps /\ mod.at \notin {"group", "out_ops"}
HasSysfs  == mod.at = "in" /\ demo = 3

ModInv ==
  /\ mod \in [at : ModSteps, fam : Int, ops : BOOLEAN, grp : BOOLEAN, sysfs : BOOLEAN, loads : Nat]
  /\ mod.fam # NoId <=> HasFamily
  /\ mod.ops = (IF HasOps THEN TRUE ELSE FALSE)
  /\ mod.grp = (IF HasGroup THEN TRUE ELSE FALSE)
  /\ mod.sysfs = (IF HasSysfs THEN TRUE ELSE FALSE)
  /\ demo \in {1, 2, 3} /\ (demo # 3 => mod.at # "sysfs")
  /\ (demo = 1 => mod.at \in {"out", "in"})

LEMMA InitInv == Init => ModInv
  BY NetlinkAssumption DEF Init, ModInv, ModSteps, HasFamily, HasOps, HasGroup, HasSysfs, NoId

LEMMA FamilyHasId == \A n \in Nat : FamilyId(n) \in Int /\ FamilyId(n) # NoId
  BY DEF FamilyId, GENL_ID_CTRL, NoId

LEMMA InitStepsInv == ModInv /\ genetlink_init => ModInv'
<1> SUFFICES ASSUME ModInv, genetlink_init PROVE ModInv'
  OBVIOUS
<1> USE DEF ModInv, ModSteps, HasFamily, HasOps, HasGroup, HasSysfs
<1>1. CASE load
  <2>1. /\ mod.at = "out" /\ demo' = demo /\ mod.loads + 1 \in Nat
        /\ \/ mod' = [mod EXCEPT !.at = IF demo = 1 THEN "in" ELSE "family", !.loads = @ + 1]
           \/ demo = 1 /\ mod' = [mod EXCEPT !.loads = @ + 1]
    BY <1>1 DEF load
  <2>2. mod.fam = NoId /\ mod.ops = FALSE /\ mod.grp = FALSE /\ mod.sysfs = FALSE
    BY <2>1
  <2>3. /\ mod' \in [at : ModSteps, fam : Int, ops : BOOLEAN, grp : BOOLEAN, sysfs : BOOLEAN, loads : Nat]
        /\ mod'.fam = NoId /\ mod'.ops = FALSE /\ mod'.grp = FALSE /\ mod'.sysfs = FALSE
        /\ mod'.at \in {"out", "in", "family"} /\ (mod'.at = "in" => demo = 1) /\ (mod'.at = "family" => demo # 1)
    BY <2>1, <2>2
  <2>4. ~HasFamily' /\ ~HasOps' /\ ~HasGroup' /\ ~HasSysfs'
    BY <2>1, <2>3
  <2>5. demo' \in {1, 2, 3} /\ (demo' # 3 => mod'.at # "sysfs") /\ (demo' = 1 => mod'.at \in {"out", "in"})
    BY <2>1, <2>3
  <2> HIDE DEF HasFamily, HasOps, HasGroup, HasSysfs
  <2> QED
    BY <2>3, <2>4, <2>5
<1>2. CASE register_family
  BY <1>2, FamilyHasId DEF register_family
<1>3. CASE register_ops
  BY <1>3 DEF register_ops
<1>4. CASE register_mc_group
  BY <1>4 DEF register_mc_group
<1>5. CASE create_sysfs
  BY <1>5 DEF create_sysfs
<1> QED
  BY <1>1, <1>2, <1>3, <1>4, <1>5 DEF genetlink_init

LEMMA ExitStepsInv == ModInv /\ genetlink_exit => ModInv'
<1> SUFFICES ASSUME ModInv, genetlink_exit PROVE ModInv'
  OBVIOUS
<1> USE DEF ModInv, ModSteps, HasFamily, HasOps, HasGroup, HasSysfs
<1>1. CASE unload
  <2>1. CASE demo = 1
    BY <1>1, <2>1 DEF unload
  <2>2. CASE demo # 1
    BY <1>1, <2>2 DEF unload
  <2> QED
    BY <2>1, <2>2
<1>2. CASE unregister
  <2>1. CASE mod.at = "out_group" /\ mod' = [mod EXCEPT !.at = "out_ops", !.grp = FALSE]
    BY <1>2, <2>1 DEF unregister
  <2>2. CASE mod.at = "out_ops" /\ mod' = [mod EXCEPT !.at = "out_family", !.ops = FALSE]
    BY <1>2, <2>2 DEF unregister
  <2>3. CASE mod.at = "out_family" /\ mod' = [mod EXCEPT !.at = "out", !.fam = NoId, !.sysfs = FALSE]
    <3>1. mod.ops = FALSE /\ mod.grp = FALSE /\ demo' = demo /\ demo # 1 /\ NoId \in Int
      BY <1>2, <2>3 DEF unregister, NoId
    <3>2. /\ mod' \in [at : ModSteps, fam : Int, ops : BOOLEAN, grp : BOOLEAN, sysfs : BOOLEAN, loads : Nat]
          /\ mod'.at = "out" /\ mod'.fam = NoId
          /\ mod'.ops = FALSE /\ mod'.grp = FALSE /\ mod'.sysfs = FALSE
      BY <2>3, <3>1
    <3>3. ~HasFamily' /\ ~HasOps' /\ ~HasGroup' /\ ~HasSysfs'
      BY <3>2
    <3> QED
      BY <3>1, <3>2, <3>3
  <2> HIDE DEF ModInv
  <2> QED
    BY <1>2, <2>1, <2>2, <2>3 DEF unregister
<1> QED
  BY <1>1, <1>2 DEF genetlink_exit

LEMMA OtherStepsKeep == genl_trigger \/ (\E u \in Users : program(u)) => UNCHANGED <<demo, mod>>
  BY DEF genl_trigger, program, genlmsg_open, genlmsg_send_ctrl, genlmsg_get_family_id, send_echo, send_demo1,
     receive, Step

LEMMA StepInv == ModInv /\ [Next]_vars => ModInv'
<1> SUFFICES ASSUME ModInv, [Next]_vars PROVE ModInv'
  OBVIOUS
<1>1. CASE UNCHANGED <<demo, mod>>
  BY <1>1 DEF ModInv, HasFamily, HasOps, HasGroup, HasSysfs
<1>2. CASE genetlink_init \/ genetlink_exit
  BY <1>2, InitStepsInv, ExitStepsInv
<1> QED
  BY <1>1, <1>2, OtherStepsKeep DEF Next, vars

\* Whichever step of genetlink_init fails and wherever genetlink_exit is, no
\* part of the family is there without what it needs, and a module that is out
\* has left nothing behind.  After sysfs_create_group has failed, which
\* genetlink_init does not undo, nothing is claimed.
THEOREM PartsInOrder == Spec => []InOrder
<1>1. ModInv => InOrder
  BY DEF ModInv, HasFamily, HasOps, HasGroup, HasSysfs, InOrder, Registered
<1> QED
  BY <1>1, InitInv, StepInv, PTL DEF Spec
=============================================================================
