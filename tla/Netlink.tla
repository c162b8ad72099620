------------------------------- MODULE Netlink -------------------------------
(***************************************************************************)
(* The netlink examples (rk3288/debug/netlink): the kernel modules demo1   *)
(* to demo3 and the programs that talk to them.  demo1 answers on a        *)
(* protocol of its own; demo2 registers the generic netlink family         *)
(* DOC_EXMPL with an echo command; demo3 also multicasts to the family's   *)
(* group when genl_trigger is written.  External: netlink.  What a program *)
(* sends is handled before sendto returns; what the kernel sends waits in  *)
(* the queue of a socket, and a full queue drops it and makes the next     *)
(* receive fail.  The control family tells every listener of a family or   *)
(* group that comes or goes.                                               *)
(***************************************************************************)
EXTENDS Integers, Sequences, FiniteSets

CONSTANTS
  Users,         \* numbers of the processes, each of which runs a program once
  QueueLen,      \* messages a socket holds
  MaxLoads,      \* bound: times the module is loaded
  MaxTriggers,   \* bound: writes of genl_trigger
  MaxFaults      \* bound: registrations and allocations that fail

ASSUME NetlinkAssumption ==
  /\ Users \subseteq Nat /\ QueueLen \in Nat \ {0} /\ MaxLoads \in Nat /\ MaxTriggers \in Nat /\ MaxFaults \in Nat

VARIABLES
  demo,      \* the example that is run: 1, 2 or 3
  mod,       \* the kernel module: its next step, and what it has registered
  user,      \* the programs
  heard,     \* programs that were listening when the group was sent to
  triggers, faults

vars == <<demo, mod, user, heard, triggers, faults>>

\* The message types and the only attribute that a program looks at: it has the
\* same number, 1, in messages of the control family, where it is the family's
\* id, and of DOC_EXMPL, where it is a text, "He" if read as an id.
GENL_ID_CTRL == 16
NLMSG_ERROR  == 2
USER_MSG     == 23
Text         == 25928
NoId         == -1
FamilyId(n)  == GENL_ID_CTRL + n        \* GENL_ID_GENERATE: a new one each time
Message(type, one) == [type |-> type, one |-> one]
Error        == Message(NLMSG_ERROR, 0)

Init ==
  /\ demo \in 1..3
  /\ mod = [at |-> "out", fam |-> NoId, ops |-> FALSE, grp |-> FALSE, sysfs |-> FALSE, loads |-> 0]
  /\ \E prog \in [Users -> IF demo = 3 THEN {2, 3} ELSE {demo}] :
       /\ \A u, v \in Users : u < v => prog[u] <= prog[v]      \* processes are alike
       /\ user = [u \in Users |-> [prog |-> prog[u], at |-> "start", id |-> NoId, queue |-> <<>>,
                                   over |-> FALSE, got |-> 0, deaf |-> FALSE]]
  /\ heard = {} /\ triggers = 0 /\ faults = 0

-----------------------------------------------------------------------------
(* Netlink.                                                                 *)

Open(u) == user[u].at \notin {"start", "done"}
Queued(r, m) == IF Len(r.queue) < QueueLen THEN [r EXCEPT !.queue = Append(@, m)] ELSE [r EXCEPT !.over = TRUE]
\* A socket bound to all groups gets every multicast.
Multicast(m) == [u \in Users |-> IF Open(u) /\ user[u].prog # 1 THEN Queued(user[u], m) ELSE user[u]]
Notify(id)   == Multicast(Message(GENL_ID_CTRL, id))
Fault == faults < MaxFaults /\ faults' = faults + 1

-----------------------------------------------------------------------------
(* genetlink_init and genetlink_exit of demo2 and demo3, test_netlink_init  *)
(* and test_netlink_exit of demo1.  A step that fails undoes the ones       *)
(* before it, except sysfs_create_group, which leaves them in place.        *)

Registered == mod.fam # NoId \/ mod.ops \/ mod.grp \/ mod.sysfs
Quiet == UNCHANGED <<user, faults>>

load ==
  /\ mod.at = "out" /\ mod.loads < MaxLoads
  /\ \/ mod' = [mod EXCEPT !.at = IF demo = 1 THEN "in" ELSE "family", !.loads = @ + 1] /\ UNCHANGED faults
     \/ demo = 1 /\ Fault /\ mod' = [mod EXCEPT !.loads = @ + 1]
  /\ UNCHANGED <<demo, user, heard, triggers>>

register_family ==
  /\ mod.at = "family"
  /\ \/ mod' = [mod EXCEPT !.at = "ops", !.fam = FamilyId(mod.loads)] /\ user' = Notify(FamilyId(mod.loads))
        /\ UNCHANGED faults
     \/ Fault /\ mod' = [mod EXCEPT !.at = "out"] /\ UNCHANGED user
  /\ UNCHANGED <<demo, heard, triggers>>

register_ops ==
  /\ mod.at = "ops"
  /\ \/ mod' = [mod EXCEPT !.at = "group", !.ops = TRUE] /\ UNCHANGED faults
     \/ Fault /\ mod' = [mod EXCEPT !.at = "out_family"]
  /\ UNCHANGED <<demo, user, heard, triggers>>

register_mc_group ==
  /\ mod.at = "group"
  /\ \/ mod' = [mod EXCEPT !.at = IF demo = 3 THEN "sysfs" ELSE "in", !.grp = TRUE] /\ user' = Notify(mod.fam)
        /\ UNCHANGED faults
     \/ Fault /\ mod' = [mod EXCEPT !.at = "out_ops"] /\ UNCHANGED user
  /\ UNCHANGED <<demo, heard, triggers>>

\* After a failure the module is freed with all it registered still in place:
\* nothing that follows is defined.
create_sysfs ==
  /\ mod.at = "sysfs"
  /\ \/ mod' = [mod EXCEPT !.at = "in", !.sysfs = TRUE] /\ UNCHANGED faults
     \/ Fault /\ mod' = [mod EXCEPT !.at = "freed"]
  /\ UNCHANGED <<demo, user, heard, triggers>>

\* rmmod; a write of genl_trigger that is under way is waited for.
unloadLast ==                    \* mutant: the trigger is removed with the family
  \/ mod.at = "in" /\ mod' = [mod EXCEPT !.at = IF demo = 1 THEN "out" ELSE "out_group"]
     /\ Quiet /\ UNCHANGED <<demo, heard, triggers>>
unload ==
  \/ mod.at = "in" /\ mod' = [mod EXCEPT !.at = IF demo = 1 THEN "out" ELSE "out_group", !.sysfs = FALSE]
     /\ Quiet /\ UNCHANGED <<demo, heard, triggers>>
unregister ==
  /\ \/ mod.at = "out_group" /\ mod' = [mod EXCEPT !.at = "out_ops", !.grp = FALSE] /\ user' = Notify(mod.fam)
     \/ mod.at = "out_ops" /\ mod' = [mod EXCEPT !.at = "out_family", !.ops = FALSE] /\ UNCHANGED user
     \/ mod.at = "out_family" /\ mod' = [mod EXCEPT !.at = "out", !.fam = NoId, !.sysfs = FALSE]
        /\ user' = Notify(mod.fam)
  /\ UNCHANGED <<demo, heard, triggers, faults>>

genetlink_init == load \/ register_family \/ register_ops \/ register_mc_group \/ create_sysfs
genetlink_exit == unload \/ unregister

\* genl_trigger_store, test_netlink_send: an allocation may fail, and then
\* nothing is sent and the write succeeds all the same.  Listening is a program
\* that waits in recv: nothing is queued for it and its socket has not overrun.
Listening(u) == user[u].at = "recv" /\ user[u].id = mod.fam /\ user[u].queue = <<>> /\ ~user[u].over
genl_triggerOne ==               \* mutant: one listener gets the message
  /\ mod.sysfs /\ triggers < MaxTriggers /\ triggers' = triggers + 1
  /\ \E u \in Users : user' = [user EXCEPT ![u] = IF Open(u) THEN Queued(@, Message(mod.fam, Text)) ELSE @]
  /\ heard' = heard \cup {u \in Users : Listening(u)}
  /\ UNCHANGED <<demo, mod, faults>>
genl_trigger ==
  /\ mod.sysfs /\ triggers < MaxTriggers /\ triggers' = triggers + 1
  /\ \/ user' = Multicast(Message(mod.fam, Text)) /\ heard' = heard \cup {u \in Users : Listening(u)}
        /\ UNCHANGED faults
     \/ Fault /\ UNCHANGED <<user, heard>>
  /\ UNCHANGED <<demo, mod>>

-----------------------------------------------------------------------------
(* What the kernel does with a message, in the context of its sender.       *)

\* An allocation may fail; the error that is returned then goes to the sender.
genl_msg_send_to_user(type) == {Message(type, Text), Error}

\* The reply goes to nlmsg_pid, which is the sender's.  A type without a family
\* and a family without the command are answered with an error.
doc_exmpl_echoMute(u, type) ==   \* mutant: an unknown type is dropped
  IF mod.fam = type /\ mod.ops THEN {Queued(user[u], Message(type, Text))} ELSE {user[u]}
doc_exmpl_echo(u, type) ==
  {Queued(user[u], m) : m \in IF mod.fam = type /\ mod.ops THEN genl_msg_send_to_user(type) ELSE {Error}}

\* demo1: recv_cb answers with send_msg.
recv_cb(u) == Queued(user[u], Message(USER_MSG, Text))

\* CTRL_CMD_GETFAMILY.
get_family(u) == Queued(user[u], IF mod.fam = NoId THEN Error ELSE Message(GENL_ID_CTRL, mod.fam))

-----------------------------------------------------------------------------
(* The programs.                                                            *)

Step(u, from) == user[u].at = from /\ mod.at # "freed" /\ UNCHANGED <<demo, mod, heard, triggers>>

\* socket and bind; of demo1 only while the protocol is there.
genlmsg_open(u) ==
  /\ Step(u, "start")
  /\ user' = [user EXCEPT ![u].at = IF demo = 1 THEN (IF mod.at = "in" THEN "send" ELSE "done") ELSE "ask"]
  /\ UNCHANGED faults

\* genlmsg_get_family_id: ask, and take the first message that comes.
genlmsg_send_ctrl(u) ==
  /\ Step(u, "ask") /\ user' = [user EXCEPT ![u] = [get_family(u) EXCEPT !.at = "id"]] /\ UNCHANGED faults

\* recvmsg: the error of a queue that overran, or the first message.
ENOBUFS == -1
Received(r) == [r EXCEPT !.queue = Tail(@)]
Closed(r) == [r EXCEPT !.at = "done", !.queue = <<>>, !.over = FALSE]
genlmsg_recv(u) == user[u].over \/ user[u].queue # <<>>

\* genlmsg_dispatch of the first message: the attribute if the type is the one
\* that is asked for, zero for any, and there is no error.
Dispatch(r, type) ==
  IF (type # 0 /\ Head(r.queue).type # type) \/ Head(r.queue).type = NLMSG_ERROR THEN 0 ELSE Head(r.queue).one

genlmsg_get_family_id(u) ==
  /\ Step(u, "id") /\ genlmsg_recv(u)
  /\ LET r  == user[u]
         id == IF r.over THEN ENOBUFS ELSE Dispatch(r, 0)
     IN user' = [user EXCEPT ![u] = IF id <= 0 THEN Closed(r) ELSE
                   [Received(r) EXCEPT !.id = id, !.at = IF r.prog = 2 THEN "send" ELSE "recv"]]
  /\ UNCHANGED faults

\* demo2: genlmsg_send of the echo command to the id that was found.
send_echo(u) ==
  /\ Step(u, "send") /\ user[u].prog = 2
  /\ \E r \in doc_exmpl_echo(u, user[u].id) : user' = [user EXCEPT ![u] = [r EXCEPT !.at = "recv"]]
  /\ UNCHANGED faults

\* demo1: sendto, whose -1 passes for success, and recv_cb, whose failure tells
\* no one.
send_demo1(u) ==
  /\ Step(u, "send") /\ user[u].prog = 1
  /\ \/ mod.at = "in" /\ user' = [user EXCEPT ![u] = [recv_cb(u) EXCEPT !.at = "recv"]]
        /\ UNCHANGED faults
     \/ mod.at = "in" /\ Fault /\ user' = [user EXCEPT ![u].at = "recv", ![u].deaf = TRUE]
     \/ mod.at # "in" /\ user' = [user EXCEPT ![u].at = "recv", ![u].deaf = TRUE] /\ UNCHANGED faults

\* test_netlink_unicast and test_netlink_multicast to their end, and demo1's
\* recvfrom, which looks at no type: genlmsg_close and free.
receive(u) ==
  /\ Step(u, "recv") /\ genlmsg_recv(u)
  /\ LET r == user[u] IN
       user' = [user EXCEPT ![u] = [Closed(r) EXCEPT !.got =
                  IF r.over THEN ENOBUFS ELSE Dispatch(r, IF demo = 1 THEN 0 ELSE r.id)]]
  /\ UNCHANGED faults

program(u) ==
  genlmsg_open(u) \/ genlmsg_send_ctrl(u) \/ genlmsg_get_family_id(u) \/ send_echo(u) \/ send_demo1(u) \/ receive(u)

Next ==
  \/ genetlink_init \/ genetlink_exit \/ genl_trigger
  \/ \E u \in Users : program(u)

\* A program that is not waiting runs.
Spec == Init /\ [][Next]_vars /\ \A u \in Users : WF_vars(program(u))

-----------------------------------------------------------------------------
(* Properties.                                                              *)

\* Whatever step of genetlink_init fails and wherever genetlink_exit is, a part
\* of the family is only there with the parts it needs: the trigger with the
\* group it sends to, the group and the command with the family; and nothing is
\* left of a module that is out.  sysfs_create_group's failure is the exception.
InOrder ==
  /\ mod.sysfs => mod.grp
  /\ mod.grp => mod.ops /\ mod.fam # NoId
  /\ mod.ops => mod.fam # NoId
  /\ mod.at = "out" => ~Registered

\* Every program but a listener of demo3 ends, whatever ids, errors and other
\* messages it meets and if the module is unloaded under it: whatever it sends
\* is answered or its socket has overrun.  A demo1 program that no one answers
\* is the exception.
ProgramEnds ==
  \A u \in Users : (Open(u) /\ mod.at # "freed") ~>
    (user[u].at = "done" \/ user[u].prog = 3 \/ user[u].deaf \/ mod.at = "freed")

\* Every demo3 program that waits in recv, with the right id and an empty queue
\* that has not overrun, when genl_trigger is written gets the message, although
\* the module may be unloaded and others may run meanwhile, or is told that later
\* messages overran its queue (genl_trigger_store, test_netlink_multicast).  One
\* that is about to receive an earlier message is not spoken of: its queue may be
\* full, and then the message is dropped.
ListenersHear == \A u \in Users : u \in heard ~> (user[u].got \in {Text, ENOBUFS} \/ mod.at = "freed")
=============================================================================
