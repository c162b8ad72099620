---------------------------- MODULE SharedSupply ----------------------------
(***************************************************************************)
(* What a supply promises to the drivers that share it, whatever chip it   *)
(* is on: it is on before one of them uses it, and is switched off only    *)
(* when no one does ("only when num_users is 0 the state is disabled",     *)
(* rk3288/debug/regulator/README.md).  A transfer error ends the promise.  *)
(***************************************************************************)
CONSTANT Users           \* the drivers
VARIABLES users, on, broken

Init == users = {} /\ on \in BOOLEAN /\ broken = FALSE

Use(c)    == on /\ users' = users \cup {c} /\ UNCHANGED <<on, broken>>
Release(c) == users' = users \ {c} /\ UNCHANGED <<on, broken>>
SwitchOn  == on' = TRUE /\ UNCHANGED <<users, broken>>
SwitchOff == users = {} /\ on' = FALSE /\ UNCHANGED <<users, broken>>

Next ==
  \/ broken' = TRUE
  \/ SwitchOn \/ SwitchOff
  \/ \E c \in Users : Use(c) \/ Release(c)

Spec == Init /\ [][Next]_<<users, on, broken>>
=============================================================================
