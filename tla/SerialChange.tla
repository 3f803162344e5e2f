----------------------------- MODULE SerialChange ------------------------------
(***************************************************************************)
(* What the operator of an approved change is promised, without the        *)
(* machinery that keeps the promise: commands reach one device at a time,  *)
(* forward in plan order and back in reverse order, startup-config is      *)
(* written from devices that are all alike, and what alred tells of the    *)
(* fleet as a whole is so at the moment it is told and stays so until a    *)
(* new session is announced.                                               *)
(***************************************************************************)
EXTENDS Integers

CONSTANTS
  N,  \* the devices of the plan, in plan order: 1..N
  C   \* configuration commands per device

VARIABLES
  own,   \* per device: the commands of the change in its running-config
  saved, \* per device: those in its startup-config
  told   \* what alred says of the fleet

serialVars == <<own, saved, told>>

Devices == 1 .. N
AllOwn(s) == \A h \in Devices : own[h] = s
Alike == AllOwn({}) \/ AllOwn(1 .. C)

Sayings ==
  {"open", "applying", "applied", "restoring", "restored", "saving", "done"}

SerialInit ==
  /\ own = [h \in Devices |-> {}] /\ saved = own
  /\ told = "open"

\* The next command of an apply takes effect.
Forward(h) ==
  /\ told = "applying"
  /\ \A g \in Devices : g < h => own[g] = 1 .. C
  /\ \A g \in Devices : g > h => own[g] = {}
  /\ \E k \in 1 .. C : own[h] = 1 .. k - 1 /\ own' = [own EXCEPT ![h] = 1 .. k]
  /\ UNCHANGED <<saved, told>>

\* The last command that is left on the last device that has any is undone.
Back(h) ==
  /\ told = "restoring"
  /\ \A g \in Devices : g > h => own[g] = {}
  /\ \E k \in 1 .. C : own[h] = 1 .. k /\ own' = [own EXCEPT ![h] = 1 .. k - 1]
  /\ UNCHANGED <<saved, told>>

\* A device is saved; all of them carry the same.
Save(h) ==
  /\ told = "saving" /\ Alike
  /\ saved' = [saved EXCEPT ![h] = own[h]]
  /\ UNCHANGED <<own, told>>

\* alred says something else.  A change is applied once only, to devices that
\* have nothing of it.
Tell ==
  /\ told' \in Sayings \ {told}
  /\ told' = "applying" => told = "open" /\ AllOwn({})
  /\ told' = "applied" => told = "applying" /\ AllOwn(1 .. C)
  /\ told' = "restored" => told = "restoring" /\ AllOwn({})
  /\ told' = "saving" => told \in {"open", "restored"}
  /\ told' = "done" => told = "saving" /\ Alike /\ saved = own
  /\ UNCHANGED <<own, saved>>

SerialNext == Tell \/ \E h \in Devices : Forward(h) \/ Back(h) \/ Save(h)

SerialSpec == SerialInit /\ [][SerialNext]_serialVars
=============================================================================
