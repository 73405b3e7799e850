-------------------------------- MODULE Heap --------------------------------
(***************************************************************************)
(* What tb_malloc and tb_free promise their caller: memory for as many     *)
(* bytes as were asked for, which nobody else is given until it is freed,  *)
(* or 0.                                                                   *)
(***************************************************************************)
EXTENDS Integers, FiniteSets

CONSTANTS Unit,       \* the units of memory
          UnitBytes,  \* the bytes in one; the first of an area is its header
          Requests    \* the sizes asked for

VARIABLES
  owned,   \* the areas handed out, each a set of units
  asked    \* bytes asked for by the call in progress, Nothing between calls

Nothing == -1

Ask == asked = Nothing /\ asked' \in Requests /\ UNCHANGED owned

Grant(area) ==
  /\ asked # Nothing
  /\ area \subseteq Unit
  /\ \E first \in area : area = first .. first + Cardinality(area) - 1
  /\ \A old \in owned : area \cap old = {}
  /\ (Cardinality(area) - 1) * UnitBytes >= asked
  /\ owned' = owned \cup {area}
  /\ asked' = Nothing

Refuse == asked # Nothing /\ asked' = Nothing /\ UNCHANGED owned

(* The area leaves the caller's hands when free is called.                 *)
GiveBack(area) ==
  /\ asked = Nothing
  /\ owned' = owned \ {area}
  /\ UNCHANGED asked

Init == owned = {} /\ asked = Nothing

Next ==
  \/ Ask \/ Refuse
  \/ \E area \in owned' : Grant(area)
  \/ \E area \in owned : GiveBack(area)

Spec == Init /\ [][Next]_<<owned, asked>>
=============================================================================
