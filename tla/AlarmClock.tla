----------------------------- MODULE AlarmClock -----------------------------
(***************************************************************************)
(* What timer.c promises: an alarm that is set rings at the first tick not *)
(* before its time, alarms ring in the order of their times, a periodic    *)
(* alarm is then set again one period later, and one without a period      *)
(* stays silent.  Setting or cancelling one alarm leaves the others alone. *)
(***************************************************************************)
EXTENDS Integers

CONSTANTS Id,     (* the alarms                                            *)
          NEVER   (* the time of an alarm that has rung for the last time  *)

VARIABLES now,      (* the number of ticks                                 *)
          phase,    (* of the present tick: its alarms ring when FIRING    *)
          alarm     (* time and period of each alarm that is set           *)

vars == <<now, phase, alarm>>

Armed == {i \in DOMAIN alarm : alarm[i].time # NEVER}

Init == /\ now = 0
        /\ phase = "NO"
        /\ alarm \in [DOMAIN alarm -> [time : Nat, period : Nat]]

Tick == /\ phase = "NO"
        /\ phase' = "COUNTED"
        /\ now' = now + 1
        /\ UNCHANGED alarm

StartRinging == /\ phase = "COUNTED"
                /\ phase' = "FIRING"
                /\ UNCHANGED <<now, alarm>>

Ring(i) ==
  /\ phase = "FIRING"
  /\ i \in Armed
  /\ alarm[i].time <= now
  /\ \A j \in Armed : alarm[i].time <= alarm[j].time
  /\ alarm' = [alarm EXCEPT ![i].time =
                  IF alarm[i].period = 0 THEN NEVER ELSE @ + alarm[i].period]
  /\ UNCHANGED <<now, phase>>

Settle == /\ phase = "FIRING"
          /\ \A i \in Armed : now < alarm[i].time
          /\ phase' = "NO"
          /\ UNCHANGED <<now, alarm>>

Set(i) == /\ phase # "FIRING"
          /\ i \notin DOMAIN alarm
          /\ DOMAIN alarm' = DOMAIN alarm \cup {i}
          /\ alarm'[i].time \in Nat
          /\ \A j \in DOMAIN alarm : alarm'[j] = alarm[j]
          /\ UNCHANGED <<now, phase>>

Cancel(i) == /\ phase # "FIRING"
             /\ alarm' = [j \in DOMAIN alarm \ {i} |-> alarm[j]]
             /\ UNCHANGED <<now, phase>>

Next == \/ Tick \/ StartRinging \/ Settle
        \/ \E i \in Id : Ring(i) \/ Set(i) \/ Cancel(i)

Spec == Init /\ [][Next]_vars
=============================================================================
