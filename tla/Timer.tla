------------------------------- MODULE Timer -------------------------------
(***************************************************************************)
(* The timers of timer.c: a doubly linked list sorted by the tick at which *)
(* each timer is estimated to fire.  create_timer(), delete_timer() and    *)
(* timers_tick() change the list while they prohibit switching, and all    *)
(* are called by tasks, never by interrupt handlers; so what interleaves   *)
(* is the computation of estimated_count, before create_timer() prohibits  *)
(* switching.  The memory of a timer that was freed keeps its contents.    *)
(***************************************************************************)
EXTENDS Integers, FiniteSets

CONSTANTS
  Address,         (* where malloc() may put a Timer                        *)
  main_timer,      (* the address of a repeating timer of the main task     *)
  Delays,          (* bound: the estimated counts callers ask for           *)
  Intervals,       (* bound: the interval counts they ask for               *)
  MaxTick,         (* bound: the number of ticks                            *)
  MaxCreating,     (* bound: the tasks in create_timer() at a time          *)
  DeletesExpired,  (* whether callers delete one-shot timers that fired     *)
  NULL

ASSUME TimerAssumption ==
  /\ IsFiniteSet(Address)
  /\ main_timer \in Address /\ NULL \notin Address
  /\ Delays \subseteq Nat /\ Intervals \subseteq Nat
  /\ MaxTick \in Nat /\ MaxCreating \in Nat
  /\ DeletesExpired \in BOOLEAN

VARIABLES
  timer,                 (* the memory at each address, live or freed       *)
  live,                  (* the addresses that are allocated                *)
  next_estimated_timer,  (* the head of the list                            *)
  tick_count,
  ticking,               (* how far timers_tick() is                        *)
  creating,              (* timers whose estimated_count has been computed  *)
  expired                (* history: the one-shot timers that have fired    *)

vars == <<timer, live, next_estimated_timer, tick_count, ticking, creating,
          expired>>
-----------------------------------------------------------------------------
(* The writes through pointers that are tested for NULL first.             *)
SetNext(m, t, n) == IF t = NULL THEN m ELSE [m EXCEPT ![t].next = n]

SetPrevious(m, t, p) == IF t = NULL THEN m ELSE [m EXCEPT ![t].previous = p]

(* The timer met after k steps from the head h of a list in memory m.      *)
Node(m, h, k) ==
  LET node[i \in Nat] == IF i = 0 THEN h
                         ELSE IF node[i - 1] = NULL THEN NULL
                         ELSE m[node[i - 1]].next
  IN node[k]

(* The loops of create_timer() and timers_tick() stop at the first timer   *)
(* that is the last one or is followed by a later one.                     *)
StopsAt(m, p, count) ==
  /\ p # NULL
  /\ m[p].next # NULL => count < m[m[p].next].estimated_count

(* In a list with a cycle they may never stop: the step is not completed.  *)
Stops(m, h, count) ==
  h = NULL \/ \E i \in 0 .. Cardinality(Address) : StopsAt(m, Node(m, h, i), count)

(* Mutant: among timers of the same tick the last one is not passed.       *)
PreviousTimerTooEarly(m, h, count) == h

PreviousTimer(m, h, count) ==
  LET k == CHOOSE i \in 0 .. Cardinality(Address) :
             /\ StopsAt(m, Node(m, h, i), count)
             /\ \A j \in 0 .. i - 1 : ~StopsAt(m, Node(m, h, j), count)
  IN Node(m, h, k)

(* Mutant: the timer behind the inserted one is not linked back to it.     *)
InsertHalfLinked(m, h, t) ==
  LET count == m[t].estimated_count
      p == PreviousTimer(m, h, count)
      n == m[p].next
  IN IF h = NULL
       THEN [timer |-> [m EXCEPT ![t].previous = NULL, ![t].next = NULL], head |-> t]
     ELSE IF p = h /\ count < m[h].estimated_count
       THEN [timer |-> [m EXCEPT ![t].next = h, ![t].previous = NULL], head |-> t]
     ELSE [timer |-> [m EXCEPT ![t].next = n, ![t].previous = p, ![p].next = t],
           head |-> h]

(* Timer t is inserted into the list with head h.                          *)
Insert(m, h, t) ==
  LET count == m[t].estimated_count
      p == PreviousTimer(m, h, count)
      n == m[p].next
  IN IF h = NULL
       THEN [timer |-> [m EXCEPT ![t].previous = NULL, ![t].next = NULL], head |-> t]
     ELSE IF p = h /\ count < m[h].estimated_count
       THEN [timer |-> [m EXCEPT ![t].next = h, ![h].previous = t, ![t].previous = NULL],
             head |-> t]
     ELSE [timer |-> [SetPrevious([m EXCEPT ![t].next = n], n, t)
                        EXCEPT ![t].previous = p, ![p].next = t],
           head |-> h]

(* Mutant: only the timer in front of t is told that t leaves.             *)
UnlinkForwards(m, t) == SetNext(m, m[t].previous, m[t].next)

(* What t's neighbours are told when it leaves the list.                   *)
Unlink(m, t) ==
  LET m1 == SetNext(m, m[t].previous, m[t].next)
  IN SetPrevious(m1, m1[t].next, m1[t].previous)
-----------------------------------------------------------------------------
(* The main task has created a repeating timer that it never deletes.      *)
Init ==
  /\ timer \in [Address -> {[estimated_count |-> 0, interval_count |-> i,
                             previous |-> NULL, next |-> NULL] : i \in Intervals \ {0}}]
  /\ live = {main_timer}
  /\ next_estimated_timer = main_timer
  /\ tick_count = 0
  /\ ticking = "NO"
  /\ creating = {}
  /\ expired = {}

(* create_timer() up to prohibit_switch_task().                            *)
AllocateTimer(t, delay, interval) ==
  /\ t \notin live /\ Cardinality(creating) < MaxCreating
  /\ ticking # "FIRING"
  /\ live' = live \cup {t}
  /\ creating' = creating \cup {t}
  /\ timer' = [timer EXCEPT ![t].estimated_count = tick_count + delay,
                            ![t].interval_count = interval]
  /\ UNCHANGED <<next_estimated_timer, tick_count, ticking, expired>>

(* The rest of create_timer().                                             *)
InsertTimer(t) ==
  /\ t \in creating
  /\ ticking # "FIRING"
  /\ Stops(timer, next_estimated_timer, timer[t].estimated_count)
  /\ creating' = creating \ {t}
  /\ LET inserted == Insert(timer, next_estimated_timer, t)
     IN timer' = inserted.timer /\ next_estimated_timer' = inserted.head
  /\ UNCHANGED <<live, tick_count, ticking, expired>>

(* delete_timer() by the owner of the timer.                               *)
DeleteTimer(t) ==
  /\ t \in live \ (creating \cup {main_timer})
  /\ t \in expired => DeletesExpired
  /\ ticking # "FIRING"
  /\ next_estimated_timer' = IF next_estimated_timer = t THEN timer[t].next
                             ELSE next_estimated_timer
  /\ timer' = Unlink(timer, t)
  /\ live' = live \ {t}
  /\ expired' = expired \ {t}
  /\ UNCHANGED <<tick_count, ticking, creating>>

(* timers_tick() by the main task, for each event of the timer interrupt.  *)
CountTick ==
  /\ ticking = "NO"
  /\ tick_count < MaxTick
  /\ tick_count' = tick_count + 1
  /\ ticking' = "COUNTED"
  /\ UNCHANGED <<timer, live, next_estimated_timer, creating, expired>>

(* Once the tick is counted it prohibits switching: nobody creates or      *)
(* deletes a timer until EndTick.                                          *)
BeginFiring ==
  /\ ticking = "COUNTED"
  /\ ticking' = "FIRING"
  /\ UNCHANGED <<timer, live, next_estimated_timer, tick_count, creating, expired>>

(* The head is tested for NULL once, before the loop; what would be read   *)
(* through it later is taken as a time that has not come.  TypeOK shows    *)
(* that it is never NULL unless an expired timer was deleted.              *)
Due == /\ next_estimated_timer # NULL
       /\ timer[next_estimated_timer].estimated_count <= tick_count

(* Mutant: every timer is one-shot.                                        *)
FireAnyOnce ==
  /\ ticking = "FIRING" /\ Due
  /\ next_estimated_timer' = timer[next_estimated_timer].next
  /\ expired' = expired \cup {next_estimated_timer}
  /\ UNCHANGED <<timer, live, tick_count, ticking, creating>>

(* An event for the owner of the first timer, which then leaves the list   *)
(* and comes back at its next time.                                        *)
FireRepeating ==
  LET t == next_estimated_timer
      unlinked == [Unlink(timer, t) EXCEPT ![t].previous = NULL, ![t].next = NULL,
                                           ![t].estimated_count = @ + timer[t].interval_count]
      inserted == Insert(unlinked, timer[t].next, t)
  IN /\ ticking = "FIRING" /\ Due
     /\ timer[t].interval_count # 0
     /\ Stops(unlinked, timer[t].next, unlinked[t].estimated_count)
     /\ timer' = inserted.timer
     /\ next_estimated_timer' = inserted.head
     /\ UNCHANGED <<live, tick_count, ticking, creating, expired>>

(* ... which keeps its links if it is not repeated.                        *)
FireOnce ==
  /\ ticking = "FIRING" /\ Due
  /\ timer[next_estimated_timer].interval_count = 0
  /\ next_estimated_timer' = timer[next_estimated_timer].next
  /\ expired' = expired \cup {next_estimated_timer}
  /\ UNCHANGED <<timer, live, tick_count, ticking, creating>>

EndTick ==
  /\ ticking = "FIRING" /\ ~Due
  /\ ticking' = "NO"
  /\ UNCHANGED <<timer, live, next_estimated_timer, tick_count, creating, expired>>

Next ==
  \/ \E t \in Address :
       \/ \E delay \in Delays, interval \in Intervals : AllocateTimer(t, delay, interval)
       \/ InsertTimer(t)
       \/ DeleteTimer(t)
  \/ CountTick \/ BeginFiring \/ FireRepeating \/ FireOnce \/ EndTick

Spec == Init /\ [][Next]_vars
-----------------------------------------------------------------------------
Armed == live \ (creating \cup expired)

Listed == {Node(timer, next_estimated_timer, k) : k \in 0 .. Cardinality(Address)} \ {NULL}

(* The head is never NULL: timers_tick() does not look there for a timer.  *)
TypeOK ==
  /\ timer \in [Address -> [estimated_count : Nat, interval_count : Nat,
                            previous : Address \cup {NULL}, next : Address \cup {NULL}]]
  /\ next_estimated_timer \in Address
  /\ tick_count \in 0 .. MaxTick
  /\ ticking \in {"NO", "COUNTED", "FIRING"}
  /\ creating \subseteq live /\ expired \subseteq live /\ live \subseteq Address

(* The list holds each armed timer and no other: none is lost by an insert *)
(* or a delete in its neighbourhood, and no freed timer is left in it.     *)
ListHoldsArmed == Listed = Armed

(* Each timer of the list knows the one before it; the first one may still *)
(* point back at an expired timer.                                         *)
LinkedBack ==
  /\ \A t \in Listed : timer[t].next # NULL => timer[timer[t].next].previous = t
  /\ timer[next_estimated_timer].previous \notin Armed

(* "if interval_count == 0, the Timer won't be repeated." (timer.h:10)     *)
OneShotsFireOnce ==
  ticking = "FIRING" /\ Due => next_estimated_timer \notin expired

(* No tick: when an expired timer fires again.                             *)
NEVER == -1

Alarms == [t \in live \ creating |->
             [time |-> IF t \in expired THEN NEVER ELSE timer[t].estimated_count,
              period |-> timer[t].interval_count]]

Clock == INSTANCE AlarmClock WITH
           Id <- Address,
           now <- tick_count,
           phase <- ticking,
           alarm <- Alarms

(* The list implements the alarms: at each tick exactly the timers that    *)
(* are due fire, each as often as it is due, in the order of their times.  *)
ImplementsClock == Clock!Spec
=============================================================================
