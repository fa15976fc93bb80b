-------------------------- MODULE SchedulerProofs --------------------------
(***************************************************************************)
(* Proofs about the scheduler, for any number of tasks, any depth of       *)
(* prohibit_switch_task() and any width of elapsed_time: one task runs at  *)
(* a time, and each task is linked once, whatever the interleaving of      *)
(* tasks and interrupts.                                                   *)
(***************************************************************************)
EXTENDS Scheduler, FiniteSetTheorems, TLAPS

(* The search finds the first of a non-empty set of positions.             *)
LEMMA LeastIsFirst ==
  ASSUME NEW S, S \subseteq Nat, S # {}
  PROVE  Least(S) \in S /\ \A j \in S : Least(S) <= j
<1> DEFINE R == StrictSubsetOrdering(Nat)
           T == {0 .. i : i \in S}
<1>1. IsWellFoundedOn(R, FiniteSubsetsOf(Nat))
  BY FS_StrictSubsetOrderingWellFounded
<1>2. T \subseteq FiniteSubsetsOf(Nat) /\ T # {}
  <2>1. ASSUME NEW i \in S  PROVE 0 .. i \in FiniteSubsetsOf(Nat)
    <3>1. i \in Int /\ 0 .. i \in SUBSET Nat
      OBVIOUS
    <3>2. IsFiniteSet(0 .. i)
      BY <3>1, FS_Interval
    <3>3. QED
      BY <3>1, <3>2 DEF FiniteSubsetsOf
  <2>2. QED
    BY <2>1
<1>3. PICK x \in T : \A y \in T : ~(<<y, x>> \in R)
  <2> HIDE DEF R, T
  <2>1. QED
    BY <1>1, <1>2, WFMin
<1>4. PICK i \in S : x = 0 .. i
  OBVIOUS
<1>5. ASSUME NEW j \in S, j < i  PROVE FALSE
  <2>1. 0 .. j \in T /\ x \in SUBSET Nat /\ 0 .. j \in SUBSET Nat
    BY <1>4
  <2>2. 0 .. j \subseteq x /\ 0 .. j # x
    <3>1. i \in 0 .. i /\ ~(i \in 0 .. j) /\ 0 .. j \subseteq 0 .. i
      BY <1>5
    <3>2. QED
      BY <1>4, <3>1
  <2>3. <<0 .. j, x>> \in R
    BY <2>1, <2>2 DEF StrictSubsetOrdering
  <2>4. QED
    BY <1>3, <2>1, <2>3
<1>6. \A j \in S : i <= j
  BY <1>5
<1>7. QED
  BY <1>6 DEF Least

(* ... and the highest of a non-empty set of levels.                       *)
LEMMA GreatestIsHighest ==
  ASSUME NEW S, S \subseteq Priority, S # {}
  PROVE  Greatest(S) \in S /\ \A j \in S : j <= Greatest(S)
<1>1. \E i \in S : \A j \in S : j <= i
  <2>1. CASE 3 \in S
    BY <2>1 DEF Priority, IDLE, KERNEL
  <2>2. CASE 3 \notin S /\ 2 \in S
    BY <2>2 DEF Priority, IDLE, KERNEL
  <2>3. CASE 3 \notin S /\ 2 \notin S /\ 1 \in S
    BY <2>3 DEF Priority, IDLE, KERNEL
  <2>4. CASE 3 \notin S /\ 2 \notin S /\ 1 \notin S
    <3>1. \A j \in S : j = 0
      <4>1. ASSUME NEW j \in S  PROVE j = 0
        <5>1. j \in 0 .. 3 /\ j # 1 /\ j # 2 /\ j # 3
          BY <2>4 DEF Priority, IDLE, KERNEL
        <5>2. QED
          BY <5>1
      <4>2. QED
        BY <4>1
    <3>2. QED
      BY <3>1
  <2>5. QED
    BY <2>1, <2>2, <2>3, <2>4
<1>2. QED
  BY <1>1 DEF Greatest
-----------------------------------------------------------------------------
(* The invariant.  It is stated of a value of sched, because the functions *)
(* of task.c call one another half way through an action.                  *)
Typed(s) ==
  s \in [ring : [Priority -> Seq(Task)], level : Priority,
         priority : [Task -> Priority], status : [Task -> Status],
         switch_prohibition_level : [Task -> Nat], pending : SUBSET Task,
         elapsed_time : [Task -> 0 .. ElapsedModulus - 1], fresh : SUBSET Task]

Exists(s, t) == s.status[t] \notin {"FREE", "LOST"}

(* Each ring lists existing tasks of its priority, none twice, and no task *)
(* that exists is missing.                                                 *)
Linked(s) ==
  /\ \A p \in Priority : \A i \in 1 .. Len(s.ring[p]) :
       Exists(s, s.ring[p][i]) /\ s.priority[s.ring[p][i]] = p
  /\ \A p \in Priority : \A i, j \in 1 .. Len(s.ring[p]) :
       s.ring[p][i] = s.ring[p][j] => i = j
  /\ \A t \in Task : Exists(s, t) =>
       \E i \in 1 .. Len(s.ring[s.priority[t]]) : s.ring[s.priority[t]][i] = t

OnlyCurrentRuns(s) == \A t \in Task : s.status[t] = "RUN" => t = Current(s)

CurrentRuns(s) == s.status[Current(s)] = "RUN"

(* The main task and the idle task are never closed, and the idle task     *)
(* never sleeps.                                                           *)
Permanent(s) == /\ s.status[idle_task] \in {"WAIT", "RUN"}
                /\ s.status[main_task] \in {"SLEEP", "WAIT", "RUN"}
                /\ s.priority[main_task] = KERNEL
                /\ s.priority[idle_task] = IDLE

(* A pending switch belongs to a task that prohibits switching.            *)
Owed(s) == \A t \in s.pending : s.switch_prohibition_level[t] > 0

Good(s) == /\ Typed(s)
           /\ s.ring[s.level] # << >>
           /\ Linked(s)
           /\ OnlyCurrentRuns(s)
           /\ Permanent(s)
           /\ Owed(s)

(* The arithmetic of the levels, and what the constants are.               *)
LEMMA Constants ==
  /\ Priority = 0 .. 3 /\ IDLE = 0 /\ USER = 1 /\ SHELL = 2 /\ KERNEL = 3
  /\ main_task \in Task /\ idle_task \in Task /\ Pool \subseteq Task
  /\ main_task \notin Pool /\ idle_task \notin Pool /\ main_task # idle_task
  /\ ElapsedModulus \in Nat /\ ElapsedModulus > 2
  /\ MaxProhibition \in Nat
  /\ TaskPriorities \subseteq {1, 2}
  /\ NULL \notin Task
BY SchedulerAssumption
   DEF Priority, IDLE, USER, SHELL, KERNEL, Task

(* Levels can be compared.                                                 *)
LEMMA LevelsAreIntegers ==
  ASSUME NEW s, Typed(s)
  PROVE  s.level \in Int /\ \A x \in Task : s.priority[x] \in Int
<1>1. s.level \in Priority /\ s.priority \in [Task -> Priority]
  BY DEF Typed
<1>2. \A x \in Priority : x \in Int
  BY ONLY Constants
<1>3. \A x \in Task : s.priority[x] \in Priority
  BY ONLY <1>1
<1>4. QED
  BY ONLY <1>1, <1>2, <1>3

(* Turning a ring keeps its length and its members, each in one place, and *)
(* brings the chosen one to the end.                                       *)
LEMMA RotateTurns ==
  ASSUME NEW r \in Seq(Task), NEW i \in 1 .. Len(r)
  PROVE  /\ Rotate(r, i) \in Seq(Task)
         /\ Len(Rotate(r, i)) = Len(r)
         /\ Rotate(r, i)[Len(r)] = r[i]
         /\ \A k \in 1 .. Len(r) : \E m \in 1 .. Len(r) : Rotate(r, i)[k] = r[m]
         /\ \A m \in 1 .. Len(r) : \E k \in 1 .. Len(r) : Rotate(r, i)[k] = r[m]
         /\ (\A j, k \in 1 .. Len(r) : r[j] = r[k] => j = k) =>
              \A j, k \in 1 .. Len(r) : Rotate(r, i)[j] = Rotate(r, i)[k] => j = k
<1> DEFINE n == Len(r)
           q == Rotate(r, i)
           At(k) == IF i + k <= n THEN i + k ELSE i + k - n
<1>1. n \in Nat /\ i \in 1 .. n /\ \A k \in 1 .. n : At(k) \in 1 .. n /\ r[k] \in Task
  OBVIOUS
<1>2. q = [k \in 1 .. n |-> r[At(k)]]
  BY DEF Rotate
<1> HIDE DEF q, n
<1>3. q \in Seq(Task) /\ Len(q) = n
  <2>1. q \in [1 .. n -> Task]
    BY <1>1, <1>2
  <2>2. QED
    BY <1>1, <2>1
<1>4. q[n] = r[i]
  BY <1>1, <1>2
<1>5. ASSUME NEW k \in 1 .. n  PROVE \E m \in 1 .. n : q[k] = r[m]
  BY <1>1, <1>2
<1>6. ASSUME NEW m \in 1 .. n  PROVE \E k \in 1 .. n : q[k] = r[m]
  <2>1. CASE m > i
    <3>1. m - i \in 1 .. n /\ At(m - i) = m
      BY <1>1, <2>1
    <3>2. QED
      BY <1>2, <3>1
  <2>2. CASE ~(m > i)
    <3>1. m - i + n \in 1 .. n /\ At(m - i + n) = m
      BY <1>1, <2>2
    <3>2. QED
      BY <1>2, <3>1
  <2>3. QED
    BY <2>1, <2>2
<1>7. ASSUME \A j, k \in 1 .. n : r[j] = r[k] => j = k,
             NEW j \in 1 .. n, NEW k \in 1 .. n, q[j] = q[k]
      PROVE  j = k
  <2>1. At(j) = At(k)
    BY <1>1, <1>2, <1>7
  <2>2. QED
    BY <1>1, <2>1
<1>8. QED
  BY <1>3, <1>4, <1>5, <1>6, <1>7 DEF n, q

(* d is s after a switch to the i-th task of level p, which waits and is   *)
(* the highest such level at or above the floor.                           *)
Switched(s, d, floor, st, p, i) ==
  /\ p \in Priority /\ floor <= p
  /\ \A x \in Priority : floor <= x /\ Waiting(s, x) # {} => x <= p
  /\ i \in 1 .. Len(s.ring[p])
  /\ s.status[s.ring[p][i]] = "WAIT"
  /\ Typed(d)
  /\ d.ring = [s.ring EXCEPT ![p] = Rotate(s.ring[p], i)]
  /\ d.level = p
  /\ d.priority = s.priority
  /\ d.status = [s.status EXCEPT ![Current(s)] = st, ![s.ring[p][i]] = "RUN"]
  /\ d.switch_prohibition_level = s.switch_prohibition_level
  /\ d.pending = s.pending
  /\ d.elapsed_time = s.elapsed_time
  /\ d.fresh = s.fresh \ {s.ring[p][i]}

LEMMA DispatchFields ==
  ASSUME NEW s, Typed(s), s.ring[s.level] # << >>,
         NEW floor \in Priority, NEW st \in Status, ReadyLevels(s, floor) # {}
  PROVE  LET p == Greatest(ReadyLevels(s, floor))
         IN Switched(s, Dispatch(s, floor, st), floor, st, p, Least(Waiting(s, p)))
<1> DEFINE p == Greatest(ReadyLevels(s, floor))
           i == Least(Waiting(s, p))
           t == s.ring[p][i]
           d == Dispatch(s, floor, st)
<1>1. /\ p \in Priority /\ floor <= p /\ Waiting(s, p) # {}
      /\ \A x \in Priority : floor <= x /\ Waiting(s, x) # {} => x <= p
  <2>1. ReadyLevels(s, floor) \subseteq Priority
    BY DEF ReadyLevels
  <2>2. p \in ReadyLevels(s, floor) /\ \A x \in ReadyLevels(s, floor) : x <= p
    BY <2>1, GreatestIsHighest
  <2>3. QED
    BY <2>2 DEF ReadyLevels
<1> HIDE DEF p
<1>2. s.ring[p] \in Seq(Task)
  BY <1>1 DEF Typed
<1>3. Waiting(s, p) \subseteq 1 .. Len(s.ring[p])
  BY <1>2 DEF Waiting
<1>4. i \in Waiting(s, p)
  <2>1. Waiting(s, p) \subseteq Nat
    BY <1>2, <1>3
  <2>2. QED
    BY <1>1, <2>1, LeastIsFirst
<1> HIDE DEF i
<1>5. i \in 1 .. Len(s.ring[p]) /\ s.status[t] = "WAIT" /\ t \in Task
  BY <1>2, <1>3, <1>4 DEF Waiting
<1>6. Current(s) \in Task
  <2>1. s.ring[s.level] \in Seq(Task)
    BY DEF Typed
  <2>2. QED
    BY <2>1 DEF Current
<1>7. Rotate(s.ring[p], i) \in Seq(Task)
  BY <1>2, <1>5, RotateTurns
<1>8. d = [s EXCEPT !.status = [s.status EXCEPT ![Current(s)] = st, ![t] = "RUN"],
                    !.ring = [s.ring EXCEPT ![p] = Rotate(s.ring[p], i)],
                    !.level = p,
                    !.fresh = s.fresh \ {t}]
  BY DEF Dispatch, p, i, Typed
<1> HIDE DEF d
<1>9. /\ [s.status EXCEPT ![Current(s)] = st, ![t] = "RUN"] \in [Task -> Status]
      /\ [s.ring EXCEPT ![p] = Rotate(s.ring[p], i)] \in [Priority -> Seq(Task)]
      /\ s.fresh \ {t} \in SUBSET Task
  BY <1>1, <1>5, <1>7 DEF Typed, Status
<1>10. /\ Typed(d)
       /\ d.ring = [s.ring EXCEPT ![p] = Rotate(s.ring[p], i)]
       /\ d.level = p
       /\ d.priority = s.priority
       /\ d.status = [s.status EXCEPT ![Current(s)] = st, ![t] = "RUN"]
       /\ d.switch_prohibition_level = s.switch_prohibition_level
       /\ d.pending = s.pending
       /\ d.elapsed_time = s.elapsed_time
       /\ d.fresh = s.fresh \ {t}
  BY <1>1, <1>8, <1>9 DEF Typed
<1>11. Switched(s, d, floor, st, p, i)
  BY <1>1, <1>5, <1>10 DEF Switched
<1>12. QED
  BY <1>11 DEF p, i, d

(* The current task is one that exists.                                    *)
LEMMA CurrentExists ==
  ASSUME NEW s, Typed(s), s.ring[s.level] # << >>, Linked(s)
  PROVE  /\ Current(s) \in Task
         /\ Exists(s, Current(s))
         /\ s.priority[Current(s)] = s.level
         /\ s.ring[s.level] \in Seq(Task)
         /\ Len(s.ring[s.level]) \in 1 .. Len(s.ring[s.level])
<1> DEFINE r == s.ring[s.level]
<1>1. s.level \in Priority /\ r \in Seq(Task)
  BY DEF Typed
<1>2. Len(r) \in 1 .. Len(r) /\ r[Len(r)] \in Task
  BY <1>1
<1>3. Exists(s, r[Len(r)]) /\ s.priority[r[Len(r)]] = s.level
  BY <1>1, <1>2 DEF Linked
<1>4. QED
  BY <1>1, <1>2, <1>3 DEF Current

(* A task is awake when it runs or is ready to.                            *)
Awake(s, t) == s.status[t] \in {"WAIT", "RUN"}

(* What a change of turns may do to the tasks: none comes or goes, who is  *)
(* awake stays awake, who is not and is not in T stays as it is, and the   *)
(* level does not fall.                                                    *)
Gives(s, d, T) ==
  /\ d.priority = s.priority
  /\ s.level <= d.level
  /\ \A x \in Task : Exists(d, x) <=> Exists(s, x)
  /\ \A x \in Task : Awake(s, x) => Awake(d, x)
  /\ \A x \in Task \ T : ~Awake(s, x) => d.status[x] = s.status[x]

(* While nobody runs, a ready task is turned to the end of its ring and    *)
(* made to run: no link is disturbed.                                      *)
HandsOver(s, d, p, i) ==
  /\ Typed(s) /\ Linked(s) /\ Permanent(s) /\ Owed(s)
  /\ \A x \in Task : s.status[x] # "RUN"
  /\ p \in Priority /\ i \in 1 .. Len(s.ring[p])
  /\ s.status[s.ring[p][i]] = "WAIT"
  /\ Typed(d)
  /\ d.ring = [s.ring EXCEPT ![p] = Rotate(s.ring[p], i)]
  /\ d.level = p
  /\ d.priority = s.priority
  /\ d.status = [s.status EXCEPT ![s.ring[p][i]] = "RUN"]
  /\ d.switch_prohibition_level = s.switch_prohibition_level
  /\ d.pending = s.pending

LEMMA HandOver ==
  ASSUME NEW s, NEW d, NEW p, NEW i, HandsOver(s, d, p, i)
  PROVE  Good(d) /\ CurrentRuns(d) /\ Current(d) = s.ring[p][i]
<1>1. /\ Typed(s) /\ Linked(s) /\ Permanent(s) /\ Owed(s)
      /\ \A x \in Task : s.status[x] # "RUN"
      /\ p \in Priority /\ i \in 1 .. Len(s.ring[p])
      /\ s.status[s.ring[p][i]] = "WAIT"
  BY DEF HandsOver
<1>5. /\ Typed(d)
      /\ d.ring = [s.ring EXCEPT ![p] = Rotate(s.ring[p], i)]
      /\ d.level = p
      /\ d.priority = s.priority
      /\ d.status = [s.status EXCEPT ![s.ring[p][i]] = "RUN"]
      /\ d.switch_prohibition_level = s.switch_prohibition_level
      /\ d.pending = s.pending
  BY DEF HandsOver
<1> DEFINE r == s.ring[p]
           q == Rotate(r, i)
           t == r[i]
<1>6. /\ r \in Seq(Task) /\ t \in Task /\ i \in 1 .. Len(r) /\ Len(r) \in 1 .. Len(r)
      /\ s.status[t] = "WAIT"
      /\ \A j, k \in 1 .. Len(r) : r[j] = r[k] => j = k
  <2>1. r \in Seq(Task) /\ i \in 1 .. Len(r)
    BY <1>1, <1>5 DEF Typed
  <2>2. \A j, k \in 1 .. Len(r) : r[j] = r[k] => j = k
    BY <1>1, <1>5 DEF Linked
  <2>3. QED
    BY <1>1, <1>5, <2>1, <2>2
<1> HIDE DEF r
<1>7. /\ q \in Seq(Task) /\ Len(q) = Len(r) /\ q[Len(r)] = t
      /\ \A k \in 1 .. Len(r) : \E m \in 1 .. Len(r) : q[k] = r[m]
      /\ \A m \in 1 .. Len(r) : \E k \in 1 .. Len(r) : q[k] = r[m]
      /\ \A j, k \in 1 .. Len(r) : q[j] = q[k] => j = k
  BY ONLY <1>6, RotateTurns
<1> HIDE DEF q, t
<1>8. /\ d.ring[p] = q
      /\ \A x \in Priority : x # p => d.ring[x] = s.ring[x]
      /\ \A x \in Task : d.status[x] = IF x = t THEN "RUN" ELSE s.status[x]
  BY <1>1, <1>5, <1>6 DEF Typed, q, r, t
<1>9. \A x \in Task : Exists(d, x) <=> Exists(s, x)
  BY <1>1, <1>5, <1>6, <1>8 DEF Exists
<1>10. d.ring[d.level] # << >> /\ Current(d) = t
  <2>1. d.ring[d.level] = q /\ Len(q) \in 1 .. Len(q)
    BY <1>1, <1>5, <1>6, <1>7, <1>8
  <2>2. q # << >>
    BY <1>1, <1>5, <2>1
  <2>3. Current(d) = q[Len(q)]
    BY <1>1, <1>5, <2>1 DEF Current
  <2>4. QED
    BY <1>1, <1>5, <1>7, <2>1, <2>2, <2>3
<1>11. Linked(d)
  <2>1. ASSUME NEW x \in Priority, NEW k \in 1 .. Len(d.ring[x])
        PROVE  Exists(d, d.ring[x][k]) /\ d.priority[d.ring[x][k]] = x
    <3>1. PICK m \in 1 .. Len(s.ring[x]) : d.ring[x][k] = s.ring[x][m]
      <4>1. CASE x = p
        <5>1. k \in 1 .. Len(r) /\ d.ring[x][k] = q[k]
          BY <1>1, <1>5, <1>7, <1>8, <4>1
        <5>2. PICK m \in 1 .. Len(r) : q[k] = r[m]
          BY <1>1, <1>5, <1>7, <5>1
        <5>3. QED
          BY <1>1, <1>5, <4>1, <5>1, <5>2 DEF r
      <4>2. CASE x # p
        BY <1>1, <1>5, <1>8, <2>1, <4>2
      <4>3. QED
        BY <1>1, <1>5, <4>1, <4>2
    <3>2. s.ring[x][m] \in Task
      BY <1>1, <1>5, <3>1 DEF Typed
    <3>3. Exists(s, s.ring[x][m]) /\ s.priority[s.ring[x][m]] = x
      BY <1>1, <1>5, <3>1 DEF Linked
    <3>4. QED
      BY <1>1, <1>5, <1>9, <3>1, <3>2, <3>3
  <2>2. ASSUME NEW x \in Priority, NEW j \in 1 .. Len(d.ring[x]),
               NEW k \in 1 .. Len(d.ring[x]), d.ring[x][j] = d.ring[x][k]
        PROVE  j = k
    <3>1. CASE x = p
      <4>1. j \in 1 .. Len(r) /\ k \in 1 .. Len(r) /\ q[j] = q[k]
        BY <1>7, <1>8, <2>2, <3>1
      <4>2. QED
        BY <1>7, <4>1
    <3>2. CASE x # p
      BY <1>1, <1>5, <1>8, <2>2, <3>2 DEF Linked
    <3>3. QED
      BY <3>1, <3>2
  <2>3. ASSUME NEW x \in Task, Exists(d, x)
        PROVE  \E k \in 1 .. Len(d.ring[d.priority[x]]) : d.ring[d.priority[x]][k] = x
    <3>1. PICK m \in 1 .. Len(s.ring[s.priority[x]]) : s.ring[s.priority[x]][m] = x
      BY <1>1, <1>5, <1>9, <2>3 DEF Linked
    <3>2. s.priority[x] \in Priority
      BY <1>1, <1>5 DEF Typed
    <3>3. CASE s.priority[x] = p
      <4>1. m \in 1 .. Len(r) /\ r[m] = x /\ d.priority[x] = p
        BY <1>1, <1>5, <3>1, <3>3 DEF r
      <4>2. PICK k \in 1 .. Len(r) : q[k] = x
        BY <1>1, <1>5, <1>7, <4>1
      <4>3. QED
        BY <1>1, <1>5, <1>7, <1>8, <4>1, <4>2
    <3>4. CASE s.priority[x] # p
      BY <1>1, <1>5, <1>8, <3>1, <3>2, <3>4
    <3>5. QED
      BY <1>1, <1>5, <3>3, <3>4
  <2>4. QED
    BY <1>1, <1>5, <2>1, <2>2, <2>3 DEF Linked
<1>12. OnlyCurrentRuns(d) /\ CurrentRuns(d)
  BY <1>1, <1>5, <1>6, <1>8, <1>10 DEF OnlyCurrentRuns, CurrentRuns
<1>13. Permanent(d)
  BY <1>1, <1>5, <1>8, Constants DEF Permanent
<1>14. Owed(d)
  BY <1>1, <1>5 DEF Owed
<1>15. QED
  BY <1>1, <1>5, <1>10, <1>11, <1>12, <1>13, <1>14 DEF Good, r, t

(* A switch hands the processor over: the task that was running gets its   *)
(* new status, and the next one runs.                                      *)
LEMMA DispatchGood ==
  ASSUME NEW s, Good(s), NEW floor \in Priority, NEW st \in {"WAIT", "SLEEP"},
         ReadyLevels(s, floor) # {},
         st = "SLEEP" => Current(s) # idle_task
  PROVE  LET d == Dispatch(s, floor, st)
         IN /\ Good(d) /\ CurrentRuns(d)
            /\ st = "WAIT" /\ floor = s.level => Gives(s, d, {Current(s)})
            /\ \A x \in Task \ {Current(s)} :
                 /\ Awake(s, x) <=> Awake(d, x)
                 /\ ~Awake(s, x) => d.status[x] = s.status[x]
                 /\ floor = IDLE /\ s.status[x] = "WAIT" => s.priority[x] <= d.level
            /\ \A x \in Task : Exists(d, x) <=> Exists(s, x)
            /\ d.switch_prohibition_level = s.switch_prohibition_level
            /\ d.priority = s.priority
            /\ d.pending = s.pending
<1> DEFINE d == Dispatch(s, floor, st)
           c == Current(s)
           e == [s EXCEPT !.status = [s.status EXCEPT ![c] = st]]
<1>1. /\ Typed(s) /\ s.ring[s.level] # << >> /\ Linked(s) /\ OnlyCurrentRuns(s)
      /\ Permanent(s) /\ Owed(s)
  BY DEF Good
<1>2. c \in Task /\ Exists(s, c)
  BY <1>1, CurrentExists
<1>3. st \in Status
  BY DEF Status
<1> DEFINE p == Greatest(ReadyLevels(s, floor))
           i == Least(Waiting(s, p))
           t == s.ring[p][i]
<1> HIDE DEF d, p, i
<1>5. /\ p \in Priority /\ floor <= p /\ i \in 1 .. Len(s.ring[p])
      /\ \A x \in Priority : floor <= x /\ Waiting(s, x) # {} => x <= p
      /\ s.status[t] = "WAIT"
      /\ Typed(d)
      /\ d.ring = [s.ring EXCEPT ![p] = Rotate(s.ring[p], i)]
      /\ d.level = p
      /\ d.priority = s.priority
      /\ d.status = [s.status EXCEPT ![c] = st, ![t] = "RUN"]
      /\ d.switch_prohibition_level = s.switch_prohibition_level
      /\ d.pending = s.pending
  <2>1. s.ring[s.level] # << >> /\ Typed(s) /\ floor \in Priority /\ ReadyLevels(s, floor) # {}
    BY <1>1
  <2>2. Switched(s, d, floor, st, p, i)
    BY ONLY <1>3, <2>1, DispatchFields DEF d, p, i
  <2>3. QED
    BY ONLY <2>2 DEF Switched, c, t
<1> HIDE DEF c
<1>6. t \in Task /\ s.status \in [Task -> Status]
  <2>1. s.ring[p] \in Seq(Task) /\ s.status \in [Task -> Status]
    BY <1>1, <1>5 DEF Typed
  <2>2. s.ring[p][i] \in Task
    BY <1>5, <2>1
  <2>3. QED
    BY <2>1, <2>2
<1>7. /\ Typed(e) /\ e.ring = s.ring /\ e.level = s.level /\ e.priority = s.priority
      /\ e.switch_prohibition_level = s.switch_prohibition_level
      /\ e.pending = s.pending
      /\ e.status = [s.status EXCEPT ![c] = st]
  BY <1>1, <1>2, <1>3 DEF Typed
<1> HIDE DEF e, t
<1>8. /\ \A x \in Task : e.status[x] = IF x = c THEN st ELSE s.status[x]
      /\ \A x \in Task : d.status[x] = IF x = t THEN "RUN" ELSE e.status[x]
  BY <1>2, <1>5, <1>6, <1>7
<1>9. \A x \in Task : Exists(e, x) <=> Exists(s, x)
  BY <1>2, <1>8 DEF Exists
<1>10. Linked(e)
  <2>1. \A x \in Priority : \A k \in 1 .. Len(s.ring[x]) : s.ring[x][k] \in Task
    BY <1>1 DEF Typed
  <2>2. \A x \in Priority : \A k \in 1 .. Len(e.ring[x]) :
          Exists(e, e.ring[x][k]) /\ e.priority[e.ring[x][k]] = x
    BY <1>1, <1>7, <1>9, <2>1 DEF Linked
  <2>3. QED
    BY <1>1, <1>7, <1>9, <2>2 DEF Linked
<1>11. Owed(e) /\ \A x \in Task : e.status[x] # "RUN"
  BY <1>1, <1>7, <1>8 DEF Owed, OnlyCurrentRuns, c
<1>12. Permanent(e)
  <2>1. c = idle_task => st = "WAIT"
    BY DEF c
  <2>2. QED
    BY <1>1, <1>7, <1>8, <2>1, Constants DEF Permanent
<1>13. e.status[t] = "WAIT"
  BY <1>5, <1>6, <1>8
<1>14. d.status = [e.status EXCEPT ![t] = "RUN"]
  BY <1>5, <1>7
<1>15. Good(d) /\ CurrentRuns(d)
  <2>1. e.ring[p][i] = t /\ i \in 1 .. Len(e.ring[p])
    BY <1>5, <1>7 DEF t
  <2>2. /\ d.ring = [e.ring EXCEPT ![p] = Rotate(e.ring[p], i)]
        /\ d.status = [e.status EXCEPT ![e.ring[p][i]] = "RUN"]
        /\ e.status[e.ring[p][i]] = "WAIT"
        /\ d.priority = e.priority /\ d.pending = e.pending
        /\ d.switch_prohibition_level = e.switch_prohibition_level
    BY <1>5, <1>7, <1>13, <1>14, <2>1
  <2>3. p \in Priority /\ Typed(d) /\ d.level = p
    BY <1>5
  <2>4. HandsOver(e, d, p, i)
    BY <1>7, <1>10, <1>11, <1>12, <2>1, <2>2, <2>3 DEF HandsOver
  <2>5. QED
    BY <2>4, HandOver
<1>16. ASSUME NEW x \in Task \ {c}
       PROVE  /\ Awake(s, x) <=> Awake(d, x)
              /\ ~Awake(s, x) => d.status[x] = s.status[x]
  BY <1>5, <1>8 DEF Awake
<1>17. ASSUME floor = IDLE, NEW x \in Task, s.status[x] = "WAIT"
       PROVE  s.priority[x] <= d.level
  <2>1. Exists(s, x)
    BY <1>17 DEF Exists
  <2>2. PICK k \in 1 .. Len(s.ring[s.priority[x]]) : s.ring[s.priority[x]][k] = x
    BY <1>1, <2>1 DEF Linked
  <2>3. s.priority[x] \in Priority /\ s.ring[s.priority[x]] \in Seq(Task)
    BY <1>1 DEF Typed
  <2>4. Waiting(s, s.priority[x]) # {}
    BY <1>17, <2>2, <2>3 DEF Waiting
  <2>5. floor <= s.priority[x]
    BY <1>17, <2>3, Constants
  <2>6. QED
    BY <1>5, <2>3, <2>4, <2>5
<1>17a. \A x \in Task : Exists(d, x) <=> Exists(s, x)
  BY <1>5, <1>6, <1>8, <1>9, <1>13 DEF Exists
<1>18. ASSUME st = "WAIT", floor = s.level  PROVE Gives(s, d, {c})
  <2>1. ASSUME NEW x \in Task, Awake(s, x)  PROVE Awake(d, x)
    BY <1>8, <1>18, <2>1 DEF Awake
  <2>2. QED
    BY <1>5, <1>16, <1>17a, <1>18, <2>1 DEF Gives
<1>19. QED
  BY <1>5, <1>15, <1>16, <1>17, <1>17a, <1>18 DEF d, c

(* What only counts leaves the rings and who runs as they are.             *)
LEMMA SameLinks ==
  ASSUME NEW s, Good(s), NEW d, Typed(d), Owed(d),
         d.ring = s.ring, d.level = s.level, d.priority = s.priority, d.status = s.status
  PROVE  Good(d) /\ Current(d) = Current(s) /\ (CurrentRuns(s) <=> CurrentRuns(d))
<1>1. Current(d) = Current(s)
  BY DEF Current
<1>2. Linked(d) /\ d.ring[d.level] # << >>
  BY DEF Good, Linked, Exists
<1>3. OnlyCurrentRuns(d) /\ Permanent(d) /\ (CurrentRuns(s) <=> CurrentRuns(d))
  BY <1>1 DEF Good, OnlyCurrentRuns, Permanent, CurrentRuns
<1>4. QED
  BY <1>1, <1>2, <1>3 DEF Good

(* prohibit_switch_task() only counts.                                     *)
LEMMA ProhibitGood ==
  ASSUME NEW s, Good(s)
  PROVE  LET d == Prohibit(s)
             c == Current(s)
         IN /\ Good(d) /\ Current(d) = c /\ (CurrentRuns(s) <=> CurrentRuns(d))
            /\ d.ring = s.ring /\ d.level = s.level /\ d.fresh = s.fresh
            /\ d.priority = s.priority /\ d.status = s.status
            /\ d.pending = s.pending /\ d.elapsed_time = s.elapsed_time
            /\ d.switch_prohibition_level =
                 [s.switch_prohibition_level EXCEPT ![c] = s.switch_prohibition_level[c] + 1]
<1> DEFINE d == Prohibit(s)
           c == Current(s)
<1>1. Typed(s) /\ c \in Task
  BY CurrentExists DEF Good
<1> HIDE DEF c
<1>2. d = [s EXCEPT !.switch_prohibition_level[c] = s.switch_prohibition_level[c] + 1]
  BY DEF Prohibit, c
<1> HIDE DEF d
<1>2a. [s.switch_prohibition_level EXCEPT ![c] = s.switch_prohibition_level[c] + 1]
        \in [Task -> Nat]
  BY <1>1 DEF Typed
<1>3. /\ Typed(d)
      /\ d.ring = s.ring /\ d.level = s.level /\ d.fresh = s.fresh
      /\ d.priority = s.priority /\ d.status = s.status
      /\ d.pending = s.pending /\ d.elapsed_time = s.elapsed_time
      /\ d.switch_prohibition_level =
           [s.switch_prohibition_level EXCEPT ![c] = s.switch_prohibition_level[c] + 1]
  BY <1>1, <1>2, <1>2a DEF Typed
<1>4. Owed(d)
  BY <1>1, <1>3 DEF Good, Owed, Typed
<1>5. QED
  BY <1>3, <1>4, SameLinks DEF c, d

(* One change of turns after another.                                      *)
LEMMA GivesTwice ==
  ASSUME NEW a, Typed(a), NEW b, Typed(b), NEW d, Typed(d), NEW T, NEW U,
         Gives(a, b, T), Gives(b, d, U)
  PROVE  Gives(a, d, T \cup U)
<1>1. a.level \in Int /\ b.level \in Int /\ d.level \in Int
  BY LevelsAreIntegers
<1>2. d.priority = a.priority /\ a.level <= d.level
  BY <1>1 DEF Gives
<1>3. ASSUME NEW x \in Task, Awake(a, x)  PROVE Awake(d, x)
  BY <1>3 DEF Gives
<1>4. ASSUME NEW x \in Task \ (T \cup U), ~Awake(a, x)  PROVE d.status[x] = a.status[x]
  <2>1. b.status[x] = a.status[x]
    BY <1>4 DEF Gives
  <2>2. ~Awake(b, x)
    BY <1>4, <2>1 DEF Awake
  <2>3. QED
    BY <1>4, <2>1, <2>2 DEF Gives
<1>5. QED
  BY <1>2, <1>3, <1>4 DEF Gives

(* Nobody's turn changes when neither rings nor states do.                 *)
LEMMA GivesNothing ==
  ASSUME NEW s, Typed(s), NEW d, d.level = s.level, d.priority = s.priority,
         d.status = s.status, NEW T
  PROVE  Gives(s, d, T)
<1>1. s.level \in Int
  BY LevelsAreIntegers
<1>2. QED
  BY <1>1 DEF Gives, Awake, Exists

(* switch_task() keeps the invariant, and the counts of prohibitions.  It  *)
(* changes nobody's turn while the running task prohibits that.            *)
LEMMA SwitchTaskGood ==
  ASSUME NEW s, Good(s)
  PROVE  LET d == SwitchTask(s)
             c == Current(s)
         IN /\ Good(d)
            /\ CurrentRuns(s) => CurrentRuns(d)
            /\ d.switch_prohibition_level = s.switch_prohibition_level
            /\ Gives(s, d, {c})
            /\ s.switch_prohibition_level[c] > 0 =>
                 d.ring = s.ring /\ d.level = s.level /\ d.status = s.status
<1> DEFINE c == Current(s)
           e == [s EXCEPT !.elapsed_time[c] = (s.elapsed_time[c] + 1) % ElapsedModulus]
<1>1. Typed(s) /\ c \in Task
  BY CurrentExists DEF Good
<1> HIDE DEF c
<1>2. (s.elapsed_time[c] + 1) % ElapsedModulus \in 0 .. ElapsedModulus - 1
  <2>1. s.elapsed_time[c] \in 0 .. ElapsedModulus - 1
    BY ONLY <1>1 DEF Typed
  <2>2. QED
    BY ONLY <2>1, Constants
<1>3. /\ Typed(e)
      /\ e.ring = s.ring /\ e.level = s.level /\ e.priority = s.priority
      /\ e.status = s.status /\ e.pending = s.pending
      /\ e.switch_prohibition_level = s.switch_prohibition_level
  BY <1>1, <1>2 DEF Typed
<1>4. SwitchTask(s) =
        IF e.elapsed_time[c] < 1 THEN e
        ELSE IF e.switch_prohibition_level[c] > 0 THEN [e EXCEPT !.pending = e.pending \cup {c}]
        ELSE IF ReadyLevels(e, e.level) = {} THEN e
        ELSE Dispatch(e, e.level, "WAIT")
  BY DEF SwitchTask, occupancy_time, c
<1> HIDE DEF e
<1>5. Owed(e)
  BY <1>3 DEF Good, Owed
<1>6. Good(e) /\ Current(e) = c /\ (CurrentRuns(s) <=> CurrentRuns(e))
  BY <1>3, <1>5, SameLinks DEF c
<1>7. Gives(s, e, {c})
  BY <1>1, <1>3, GivesNothing
<1>8. CASE SwitchTask(s) = e
  BY <1>3, <1>6, <1>7, <1>8 DEF c
<1>9. CASE /\ SwitchTask(s) = [e EXCEPT !.pending = e.pending \cup {c}]
           /\ e.switch_prohibition_level[c] > 0
  <2> DEFINE d == [e EXCEPT !.pending = e.pending \cup {c}]
  <2>1. /\ Typed(d)
        /\ d.ring = e.ring /\ d.level = e.level /\ d.priority = e.priority
        /\ d.status = e.status /\ d.pending = e.pending \cup {c}
        /\ d.switch_prohibition_level = e.switch_prohibition_level
    BY <1>1, <1>3 DEF Typed
  <2>2. SwitchTask(s) = d
    BY <1>9
  <2> HIDE DEF d
  <2>3. Owed(d)
    BY <1>5, <1>9, <2>1 DEF Owed
  <2>4. Good(d) /\ (CurrentRuns(e) <=> CurrentRuns(d))
    BY <1>6, <2>1, <2>3, SameLinks
  <2>5. d.level = s.level /\ d.priority = s.priority /\ d.status = s.status
    BY <1>3, <2>1
  <2>6. Gives(s, d, {c})
    BY <1>1, <2>5, GivesNothing
  <2>7. /\ Good(d) /\ (CurrentRuns(s) => CurrentRuns(d))
        /\ d.switch_prohibition_level = s.switch_prohibition_level
        /\ d.ring = s.ring
    BY <1>3, <1>6, <2>1, <2>4
  <2>8. QED
    BY <2>2, <2>5, <2>6, <2>7 DEF c
<1>10. CASE /\ SwitchTask(s) = Dispatch(e, e.level, "WAIT")
            /\ ~(e.switch_prohibition_level[c] > 0)
            /\ ReadyLevels(e, e.level) # {}
  <2>1. e.level \in Priority
    BY <1>3 DEF Typed
  <2>2. LET d == Dispatch(e, e.level, "WAIT")
        IN /\ Good(d) /\ CurrentRuns(d) /\ Gives(e, d, {Current(e)})
           /\ d.switch_prohibition_level = e.switch_prohibition_level
    BY <1>6, <1>10, <2>1, DispatchGood
  <2> DEFINE d == Dispatch(e, e.level, "WAIT")
  <2>3. Typed(d) /\ Gives(e, d, {c})
    BY <1>6, <2>2 DEF Good
  <2> HIDE DEF d
  <2>4. Gives(s, d, {c} \cup {c})
    BY <1>1, <1>3, <1>7, <2>3, GivesTwice
  <2>5. {c} \cup {c} = {c}
    OBVIOUS
  <2>6. /\ Good(d) /\ CurrentRuns(d) /\ Gives(s, d, {c})
        /\ d.switch_prohibition_level = s.switch_prohibition_level
    BY <1>3, <2>2, <2>4, <2>5 DEF d
  <2>7. SwitchTask(s) = d /\ ~(s.switch_prohibition_level[c] > 0)
    BY <1>3, <1>10 DEF d
  <2>8. QED
    BY <2>6, <2>7 DEF c
<1>11. QED
  BY <1>4, <1>8, <1>9, <1>10

(* allow_switch_task() of a task that prohibits switching.                 *)
LEMMA AllowGood ==
  ASSUME NEW s, Good(s), s.switch_prohibition_level[Current(s)] > 0
  PROVE  LET d == Allow(s)
             c == Current(s)
         IN /\ Good(d)
            /\ CurrentRuns(s) => CurrentRuns(d)
            /\ d.switch_prohibition_level =
                 [s.switch_prohibition_level EXCEPT ![c] = s.switch_prohibition_level[c] - 1]
            /\ Gives(s, d, {c})
            /\ s.switch_prohibition_level[c] > 1 =>
                 d.ring = s.ring /\ d.level = s.level /\ d.status = s.status
<1> DEFINE c == Current(s)
           e == [s EXCEPT !.switch_prohibition_level[c] = s.switch_prohibition_level[c] - 1]
           f == [e EXCEPT !.pending = e.pending \ {c}]
<1>1. Typed(s) /\ c \in Task /\ s.switch_prohibition_level[c] > 0 /\ Owed(s)
  BY CurrentExists DEF Good
<1> HIDE DEF c
<1>2. /\ [s.switch_prohibition_level EXCEPT ![c] = s.switch_prohibition_level[c] - 1]
           \in [Task -> Nat]
      /\ s.switch_prohibition_level \in [Task -> Nat]
  BY <1>1 DEF Typed
<1>3. /\ Typed(e)
      /\ e.ring = s.ring /\ e.level = s.level /\ e.priority = s.priority
      /\ e.status = s.status /\ e.pending = s.pending
      /\ e.switch_prohibition_level =
           [s.switch_prohibition_level EXCEPT ![c] = s.switch_prohibition_level[c] - 1]
  BY <1>1, <1>2 DEF Typed
<1>4. Allow(s) = IF e.switch_prohibition_level[c] = 0 /\ c \in e.pending
                 THEN SwitchTask(f) ELSE e
  BY DEF Allow, c
<1>5. /\ Typed(f)
      /\ f.ring = s.ring /\ f.level = s.level /\ f.priority = s.priority
      /\ f.status = s.status /\ f.pending = s.pending \ {c}
      /\ f.switch_prohibition_level = e.switch_prohibition_level
  BY <1>3 DEF Typed
<1> HIDE DEF e, f
<1>6. \A x \in Task : e.switch_prohibition_level[x] =
        IF x = c THEN s.switch_prohibition_level[c] - 1 ELSE s.switch_prohibition_level[x]
  BY <1>1, <1>2, <1>3
<1>7. s.pending \subseteq Task /\ s.switch_prohibition_level[c] \in Nat
  BY <1>1, <1>2 DEF Typed
<1>8. CASE e.switch_prohibition_level[c] = 0 /\ c \in e.pending
  <2>1. Owed(f)
    BY <1>1, <1>5, <1>6, <1>7 DEF Owed
  <2>2. Good(f) /\ Current(f) = c /\ (CurrentRuns(s) <=> CurrentRuns(f))
    BY <1>5, <2>1, SameLinks DEF c
  <2>3. Gives(s, f, {c})
    BY <1>1, <1>5, GivesNothing
  <2> DEFINE d == SwitchTask(f)
  <2>4. /\ Good(d) /\ (CurrentRuns(f) => CurrentRuns(d)) /\ Gives(f, d, {c})
        /\ d.switch_prohibition_level = f.switch_prohibition_level
    BY <2>2, SwitchTaskGood
  <2> HIDE DEF d
  <2>5. Typed(d) /\ {c} \cup {c} = {c}
    BY <2>4 DEF Good
  <2>6. Gives(s, d, {c})
    BY <1>1, <1>5, <2>3, <2>4, <2>5, GivesTwice
  <2>7. ~(s.switch_prohibition_level[c] > 1)
    BY <1>1, <1>6, <1>7, <1>8
  <2>8. Allow(s) = d
    BY <1>4, <1>8 DEF d
  <2>9. QED
    BY <1>3, <1>5, <2>2, <2>4, <2>6, <2>7, <2>8 DEF c
<1>9. CASE ~(e.switch_prohibition_level[c] = 0 /\ c \in e.pending)
  <2>1. Owed(e)
    <3>1. ASSUME NEW x \in e.pending  PROVE e.switch_prohibition_level[x] > 0
      <4>1. x \in Task /\ s.switch_prohibition_level[x] > 0
        BY <1>1, <1>3, <1>7, <3>1 DEF Owed
      <4>2. CASE x = c
        BY <1>6, <1>7, <1>9, <4>1, <4>2
      <4>3. CASE x # c
        BY <1>6, <4>1, <4>3
      <4>4. QED
        BY <4>2, <4>3
    <3>2. QED
      BY <3>1 DEF Owed
  <2>2. Good(e) /\ (CurrentRuns(s) <=> CurrentRuns(e))
    BY <1>3, <2>1, SameLinks
  <2>3. Gives(s, e, {c})
    BY <1>1, <1>3, GivesNothing
  <2>4. Allow(s) = e
    BY <1>4, <1>9
  <2>5. QED
    BY <1>3, <2>2, <2>3, <2>4 DEF c
<1>10. QED
  BY <1>8, <1>9

(* A sleeping task is made ready, whatever else is counted.                *)
LEMMA Readied ==
  ASSUME NEW s, Good(s), NEW t \in Task, s.status[t] = "SLEEP",
         NEW d, Typed(d), Owed(d),
         d.ring = s.ring, d.level = s.level, d.priority = s.priority,
         d.status = [s.status EXCEPT ![t] = "WAIT"]
  PROVE  /\ Good(d) /\ Current(d) = Current(s) /\ (CurrentRuns(s) => CurrentRuns(d))
         /\ Gives(s, d, {t})
<1>1. /\ Typed(s) /\ s.ring[s.level] # << >> /\ Linked(s) /\ OnlyCurrentRuns(s)
      /\ Permanent(s)
  BY DEF Good
<1>2. \A x \in Task : d.status[x] = IF x = t THEN "WAIT" ELSE s.status[x]
  BY <1>1 DEF Typed
<1>3. Current(d) = Current(s) /\ Current(s) \in Task
  BY <1>1, CurrentExists DEF Current
<1>4. \A x \in Task : Exists(d, x) <=> Exists(s, x)
  BY <1>2 DEF Exists
<1>5. Linked(d)
  <2>1. \A x \in Priority : \A k \in 1 .. Len(s.ring[x]) : s.ring[x][k] \in Task
    BY <1>1 DEF Typed
  <2>2. \A x \in Priority : \A k \in 1 .. Len(d.ring[x]) :
          Exists(d, d.ring[x][k]) /\ d.priority[d.ring[x][k]] = x
    BY <1>1, <1>4, <2>1 DEF Linked
  <2>3. QED
    BY <1>1, <1>4, <2>2 DEF Linked
<1>6. OnlyCurrentRuns(d) /\ Permanent(d)
  BY <1>1, <1>2, <1>3, Constants DEF OnlyCurrentRuns, Permanent
<1>7. CurrentRuns(s) => CurrentRuns(d)
  BY <1>2, <1>3 DEF CurrentRuns
<1>8. Gives(s, d, {t})
  <2>1. s.level \in Int
    BY <1>1, LevelsAreIntegers
  <2>2. QED
    BY <1>2, <1>4, <2>1 DEF Gives, Awake
<1>9. QED
  BY <1>1, <1>3, <1>5, <1>6, <1>7, <1>8 DEF Good

(* continue_task() wakes its task.  It takes the processor from nobody who *)
(* prohibits switching.                                                    *)
Wakes(s, d, t) ==
  /\ Good(d)
  /\ CurrentRuns(s) => CurrentRuns(d)
  /\ d.switch_prohibition_level = s.switch_prohibition_level
  /\ Gives(s, d, {Current(s), t})
  /\ s.switch_prohibition_level[Current(s)] > 0 =>
       /\ d.ring = s.ring /\ d.level = s.level
       /\ \A x \in Task \ {t} : d.status[x] = s.status[x]

LEMMA ContinueTaskGood ==
  ASSUME NEW s, Good(s), NEW t \in Task, s.status[t] = "SLEEP"
  PROVE  Wakes(s, ContinueTask(s, t), t)
<1> DEFINE c == Current(s)
           a == Prohibit(s)
           b == [a EXCEPT !.status[t] = "WAIT"]
           e == IF s.level < s.priority[t] THEN SwitchTask(b) ELSE b
           d == Allow(e)
<1>1. Typed(s) /\ c \in Task
  BY CurrentExists DEF Good
<1>2. ContinueTask(s, t) = d
  BY DEF ContinueTask
<1>3. /\ Good(a) /\ Current(a) = c /\ (CurrentRuns(s) <=> CurrentRuns(a))
      /\ a.ring = s.ring /\ a.level = s.level
      /\ a.priority = s.priority /\ a.status = s.status
      /\ a.switch_prohibition_level =
           [s.switch_prohibition_level EXCEPT ![c] = s.switch_prohibition_level[c] + 1]
  BY ProhibitGood
<1> HIDE DEF c, a
<1>4. Typed(a) /\ Owed(a) /\ Gives(s, a, {})
  BY <1>1, <1>3, GivesNothing DEF Good
<1>5. [a.status EXCEPT ![t] = "WAIT"] \in [Task -> Status]
  BY <1>4 DEF Typed, Status
<1>6. /\ Typed(b) /\ b.ring = a.ring /\ b.level = a.level /\ b.priority = a.priority
      /\ b.status = [a.status EXCEPT ![t] = "WAIT"]
      /\ b.switch_prohibition_level = a.switch_prohibition_level
      /\ b.pending = a.pending
  BY <1>4, <1>5 DEF Typed
<1> HIDE DEF b
<1>7. Owed(b)
  BY <1>4, <1>6 DEF Owed
<1>8. /\ Good(b) /\ Current(b) = c /\ (CurrentRuns(s) => CurrentRuns(b))
      /\ Gives(a, b, {t})
  <2>1. a.status[t] = "SLEEP"
    BY <1>3
  <2>2. QED
    BY <1>3, <1>6, <1>7, <2>1, Readied
<1>9. /\ s.switch_prohibition_level \in [Task -> Nat]
      /\ b.switch_prohibition_level[c] = s.switch_prohibition_level[c] + 1
      /\ b.switch_prohibition_level[c] > 0
  BY <1>1, <1>3, <1>6 DEF Typed
<1>10. /\ Good(e) /\ (CurrentRuns(b) => CurrentRuns(e))
       /\ e.switch_prohibition_level = b.switch_prohibition_level
       /\ Gives(b, e, {c})
       /\ e.ring = b.ring /\ e.level = b.level /\ e.status = b.status
  <2>1. CASE e = SwitchTask(b)
    BY <1>8, <1>9, <2>1, SwitchTaskGood
  <2>2. CASE e = b
    BY <1>6, <1>8, <2>2, GivesNothing
  <2>3. QED
    BY <2>1, <2>2
<1> HIDE DEF e
<1>11. Current(e) = c
  BY <1>8, <1>10 DEF Current
<1>12. /\ Good(d) /\ (CurrentRuns(e) => CurrentRuns(d))
       /\ d.switch_prohibition_level =
            [e.switch_prohibition_level EXCEPT ![c] = e.switch_prohibition_level[c] - 1]
       /\ Gives(e, d, {c})
       /\ e.switch_prohibition_level[c] > 1 =>
            d.ring = e.ring /\ d.level = e.level /\ d.status = e.status
  BY <1>9, <1>10, <1>11, AllowGood
<1> HIDE DEF d
<1>13. d.switch_prohibition_level = s.switch_prohibition_level
  BY <1>1, <1>3, <1>6, <1>9, <1>10, <1>12
<1>14. Gives(s, d, {c, t})
  <2>1. Typed(e) /\ Typed(d)
    BY <1>10, <1>12 DEF Good
  <2>2. Gives(s, b, {} \cup {t})
    BY <1>1, <1>4, <1>6, <1>8, GivesTwice
  <2>3. Gives(b, d, {c} \cup {c})
    BY <1>6, <1>10, <1>12, <2>1, GivesTwice
  <2>4. Gives(s, d, ({} \cup {t}) \cup ({c} \cup {c}))
    BY <1>1, <1>6, <2>1, <2>2, <2>3, GivesTwice
  <2>5. ({} \cup {t}) \cup ({c} \cup {c}) = {c, t}
    OBVIOUS
  <2>6. QED
    BY <2>4, <2>5
<1>15. ASSUME s.switch_prohibition_level[c] > 0
       PROVE  /\ d.ring = s.ring /\ d.level = s.level
              /\ \A x \in Task \ {t} : d.status[x] = s.status[x]
  <2>1. e.switch_prohibition_level[c] > 1
    BY <1>1, <1>9, <1>10, <1>15
  <2>2. d.ring = s.ring /\ d.level = s.level /\ d.status = [s.status EXCEPT ![t] = "WAIT"]
    BY <1>3, <1>6, <1>10, <1>12, <2>1
  <2>3. s.status \in [Task -> Status]
    BY <1>1 DEF Typed
  <2>4. QED
    BY <2>2, <2>3
<1>16. QED
  BY <1>2, <1>8, <1>10, <1>12, <1>13, <1>14, <1>15 DEF Wakes, c

(* The wake-up of enqueue().                                               *)
LEMMA WakeUpGood ==
  ASSUME NEW s, Good(s), NEW t \in Task
  PROVE  Wakes(s, WakeUp(s, t), t)
<1>1. CASE s.status[t] = "SLEEP"
  BY <1>1, ContinueTaskGood DEF WakeUp
<1>2. CASE s.status[t] # "SLEEP"
  <2>1. WakeUp(s, t) = s
    BY <1>2 DEF WakeUp
  <2>2. Gives(s, s, {Current(s), t})
    BY GivesNothing DEF Good
  <2>3. QED
    BY <2>1, <2>2 DEF Wakes
<1>3. QED
  BY <1>1, <1>2
-----------------------------------------------------------------------------
(* The rest of the invariant.  Counts are bounded; a task without a queue  *)
(* is one that does not exist or has not run; whoever is told of the end   *)
(* of a task has a queue.  A task being created sleeps until its creator   *)
(* starts it: the creator is awake, and nobody below its level runs.       *)
Bounded == \A t \in Task : sched.switch_prohibition_level[t] <= MaxProhibition

RestTyped ==
  /\ queue \in [Task -> {"NONE", "EMPTY", "EVENTS"}]
  /\ parent \in [Task -> Task \cup {NULL}]
  /\ creating \in [Task -> Pool \cup {NULL}]
  /\ drained \subseteq Task
  /\ in_pit \subseteq Task

Queues == /\ queue[main_task] # "NONE"
          /\ \A t \in Task : ~Exists(sched, t) => queue[t] = "NONE"

Parents == \A t \in Task : parent[t] # NULL =>
             parent[t] \in Task /\ queue[parent[t]] # "NONE" /\ parent[t] # t

Creations ==
  /\ \A c \in Task : creating[c] # NULL =>
       /\ Awake(sched, c)
       /\ sched.priority[c] <= sched.level
       /\ sched.priority[creating[c]] < sched.priority[c]
       /\ sched.status[creating[c]] = "SLEEP"
       /\ queue[creating[c]] = "NONE"
  /\ \A c, d \in Task : creating[c] # NULL /\ creating[c] = creating[d] => c = d
  /\ \A c \in drained : creating[c] = NULL

IInv == /\ Good(sched) /\ CurrentRuns(sched)
        /\ Bounded /\ RestTyped /\ Queues /\ Parents /\ Creations

(* A change of turns with nobody created, started or closed keeps all this.*)
LEMMA TurnsKeepInvariant ==
  ASSUME IInv, NEW T,
         Good(sched'), CurrentRuns(sched'), Bounded', RestTyped',
         Gives(sched, sched', T),
         \A x \in T : Awake(sched, x) \/ queue[x] # "NONE",
         UNCHANGED <<parent, creating>>,
         \A x \in Task : queue[x] # "NONE" => queue'[x] # "NONE",
         \A x \in Task : queue[x] = "NONE" /\ queue'[x] # "NONE" => Awake(sched, x),
         \A x \in drained' : creating[x] = NULL
  PROVE  IInv'
<1>1. /\ Typed(sched) /\ Typed(sched') /\ RestTyped /\ Queues /\ Parents /\ Creations
  BY DEF IInv, Good
<1>2. sched'.priority = sched.priority /\ sched.level <= sched'.level
      /\ sched.level \in Int /\ sched'.level \in Int
      /\ \A x \in Task : sched.priority[x] \in Int
  <2>1. sched.level \in Int /\ \A x \in Task : sched.priority[x] \in Int
    BY <1>1, LevelsAreIntegers
  <2>2. sched'.level \in Int
    BY <1>1, LevelsAreIntegers
  <2>3. QED
    BY <2>1, <2>2 DEF Gives
<1>3. Queues'
  <2>1. main_task \in Task
    BY Constants
  <2>2. ASSUME NEW t \in Task, ~Exists(sched', t)  PROVE queue'[t] = "NONE"
    <3>1. ~Exists(sched, t)
      BY <2>2 DEF Gives
    <3>2. queue[t] = "NONE" /\ ~Awake(sched, t)
      BY <1>1, <3>1 DEF Queues, Exists, Awake
    <3>3. QED
      BY <3>2
  <2>3. QED
    BY <1>1, <2>1, <2>2 DEF Queues
<1>4. Parents'
  <2>1. ASSUME NEW t \in Task, parent'[t] # NULL
        PROVE  parent'[t] \in Task /\ queue'[parent'[t]] # "NONE" /\ parent'[t] # t
    <3>1. parent[t] \in Task /\ queue[parent[t]] # "NONE" /\ parent[t] # t
      BY <1>1, <2>1 DEF Parents
    <3>2. QED
      BY <3>1
  <2>2. QED
    BY <2>1 DEF Parents
<1>5. ASSUME NEW c \in Task, creating[c] # NULL
      PROVE  /\ Awake(sched', c)
             /\ sched'.priority[c] <= sched'.level
             /\ sched'.priority[creating[c]] < sched'.priority[c]
             /\ sched'.status[creating[c]] = "SLEEP"
             /\ queue'[creating[c]] = "NONE"
  <2>1. /\ Awake(sched, c) /\ sched.priority[c] <= sched.level
        /\ sched.priority[creating[c]] < sched.priority[c]
        /\ sched.status[creating[c]] = "SLEEP" /\ queue[creating[c]] = "NONE"
    BY <1>1, <1>5 DEF Creations
  <2>2. creating[c] \in Task /\ ~Awake(sched, creating[c])
    BY <1>1, <1>5, <2>1, Constants DEF RestTyped, Awake
  <2>3. creating[c] \notin T
    BY <2>1, <2>2
  <2>4. Awake(sched', c) /\ sched'.status[creating[c]] = "SLEEP"
    BY <2>1, <2>2, <2>3 DEF Gives
  <2>5. queue'[creating[c]] = "NONE"
    BY <2>1, <2>2
  <2>6. QED
    BY <1>2, <2>1, <2>4, <2>5
<1>6. Creations'
  BY <1>1, <1>5 DEF Creations
<1>7. QED
  BY <1>3, <1>4, <1>6 DEF IInv

(* The system starts in a state of the invariant.                          *)
LEMMA InitInvariant == Init => IInv
<1> SUFFICES ASSUME Init PROVE IInv
  OBVIOUS
<1> DEFINE R == [p \in Priority |-> CASE p = KERNEL -> <<main_task>>
                                      [] p = IDLE -> <<idle_task>>
                                      [] OTHER -> << >>]
           S == [t \in Task |-> CASE t = main_task -> "RUN"
                                  [] t = idle_task -> "WAIT"
                                  [] OTHER -> "FREE"]
           P == [t \in Task |-> IF t = main_task THEN KERNEL ELSE IDLE]
           Z == [t \in Task |-> 0]
<1>1. /\ sched = [ring |-> R, level |-> KERNEL, priority |-> P, status |-> S,
                  switch_prohibition_level |-> Z, pending |-> {}, elapsed_time |-> Z,
                  fresh |-> {idle_task}]
      /\ queue = [t \in Task |-> IF t = main_task THEN "EMPTY" ELSE "NONE"]
      /\ parent = [t \in Task |-> IF t = idle_task THEN main_task ELSE NULL]
      /\ creating = [t \in Task |-> NULL]
      /\ drained = {} /\ in_pit = {}
  BY DEF Init
<1>2. /\ R \in [Priority -> Seq(Task)]
      /\ R[KERNEL] = <<main_task>> /\ R[IDLE] = <<idle_task>>
      /\ \A p \in Priority : p # KERNEL /\ p # IDLE => R[p] = << >>
      /\ KERNEL \in Priority /\ IDLE \in Priority /\ KERNEL # IDLE
  BY Constants
<1>3. /\ S \in [Task -> Status] /\ S[main_task] = "RUN" /\ S[idle_task] = "WAIT"
      /\ \A t \in Task : t # main_task /\ t # idle_task => S[t] = "FREE"
  BY Constants DEF Status
<1>4. /\ P \in [Task -> Priority] /\ P[main_task] = KERNEL /\ P[idle_task] = IDLE
      /\ Z \in [Task -> Nat] /\ Z \in [Task -> 0 .. ElapsedModulus - 1]
      /\ \A t \in Task : Z[t] = 0
  BY Constants
<1>4a. /\ Len(R[KERNEL]) = 1 /\ R[KERNEL][1] = main_task
       /\ Len(R[IDLE]) = 1 /\ R[IDLE][1] = idle_task /\ R[KERNEL] # << >>
       /\ \A p \in Priority : p # KERNEL /\ p # IDLE => Len(R[p]) = 0
  <2>1. \A x : Len(<<x>>) = 1 /\ <<x>>[1] = x /\ <<x>> # << >>
    OBVIOUS
  <2> HIDE DEF R
  <2>2. QED
    BY <1>2, <2>1
<1> HIDE DEF R, S, P, Z
<1>4b. /\ sched.ring = R /\ sched.level = KERNEL /\ sched.priority = P /\ sched.status = S
       /\ sched.switch_prohibition_level = Z /\ sched.pending = {}
  BY <1>1
<1>5. Typed(sched)
  BY <1>1, <1>2, <1>3, <1>4, Constants DEF Typed
<1>6. Current(sched) = main_task /\ sched.ring[sched.level] # << >>
  BY <1>4a, <1>4b DEF Current
<1>7. Linked(sched)
  <2>1. ASSUME NEW p \in Priority, NEW i \in 1 .. Len(R[p])
        PROVE  /\ i = 1 /\ \/ p = KERNEL /\ R[p][i] = main_task
                           \/ p = IDLE /\ R[p][i] = idle_task
    <3>1. CASE p = KERNEL
      <4>1. i \in 1 .. 1 /\ R[p][1] = main_task
        BY <1>4a, <3>1
      <4>2. i = 1
        BY <4>1
      <4>3. QED
        BY <3>1, <4>1, <4>2
    <3>2. CASE p = IDLE
      <4>1. i \in 1 .. 1 /\ R[p][1] = idle_task
        BY <1>4a, <3>2
      <4>2. i = 1
        BY <4>1
      <4>3. QED
        BY <3>2, <4>1, <4>2
    <3>3. CASE p # KERNEL /\ p # IDLE
      BY <1>4a, <3>3
    <3>4. QED
      BY <3>1, <3>2, <3>3
  <2>2. ASSUME NEW t \in Task, Exists(sched, t)
        PROVE  \E i \in 1 .. Len(R[P[t]]) : R[P[t]][i] = t
    <3>1. t = main_task \/ t = idle_task
      BY <1>1, <1>3, <2>2 DEF Exists
    <3>2. 1 \in 1 .. Len(R[P[t]]) /\ R[P[t]][1] = t
      BY <1>4, <1>4a, <3>1
    <3>3. QED
      BY <3>2
  <2>3. \A p \in Priority : \A i \in 1 .. Len(R[p]) :
          Exists(sched, R[p][i]) /\ P[R[p][i]] = p
    BY <1>1, <1>3, <1>4, <2>1 DEF Exists
  <2>4. \A p \in Priority : \A i, j \in 1 .. Len(R[p]) : R[p][i] = R[p][j] => i = j
    BY <2>1
  <2>5. QED
    BY <1>4b, <2>2, <2>3, <2>4 DEF Linked
<1>8. OnlyCurrentRuns(sched) /\ CurrentRuns(sched) /\ Permanent(sched) /\ Owed(sched)
  BY <1>1, <1>3, <1>4, <1>6, Constants
     DEF OnlyCurrentRuns, CurrentRuns, Permanent, Owed
<1>9. Bounded /\ RestTyped
  BY <1>1, <1>4, Constants DEF Bounded, RestTyped
<1>10. Queues /\ Parents /\ Creations
  BY <1>1, <1>3, Constants DEF Queues, Parents, Creations, Exists
<1>11. QED
  BY <1>5, <1>6, <1>7, <1>8, <1>9, <1>10 DEF IInv, Good

(* What the invariant says of the running task.                            *)
LEMMA RunningTask ==
  ASSUME IInv
  PROVE  LET c == Current(sched)
         IN /\ Good(sched) /\ Typed(sched) /\ c \in Task
            /\ sched.status[c] = "RUN" /\ Awake(sched, c) /\ Exists(sched, c)
            /\ sched.priority[c] = sched.level /\ sched.level \in Priority
            /\ sched.switch_prohibition_level \in [Task -> Nat]
            /\ RestTyped /\ Queues /\ Parents /\ Creations
            /\ \A x \in drained : creating[x] = NULL
<1>1. Good(sched) /\ Typed(sched) /\ Linked(sched) /\ sched.ring[sched.level] # << >>
  BY DEF IInv, Good
<1>2. Current(sched) \in Task /\ Exists(sched, Current(sched))
      /\ sched.priority[Current(sched)] = sched.level
  BY <1>1, CurrentExists
<1>3. sched.level \in Priority /\ sched.switch_prohibition_level \in [Task -> Nat]
  BY <1>1 DEF Typed
<1>4. sched.status[Current(sched)] = "RUN" /\ Awake(sched, Current(sched))
  BY DEF IInv, CurrentRuns, Awake
<1>5. QED
  BY <1>1, <1>2, <1>3, <1>4 DEF IInv, Creations

(* prohibit_switch_task() and allow_switch_task().                         *)
LEMMA ProhibitStep ==
  ASSUME IInv, NEW c \in Task, ProhibitSwitchTask(c)
  PROVE  IInv'
<1>1. /\ c = Current(sched) /\ sched.switch_prohibition_level[c] < MaxProhibition
      /\ sched' = Prohibit(sched)
      /\ UNCHANGED <<queue, parent, creating, drained, in_pit>>
  BY DEF ProhibitSwitchTask, Works, Runs
<1>2. /\ Good(sched') /\ CurrentRuns(sched') /\ sched'.status = sched.status
      /\ sched'.level = sched.level /\ sched'.priority = sched.priority
      /\ sched'.switch_prohibition_level = [sched.switch_prohibition_level
           EXCEPT ![c] = sched.switch_prohibition_level[c] + 1]
  BY <1>1, ProhibitGood DEF IInv
<1>3. Bounded'
  BY <1>1, <1>2, RunningTask, Constants DEF Bounded, IInv
<1>4. RestTyped' /\ Gives(sched, sched', {}) /\ \A x \in drained' : creating[x] = NULL
  BY <1>1, <1>2, RunningTask, GivesNothing DEF RestTyped
<1>5. QED
  BY <1>1, <1>2, <1>3, <1>4, TurnsKeepInvariant

LEMMA AllowStep ==
  ASSUME IInv, NEW c \in Task, AllowSwitchTask(c)
  PROVE  IInv'
<1>1. /\ c = Current(sched) /\ sched.switch_prohibition_level[c] > 0
      /\ sched' = Allow(sched)
      /\ UNCHANGED <<queue, parent, creating, drained, in_pit>>
  BY DEF AllowSwitchTask, Works, Runs
<1>2. /\ Good(sched') /\ CurrentRuns(sched') /\ Gives(sched, sched', {c})
      /\ sched'.switch_prohibition_level = [sched.switch_prohibition_level
           EXCEPT ![c] = sched.switch_prohibition_level[c] - 1]
  BY <1>1, AllowGood DEF IInv
<1>3. Bounded'
  BY <1>1, <1>2, RunningTask, Constants DEF Bounded, IInv
<1>4. /\ RestTyped' /\ \A x \in drained' : creating[x] = NULL
      /\ \A x \in {c} : Awake(sched, x)
  BY <1>1, RunningTask DEF RestTyped
<1>5. QED
  BY <1>1, <1>2, <1>3, <1>4, TurnsKeepInvariant

(* A step that wakes a task with a queue, and may switch tasks after that. *)
WakesFirst(t) ==
  /\ t \in Task /\ queue[t] # "NONE"
  /\ queue' = [queue EXCEPT ![t] = "EVENTS"]
  /\ \/ sched' = WakeUp(sched, t)
     \/ /\ sched' = SwitchTask(WakeUp(sched, t))
        /\ Current(WakeUp(sched, t)) = Current(sched)
  /\ UNCHANGED <<parent, creating, drained>>
  /\ in_pit' \subseteq Task

LEMMA WakingStep ==
  ASSUME IInv, NEW t, WakesFirst(t)
  PROVE  IInv'
<1>0. /\ t \in Task /\ queue[t] # "NONE"
      /\ queue' = [queue EXCEPT ![t] = "EVENTS"]
      /\ UNCHANGED <<parent, creating, drained>>
      /\ in_pit' \subseteq Task
  BY DEF WakesFirst
<1> DEFINE c == Current(sched)
           w == WakeUp(sched, t)
<1>1. /\ Good(sched) /\ Typed(sched) /\ c \in Task /\ Awake(sched, c)
      /\ sched.switch_prohibition_level \in [Task -> Nat]
      /\ RestTyped /\ \A x \in drained : creating[x] = NULL
  BY RunningTask
<1>2. /\ Good(w) /\ CurrentRuns(w) /\ Gives(sched, w, {c, t})
      /\ w.switch_prohibition_level = sched.switch_prohibition_level
  BY <1>0, <1>1, WakeUpGood DEF Wakes, IInv
<1>3. sched' = w \/ (sched' = SwitchTask(w) /\ Current(w) = c)
  BY DEF WakesFirst
<1> HIDE DEF c, w
<1>4. /\ Good(sched') /\ CurrentRuns(sched') /\ Gives(sched, sched', {c, t})
      /\ sched'.switch_prohibition_level = sched.switch_prohibition_level
  <2>1. CASE sched' = w
    BY <1>2, <2>1
  <2>2. CASE sched' = SwitchTask(w) /\ Current(w) = c
    <3>1. /\ Good(sched') /\ CurrentRuns(sched') /\ Gives(w, sched', {c})
          /\ sched'.switch_prohibition_level = w.switch_prohibition_level
      BY <1>2, <2>2, SwitchTaskGood
    <3>2. Typed(w) /\ Typed(sched') /\ {c, t} \cup {c} = {c, t}
      BY <1>2, <3>1 DEF Good
    <3>3. Gives(sched, sched', {c, t})
      BY <1>1, <1>2, <3>1, <3>2, GivesTwice
    <3>4. QED
      BY <1>2, <3>1, <3>3
  <2>3. QED
    BY <1>3, <2>1, <2>2
<1>5. Bounded'
  BY <1>4 DEF Bounded, IInv
<1>6. RestTyped'
  BY <1>0, <1>1 DEF RestTyped
<1>7. /\ \A x \in {c, t} : Awake(sched, x) \/ queue[x] # "NONE"
      /\ \A x \in Task : queue[x] # "NONE" => queue'[x] # "NONE"
      /\ \A x \in Task : queue[x] = "NONE" /\ queue'[x] # "NONE" => Awake(sched, x)
      /\ \A x \in drained' : creating[x] = NULL
  BY <1>0, <1>1 DEF RestTyped
<1>8. QED
  BY <1>0, <1>4, <1>5, <1>6, <1>7, TurnsKeepInvariant

LEMMA SendStep ==
  ASSUME IInv, NEW c \in Task, NEW t \in Task, Send(c, t)
  PROVE  IInv'
<1>1. in_pit' \subseteq Task
  BY RunningTask DEF Send, RestTyped
<1>2. WakesFirst(t)
  BY <1>1 DEF Send, Post, WakesFirst
<1>3. QED
  BY <1>2, WakingStep

(* The interrupts, which wake the main task.                               *)
LEMMA DeviceInterruptStep ==
  ASSUME IInv, DeviceInterrupt
  PROVE  IInv'
<1>1. in_pit' \subseteq Task /\ main_task \in Task /\ queue[main_task] # "NONE"
  BY RunningTask, Constants DEF DeviceInterrupt, RestTyped, Queues
<1>2. WakesFirst(main_task)
  BY <1>1 DEF DeviceInterrupt, Post, WakesFirst
<1>3. QED
  BY <1>2, WakingStep

LEMMA PitInterruptStep ==
  ASSUME IInv, PitInterrupt
  PROVE  IInv'
<1>1. /\ main_task \in Task /\ queue[main_task] # "NONE" /\ in_pit \subseteq Task
      /\ Current(sched) \in Task
  BY RunningTask, Constants DEF RestTyped, Queues
<1>2. in_pit' \subseteq Task
  BY <1>1 DEF PitInterrupt
<1>3. \/ sched' = WakeUp(sched, main_task)
      \/ /\ sched' = SwitchTask(WakeUp(sched, main_task))
         /\ Current(WakeUp(sched, main_task)) = Current(sched)
  BY DEF PitInterrupt
<1>4. queue' = [queue EXCEPT ![main_task] = "EVENTS"] /\ UNCHANGED <<parent, creating, drained>>
  BY DEF PitInterrupt, Post
<1>5. WakesFirst(main_task)
  BY <1>1, <1>2, <1>3, <1>4 DEF WakesFirst
<1>6. QED
  BY <1>5, WakingStep

LEMMA PitSwitchStep ==
  ASSUME IInv, PitSwitch
  PROVE  IInv'
<1> DEFINE c == Current(sched)
<1>1. sched' = SwitchTask(sched) /\ UNCHANGED <<queue, parent, creating, drained>>
      /\ in_pit' \subseteq in_pit
  BY DEF PitSwitch
<1>2. /\ Good(sched) /\ c \in Task /\ Awake(sched, c) /\ RestTyped
      /\ \A x \in drained : creating[x] = NULL
  BY RunningTask
<1>3. /\ Good(sched') /\ CurrentRuns(sched') /\ Gives(sched, sched', {c})
      /\ sched'.switch_prohibition_level = sched.switch_prohibition_level
  BY <1>1, <1>2, SwitchTaskGood DEF IInv
<1> HIDE DEF c
<1>4. Bounded' /\ RestTyped'
  BY <1>1, <1>2, <1>3 DEF Bounded, RestTyped, IInv
<1>5. \A x \in {c} : Awake(sched, x) \/ queue[x] # "NONE"
  BY <1>2
<1>6. QED
  BY <1>1, <1>2, <1>3, <1>4, <1>5, TurnsKeepInvariant

(* What a task does with its own queue.                                    *)
LEMMA QueueStep ==
  ASSUME IInv, NEW c \in Task,
         CreateEventQueue(c) \/ Dequeue(c) \/ DequeueNothing(c) \/ HaltInSystemCall(c)
  PROVE  IInv'
<1>1. /\ Good(sched) /\ Typed(sched) /\ Awake(sched, Current(sched)) /\ RestTyped
      /\ \A x \in drained : creating[x] = NULL
  BY RunningTask
<1>2. /\ c = Current(sched) /\ UNCHANGED <<sched, parent, creating, in_pit>>
      /\ \/ queue' = queue
         \/ \E q \in {"EMPTY", "EVENTS"} : queue' = [queue EXCEPT ![c] = q]
      /\ drained' = drained \/ (drained' = drained \cup {c} /\ creating[c] = NULL)
  <2>1. CASE CreateEventQueue(c)
    BY <2>1 DEF CreateEventQueue, Works, Runs
  <2>2. CASE Dequeue(c)
    BY <2>2 DEF Dequeue, InLoop, Works, Runs
  <2>3. CASE DequeueNothing(c)
    BY <2>3 DEF DequeueNothing, InLoop, Works, Runs
  <2>4. CASE HaltInSystemCall(c)
    BY <2>4 DEF HaltInSystemCall, Works, Runs
  <2>5. QED
    BY <2>1, <2>2, <2>3, <2>4
<1>3. /\ RestTyped' /\ \A x \in drained' : creating[x] = NULL
      /\ \A x \in Task : queue[x] # "NONE" => queue'[x] # "NONE"
      /\ \A x \in Task : queue[x] = "NONE" /\ queue'[x] # "NONE" => Awake(sched, x)
  BY <1>1, <1>2 DEF RestTyped
<1>4. Good(sched') /\ CurrentRuns(sched') /\ Bounded'
  BY <1>1, <1>2 DEF IInv, Bounded
<1>5. Gives(sched, sched', {})
  BY <1>1, <1>2, GivesNothing
<1>6. QED
  BY <1>2, <1>3, <1>4, <1>5, TurnsKeepInvariant

(* sleep_task(): the level may fall, but not below a task that creates.    *)
LEMMA SleepStep ==
  ASSUME IInv, NEW c \in Task, SleepTask(c)
  PROVE  IInv'
<1> DEFINE d == sched'
<1>1. /\ Good(sched) /\ Typed(sched) /\ sched.status[c] = "RUN" /\ RestTyped /\ Queues
      /\ Parents /\ Creations
  BY RunningTask DEF SleepTask, Runs
<1>2. /\ c = Current(sched) /\ c # idle_task /\ c \in drained
      /\ ReadyLevels(sched, IDLE) # {} /\ sched' = Dispatch(sched, IDLE, "SLEEP")
      /\ drained' = drained \ {c} /\ UNCHANGED <<queue, parent, creating, in_pit>>
  BY DEF SleepTask, Runs
<1>3. IDLE \in Priority
  BY Constants
<1>4. /\ Good(d) /\ CurrentRuns(d)
      /\ \A x \in Task \ {c} :
           /\ Awake(sched, x) => Awake(d, x)
           /\ ~Awake(sched, x) => d.status[x] = sched.status[x]
           /\ sched.status[x] = "WAIT" => sched.priority[x] <= d.level
      /\ d.switch_prohibition_level = sched.switch_prohibition_level
      /\ d.priority = sched.priority
      /\ \A x \in Task : Exists(d, x) <=> Exists(sched, x)
  <2>1. "SLEEP" \in {"WAIT", "SLEEP"} /\ Current(sched) # idle_task
    BY <1>2
  <2>2. LET e == Dispatch(sched, IDLE, "SLEEP")
        IN /\ Good(e) /\ CurrentRuns(e)
           /\ \A x \in Task \ {Current(sched)} :
                /\ Awake(sched, x) <=> Awake(e, x)
                /\ ~Awake(sched, x) => e.status[x] = sched.status[x]
                /\ IDLE = IDLE /\ sched.status[x] = "WAIT" => sched.priority[x] <= e.level
           /\ \A x \in Task : Exists(e, x) <=> Exists(sched, x)
           /\ e.switch_prohibition_level = sched.switch_prohibition_level
           /\ e.priority = sched.priority
    BY <1>1, <1>2, <1>3, <2>1, DispatchGood
  <2> HIDE DEF d
  <2>3. d = Dispatch(sched, IDLE, "SLEEP")
    BY <1>2 DEF d
  <2>4. QED
    BY <1>2, <2>2, <2>3
<1>5. \A x \in Task : x # c /\ Awake(sched, x) => sched.status[x] = "WAIT"
  BY <1>1, <1>2 DEF Good, OnlyCurrentRuns, Awake
<1>6. creating[c] = NULL
  BY <1>1, <1>2 DEF Creations
<1> HIDE DEF d
<1>7. ASSUME NEW x \in Task, creating[x] # NULL
      PROVE  /\ Awake(d, x)
             /\ d.priority[x] <= d.level
             /\ d.priority[creating[x]] < d.priority[x]
             /\ d.status[creating[x]] = "SLEEP"
             /\ queue[creating[x]] = "NONE"
  <2>1. /\ Awake(sched, x) /\ sched.priority[creating[x]] < sched.priority[x]
        /\ sched.status[creating[x]] = "SLEEP" /\ queue[creating[x]] = "NONE"
        /\ x # c /\ creating[x] \in Task
    BY <1>1, <1>6, <1>7, Constants DEF Creations, RestTyped
  <2>2. creating[x] # c /\ ~Awake(sched, creating[x])
    BY <1>1, <2>1 DEF Awake
  <2>3. QED
    BY <1>4, <1>5, <2>1, <2>2
<1>8. Creations'
  BY <1>1, <1>2, <1>7 DEF Creations, d
<1>9. Queues' /\ Parents' /\ Bounded' /\ RestTyped'
  BY <1>1, <1>2, <1>4 DEF Queues, Parents, Bounded, RestTyped, IInv, d
<1>10. QED
  BY <1>4, <1>8, <1>9 DEF IInv, d

(* A new task takes one new place, and the level's current task keeps its. *)
LEMMA InsertPlaces ==
  ASSUME NEW r \in Seq(Task), NEW t \in Task
  PROVE  LET q == Insert(r, t)
         IN /\ q \in Seq(Task) /\ Len(q) \in 1 .. Len(q)
            /\ r # << >> => q[Len(q)] = r[Len(r)]
            /\ \E k \in 1 .. Len(q) : q[k] = t
            /\ \A m \in 1 .. Len(r) : \E k \in 1 .. Len(q) : q[k] = r[m]
            /\ \A k \in 1 .. Len(q) : q[k] = t \/ \E m \in 1 .. Len(r) : q[k] = r[m]
            /\ (/\ \A j, k \in 1 .. Len(r) : r[j] = r[k] => j = k
                /\ \A m \in 1 .. Len(r) : r[m] # t) =>
                 \A j, k \in 1 .. Len(q) : q[j] = q[k] => j = k
<1> DEFINE q == Insert(r, t)
<1>1. CASE r = << >>
  <2>1. q = <<t>> /\ Len(r) = 0
    BY <1>1 DEF Insert
  <2>2. q \in Seq(Task) /\ Len(q) = 1 /\ q[1] = t
    BY <2>1
  <2> HIDE DEF q
  <2>3. \A k \in 1 .. Len(q) : k = 1
    BY <2>2
  <2>4. 1 \in 1 .. Len(q) /\ Len(q) \in 1 .. Len(q)
    BY <2>2
  <2>5. QED
    BY <1>1, <2>1, <2>2, <2>3, <2>4 DEF q
<1>2. CASE r # << >>
  <2> DEFINE n == Len(r)
  <2>1. n \in Nat \ {0} /\ \A k \in 1 .. n : r[k] \in Task
    BY <1>2
  <2>2. q = [k \in 1 .. n + 1 |-> IF k < n THEN r[k] ELSE IF k = n THEN t ELSE r[n]]
    BY <1>2 DEF Insert
  <2> HIDE DEF q, n
  <2>3. q \in Seq(Task) /\ Len(q) = n + 1
    <3>1. q \in [1 .. n + 1 -> Task]
      BY <2>1, <2>2
    <3>2. QED
      BY <2>1, <3>1
  <2>4. /\ \A k \in 1 .. n + 1 : k < n => q[k] = r[k]
        /\ q[n] = t /\ q[n + 1] = r[n]
        /\ n \in 1 .. n + 1 /\ n + 1 \in 1 .. n + 1 /\ n \in 1 .. n
    BY <2>1, <2>2
  <2>5. ASSUME NEW k \in 1 .. n + 1  PROVE q[k] = t \/ \E m \in 1 .. n : q[k] = r[m]
    BY <2>1, <2>4
  <2>6. ASSUME NEW m \in 1 .. n  PROVE \E k \in 1 .. n + 1 : q[k] = r[m]
    <3>1. CASE m = n
      BY <2>4, <3>1
    <3>2. CASE m # n
      <4>1. m \in 1 .. n + 1 /\ m < n
        BY <2>1, <3>2
      <4>2. QED
        BY <2>4, <4>1
    <3>3. QED
      BY <3>1, <3>2
  <2>7. ASSUME \A j, k \in 1 .. n : r[j] = r[k] => j = k, \A m \in 1 .. n : r[m] # t,
               NEW j \in 1 .. n + 1, NEW k \in 1 .. n + 1, q[j] = q[k]
        PROVE  j = k
    <3> DEFINE F(x) == IF x < n THEN x ELSE n
    <3>1. ASSUME NEW x \in 1 .. n + 1, x # n  PROVE F(x) \in 1 .. n /\ q[x] = r[F(x)]
      BY <2>1, <2>4, <3>1
    <3>2. CASE j # n /\ k # n
      <4>1. F(j) = F(k)
        BY <2>7, <3>1, <3>2
      <4>2. QED
        BY <2>1, <3>2, <4>1
    <3>3. CASE j = n /\ k # n
      BY <2>4, <2>7, <3>1, <3>3
    <3>4. CASE j # n /\ k = n
      BY <2>4, <2>7, <3>1, <3>4
    <3>5. QED
      BY <3>2, <3>3, <3>4
  <2>8. QED
    BY <2>1, <2>3, <2>4, <2>5, <2>6, <2>7 DEF q, n
<1>3. QED
  BY <1>1, <1>2

(* create_task() links a sleeping task, below the running one.             *)
Creates(s, d, t, p) ==
  /\ t \in Pool /\ s.status[t] = "FREE" /\ p \in Priority
  /\ Typed(d)
  /\ d.ring = [s.ring EXCEPT ![p] = Insert(s.ring[p], t)]
  /\ d.level = s.level
  /\ d.priority = [s.priority EXCEPT ![t] = p]
  /\ d.status = [s.status EXCEPT ![t] = "SLEEP"]
  /\ d.switch_prohibition_level = [s.switch_prohibition_level EXCEPT ![t] = 0]
  /\ d.pending = s.pending \ {t}

LEMMA CreateGood ==
  ASSUME NEW s, Good(s), NEW d, NEW t, NEW p, Creates(s, d, t, p)
  PROVE  Good(d) /\ Current(d) = Current(s) /\ (CurrentRuns(s) => CurrentRuns(d))
<1> DEFINE r == s.ring[p]
           q == Insert(r, t)
<1>0. /\ t \in Pool /\ s.status[t] = "FREE" /\ p \in Priority
      /\ d.ring = [s.ring EXCEPT ![p] = Insert(s.ring[p], t)]
      /\ d.level = s.level
      /\ d.priority = [s.priority EXCEPT ![t] = p]
      /\ d.status = [s.status EXCEPT ![t] = "SLEEP"]
      /\ d.switch_prohibition_level = [s.switch_prohibition_level EXCEPT ![t] = 0]
      /\ d.pending = s.pending \ {t}
  BY DEF Creates
<1>1. /\ Typed(s) /\ s.ring[s.level] # << >> /\ Linked(s) /\ OnlyCurrentRuns(s)
      /\ Permanent(s) /\ Owed(s) /\ t \in Task /\ r \in Seq(Task) /\ s.level \in Priority
      /\ s.ring[s.level] \in Seq(Task)
  BY <1>0, Constants DEF Good, Typed
<1>2. /\ \A x \in Priority : d.ring[x] = IF x = p THEN q ELSE s.ring[x]
      /\ \A x \in Task : d.priority[x] = IF x = t THEN p ELSE s.priority[x]
      /\ \A x \in Task : d.status[x] = IF x = t THEN "SLEEP" ELSE s.status[x]
      /\ \A x \in Task : d.switch_prohibition_level[x] =
           IF x = t THEN 0 ELSE s.switch_prohibition_level[x]
      /\ s.pending \subseteq Task
  BY <1>0, <1>1 DEF Typed
<1>3. /\ q \in Seq(Task) /\ Len(q) \in 1 .. Len(q)
      /\ r # << >> => q[Len(q)] = r[Len(r)]
      /\ \E k \in 1 .. Len(q) : q[k] = t
      /\ \A m \in 1 .. Len(r) : \E k \in 1 .. Len(q) : q[k] = r[m]
      /\ \A k \in 1 .. Len(q) : q[k] = t \/ \E m \in 1 .. Len(r) : q[k] = r[m]
      /\ (/\ \A j, k \in 1 .. Len(r) : r[j] = r[k] => j = k
          /\ \A m \in 1 .. Len(r) : r[m] # t) =>
           \A j, k \in 1 .. Len(q) : q[j] = q[k] => j = k
  BY <1>0, <1>1, InsertPlaces
<1> HIDE DEF q
<1>4. /\ ~Exists(s, t)
      /\ \A x \in Task : x # t => (Exists(d, x) <=> Exists(s, x))
      /\ Exists(d, t)
  BY <1>0, <1>1, <1>2 DEF Exists
<1>5. \A x \in Priority : \A m \in 1 .. Len(s.ring[x]) :
        /\ s.ring[x][m] \in Task /\ s.ring[x][m] # t
        /\ Exists(s, s.ring[x][m]) /\ s.priority[s.ring[x][m]] = x
  <2>1. ASSUME NEW x \in Priority, NEW m \in 1 .. Len(s.ring[x])
        PROVE  /\ s.ring[x][m] \in Task
               /\ Exists(s, s.ring[x][m]) /\ s.priority[s.ring[x][m]] = x
    <3>1. s.ring[x][m] \in Task
      BY <1>0, <1>1 DEF Typed
    <3>2. QED
      BY <1>0, <1>1, <3>1 DEF Linked
  <2>2. QED
    BY <1>0, <1>4, <2>1
<1>6. d.ring[d.level] # << >> /\ Current(d) = Current(s)
  <2>1. CASE s.level = p
    <3>1. d.ring[d.level] = q /\ q # << >>
      BY <1>0, <1>1, <1>2, <1>3, <2>1
    <3>2. q[Len(q)] = s.ring[s.level][Len(s.ring[s.level])]
      BY <1>0, <1>1, <1>3, <2>1
    <3>3. QED
      BY <1>0, <3>1, <3>2 DEF Current
  <2>2. CASE s.level # p
    <3>1. d.ring[d.level] = s.ring[s.level]
      BY <1>0, <1>1, <1>2, <2>2
    <3>2. QED
      BY <1>0, <1>1, <3>1 DEF Current
  <2>3. QED
    BY <1>0, <2>1, <2>2
<1>7. Linked(d)
  <2>1. ASSUME NEW x \in Priority, NEW k \in 1 .. Len(d.ring[x])
        PROVE  Exists(d, d.ring[x][k]) /\ d.priority[d.ring[x][k]] = x
    <3>1. CASE x = p /\ d.ring[x][k] = t
      BY <1>0, <1>1, <1>2, <1>4, <3>1
    <3>2. CASE \E m \in 1 .. Len(s.ring[x]) : d.ring[x][k] = s.ring[x][m]
      BY <1>0, <1>2, <1>4, <1>5, <3>2
    <3>3. (x = p /\ d.ring[x][k] = t)
            \/ \E m \in 1 .. Len(s.ring[x]) : d.ring[x][k] = s.ring[x][m]
      <4>1. CASE x = p
        <5>1. d.ring[x] = q
          BY <1>0, <1>2, <4>1
        <5>2. k \in 1 .. Len(q) /\ d.ring[x][k] = q[k]
          BY <1>0, <5>1
        <5>3. q[k] = t \/ \E m \in 1 .. Len(r) : q[k] = r[m]
          BY <1>0, <1>3, <5>2
        <5>4. QED
          BY <1>0, <4>1, <5>2, <5>3
      <4>2. CASE x # p
        BY <1>0, <1>2, <4>2
      <4>3. QED
        BY <1>0, <4>1, <4>2
    <3>4. QED
      BY <1>0, <3>1, <3>2, <3>3
  <2>2. ASSUME NEW x \in Priority, NEW j \in 1 .. Len(d.ring[x]),
               NEW k \in 1 .. Len(d.ring[x]), d.ring[x][j] = d.ring[x][k]
        PROVE  j = k
    <3>1. CASE x = p
      <4>1. \A a, b \in 1 .. Len(r) : r[a] = r[b] => a = b
        BY <1>0, <1>1 DEF Linked
      <4>2. \A m \in 1 .. Len(r) : r[m] # t
        BY <1>0, <1>5
      <4>3. d.ring[x] = q
        BY <1>0, <1>2, <3>1
      <4>4. \A a, b \in 1 .. Len(q) : q[a] = q[b] => a = b
        BY <1>0, <1>3, <4>1, <4>2
      <4>5. QED
        BY <1>0, <2>2, <4>3, <4>4
    <3>2. CASE x # p
      BY <1>0, <1>1, <1>2, <2>2, <3>2 DEF Linked
    <3>3. QED
      BY <1>0, <3>1, <3>2
  <2>3. ASSUME NEW x \in Task, Exists(d, x)
        PROVE  \E k \in 1 .. Len(d.ring[d.priority[x]]) : d.ring[d.priority[x]][k] = x
    <3>1. CASE x = t
      <4>1. d.ring[d.priority[x]] = q
        BY <1>0, <1>1, <1>2, <3>1
      <4>2. QED
        BY <1>0, <1>3, <3>1, <4>1
    <3>2. CASE x # t
      <4>1. PICK m \in 1 .. Len(s.ring[s.priority[x]]) : s.ring[s.priority[x]][m] = x
        BY <1>0, <1>1, <1>4, <2>3, <3>2 DEF Linked
      <4>2. d.priority[x] = s.priority[x] /\ s.priority[x] \in Priority
        BY <1>0, <1>1, <1>2, <3>2 DEF Typed
      <4>3. CASE s.priority[x] = p
        <5>1. d.ring[d.priority[x]] = q
          BY <1>0, <1>2, <4>2, <4>3
        <5>2. PICK k \in 1 .. Len(q) : q[k] = r[m]
          BY <1>0, <1>3, <4>1, <4>3
        <5>3. QED
          BY <1>0, <4>1, <4>3, <5>1, <5>2
      <4>4. CASE s.priority[x] # p
        BY <1>0, <1>2, <4>1, <4>2, <4>4
      <4>5. QED
        BY <1>0, <4>3, <4>4
    <3>3. QED
      BY <1>0, <3>1, <3>2
  <2>4. QED
    BY <1>0, <2>1, <2>2, <2>3 DEF Linked
<1>8. OnlyCurrentRuns(d) /\ (CurrentRuns(s) => CurrentRuns(d))
  <2>1. Current(s) \in Task /\ Exists(s, Current(s))
    BY <1>0, <1>1, CurrentExists
  <2>2. QED
    BY <1>0, <1>1, <1>2, <1>4, <1>6, <2>1 DEF OnlyCurrentRuns, CurrentRuns
<1>9. Permanent(d) /\ Owed(d)
  <2>1. main_task # t /\ idle_task # t /\ main_task \in Task /\ idle_task \in Task
    BY <1>0, Constants
  <2>2. QED
    BY <1>0, <1>1, <1>2, <2>1 DEF Permanent, Owed
<1>10. QED
  BY <1>0, <1>6, <1>7, <1>8, <1>9 DEF Good, Creates

LEMMA CreateStep ==
  ASSUME IInv, NEW c \in Task, NEW t \in Pool, NEW p \in TaskPriorities,
         NEW owner \in {c, main_task}, CreateTask(c, t, p, owner)
  PROVE  IInv'
<1>0. p \in Priority /\ owner \in Task
  BY Constants DEF Priority
<1>1. /\ c = Current(sched) /\ creating[c] = NULL /\ sched.status[t] = "FREE"
      /\ c \notin drained
      /\ p \in TaskPriorities /\ p < sched.priority[c] /\ owner \in {c, main_task}
      /\ queue[c] # "NONE"
      /\ sched' = [sched EXCEPT !.ring[p] = Insert(@, t), !.priority[t] = p,
                                !.status[t] = "SLEEP", !.switch_prohibition_level[t] = 0,
                                !.pending = @ \ {t}, !.elapsed_time[t] = 0,
                                !.fresh = @ \cup {t}]
      /\ parent' = [parent EXCEPT ![t] = owner]
      /\ creating' = [creating EXCEPT ![c] = t]
      /\ UNCHANGED <<queue, drained, in_pit>>
  BY DEF CreateTask, Works, Runs
<1>2. /\ Good(sched) /\ Typed(sched) /\ sched.status[c] = "RUN" /\ Exists(sched, c)
      /\ sched.priority[c] = sched.level /\ sched.level \in Priority
      /\ RestTyped /\ Queues /\ Parents /\ Creations /\ t \in Task /\ NULL \notin Task
      /\ main_task \in Task /\ t # main_task
  BY <1>1, RunningTask, Constants
<1>3. Insert(sched.ring[p], t) \in Seq(Task)
  <2>1. sched.ring[p] \in Seq(Task)
    BY <1>0, <1>2 DEF Typed
  <2>2. QED
    BY <1>2, <2>1, InsertPlaces
<1> DEFINE d == sched'
<1>4. /\ [sched.ring EXCEPT ![p] = Insert(sched.ring[p], t)] \in [Priority -> Seq(Task)]
      /\ [sched.priority EXCEPT ![t] = p] \in [Task -> Priority]
      /\ [sched.status EXCEPT ![t] = "SLEEP"] \in [Task -> Status]
      /\ [sched.switch_prohibition_level EXCEPT ![t] = 0] \in [Task -> Nat]
      /\ [sched.elapsed_time EXCEPT ![t] = 0] \in [Task -> 0 .. ElapsedModulus - 1]
  <2>1. 0 \in 0 .. ElapsedModulus - 1 /\ 0 \in Nat /\ "SLEEP" \in Status
    BY Constants DEF Status
  <2>2. /\ sched.ring \in [Priority -> Seq(Task)]
        /\ sched.priority \in [Task -> Priority]
        /\ sched.status \in [Task -> Status]
        /\ sched.switch_prohibition_level \in [Task -> Nat]
        /\ sched.elapsed_time \in [Task -> 0 .. ElapsedModulus - 1]
    BY <1>2 DEF Typed
  <2>3. QED
    BY <1>3, <1>0, <2>1, <2>2
<1>5. /\ Typed(d)
      /\ d.ring = [sched.ring EXCEPT ![p] = Insert(sched.ring[p], t)]
      /\ d.level = sched.level
      /\ d.priority = [sched.priority EXCEPT ![t] = p]
      /\ d.status = [sched.status EXCEPT ![t] = "SLEEP"]
      /\ d.switch_prohibition_level = [sched.switch_prohibition_level EXCEPT ![t] = 0]
      /\ d.pending = sched.pending \ {t}
  <2>1. Typed(d)
    <3> DEFINE S == Seq(Task)
               D == 0 .. ElapsedModulus - 1
               A == [ring : [Priority -> S], level : Priority,
                     priority : [Task -> Priority], status : [Task -> Status],
                     switch_prohibition_level : [Task -> Nat], pending : SUBSET Task,
                     elapsed_time : [Task -> D], fresh : SUBSET Task]
    <3>1. sched \in A /\ t \in Task
      BY ONLY <1>2 DEF Typed
    <3>2. /\ [sched.ring EXCEPT ![p] = Insert(sched.ring[p], t)] \in [Priority -> S]
          /\ [sched.elapsed_time EXCEPT ![t] = 0] \in [Task -> D]
      BY ONLY <1>4
    <3> HIDE DEF S, D
    <3>3. sched' \in A
      BY ONLY <1>1, <1>4, <3>1, <3>2
    <3>4. QED
      BY ONLY <3>3 DEF Typed, S, D
  <2>2. sched \in [ring : [Priority -> Seq(Task)], level : Priority,
                   priority : [Task -> Priority], status : [Task -> Status],
                   switch_prohibition_level : [Task -> Nat], pending : SUBSET Task,
                   elapsed_time : [Task -> 0 .. ElapsedModulus - 1], fresh : SUBSET Task]
    BY ONLY <1>2 DEF Typed
  <2>3. /\ d.ring = [sched.ring EXCEPT ![p] = Insert(sched.ring[p], t)]
        /\ d.level = sched.level
        /\ d.priority = [sched.priority EXCEPT ![t] = p]
    BY <1>1, <2>2
  <2>4. /\ d.status = [sched.status EXCEPT ![t] = "SLEEP"]
        /\ d.switch_prohibition_level = [sched.switch_prohibition_level EXCEPT ![t] = 0]
        /\ d.pending = sched.pending \ {t}
    BY <1>1, <2>2
  <2>5. QED
    BY <2>1, <2>3, <2>4
<1> HIDE DEF d
<1>6. Good(d) /\ CurrentRuns(d)
  <2>1. Creates(sched, d, t, p)
    BY <1>1, <1>5, <1>0 DEF Creates
  <2>2. QED
    BY <1>2, <2>1, CreateGood DEF IInv
<1>7. /\ \A x \in Task : d.status[x] = IF x = t THEN "SLEEP" ELSE sched.status[x]
      /\ \A x \in Task : d.priority[x] = IF x = t THEN p ELSE sched.priority[x]
      /\ \A x \in Task : x # t => (Exists(d, x) <=> Exists(sched, x))
      /\ Exists(d, t) /\ ~Exists(sched, t) /\ queue[t] = "NONE"
  <2>1. sched.status \in [Task -> Status] /\ sched.priority \in [Task -> Priority]
    BY <1>2 DEF Typed
  <2>2. /\ \A x \in Task : d.status[x] = IF x = t THEN "SLEEP" ELSE sched.status[x]
        /\ \A x \in Task : d.priority[x] = IF x = t THEN p ELSE sched.priority[x]
    BY <1>2, <1>5, <2>1
  <2>3. QED
    BY <1>1, <1>2, <2>2 DEF Exists, Queues
<1>8. Bounded'
  BY <1>2, <1>5, Constants DEF Bounded, IInv, Typed, d
<1>9. RestTyped' /\ Queues'
  BY <1>1, <1>2, <1>7 DEF RestTyped, Queues, d
<1>10. Parents'
  <2>1. owner \in Task /\ queue[owner] # "NONE" /\ owner # t
    BY <1>1, <1>2, <1>7 DEF Queues
  <2>2. \A x \in Task : parent'[x] = IF x = t THEN owner ELSE parent[x]
    BY <1>1, <1>2 DEF RestTyped
  <2>3. QED
    BY <1>1, <1>2, <2>1, <2>2 DEF Parents
<1>11. /\ \A x \in Task : creating'[x] = IF x = c THEN t ELSE creating[x]
       /\ \A x \in Task : creating[x] # t
  BY <1>1, <1>2 DEF RestTyped, Creations
<1>12. ASSUME NEW x \in Task, creating'[x] # NULL
       PROVE  /\ Awake(d, x)
              /\ d.priority[x] <= d.level
              /\ d.priority[creating'[x]] < d.priority[x]
              /\ d.status[creating'[x]] = "SLEEP"
              /\ queue[creating'[x]] = "NONE"
  <2>1. CASE x = c
    <3>1. creating'[x] = t /\ c # t
      BY <1>1, <1>2, <1>11, <2>1
    <3>2. Awake(d, x) /\ d.priority[x] = d.level
      BY <1>2, <1>5, <1>7, <2>1, <3>1 DEF Awake
    <3>3. d.level \in Int
      BY <1>2, <1>5, Constants
    <3>4. d.priority[t] < d.priority[c]
      BY <1>1, <1>2, <1>7, <3>1
    <3>5. QED
      BY <1>2, <1>7, <2>1, <3>1, <3>2, <3>3, <3>4
  <2>2. CASE x # c
    <3>1. /\ creating'[x] = creating[x] /\ creating[x] # NULL /\ creating[x] # t
          /\ creating[x] \in Task
      BY <1>2, <1>11, <1>12, <2>2, Constants DEF RestTyped
    <3>2. /\ Awake(sched, x) /\ sched.priority[x] <= sched.level
          /\ sched.priority[creating[x]] < sched.priority[x]
          /\ sched.status[creating[x]] = "SLEEP" /\ queue[creating[x]] = "NONE"
      BY <1>2, <3>1 DEF Creations
    <3>3. x # t
      BY <1>1, <3>2 DEF Awake
    <3>4. QED
      BY <1>5, <1>7, <3>1, <3>2, <3>3 DEF Awake
  <2>3. QED
    BY <2>1, <2>2
<1>13. Creations'
  <2>1. \A x, y \in Task : creating'[x] # NULL /\ creating'[x] = creating'[y] => x = y
    BY <1>2, <1>11 DEF Creations
  <2>2. \A x \in drained' : creating'[x] = NULL
    BY <1>1, <1>2, <1>11 DEF Creations, RestTyped
  <2>3. QED
    BY <1>1, <1>12, <2>1, <2>2 DEF Creations, d
<1>14. QED
  BY <1>6, <1>8, <1>9, <1>10, <1>13 DEF IInv, d

(* start_task() makes the task its caller has created ready.               *)
LEMMA StartStep ==
  ASSUME IInv, NEW c \in Task, StartTask(c)
  PROVE  IInv'
<1> DEFINE t == creating[c]
           d == sched'
<1>1. /\ c = Current(sched) /\ t # NULL
      /\ sched' = [sched EXCEPT !.status[t] = "WAIT", !.elapsed_time[t] = 0]
      /\ queue' = [queue EXCEPT ![t] = "NONE"]
      /\ creating' = [creating EXCEPT ![c] = NULL]
      /\ UNCHANGED <<parent, drained, in_pit>>
  BY DEF StartTask, Works, Runs
<1>2. /\ Good(sched) /\ Typed(sched) /\ CurrentRuns(sched) /\ Owed(sched)
      /\ RestTyped /\ Queues /\ Parents /\ Creations /\ Bounded
  BY RunningTask DEF IInv, Good
<1>3. /\ t \in Task /\ sched.status[t] = "SLEEP" /\ queue[t] = "NONE" /\ t # main_task
      /\ sched.priority[t] < sched.priority[c]
  BY <1>1, <1>2, Constants DEF RestTyped, Creations
<1> HIDE DEF t
<1>4. /\ [sched.status EXCEPT ![t] = "WAIT"] \in [Task -> Status]
      /\ [sched.elapsed_time EXCEPT ![t] = 0] \in [Task -> 0 .. ElapsedModulus - 1]
  <2>1. sched.status \in [Task -> Status] /\ "WAIT" \in Status
    BY <1>2 DEF Typed, Status
  <2>2. /\ sched.elapsed_time \in [Task -> 0 .. ElapsedModulus - 1]
        /\ 0 \in 0 .. ElapsedModulus - 1
    BY <1>2, Constants DEF Typed
  <2>3. QED
    BY <1>3, <2>1, <2>2
<1>5. /\ Typed(d) /\ d.ring = sched.ring /\ d.level = sched.level
      /\ d.priority = sched.priority
      /\ d.status = [sched.status EXCEPT ![t] = "WAIT"]
      /\ d.switch_prohibition_level = sched.switch_prohibition_level
      /\ d.pending = sched.pending
  BY <1>1, <1>2, <1>4 DEF Typed
<1> HIDE DEF d
<1>6. Owed(d)
  BY <1>2, <1>5 DEF Owed
<1>7. Good(d) /\ CurrentRuns(d) /\ Gives(sched, d, {t})
  BY <1>2, <1>3, <1>5, <1>6, Readied
<1>8. queue' = queue
  BY <1>1, <1>2, <1>3 DEF RestTyped
<1>9. Queues' /\ Parents' /\ Bounded' /\ RestTyped'
  <2>1. \A x \in Task : Exists(d, x) <=> Exists(sched, x)
    BY <1>7 DEF Gives
  <2>2. Queues' /\ Parents'
    BY <1>1, <1>2, <1>8, <2>1 DEF Queues, Parents, d
  <2>3. Bounded' /\ RestTyped'
    BY <1>1, <1>2, <1>5, <1>8 DEF Bounded, RestTyped, d
  <2>4. QED
    BY <2>2, <2>3
<1>10. \A x \in Task : creating'[x] = IF x = c THEN NULL ELSE creating[x]
  BY <1>1, <1>2 DEF RestTyped
<1>11. ASSUME NEW x \in Task, creating'[x] # NULL
       PROVE  /\ Awake(d, x)
              /\ d.priority[x] <= d.level
              /\ d.priority[creating'[x]] < d.priority[x]
              /\ d.status[creating'[x]] = "SLEEP"
              /\ queue'[creating'[x]] = "NONE"
  <2>1. /\ x # c /\ creating'[x] = creating[x] /\ creating[x] # NULL
        /\ creating[x] \in Task
    BY <1>2, <1>10, <1>11, Constants DEF RestTyped
  <2>2. creating[x] # t
    BY <1>2, <2>1 DEF Creations, t
  <2>3. /\ Awake(sched, x) /\ sched.priority[x] <= sched.level
        /\ sched.priority[creating[x]] < sched.priority[x]
        /\ sched.status[creating[x]] = "SLEEP" /\ queue[creating[x]] = "NONE"
        /\ ~Awake(sched, creating[x])
    BY <1>2, <2>1 DEF Creations, Awake
  <2>4. Awake(d, x) /\ d.status[creating[x]] = "SLEEP"
    BY <1>7, <2>1, <2>2, <2>3 DEF Gives
  <2>5. QED
    BY <1>5, <1>8, <2>1, <2>3, <2>4
<1>12. Creations'
  <2>1. \A x, y \in Task : creating'[x] # NULL /\ creating'[x] = creating'[y] => x = y
    BY <1>2, <1>10 DEF Creations
  <2>2. \A x \in drained' : creating'[x] = NULL
    BY <1>1, <1>2, <1>10 DEF Creations, RestTyped
  <2>3. QED
    BY <1>11, <2>1, <2>2 DEF Creations, d
<1>13. QED
  BY <1>7, <1>9, <1>12 DEF IInv, d

(* close_task() takes the running task c out of its ring, and it exists no *)
(* more.  The ring may be empty after that.                                *)
Unlinked(s, u, c, st) ==
  /\ c = Current(s) /\ c \in Pool /\ st \in {"FREE", "LOST"}
  /\ u.ring = [s.ring EXCEPT ![s.level] = WithoutCurrent(s.ring[s.level])]
  /\ u.level = s.level
  /\ u.priority = [s.priority EXCEPT ![c] = IDLE]
  /\ u.status = [s.status EXCEPT ![c] = st]
  /\ u.switch_prohibition_level = [s.switch_prohibition_level EXCEPT ![c] = 0]
  /\ u.pending = s.pending \ {c}
  /\ u.elapsed_time = [s.elapsed_time EXCEPT ![c] = 0]
  /\ u = [ring |-> u.ring, level |-> u.level, priority |-> u.priority,
          status |-> u.status, switch_prohibition_level |-> u.switch_prohibition_level,
          pending |-> u.pending, elapsed_time |-> u.elapsed_time, fresh |-> s.fresh]

LEMMA UnlinkedGood ==
  ASSUME NEW s, Good(s), NEW u, NEW c, NEW st, Unlinked(s, u, c, st)
  PROVE  /\ Typed(u) /\ Linked(u) /\ Permanent(u) /\ Owed(u)
         /\ \A x \in Task : u.status[x] # "RUN"
         /\ \A x \in Task : x # c => u.status[x] = s.status[x]
                                     /\ u.priority[x] = s.priority[x]
         /\ \A x \in Task : Exists(u, x) <=> Exists(s, x) /\ x # c
         /\ Len(s.ring[s.level]) \in Nat \ {0}
         /\ u.ring[s.level] \in Seq(Task)
         /\ Len(u.ring[s.level]) = Len(s.ring[s.level]) - 1
         /\ \A k \in 1 .. Len(u.ring[s.level]) : u.ring[s.level][k] = s.ring[s.level][k]
<1> DEFINE l == s.level
           r == s.ring[l]
           n == Len(r)
           w == WithoutCurrent(r)
<1>1. /\ c = Current(s) /\ c \in Pool /\ st \in {"FREE", "LOST"}
      /\ u.ring = [s.ring EXCEPT ![l] = w]
      /\ u.level = s.level
      /\ u.priority = [s.priority EXCEPT ![c] = IDLE]
      /\ u.status = [s.status EXCEPT ![c] = st]
      /\ u.switch_prohibition_level = [s.switch_prohibition_level EXCEPT ![c] = 0]
      /\ u.pending = s.pending \ {c}
      /\ u.elapsed_time = [s.elapsed_time EXCEPT ![c] = 0]
      /\ u = [ring |-> u.ring, level |-> u.level, priority |-> u.priority,
              status |-> u.status, switch_prohibition_level |-> u.switch_prohibition_level,
              pending |-> u.pending, elapsed_time |-> u.elapsed_time, fresh |-> s.fresh]
  BY DEF Unlinked
<1>2. /\ Typed(s) /\ r # << >> /\ Linked(s) /\ OnlyCurrentRuns(s) /\ Permanent(s) /\ Owed(s)
  BY DEF Good
<1>3. /\ s.ring \in [Priority -> Seq(Task)] /\ s.level \in Priority
      /\ s.priority \in [Task -> Priority] /\ s.status \in [Task -> Status]
      /\ s.switch_prohibition_level \in [Task -> Nat] /\ s.pending \subseteq Task
      /\ s.elapsed_time \in [Task -> 0 .. ElapsedModulus - 1] /\ s.fresh \subseteq Task
  BY <1>2 DEF Typed
<1>4. /\ r \in Seq(Task) /\ n \in Nat \ {0} /\ n \in 1 .. n /\ r[n] = c
      /\ c \in Task /\ s.priority[c] = l
  <2>1. /\ Current(s) \in Task /\ s.priority[Current(s)] = s.level
        /\ s.ring[s.level] \in Seq(Task)
        /\ Len(s.ring[s.level]) \in 1 .. Len(s.ring[s.level])
    BY <1>2, CurrentExists
  <2>2. r \in Seq(Task) /\ n \in Nat \ {0} /\ n \in 1 .. n
    <3>1. n \in Nat
      BY ONLY <2>1
    <3>2. QED
      BY ONLY <2>1, <3>1
  <2>3. r[n] = c
    BY ONLY <1>1 DEF Current
  <2>4. QED
    BY ONLY <1>1, <2>1, <2>2, <2>3
<1>5. w \in Seq(Task) /\ Len(w) = n - 1 /\ \A k \in 1 .. n - 1 : w[k] = r[k]
  <2>1. w = [k \in 1 .. n - 1 |-> r[k]]
    BY DEF WithoutCurrent
  <2> HIDE DEF w
  <2>2. n - 1 \in Nat /\ \A k \in 1 .. n - 1 : r[k] \in Task
    BY <1>4
  <2> DEFINE m == n - 1
  <2>3. m \in Nat /\ w = [k \in 1 .. m |-> r[k]] /\ \A k \in 1 .. m : r[k] \in Task
    BY ONLY <2>1, <2>2
  <2> HIDE DEF m, n, r
  <2>4. w \in Seq(Task) /\ Len(w) = m /\ \A k \in 1 .. m : w[k] = r[k]
    BY ONLY <2>3
  <2>5. QED
    BY ONLY <2>4 DEF m
<1> HIDE DEF w, n, r, l
<1>6. Typed(u)
  <2>1. u.ring \in [Priority -> Seq(Task)]
    <3> DEFINE S == Seq(Task)
    <3>1. w \in S /\ s.ring \in [Priority -> S] /\ u.ring = [s.ring EXCEPT ![l] = w]
      BY ONLY <1>1, <1>3, <1>5
    <3> HIDE DEF S
    <3>2. u.ring \in [Priority -> S]
      BY ONLY <3>1
    <3>3. QED
      BY ONLY <3>2 DEF S
  <2>2. IDLE \in Priority /\ st \in Status /\ 0 \in Nat /\ 0 \in 0 .. ElapsedModulus - 1
    BY <1>1, Constants DEF Status
  <2>3. /\ u.priority \in [Task -> Priority] /\ u.status \in [Task -> Status]
        /\ u.switch_prohibition_level \in [Task -> Nat] /\ u.pending \in SUBSET Task
        /\ u.elapsed_time \in [Task -> 0 .. ElapsedModulus - 1]
        /\ u.level \in Priority /\ s.fresh \in SUBSET Task
    <3>1. u.priority \in [Task -> Priority]
      <4>1. /\ u.priority = [s.priority EXCEPT ![c] = IDLE]
            /\ s.priority \in [Task -> Priority]
        BY <1>1, <1>3
      <4>2. QED
        BY <2>2, <4>1
    <3>2. u.status \in [Task -> Status]
      <4>1. u.status = [s.status EXCEPT ![c] = st] /\ s.status \in [Task -> Status]
        BY <1>1, <1>3
      <4>2. QED
        BY <2>2, <4>1
    <3>3. u.switch_prohibition_level \in [Task -> Nat]
      <4> DEFINE D == Nat
      <4>1. /\ u.switch_prohibition_level = [s.switch_prohibition_level EXCEPT ![c] = 0]
            /\ s.switch_prohibition_level \in [Task -> D] /\ 0 \in D
        BY ONLY <1>1, <1>3
      <4> HIDE DEF D
      <4>2. u.switch_prohibition_level \in [Task -> D]
        BY ONLY <4>1
      <4>3. QED
        BY ONLY <4>2 DEF D
    <3>4. u.elapsed_time \in [Task -> 0 .. ElapsedModulus - 1]
      <4> DEFINE D == 0 .. ElapsedModulus - 1
      <4>1. /\ u.elapsed_time = [s.elapsed_time EXCEPT ![c] = 0]
            /\ s.elapsed_time \in [Task -> D] /\ 0 \in D
        BY ONLY <1>1, <1>3, <2>2
      <4> HIDE DEF D
      <4>2. u.elapsed_time \in [Task -> D]
        BY ONLY <4>1
      <4>3. QED
        BY ONLY <4>2 DEF D
    <3>5. u.pending \in SUBSET Task /\ u.level \in Priority /\ s.fresh \in SUBSET Task
      BY <1>1, <1>3
    <3>6. QED
      BY <3>1, <3>2, <3>3, <3>4, <3>5
  <2>4. [ring |-> u.ring, level |-> u.level, priority |-> u.priority,
         status |-> u.status, switch_prohibition_level |-> u.switch_prohibition_level,
         pending |-> u.pending, elapsed_time |-> u.elapsed_time, fresh |-> s.fresh]
          \in [ring : [Priority -> Seq(Task)], level : Priority,
               priority : [Task -> Priority], status : [Task -> Status],
               switch_prohibition_level : [Task -> Nat], pending : SUBSET Task,
               elapsed_time : [Task -> 0 .. ElapsedModulus - 1], fresh : SUBSET Task]
    BY <2>1, <2>3
  <2>5. QED
    BY <1>1, <2>4 DEF Typed
<1>7. /\ \A x \in Task : u.status[x] = IF x = c THEN st ELSE s.status[x]
      /\ \A x \in Task : u.priority[x] = IF x = c THEN IDLE ELSE s.priority[x]
      /\ \A x \in Task : u.switch_prohibition_level[x] =
           IF x = c THEN 0 ELSE s.switch_prohibition_level[x]
      /\ \A x \in Priority : u.ring[x] = IF x = l THEN w ELSE s.ring[x]
  BY <1>1, <1>3, <1>4 DEF l
<1>8. \A x \in Task : u.status[x] # "RUN"
  BY <1>1, <1>2, <1>7 DEF OnlyCurrentRuns
<1>9. \A x \in Task : Exists(u, x) <=> (Exists(s, x) /\ x # c)
  BY <1>1, <1>7 DEF Exists
<1>10. Linked(u)
  <2>1. ASSUME NEW x \in Priority, NEW k \in 1 .. Len(u.ring[x])
        PROVE  /\ k \in 1 .. Len(s.ring[x]) /\ u.ring[x][k] = s.ring[x][k]
               /\ x = l => k # n
    <3>1. CASE x = l
      <4>1. u.ring[x] = w /\ k \in 1 .. n - 1 /\ s.ring[x] = r
        BY <1>5, <1>7, <3>1 DEF r
      <4>2. QED
        BY <1>4, <1>5, <4>1 DEF n
    <3>2. CASE x # l
      BY <1>7, <3>2
    <3>3. QED
      BY <3>1, <3>2
  <2>2. ASSUME NEW x \in Priority, NEW k \in 1 .. Len(u.ring[x])
        PROVE  Exists(u, u.ring[x][k]) /\ u.priority[u.ring[x][k]] = x
    <3> DEFINE y == s.ring[x][k]
    <3>1. k \in 1 .. Len(s.ring[x]) /\ u.ring[x][k] = y /\ (x = l => k # n)
      BY <2>1
    <3>2. y \in Task
      BY <1>3, <3>1
    <3>3. Exists(s, y) /\ s.priority[y] = x
      BY <1>2, <3>1 DEF Linked
    <3>4. y # c
      <4>1. CASE x = l
        BY <1>2, <1>4, <3>1, <4>1 DEF Linked, r, n
      <4>2. CASE x # l
        BY <1>4, <3>3, <4>2
      <4>3. QED
        BY <4>1, <4>2
    <3>5. QED
      BY <1>7, <1>9, <3>1, <3>2, <3>3, <3>4
  <2>3. ASSUME NEW x \in Priority, NEW j \in 1 .. Len(u.ring[x]),
               NEW k \in 1 .. Len(u.ring[x]), u.ring[x][j] = u.ring[x][k]
        PROVE  j = k
    <3>1. /\ j \in 1 .. Len(s.ring[x]) /\ k \in 1 .. Len(s.ring[x])
          /\ s.ring[x][j] = s.ring[x][k]
      BY <2>1, <2>3
    <3>2. QED
      BY <1>2, <3>1 DEF Linked
  <2>4. ASSUME NEW x \in Task, Exists(u, x)
        PROVE  \E k \in 1 .. Len(u.ring[u.priority[x]]) : u.ring[u.priority[x]][k] = x
    <3>1. Exists(s, x) /\ x # c /\ u.priority[x] = s.priority[x] /\ s.priority[x] \in Priority
      BY <1>3, <1>7, <1>9, <2>4
    <3>2. PICK k \in 1 .. Len(s.ring[s.priority[x]]) : s.ring[s.priority[x]][k] = x
      BY <1>2, <3>1 DEF Linked
    <3>3. CASE s.priority[x] = l
      <4>1. k \in 1 .. n /\ r[k] = x
        BY <3>2, <3>3 DEF r, n
      <4>2. k # n
        BY <1>4, <3>1, <4>1
      <4>3. k \in 1 .. n - 1
        BY <1>4, <4>1, <4>2
      <4>4. u.ring[u.priority[x]] = w
        BY <1>7, <3>1, <3>3
      <4>5. k \in 1 .. Len(w) /\ w[k] = x
        BY <1>5, <4>1, <4>3
      <4>6. QED
        BY <4>4, <4>5
    <3>4. CASE s.priority[x] # l
      BY <1>7, <3>1, <3>2, <3>4
    <3>5. QED
      BY <3>3, <3>4
  <2>5. QED
    BY <2>2, <2>3, <2>4 DEF Linked
<1>11. Permanent(u) /\ Owed(u)
  <2>1. main_task # c /\ idle_task # c /\ main_task \in Task /\ idle_task \in Task
    BY <1>1, Constants
  <2>2. Permanent(u)
    BY <1>2, <1>7, <2>1 DEF Permanent
  <2>3. Owed(u)
    BY <1>1, <1>2, <1>3, <1>7 DEF Owed
  <2>4. QED
    BY <2>2, <2>3
<1>12. u.ring[l] = w /\ l \in Priority
  BY <1>3, <1>7 DEF l
<1>13. QED
  BY <1>4, <1>5, <1>6, <1>7, <1>8, <1>9, <1>10, <1>11, <1>12 DEF l, r, n

(* The parent of the task that closes is told, which changes no turns:     *)
(* the task prohibits switching.                                           *)
LEMMA TellingParent ==
  ASSUME IInv, NEW c \in Task, MayClose(c)
  PROVE  LET told == WakeUp(Prohibit(sched), parent[c])
         IN /\ c = Current(sched) /\ c \in Pool /\ creating[c] = NULL /\ c \notin drained
            /\ parent[c] \in Task /\ queue[parent[c]] # "NONE" /\ parent[c] # c
            /\ Good(told) /\ Current(told) = c /\ told.status[c] = "RUN"
            /\ told.ring = sched.ring /\ told.level = sched.level
            /\ told.priority = sched.priority
            /\ told.switch_prohibition_level =
                 [sched.switch_prohibition_level EXCEPT ![c] = 1]
            /\ \A x \in Task : x # parent[c] => told.status[x] = sched.status[x]
            /\ \A x \in Task : Exists(told, x) <=> Exists(sched, x)
            /\ \A x \in Task : Awake(sched, x) => Awake(told, x)
<1> DEFINE q == parent[c]
           a == Prohibit(sched)
           told == WakeUp(a, q)
<1>1. /\ c = Current(sched) /\ c \in Pool /\ creating[c] = NULL /\ c \notin drained
      /\ sched.switch_prohibition_level[c] = 0 /\ parent[c] # NULL
  BY DEF MayClose, InLoop, Works, Runs
<1>2. /\ Good(sched) /\ Exists(sched, c) /\ sched.status[c] = "RUN" /\ Parents
      /\ sched.switch_prohibition_level \in [Task -> Nat] /\ CurrentRuns(sched)
  BY <1>1, RunningTask DEF IInv
<1>3. q \in Task /\ queue[q] # "NONE" /\ q # c
  BY <1>1, <1>2 DEF Parents
<1> HIDE DEF q
<1>4. /\ Good(a) /\ Current(a) = c /\ CurrentRuns(a)
      /\ a.ring = sched.ring /\ a.level = sched.level
      /\ a.priority = sched.priority /\ a.status = sched.status
      /\ a.switch_prohibition_level =
           [sched.switch_prohibition_level EXCEPT ![c] = sched.switch_prohibition_level[c] + 1]
  BY <1>1, <1>2, ProhibitGood
<1> HIDE DEF a
<1>5. a.switch_prohibition_level = [sched.switch_prohibition_level EXCEPT ![c] = 1]
      /\ a.switch_prohibition_level[c] > 0
  BY <1>1, <1>2, <1>4
<1>6. Wakes(a, told, q)
  BY <1>3, <1>4, WakeUpGood
<1> HIDE DEF told
<1>7. /\ Good(told) /\ CurrentRuns(told)
      /\ told.switch_prohibition_level = a.switch_prohibition_level
      /\ Gives(a, told, {c, q})
      /\ told.ring = a.ring /\ told.level = a.level
      /\ \A x \in Task \ {q} : told.status[x] = a.status[x]
  BY <1>4, <1>5, <1>6 DEF Wakes
<1>8. Current(told) = c /\ told.status[c] = "RUN"
  <2>1. Current(told) = c
    BY <1>4, <1>7 DEF Current
  <2>2. QED
    BY <1>7, <2>1 DEF CurrentRuns
<1>9. /\ told.priority = sched.priority
      /\ \A x \in Task : Exists(told, x) <=> Exists(sched, x)
      /\ \A x \in Task : Awake(sched, x) => Awake(told, x)
  BY <1>4, <1>7 DEF Gives, Exists, Awake
<1>10. QED
  BY <1>1, <1>3, <1>4, <1>5, <1>7, <1>8, <1>9 DEF told, a, q

(* What every end of close_task() has in common.                           *)
Closes(c) ==
  /\ Good(sched') /\ CurrentRuns(sched')
  /\ sched'.switch_prohibition_level = [sched.switch_prohibition_level EXCEPT ![c] = 0]
  /\ \A x \in Task : Exists(sched', x) <=> (Exists(sched, x) /\ x # c)
  /\ \A x \in Task : x # c => sched'.priority[x] = sched.priority[x]
  /\ \A x \in Task : creating[x] # NULL =>
       /\ Awake(sched', x) /\ sched.priority[x] <= sched'.level
       /\ sched'.status[creating[x]] = "SLEEP"
  /\ queue' \in [Task -> {"NONE", "EMPTY", "EVENTS"}] /\ queue'[c] = "NONE"
  /\ \A x \in Task : x # c => (queue'[x] = "NONE" <=> queue[x] = "NONE")
  /\ parent' = Bereave(c)
  /\ UNCHANGED <<creating, drained, in_pit>>

LEMMA ClosesKeepsInvariant ==
  ASSUME IInv, NEW c \in Pool, Closes(c), creating[c] = NULL,
         sched.status[c] = "RUN"
  PROVE  IInv'
<1>1. /\ RestTyped /\ Queues /\ Parents /\ Creations /\ Bounded
      /\ sched.switch_prohibition_level \in [Task -> Nat]
      /\ c \in Task /\ c # main_task /\ main_task \in Task /\ MaxProhibition \in Nat
  BY RunningTask, Constants DEF IInv
<1>2. /\ sched'.switch_prohibition_level = [sched.switch_prohibition_level EXCEPT ![c] = 0]
      /\ \A x \in Task : Exists(sched', x) <=> (Exists(sched, x) /\ x # c)
      /\ \A x \in Task : x # c => sched'.priority[x] = sched.priority[x]
      /\ queue' \in [Task -> {"NONE", "EMPTY", "EVENTS"}] /\ queue'[c] = "NONE"
      /\ \A x \in Task : x # c => (queue'[x] = "NONE" <=> queue[x] = "NONE")
      /\ parent' = Bereave(c)
      /\ UNCHANGED <<creating, drained, in_pit>>
  BY DEF Closes
<1>3. Bounded'
  BY <1>1, <1>2 DEF Bounded
<1>4. RestTyped'
  BY <1>1, <1>2 DEF RestTyped, Bereave
<1>5. Queues'
  BY <1>1, <1>2 DEF Queues
<1>6. Parents'
  <2>1. ASSUME NEW t \in Task, parent'[t] # NULL
        PROVE  parent'[t] \in Task /\ queue'[parent'[t]] # "NONE" /\ parent'[t] # t
    <3>1. parent'[t] = parent[t] /\ parent[t] # c
      BY <1>2, <2>1 DEF Bereave
    <3>2. parent[t] \in Task /\ queue[parent[t]] # "NONE" /\ parent[t] # t
      BY <1>1, <2>1, <3>1 DEF Parents
    <3>3. QED
      BY <1>2, <3>1, <3>2
  <2>2. QED
    BY <2>1 DEF Parents
<1>7. ASSUME NEW x \in Task, creating[x] # NULL
      PROVE  /\ Awake(sched', x)
             /\ sched'.priority[x] <= sched'.level
             /\ sched'.priority[creating[x]] < sched'.priority[x]
             /\ sched'.status[creating[x]] = "SLEEP"
             /\ queue'[creating[x]] = "NONE"
  <2>1. /\ Awake(sched', x) /\ sched.priority[x] <= sched'.level
        /\ sched'.status[creating[x]] = "SLEEP"
    BY <1>7 DEF Closes
  <2>2. /\ sched.priority[creating[x]] < sched.priority[x]
        /\ sched.status[creating[x]] = "SLEEP" /\ queue[creating[x]] = "NONE"
        /\ creating[x] \in Task
    BY <1>1, <1>7, Constants DEF Creations, RestTyped
  <2>3. x # c /\ creating[x] # c
    BY <1>7, <2>2
  <2>4. QED
    BY <1>2, <2>1, <2>2, <2>3
<1>8. Creations'
  BY <1>1, <1>2, <1>7 DEF Creations
<1>9. QED
  BY <1>3, <1>4, <1>5, <1>6, <1>8 DEF IInv, Closes

(* One assignment after another, to the same place and to two places.      *)
LEMMA ExceptTwice ==
  ASSUME NEW S, NEW V, NEW f \in [S -> V], NEW a \in S, NEW b \in S, NEW x, NEW y
  PROVE  /\ [[f EXCEPT ![a] = x] EXCEPT ![a] = y] = [f EXCEPT ![a] = y]
         /\ a # b => [[f EXCEPT ![a] = x] EXCEPT ![b] = y] =
                       [[f EXCEPT ![b] = y] EXCEPT ![a] = x]
OBVIOUS

(* close_task(): the processor goes to the best of the others.             *)
LEMMA CloseStep ==
  ASSUME IInv, NEW c \in Task, CloseTask(c)
  PROVE  IInv'
<1> DEFINE l == sched.level
           told == WakeUp(Prohibit(sched), parent[c])
           next == Dispatch(told, IDLE, "FREE")
           w == WithoutCurrent(told.ring[l])
           p == Greatest(ReadyLevels(told, IDLE))
           i == Least(Waiting(told, p))
           t == told.ring[p][i]
           d == sched'
           ring == IF next.level = l THEN Rotate(w, Least(Waiting(told, l)))
                   ELSE WithoutCurrent(next.ring[l])
           u == [ring |-> [told.ring EXCEPT ![l] = w], level |-> l,
                 priority |-> [told.priority EXCEPT ![c] = IDLE],
                 status |-> [told.status EXCEPT ![c] = "FREE"],
                 switch_prohibition_level |-> [told.switch_prohibition_level EXCEPT ![c] = 0],
                 pending |-> told.pending \ {c},
                 elapsed_time |-> [told.elapsed_time EXCEPT ![c] = 0],
                 fresh |-> told.fresh]
<1>1. /\ MayClose(c) /\ ReadyLevels(told, IDLE) # {}
      /\ d = Forget([next EXCEPT !.ring = [next.ring EXCEPT ![l] = ring]], c)
      /\ queue' = [queue EXCEPT ![parent[c]] = "EVENTS", ![c] = "NONE"]
      /\ parent' = Bereave(c)
      /\ UNCHANGED <<creating, drained, in_pit>>
  BY DEF CloseTask
<1>2. /\ c = Current(sched) /\ c \in Pool /\ creating[c] = NULL
      /\ parent[c] \in Task /\ queue[parent[c]] # "NONE" /\ parent[c] # c
      /\ Good(told) /\ Current(told) = c /\ told.status[c] = "RUN"
      /\ told.ring = sched.ring /\ told.level = sched.level
      /\ told.priority = sched.priority
      /\ told.switch_prohibition_level = [sched.switch_prohibition_level EXCEPT ![c] = 1]
      /\ \A x \in Task : x # parent[c] => told.status[x] = sched.status[x]
      /\ \A x \in Task : Exists(told, x) <=> Exists(sched, x)
      /\ \A x \in Task : Awake(sched, x) => Awake(told, x)
  BY <1>1, TellingParent
<1>3. /\ Typed(told) /\ told.ring[told.level] # << >> /\ Linked(told)
      /\ OnlyCurrentRuns(told)
      /\ IDLE \in Priority /\ "FREE" \in Status /\ told.level = l
      /\ sched.switch_prohibition_level \in [Task -> Nat]
  BY <1>2, RunningTask, Constants DEF Good, Status
<1> HIDE DEF told, next, w, p, i, d, l, u, ring
<1>4. /\ p \in Priority
      /\ \A x \in Priority : IDLE <= x /\ Waiting(told, x) # {} => x <= p
      /\ i \in 1 .. Len(told.ring[p]) /\ told.status[t] = "WAIT"
      /\ Typed(next)
      /\ next.ring = [told.ring EXCEPT ![p] = Rotate(told.ring[p], i)]
      /\ next.level = p
      /\ next.priority = told.priority
      /\ next.status = [told.status EXCEPT ![c] = "FREE", ![t] = "RUN"]
      /\ next.switch_prohibition_level = told.switch_prohibition_level
      /\ next.pending = told.pending
      /\ next.elapsed_time = told.elapsed_time
  <2>1. /\ p \in Priority
        /\ \A x \in Priority : IDLE <= x /\ Waiting(told, x) # {} => x <= p
        /\ i \in 1 .. Len(told.ring[p]) /\ told.status[told.ring[p][i]] = "WAIT"
        /\ Typed(next)
        /\ next.ring = [told.ring EXCEPT ![p] = Rotate(told.ring[p], i)]
        /\ next.level = p
        /\ next.priority = told.priority
        /\ next.status = [told.status EXCEPT ![Current(told)] = "FREE",
                                             ![told.ring[p][i]] = "RUN"]
        /\ next.switch_prohibition_level = told.switch_prohibition_level
        /\ next.pending = told.pending
        /\ next.elapsed_time = told.elapsed_time
    <3>1. /\ Typed(told) /\ told.ring[told.level] # << >> /\ IDLE \in Priority
          /\ "FREE" \in Status /\ ReadyLevels(told, IDLE) # {}
      BY <1>1, <1>3
    <3>2. Switched(told, next, IDLE, "FREE", p, i)
      BY ONLY <3>1, DispatchFields DEF next, p, i
    <3>3. QED
      BY ONLY <3>2 DEF Switched
  <2>2. QED
    BY <1>2, <2>1
<1>5. /\ told.ring \in [Priority -> Seq(Task)] /\ l \in Priority
      /\ told.priority \in [Task -> Priority] /\ told.status \in [Task -> Status]
      /\ told.switch_prohibition_level \in [Task -> Nat] /\ told.pending \subseteq Task
      /\ told.elapsed_time \in [Task -> 0 .. ElapsedModulus - 1]
  BY ONLY <1>3 DEF Typed
<1>6. t \in Task /\ t # c
  <2>1. told.ring[p] \in Seq(Task) /\ i \in 1 .. Len(told.ring[p])
    BY <1>4, <1>5
  <2>2. t \in Task
    BY <2>1
  <2>3. told.status[t] = "WAIT" /\ told.status[c] = "RUN"
    BY <1>2, <1>4
  <2> HIDE DEF t
  <2>4. t # c
    BY ONLY <2>3
  <2>5. QED
    BY <2>2, <2>4
<1> HIDE DEF t
<1>7. Unlinked(told, u, c, "FREE")
  <2>1. /\ u.ring = [told.ring EXCEPT ![l] = w] /\ u.level = l
        /\ u.priority = [told.priority EXCEPT ![c] = IDLE]
        /\ u.status = [told.status EXCEPT ![c] = "FREE"]
        /\ u.switch_prohibition_level = [told.switch_prohibition_level EXCEPT ![c] = 0]
        /\ u.pending = told.pending \ {c}
        /\ u.elapsed_time = [told.elapsed_time EXCEPT ![c] = 0]
    BY DEF u
  <2>2. u = [ring |-> u.ring, level |-> u.level, priority |-> u.priority,
             status |-> u.status, switch_prohibition_level |-> u.switch_prohibition_level,
             pending |-> u.pending, elapsed_time |-> u.elapsed_time, fresh |-> told.fresh]
    BY DEF u
  <2>3. QED
    BY <1>2, <1>3, <2>1, <2>2 DEF Unlinked, w
<1>8. /\ u.ring = [told.ring EXCEPT ![l] = w] /\ u.level = l
      /\ u.priority = [told.priority EXCEPT ![c] = IDLE]
      /\ u.status = [told.status EXCEPT ![c] = "FREE"]
      /\ u.switch_prohibition_level = [told.switch_prohibition_level EXCEPT ![c] = 0]
      /\ u.pending = told.pending \ {c}
      /\ u.elapsed_time = [told.elapsed_time EXCEPT ![c] = 0]
  BY DEF u
<1>9. /\ Typed(u) /\ Linked(u) /\ Permanent(u) /\ Owed(u)
      /\ \A x \in Task : u.status[x] # "RUN"
      /\ \A x \in Task : x # c => u.status[x] = told.status[x]
                                  /\ u.priority[x] = told.priority[x]
      /\ \A x \in Task : Exists(u, x) <=> (Exists(told, x) /\ x # c)
      /\ Len(told.ring[l]) \in Nat \ {0}
      /\ w \in Seq(Task) /\ Len(w) = Len(told.ring[l]) - 1
      /\ \A k \in 1 .. Len(w) : w[k] = told.ring[l][k]
  BY <1>2, <1>3, <1>5, <1>7, <1>8, UnlinkedGood
<1>10. i \in 1 .. Len(u.ring[p]) /\ u.ring[p][i] = t
  <2>1. CASE p = l
    <3>1. u.ring[p] = w
      BY <1>5, <1>8, <2>1
    <3>2. told.ring[l][Len(told.ring[l])] = c
      BY <1>2, <1>3 DEF Current
    <3>3. i # Len(told.ring[l])
      BY <1>6, <2>1, <3>2 DEF t
    <3>4. i \in 1 .. Len(w)
      BY <1>4, <1>9, <2>1, <3>3
    <3>5. QED
      BY <1>9, <2>1, <3>1, <3>4 DEF t
  <2>2. CASE p # l
    <3>1. u.ring[p] = told.ring[p]
      BY <1>4, <1>5, <1>8, <2>2
    <3>2. QED
      BY <1>4, <3>1 DEF t
  <2>3. QED
    BY <2>1, <2>2
<1>11. [next.ring EXCEPT ![l] = ring] = [u.ring EXCEPT ![p] = Rotate(u.ring[p], i)]
  <2>1. CASE p = l
    <3>1. ring = Rotate(w, i) /\ u.ring[p] = w
      BY <1>4, <1>5, <1>8, <2>1 DEF ring, i
    <3>2. QED
      <4>1. /\ next.ring = [told.ring EXCEPT ![l] = Rotate(told.ring[l], i)]
            /\ u.ring = [told.ring EXCEPT ![l] = w]
        BY <1>4, <1>8, <2>1
      <4>2. [next.ring EXCEPT ![l] = ring] = [told.ring EXCEPT ![l] = ring]
        BY <1>5, <4>1, ExceptTwice
      <4>3. [u.ring EXCEPT ![l] = ring] = [told.ring EXCEPT ![l] = ring]
        BY <1>5, <4>1, ExceptTwice
      <4>4. QED
        BY <2>1, <3>1, <4>2, <4>3
  <2>2. CASE p # l
    <3>1. next.ring[l] = told.ring[l] /\ u.ring[p] = told.ring[p]
      BY <1>4, <1>5, <1>8, <2>2
    <3>2. ring = w
      BY <1>4, <2>2, <3>1 DEF ring, w
    <3>3. QED
      <4>1. /\ next.ring = [told.ring EXCEPT ![p] = Rotate(told.ring[p], i)]
            /\ u.ring = [told.ring EXCEPT ![l] = w]
            /\ p \in Priority /\ l \in Priority
        BY <1>4, <1>5, <1>8
      <4>2. [next.ring EXCEPT ![l] = w] = [u.ring EXCEPT ![p] = Rotate(told.ring[p], i)]
        <5>1. [[told.ring EXCEPT ![p] = Rotate(told.ring[p], i)] EXCEPT ![l] = w] =
                [[told.ring EXCEPT ![l] = w] EXCEPT ![p] = Rotate(told.ring[p], i)]
          <6>1. told.ring \in [Priority -> Seq(Task)] /\ p \in Priority /\ l \in Priority
            BY <1>5, <4>1
          <6>2. QED
            BY <2>2, <6>1, ExceptTwice
        <5>2. QED
          BY <4>1, <5>1, Zenon
      <4>3. QED
        BY <3>1, <3>2, <4>2
  <2>3. QED
    BY <2>1, <2>2
<1>12. /\ d.ring = [u.ring EXCEPT ![p] = Rotate(u.ring[p], i)]
       /\ d.level = p /\ d.priority = u.priority
       /\ d.status = [u.status EXCEPT ![u.ring[p][i]] = "RUN"]
       /\ d.switch_prohibition_level = u.switch_prohibition_level
       /\ d.pending = u.pending
       /\ Typed(d)
  <2> DEFINE R == [u.ring EXCEPT ![p] = Rotate(u.ring[p], i)]
  <2>1. d = [next EXCEPT !.ring = R,
                         !.switch_prohibition_level =
                            [next.switch_prohibition_level EXCEPT ![c] = 0],
                         !.pending = next.pending \ {c},
                         !.elapsed_time = [next.elapsed_time EXCEPT ![c] = 0],
                         !.priority = [next.priority EXCEPT ![c] = IDLE]]
    BY <1>1, <1>4, <1>11 DEF Forget, Typed
  <2>2. R \in [Priority -> Seq(Task)]
    <3>1. u.ring \in [Priority -> Seq(Task)] /\ u.ring[p] \in Seq(Task)
      BY <1>4, <1>9 DEF Typed
    <3>2. Rotate(u.ring[p], i) \in Seq(Task)
      BY <1>10, <3>1, RotateTurns
    <3>3. QED
      BY <3>1, <3>2
  <2> HIDE DEF R
  <2>3. /\ d.ring = R /\ d.level = p /\ d.status = next.status
        /\ d.switch_prohibition_level = [next.switch_prohibition_level EXCEPT ![c] = 0]
        /\ d.pending = next.pending \ {c}
        /\ d.elapsed_time = [next.elapsed_time EXCEPT ![c] = 0]
        /\ d.priority = [next.priority EXCEPT ![c] = IDLE]
        /\ d.fresh = next.fresh
    BY <1>4, <2>1 DEF Typed
  <2>4. /\ d.priority = u.priority /\ d.pending = u.pending
        /\ d.elapsed_time = u.elapsed_time
        /\ d.switch_prohibition_level = u.switch_prohibition_level
    BY <1>4, <1>8, <2>3
  <2>5. d.status = [u.status EXCEPT ![u.ring[p][i]] = "RUN"]
    BY <1>4, <1>8, <1>10, <2>3
  <2>6. Typed(d)
    <3>1. /\ u.priority \in [Task -> Priority] /\ u.pending \in SUBSET Task
          /\ u.elapsed_time \in [Task -> 0 .. ElapsedModulus - 1]
          /\ u.switch_prohibition_level \in [Task -> Nat]
      BY <1>9 DEF Typed
    <3>2. /\ [next.priority EXCEPT ![c] = IDLE] \in [Task -> Priority]
          /\ next.pending \ {c} \in SUBSET Task
          /\ [next.elapsed_time EXCEPT ![c] = 0] \in [Task -> 0 .. ElapsedModulus - 1]
          /\ [next.switch_prohibition_level EXCEPT ![c] = 0] \in [Task -> Nat]
      <4>1. /\ [next.priority EXCEPT ![c] = IDLE] = u.priority
            /\ next.pending \ {c} = u.pending
            /\ [next.elapsed_time EXCEPT ![c] = 0] = u.elapsed_time
            /\ [next.switch_prohibition_level EXCEPT ![c] = 0] = u.switch_prohibition_level
        BY <2>3, <2>4, Zenon
      <4>2. QED
        BY <3>1, <4>1, Zenon
    <3>3. QED
      BY <1>4, <2>1, <2>2, <3>2 DEF Typed
  <2>7. QED
    BY <2>3, <2>4, <2>5, <2>6 DEF R
<1>13. u.status[t] = "WAIT" /\ Good(d) /\ CurrentRuns(d)
  <2>1. u.status[t] = "WAIT"
    BY <1>4, <1>6, <1>9
  <2>2. HandsOver(u, d, p, i)
    BY <1>4, <1>9, <1>10, <1>12, <2>1 DEF HandsOver
  <2>3. QED
    BY <2>1, <2>2, HandOver
<1>14. /\ \A x \in Task : x # c /\ x # t => d.status[x] = told.status[x]
       /\ d.status[t] = "RUN" /\ d.status[c] = "FREE"
       /\ \A x \in Task : Exists(d, x) <=> (Exists(sched, x) /\ x # c)
  <2>1. \A x \in Task : d.status[x] = IF x = t THEN "RUN" ELSE
                                       IF x = c THEN "FREE" ELSE told.status[x]
    BY <1>5, <1>6, <1>8, <1>10, <1>12
  <2>2. Exists(sched, t)
    BY <1>2, <1>4, <1>6 DEF Exists
  <2>3. \A x \in Task : Exists(d, x) <=> (Exists(told, x) /\ x # c)
    BY <1>4, <1>6, <2>1 DEF Exists
  <2>4. QED
    BY <1>2, <1>6, <2>1, <2>3
<1>15. ASSUME NEW x \in Task, creating[x] # NULL
       PROVE  /\ Awake(d, x) /\ sched.priority[x] <= d.level
              /\ d.status[creating[x]] = "SLEEP"
  <2>1. /\ Awake(sched, x) /\ sched.status[creating[x]] = "SLEEP"
        /\ queue[creating[x]] = "NONE" /\ creating[x] \in Task /\ x # c
    BY <1>2, <1>15, RunningTask, Constants DEF Creations, RestTyped
  <2>2. told.status[x] = "WAIT"
    BY <1>2, <1>3, <2>1 DEF Awake, OnlyCurrentRuns
  <2>3. Awake(d, x)
    BY <1>14, <2>1, <2>2 DEF Awake
  <2>4. sched.priority[x] <= p
    <3>1. Exists(told, x)
      BY <2>2 DEF Exists
    <3>2. PICK k \in 1 .. Len(told.ring[told.priority[x]]) :
            told.ring[told.priority[x]][k] = x
      BY <1>3, <3>1 DEF Linked
    <3>3. told.priority[x] \in Priority /\ told.ring[told.priority[x]] \in Seq(Task)
      BY <1>5
    <3>4. Waiting(told, told.priority[x]) # {}
      BY <2>2, <3>2, <3>3 DEF Waiting
    <3>5. IDLE <= told.priority[x]
      BY <3>3, Constants
    <3>6. QED
      BY <1>2, <1>4, <3>3, <3>4, <3>5
  <2>5. creating[x] # parent[c] /\ creating[x] # c /\ creating[x] # t
    <3>1. creating[x] # parent[c]
      BY <1>2, <2>1
    <3>2. told.status[creating[x]] = "SLEEP"
      BY <1>2, <2>1, <3>1
    <3>3. QED
      BY <1>2, <1>4, <3>1, <3>2
  <2>6. QED
    BY <1>2, <1>12, <1>14, <2>1, <2>3, <2>4, <2>5
<1>16. Closes(c)
  <2>1. d.switch_prohibition_level = [sched.switch_prohibition_level EXCEPT ![c] = 0]
    BY <1>2, <1>3, <1>8, <1>12
  <2>2. \A x \in Task : x # c => d.priority[x] = sched.priority[x]
    BY <1>2, <1>9, <1>12
  <2>3. /\ queue' \in [Task -> {"NONE", "EMPTY", "EVENTS"}] /\ queue'[c] = "NONE"
        /\ \A x \in Task : x # c => (queue'[x] = "NONE" <=> queue[x] = "NONE")
    BY <1>1, <1>2, RunningTask DEF RestTyped
  <2>4. QED
    BY <1>1, <1>13, <1>14, <1>15, <2>1, <2>2, <2>3 DEF Closes, d
<1>17. QED
  <2>1. sched.status[c] = "RUN"
    BY <1>2, RunningTask
  <2>2. QED
    BY <1>2, <1>16, <2>1, ClosesKeepsInvariant

(* close_task() cut short: the main task runs, and c is neither linked nor *)
(* free.                                                                   *)
LEMMA CloseInterruptedStep ==
  ASSUME IInv, NEW c \in Task, CloseTaskInterrupted(c)
  PROVE  IInv'
<1> DEFINE l == sched.level
           told == WakeUp(Prohibit(sched), parent[c])
           w == WithoutCurrent(told.ring[l])
           u == Forget([told EXCEPT !.ring[l] = w, !.status[c] = "LOST"], c)
           woken == WakeUp(u, main_task)
           d == sched'
<1>1. /\ MayClose(c) /\ w # << >>
      /\ d = IF woken.level = l THEN SwitchTask(woken) ELSE woken
      /\ d.status[main_task] = "RUN"
      /\ queue' = [queue EXCEPT ![parent[c]] = "EVENTS", ![main_task] = "EVENTS",
                                ![c] = "NONE"]
      /\ parent' = Bereave(c)
      /\ UNCHANGED <<creating, drained, in_pit>>
  BY DEF CloseTaskInterrupted
<1>2. /\ c = Current(sched) /\ c \in Pool /\ creating[c] = NULL
      /\ parent[c] \in Task /\ queue[parent[c]] # "NONE" /\ parent[c] # c
      /\ Good(told) /\ Current(told) = c /\ told.status[c] = "RUN"
      /\ told.ring = sched.ring /\ told.level = sched.level
      /\ told.priority = sched.priority
      /\ told.switch_prohibition_level = [sched.switch_prohibition_level EXCEPT ![c] = 1]
      /\ \A x \in Task : x # parent[c] => told.status[x] = sched.status[x]
      /\ \A x \in Task : Exists(told, x) <=> Exists(sched, x)
      /\ \A x \in Task : Awake(sched, x) => Awake(told, x)
  BY <1>1, TellingParent
<1>3. /\ Typed(told) /\ told.level = l /\ l \in Priority
      /\ sched.switch_prohibition_level \in [Task -> Nat]
      /\ RestTyped /\ Queues /\ Creations /\ sched.status[c] = "RUN"
      /\ main_task \in Task /\ main_task # c
  BY <1>2, RunningTask, Constants DEF Good
<1> HIDE DEF told, w, d, l
<1>4. Unlinked(told, u, c, "LOST")
  <2>1. /\ u.ring = [told.ring EXCEPT ![l] = w] /\ u.level = told.level
        /\ u.priority = [told.priority EXCEPT ![c] = IDLE]
        /\ u.status = [told.status EXCEPT ![c] = "LOST"]
        /\ u.switch_prohibition_level = [told.switch_prohibition_level EXCEPT ![c] = 0]
        /\ u.pending = told.pending \ {c}
        /\ u.elapsed_time = [told.elapsed_time EXCEPT ![c] = 0]
        /\ u.fresh = told.fresh
    BY <1>3 DEF Forget, Typed
  <2>2. u = [ring |-> u.ring, level |-> u.level, priority |-> u.priority,
             status |-> u.status, switch_prohibition_level |-> u.switch_prohibition_level,
             pending |-> u.pending, elapsed_time |-> u.elapsed_time, fresh |-> told.fresh]
    <3>1. u \in [ring : {u.ring}, level : {u.level}, priority : {u.priority},
                 status : {u.status}, switch_prohibition_level : {u.switch_prohibition_level},
                 pending : {u.pending}, elapsed_time : {u.elapsed_time}, fresh : {u.fresh}]
      BY <1>3 DEF Forget, Typed
    <3> HIDE DEF u
    <3>2. QED
      BY <2>1, <3>1
  <2> HIDE DEF u
  <2>3. QED
    BY <1>2, <1>3, <2>1, <2>2 DEF Unlinked, w
<1> HIDE DEF u
<1>5. /\ u.ring = [told.ring EXCEPT ![l] = w] /\ u.level = l
      /\ u.status = [told.status EXCEPT ![c] = "LOST"]
      /\ u.switch_prohibition_level = [told.switch_prohibition_level EXCEPT ![c] = 0]
  BY <1>3, <1>4 DEF Unlinked, w
<1>6. /\ Typed(u) /\ Linked(u) /\ Permanent(u) /\ Owed(u)
      /\ \A x \in Task : u.status[x] # "RUN"
      /\ \A x \in Task : x # c => u.status[x] = told.status[x]
                                  /\ u.priority[x] = told.priority[x]
      /\ \A x \in Task : Exists(u, x) <=> (Exists(told, x) /\ x # c)
  BY <1>2, <1>4, UnlinkedGood
<1>7. u.ring[u.level] = w
  <2>1. told.ring \in [Priority -> Seq(Task)]
    BY <1>3 DEF Typed
  <2>2. QED
    BY <1>3, <1>5, <2>1
<1>8. Good(u)
  BY <1>1, <1>6, <1>7 DEF Good, OnlyCurrentRuns
<1>9. /\ Good(woken) /\ Gives(u, woken, {Current(u), main_task})
      /\ woken.switch_prohibition_level = u.switch_prohibition_level
  BY <1>3, <1>8, WakeUpGood DEF Wakes
<1> HIDE DEF woken
<1>10. /\ Good(d) /\ Gives(woken, d, {Current(woken)})
       /\ d.switch_prohibition_level = u.switch_prohibition_level
  <2>1. CASE d = SwitchTask(woken)
    BY <1>9, <2>1, SwitchTaskGood
  <2>2. CASE d = woken
    <3>1. Gives(woken, woken, {Current(woken)})
      BY <1>9, GivesNothing DEF Good
    <3>2. QED
      BY <1>9, <2>2, <3>1
  <2>3. QED
    BY <1>1, <2>1, <2>2
<1>11. /\ d.priority = u.priority /\ u.level <= woken.level /\ woken.level <= d.level
       /\ woken.priority = u.priority
       /\ \A x \in Task : Exists(d, x) <=> (Exists(sched, x) /\ x # c)
       /\ \A x \in Task : Awake(u, x) => Awake(d, x)
       /\ \A x \in Task \ {Current(u), main_task, Current(woken)} :
            ~Awake(u, x) => d.status[x] = u.status[x]
  <2>1. /\ d.priority = u.priority /\ u.level <= woken.level /\ woken.level <= d.level
        /\ woken.priority = u.priority
        /\ \A x \in Task : Awake(u, x) => Awake(d, x)
    BY <1>9, <1>10 DEF Gives
  <2>2. \A x \in Task : Exists(d, x) <=> (Exists(sched, x) /\ x # c)
    BY <1>2, <1>6, <1>9, <1>10 DEF Gives
  <2>3. ASSUME NEW x \in Task \ {Current(u), main_task, Current(woken)}, ~Awake(u, x)
        PROVE  d.status[x] = u.status[x]
    <3>1. woken.status[x] = u.status[x]
      BY <1>9, <2>3 DEF Gives
    <3>2. ~Awake(woken, x)
      BY <2>3, <3>1 DEF Awake
    <3>3. QED
      BY <1>10, <2>3, <3>1, <3>2 DEF Gives
  <2>4. QED
    BY <2>1, <2>2, <2>3
<1>12. /\ Current(u) \in Task /\ u.priority[Current(u)] = u.level
       /\ Current(woken) \in Task /\ woken.priority[Current(woken)] = woken.level
       /\ u.level \in Int /\ woken.level \in Int /\ d.level \in Int
       /\ \A x \in Task : u.priority[x] \in Int
  <2>1. ASSUME NEW s, Good(s)
        PROVE  /\ Current(s) \in Task /\ s.priority[Current(s)] = s.level
               /\ s.level \in Int /\ \A x \in Task : s.priority[x] \in Int
    <3>1. Typed(s) /\ s.ring[s.level] # << >> /\ Linked(s)
      BY <2>1 DEF Good
    <3>2. Current(s) \in Task /\ s.priority[Current(s)] = s.level
      BY <3>1, CurrentExists
    <3>3. s.level \in Int /\ \A x \in Task : s.priority[x] \in Int
      BY <3>1, LevelsAreIntegers
    <3>4. QED
      BY <3>2, <3>3
  <2>2. QED
    BY <1>8, <1>9, <1>10, <2>1
<1>13. ASSUME NEW x \in Task, creating[x] # NULL
       PROVE  /\ Awake(d, x) /\ sched.priority[x] <= d.level
              /\ d.status[creating[x]] = "SLEEP"
  <2> DEFINE t == creating[x]
  <2>1. /\ Awake(sched, x) /\ sched.priority[x] <= l /\ sched.priority[t] < sched.priority[x]
        /\ sched.status[t] = "SLEEP" /\ queue[t] = "NONE" /\ t \in Pool /\ t \in Task
        /\ t # c /\ x # c /\ t # main_task /\ t # parent[c]
    BY <1>2, <1>3, <1>13, Constants DEF Creations, RestTyped, l
  <2> HIDE DEF t
  <2>2. /\ u.priority[t] = sched.priority[t] /\ u.priority[x] = sched.priority[x]
        /\ u.status[t] = "SLEEP" /\ Awake(u, x)
    BY <1>2, <1>6, <2>1 DEF Awake
  <2>3. u.priority[t] < l
    BY <1>5, <1>12, <2>1, <2>2
  <2>4. t # Current(u) /\ t # Current(woken)
    BY <1>5, <1>11, <1>12, <2>1, <2>3
  <2>5. d.status[t] = "SLEEP" /\ Awake(d, x)
    BY <1>11, <2>1, <2>2, <2>4 DEF Awake
  <2>6. sched.priority[x] <= d.level
    BY <1>5, <1>11, <1>12, <2>1, <2>2
  <2>7. QED
    BY <2>5, <2>6 DEF t
<1>14. CurrentRuns(d)
  BY <1>1, <1>3, <1>10 DEF Good, OnlyCurrentRuns, CurrentRuns
<1>15. Closes(c)
  <2>1. d.switch_prohibition_level = [sched.switch_prohibition_level EXCEPT ![c] = 0]
    BY <1>2, <1>3, <1>5, <1>10
  <2>2. \A x \in Task : x # c => d.priority[x] = sched.priority[x]
    BY <1>2, <1>6, <1>11
  <2>3. /\ queue' \in [Task -> {"NONE", "EMPTY", "EVENTS"}] /\ queue'[c] = "NONE"
        /\ \A x \in Task : x # c => (queue'[x] = "NONE" <=> queue[x] = "NONE")
    BY <1>1, <1>2, <1>3 DEF RestTyped, Queues
  <2>4. QED
    BY <1>1, <1>10, <1>11, <1>13, <1>14, <2>1, <2>2, <2>3 DEF Closes, d
<1>16. QED
  BY <1>2, <1>3, <1>15, ClosesKeepsInvariant
-----------------------------------------------------------------------------
(* Every step keeps the invariant.                                         *)
LEMMA NextInvariant == IInv /\ [Next]_vars => IInv'
<1> SUFFICES ASSUME IInv, [Next]_vars  PROVE IInv'
  OBVIOUS
<1>1. CASE UNCHANGED vars
  BY <1>1 DEF vars, IInv, Bounded, RestTyped, Queues, Parents, Creations
<1>2. ASSUME NEW c \in Task, ProhibitSwitchTask(c)  PROVE IInv'
  BY <1>2, ProhibitStep
<1>3. ASSUME NEW c \in Task, AllowSwitchTask(c)  PROVE IInv'
  BY <1>3, AllowStep
<1>4. ASSUME NEW c \in Task,
             CreateEventQueue(c) \/ Dequeue(c) \/ DequeueNothing(c) \/ HaltInSystemCall(c)
      PROVE  IInv'
  BY <1>4, QueueStep
<1>5. ASSUME NEW c \in Task, SleepTask(c)  PROVE IInv'
  BY <1>5, SleepStep
<1>6. ASSUME NEW c \in Task, StartTask(c)  PROVE IInv'
  BY <1>6, StartStep
<1>7. ASSUME NEW c \in Task, CloseTask(c)  PROVE IInv'
  BY <1>7, CloseStep
<1>8. ASSUME NEW c \in Task, CloseTaskInterrupted(c)  PROVE IInv'
  BY <1>8, CloseInterruptedStep
<1>9. ASSUME NEW c \in Task, NEW t \in Task, Send(c, t)  PROVE IInv'
  BY <1>9, SendStep
<1>10. ASSUME NEW c \in Task, NEW t \in Pool, NEW p \in TaskPriorities,
              NEW owner \in {c, main_task}, CreateTask(c, t, p, owner)
       PROVE  IInv'
  BY <1>10, CreateStep
<1>11. CASE DeviceInterrupt
  BY <1>11, DeviceInterruptStep
<1>12. CASE PitInterrupt
  BY <1>12, PitInterruptStep
<1>13. CASE PitSwitch
  BY <1>13, PitSwitchStep
<1>14. QED
  BY <1>1, <1>2, <1>3, <1>4, <1>5, <1>6, <1>7, <1>8, <1>9, <1>10, <1>11, <1>12, <1>13
     DEF Next

(* The rings, the states of the tasks and the bookkeeping of their queues, *)
(* parents and creators stay consistent, whatever the interleaving of      *)
(* tasks and interrupts.                                                   *)
THEOREM SchedulerInvariant == Spec => []IInv
<1>1. Init => IInv
  BY InitInvariant
<1>2. IInv /\ [Next]_vars => IInv'
  BY NextInvariant
<1>3. QED
  BY <1>1, <1>2, PTL DEF Spec

(* Every variable keeps its type; no count of prohibitions exceeds its     *)
(* bound, or falls below 0.                                                *)
THEOREM TypesStay == Spec => []TypeOK
<1>1. IInv => TypeOK
  <2> SUFFICES ASSUME IInv  PROVE TypeOK
    OBVIOUS
  <2>1. Typed(sched) /\ sched.ring[sched.level] # << >> /\ Bounded /\ RestTyped
    BY DEF IInv, Good
  <2>2. sched.switch_prohibition_level \in [Task -> 0 .. MaxProhibition]
    <3>1. sched.switch_prohibition_level \in [Task -> Nat]
      BY <2>1 DEF Typed
    <3>2. \A t \in Task : sched.switch_prohibition_level[t] \in 0 .. MaxProhibition
      BY <2>1, <3>1, Constants DEF Bounded
    <3>3. QED
      BY <3>1, <3>2
  <2>3. sched \in [ring : [Priority -> Seq(Task)], level : Priority,
                   priority : [Task -> Priority], status : [Task -> Status],
                   switch_prohibition_level : [Task -> 0 .. MaxProhibition],
                   pending : SUBSET Task,
                   elapsed_time : [Task -> 0 .. ElapsedModulus - 1],
                   fresh : SUBSET Task]
    BY <2>1, <2>2 DEF Typed
  <2>4. QED
    BY <2>1, <2>3 DEF TypeOK, RestTyped
<1>2. QED
  BY <1>1, SchedulerInvariant, PTL

(* Exactly one task runs, the current task of the current level, through   *)
(* every switch, sleep, wake-up, creation and end of a task.               *)
THEOREM OneTaskRuns == Spec => []OneRunning
<1>1. IInv => OneRunning
  BY RunningTask DEF IInv, Good, OnlyCurrentRuns, CurrentRuns, OneRunning
<1>2. QED
  BY <1>1, SchedulerInvariant, PTL

(* Each task that exists has exactly one place in the rings, in the level  *)
(* of its priority, and a task that does not exist has none.               *)
THEOREM EachTaskLinkedOnce == Spec => []LinkedOnce
<1>1. ASSUME IInv, NEW t \in Task
      PROVE  IF sched.status[t] \in {"FREE", "LOST"} THEN Places(t) = {}
             ELSE \E i \in DOMAIN sched.ring[sched.priority[t]] :
                    Places(t) = {<<sched.priority[t], i>>}
  <2>1. /\ Linked(sched) /\ sched.ring \in [Priority -> Seq(Task)]
        /\ sched.priority[t] \in Priority
    BY <1>1 DEF IInv, Good, Typed
  <2>2. \A p \in Priority : DOMAIN sched.ring[p] = 1 .. Len(sched.ring[p])
    BY <2>1
  <2>3. ASSUME NEW x \in Places(t)
        PROVE  \E p \in Priority : \E i \in 1 .. Len(sched.ring[p]) :
                 /\ x = <<p, i>> /\ sched.ring[p][i] = t /\ Exists(sched, t)
                 /\ p = sched.priority[t]
    <3>1. PICK p \in Priority : x \in {p} \X DOMAIN sched.ring[p]
                                /\ sched.ring[x[1]][x[2]] = t
      BY DEF Places
    <3>2. PICK i \in 1 .. Len(sched.ring[p]) : x = <<p, i>>
      BY <2>2, <3>1
    <3>3. sched.ring[p][i] = t
      BY <3>1, <3>2
    <3>4. QED
      BY <2>1, <3>2, <3>3 DEF Linked
  <2>4. CASE sched.status[t] \in {"FREE", "LOST"}
    <3>1. ~Exists(sched, t)
      BY <2>4 DEF Exists
    <3>2. Places(t) = {}
      BY <2>3, <3>1
    <3>3. QED
      BY <2>4, <3>2
  <2>5. CASE ~(sched.status[t] \in {"FREE", "LOST"})
    <3> DEFINE q == sched.priority[t]
    <3>1. PICK i \in 1 .. Len(sched.ring[q]) : sched.ring[q][i] = t
      BY <2>1, <2>5 DEF Linked, Exists
    <3>2. <<q, i>> \in Places(t)
      <4>1. <<q, i>> \in {q} \X DOMAIN sched.ring[q]
        BY <2>1, <2>2, <3>1
      <4>2. QED
        BY <2>1, <3>1, <4>1 DEF Places
    <3>3. \A x \in Places(t) : x = <<q, i>>
      BY <2>1, <2>3, <3>1 DEF Linked
    <3>4. Places(t) = {<<q, i>>} /\ i \in DOMAIN sched.ring[q]
      BY <2>1, <2>2, <3>1, <3>2, <3>3
    <3>5. QED
      BY <2>5, <3>4
  <2>6. QED
    BY <2>4, <2>5
<1>2. IInv => LinkedOnce
  BY <1>1 DEF LinkedOnce
<1>3. QED
  BY <1>2, SchedulerInvariant, PTL

(* sleep_task() and close_task() find a task to run: the idle task is      *)
(* ready whenever it does not run.                                         *)
THEOREM NextTaskIsFound == Spec => []SomeoneElseIsReady
<1>1. IInv => SomeoneElseIsReady
  <2> SUFFICES ASSUME IInv, Current(sched) # idle_task
               PROVE  ReadyLevels(sched, IDLE) # {}
    BY DEF SomeoneElseIsReady
  <2>1. /\ Linked(sched) /\ Permanent(sched) /\ OnlyCurrentRuns(sched)
        /\ sched.ring[IDLE] \in Seq(Task) /\ idle_task \in Task /\ IDLE \in Priority
    BY Constants DEF IInv, Good, Typed
  <2>2. sched.status[idle_task] = "WAIT" /\ sched.priority[idle_task] = IDLE
    BY <2>1 DEF Permanent, OnlyCurrentRuns
  <2>3. PICK i \in 1 .. Len(sched.ring[IDLE]) : sched.ring[IDLE][i] = idle_task
    BY <2>1, <2>2 DEF Linked, Exists
  <2>4. i \in Waiting(sched, IDLE) /\ IDLE <= IDLE
    BY <2>1, <2>2, <2>3, Constants DEF Waiting
  <2>5. QED
    BY <2>1, <2>4 DEF ReadyLevels
<1>2. QED
  BY <1>1, SchedulerInvariant, PTL

(* A switch is pending only for a task that prohibits switching.           *)
THEOREM PendingIsOwed == Spec => []PendingWhileProhibited
<1>1. IInv => PendingWhileProhibited
  BY DEF IInv, Good, Owed, PendingWhileProhibited
<1>2. QED
  BY <1>1, SchedulerInvariant, PTL

-----------------------------------------------------------------------------
(***************************************************************************)
(* What the scheduler promises the running task and the tasks that wait or *)
(* sleep: nobody takes the processor from a task that prohibits switching, *)
(* a ready task waits for one of lower priority only while the latter owes *)
(* it a switch, the tasks of a level take turns, and an event wakes the    *)
(* task it is for.                                                         *)
(***************************************************************************)

NoneAbove(s) == \A t \in Task : s.status[t] = "WAIT" => s.priority[t] <= s.level

Owes(s) == \/ Current(s) \in s.pending
           \/ s.elapsed_time[Current(s)] < occupancy_time

(* NoInversion, of a value of sched.                                       *)
Orderly(s) == NoneAbove(s) \/ Owes(s)

LEMMA GoodParts ==
  ASSUME NEW s, Good(s)
  PROVE  /\ Typed(s) /\ s.ring[s.level] # << >> /\ Linked(s) /\ Owed(s)
         /\ Current(s) \in Task /\ s.priority[Current(s)] = s.level
         /\ s.level \in Priority /\ s.level \in 0 .. 3
         /\ \A x \in Task : s.priority[x] \in 0 .. 3
<1>1. Typed(s) /\ s.ring[s.level] # << >> /\ Linked(s) /\ Owed(s)
  BY DEF Good
<1>2. Current(s) \in Task /\ s.priority[Current(s)] = s.level
  BY <1>1, CurrentExists
<1>3. s.level \in Priority /\ s.priority \in [Task -> Priority]
  BY <1>1 DEF Typed
<1>4. QED
  BY <1>1, <1>2, <1>3, Constants

(* A task that waits is found in the ring of its priority.                 *)
LEMMA WaitingIsFound ==
  ASSUME NEW s, Good(s), NEW x \in Task, s.status[x] = "WAIT"
  PROVE  Waiting(s, s.priority[x]) # {}
<1>1. Linked(s) /\ Exists(s, x)
  BY DEF Good, Exists
<1>2. PICK i \in 1 .. Len(s.ring[s.priority[x]]) : s.ring[s.priority[x]][i] = x
  BY <1>1 DEF Linked
<1>3. s.ring[s.priority[x]] \in Seq(Task)
  <2>1. s.priority[x] \in Priority /\ s.ring \in [Priority -> Seq(Task)]
    BY DEF Good, Typed
  <2>2. QED
    BY <2>1
<1>4. i \in Waiting(s, s.priority[x])
  BY <1>2, <1>3 DEF Waiting
<1>5. QED
  BY <1>4

(* After a switch nobody waits above the level that runs.                  *)
LEMMA DispatchOrders ==
  ASSUME NEW s, Good(s), NEW floor \in Priority, NEW st \in Status,
         ReadyLevels(s, floor) # {}, st = "WAIT" => floor = s.level
  PROVE  LET d == Dispatch(s, floor, st)
         IN /\ NoneAbove(d) /\ Typed(d)
            /\ s.status[Current(s)] # "WAIT" => d.status[Current(s)] = st
            /\ d.priority = s.priority
<1> DEFINE p == Greatest(ReadyLevels(s, floor))
           i == Least(Waiting(s, p))
           d == Dispatch(s, floor, st)
           t == s.ring[p][i]
           c == Current(s)
<1>1. Typed(s) /\ s.ring[s.level] # << >>
  BY DEF Good
<1>2. Switched(s, d, floor, st, p, i)
  BY <1>1, DispatchFields
<1> HIDE DEF p, i, d
<1>3. /\ p \in Priority /\ floor <= p
      /\ \A x \in Priority : floor <= x /\ Waiting(s, x) # {} => x <= p
      /\ i \in 1 .. Len(s.ring[p]) /\ s.status[t] = "WAIT"
      /\ Typed(d) /\ d.level = p /\ d.priority = s.priority
      /\ d.status = [s.status EXCEPT ![c] = st, ![t] = "RUN"]
  BY <1>2 DEF Switched
<1> HIDE DEF c
<1>4. c \in Task /\ s.priority[c] = s.level /\ \A x \in Task : s.priority[x] \in 0 .. 3
  BY GoodParts DEF c
<1>5. p \in 0 .. 3 /\ floor \in 0 .. 3
  BY <1>3, Constants
<1>6. s.status \in [Task -> Status] /\ t \in Task
  <2>1. s.ring[p] \in Seq(Task) /\ s.status \in [Task -> Status]
    BY <1>1, <1>3 DEF Typed
  <2>2. QED
    BY <1>3, <2>1
<1>7. s.status[c] # "WAIT" => c # t
  BY <1>3
<1>8. \A x \in Task : d.status[x] = IF x = t THEN "RUN" ELSE IF x = c THEN st ELSE s.status[x]
  BY <1>3, <1>4, <1>6
<1>9. ASSUME NEW x \in Task, d.status[x] = "WAIT"
      PROVE  d.priority[x] <= d.level
  <2>1. CASE x = c
    <3>1. x # t /\ st = "WAIT"
      BY <1>4, <1>8, <1>9, <2>1
    <3>2. QED
      BY <1>3, <1>4, <1>5, <2>1, <3>1
  <2>2. CASE x # c
    <3>1. s.status[x] = "WAIT"
      BY <1>8, <1>9, <2>2
    <3>2. Waiting(s, s.priority[x]) # {}
      BY <3>1, WaitingIsFound
    <3>3. s.priority[x] \in Priority
      BY <1>4, Constants
    <3>4. floor <= s.priority[x] => s.priority[x] <= p
      BY <1>3, <3>2, <3>3
    <3>5. QED
      BY <1>3, <1>4, <1>5, <3>4
  <2>3. QED
    BY <2>1, <2>2
<1>10. s.status[c] # "WAIT" => d.status[c] = st
  BY <1>4, <1>7, <1>8
<1>11. QED
  BY <1>3, <1>9, <1>10 DEF NoneAbove, c, d

(* Orderly depends on these fields only.                                   *)
LEMMA SameOrder ==
  ASSUME NEW s, NEW d, Orderly(s),
         d.ring = s.ring, d.level = s.level, d.priority = s.priority, d.status = s.status,
         d.pending = s.pending, d.elapsed_time = s.elapsed_time
  PROVE  Orderly(d)
  BY DEF Orderly, NoneAbove, Owes, Current

(* switch_task() leaves nobody waiting above the running task, unless that *)
(* one owes it a switch.                                                   *)
LEMMA SwitchTaskOrders ==
  ASSUME NEW s, Good(s), CurrentRuns(s)
  PROVE  Orderly(SwitchTask(s))
<1> DEFINE c == Current(s)
           e == [s EXCEPT !.elapsed_time[c] = (s.elapsed_time[c] + 1) % ElapsedModulus]
<1>1. Typed(s) /\ c \in Task /\ s.status[c] = "RUN"
  BY GoodParts DEF CurrentRuns
<1>2. SwitchTask(s) =
        IF e.elapsed_time[c] < 1 THEN e
        ELSE IF e.switch_prohibition_level[c] > 0 THEN [e EXCEPT !.pending = e.pending \cup {c}]
        ELSE IF ReadyLevels(e, e.level) = {} THEN e
        ELSE Dispatch(e, e.level, "WAIT")
  BY DEF SwitchTask, occupancy_time
<1> HIDE DEF c
<1>3. (s.elapsed_time[c] + 1) % ElapsedModulus \in 0 .. ElapsedModulus - 1
  <2>1. s.elapsed_time[c] \in 0 .. ElapsedModulus - 1
    BY ONLY <1>1 DEF Typed
  <2>2. QED
    BY ONLY <2>1, Constants
<1>4. /\ Typed(e)
      /\ e.ring = s.ring /\ e.level = s.level /\ e.priority = s.priority
      /\ e.status = s.status /\ e.pending = s.pending
      /\ e.switch_prohibition_level = s.switch_prohibition_level
  BY <1>1, <1>3 DEF Typed
<1> HIDE DEF e
<1>5. Good(e) /\ Current(e) = c
  <2>1. Owed(e)
    BY <1>4 DEF Good, Owed
  <2>2. QED
    BY <1>4, <2>1, SameLinks DEF c
<1>6. CASE SwitchTask(s) = e /\ e.elapsed_time[c] < 1
  BY <1>5, <1>6 DEF Orderly, Owes, occupancy_time
<1>7. CASE SwitchTask(s) = [e EXCEPT !.pending = e.pending \cup {c}]
  <2> DEFINE d == [e EXCEPT !.pending = e.pending \cup {c}]
  <2>1. d.ring = e.ring /\ d.level = e.level /\ d.pending = e.pending \cup {c}
    BY <1>4 DEF Typed
  <2> HIDE DEF d
  <2>2. Current(d) = c
    BY <1>5, <2>1 DEF Current
  <2>3. Orderly(d)
    BY <2>1, <2>2 DEF Orderly, Owes
  <2>4. QED
    BY <1>7, <2>3 DEF d
<1>8. CASE SwitchTask(s) = e /\ ReadyLevels(e, e.level) = {}
  <2>1. ASSUME NEW x \in Task, e.status[x] = "WAIT"
        PROVE  e.priority[x] <= e.level
    <3>1. e.priority[x] \in 0 .. 3 /\ e.level \in 0 .. 3
      BY <1>5, GoodParts
    <3>2. Waiting(e, e.priority[x]) # {}
      BY <1>5, <2>1, WaitingIsFound
    <3>3. e.priority[x] \in Priority
      BY <3>1, Constants
    <3>4. ~(e.level <= e.priority[x])
      BY <1>8, <3>2, <3>3 DEF ReadyLevels
    <3>5. QED
      BY <3>1, <3>4
  <2>2. QED
    BY <1>8, <2>1 DEF Orderly, NoneAbove
<1>9. CASE /\ SwitchTask(s) = Dispatch(e, e.level, "WAIT")
           /\ ReadyLevels(e, e.level) # {}
  <2>1. e.level \in Priority /\ "WAIT" \in Status /\ e.status[Current(e)] # "WAIT"
    BY <1>1, <1>4, <1>5, GoodParts DEF Status
  <2>2. NoneAbove(Dispatch(e, e.level, "WAIT"))
    BY <1>5, <1>9, <2>1, DispatchOrders
  <2>3. QED
    BY <1>9, <2>2 DEF Orderly
<1>10. QED
  BY <1>2, <1>6, <1>7, <1>8, <1>9

LEMMA AllowOrders ==
  ASSUME NEW s, Good(s), CurrentRuns(s), s.switch_prohibition_level[Current(s)] > 0, Orderly(s)
  PROVE  Orderly(Allow(s))
<1> DEFINE c == Current(s)
           e == [s EXCEPT !.switch_prohibition_level[c] = s.switch_prohibition_level[c] - 1]
           f == [e EXCEPT !.pending = e.pending \ {c}]
<1>1. Typed(s) /\ c \in Task /\ Owed(s) /\ s.switch_prohibition_level[c] > 0
  BY GoodParts
<1>2. Allow(s) = IF e.switch_prohibition_level[c] = 0 /\ c \in e.pending
                 THEN SwitchTask(f) ELSE e
  BY DEF Allow
<1> HIDE DEF c
<1>3. [s.switch_prohibition_level EXCEPT ![c] = s.switch_prohibition_level[c] - 1] \in [Task -> Nat]
  BY <1>1 DEF Typed
<1>4. /\ e.ring = s.ring /\ e.level = s.level /\ e.priority = s.priority
      /\ e.status = s.status /\ e.pending = s.pending /\ e.elapsed_time = s.elapsed_time
      /\ e.switch_prohibition_level =
           [s.switch_prohibition_level EXCEPT ![c] = s.switch_prohibition_level[c] - 1]
      /\ Typed(e)
  BY <1>1, <1>3 DEF Typed
<1> HIDE DEF e
<1>5. /\ f.ring = s.ring /\ f.level = s.level /\ f.priority = s.priority
      /\ f.status = s.status /\ f.pending = s.pending \ {c}
      /\ f.switch_prohibition_level = e.switch_prohibition_level
      /\ Typed(f)
  BY <1>1, <1>4 DEF Typed
<1> HIDE DEF f
<1>6. Good(f) /\ CurrentRuns(f)
  <2>1. \A x \in Task : x # c => f.switch_prohibition_level[x] = s.switch_prohibition_level[x]
    BY <1>1, <1>4, <1>5 DEF Typed
  <2>2. s.pending \subseteq Task
    BY <1>1 DEF Typed
  <2>3. Owed(f)
    BY <1>1, <1>5, <2>1, <2>2 DEF Owed
  <2>4. QED
    BY <1>5, <2>3, SameLinks
<1>7. Orderly(SwitchTask(f))
  BY <1>6, SwitchTaskOrders
<1>8. Orderly(e)
  BY <1>4, SameOrder
<1>9. QED
  BY <1>2, <1>7, <1>8

LEMMA ContinueTaskOrders ==
  ASSUME NEW s, Good(s), CurrentRuns(s), NEW t \in Task, s.status[t] = "SLEEP", Orderly(s)
  PROVE  Orderly(ContinueTask(s, t))
<1> DEFINE c == Current(s)
           a == Prohibit(s)
           b == [a EXCEPT !.status[t] = "WAIT"]
           e == IF s.level < s.priority[t] THEN SwitchTask(b) ELSE b
<1>1. Typed(s) /\ c \in Task /\ s.level \in 0 .. 3 /\ \A x \in Task : s.priority[x] \in 0 .. 3
  BY GoodParts
<1>2. ContinueTask(s, t) = Allow(e)
  BY DEF ContinueTask
<1>3. /\ Good(a) /\ Current(a) = c /\ CurrentRuns(a)
      /\ a.ring = s.ring /\ a.level = s.level
      /\ a.priority = s.priority /\ a.status = s.status
      /\ a.pending = s.pending /\ a.elapsed_time = s.elapsed_time
      /\ a.switch_prohibition_level =
           [s.switch_prohibition_level EXCEPT ![c] = s.switch_prohibition_level[c] + 1]
  BY ProhibitGood
<1> HIDE DEF c, a
<1>4. Typed(a) /\ Owed(a)
  BY <1>3 DEF Good
<1>5. [a.status EXCEPT ![t] = "WAIT"] \in [Task -> Status]
  BY <1>4 DEF Typed, Status
<1>6. /\ Typed(b) /\ b.ring = a.ring /\ b.level = a.level /\ b.priority = a.priority
      /\ b.status = [a.status EXCEPT ![t] = "WAIT"]
      /\ b.switch_prohibition_level = a.switch_prohibition_level
      /\ b.pending = a.pending /\ b.elapsed_time = a.elapsed_time
  BY <1>4, <1>5 DEF Typed
<1> HIDE DEF b
<1>7. Good(b) /\ Current(b) = c /\ CurrentRuns(b)
  <2>1. Owed(b) /\ a.status[t] = "SLEEP"
    BY <1>3, <1>4, <1>6 DEF Owed
  <2>2. QED
    BY <1>3, <1>6, <2>1, Readied
<1>8. b.switch_prohibition_level[c] > 0
  BY <1>1, <1>3, <1>6 DEF Typed
<1>9. /\ Good(e) /\ CurrentRuns(e) /\ Current(e) = c /\ Orderly(e)
      /\ e.switch_prohibition_level[c] > 0
  <2>1. CASE s.level < s.priority[t]
    <3>1. e = SwitchTask(b)
      BY <2>1
    <3>2. /\ Good(e) /\ CurrentRuns(e) /\ e.ring = b.ring /\ e.level = b.level
          /\ e.switch_prohibition_level = b.switch_prohibition_level
      BY <1>7, <1>8, <3>1, SwitchTaskGood
    <3>3. Orderly(e)
      BY <1>7, <3>1, SwitchTaskOrders
    <3> HIDE DEF e
    <3>4. Current(e) = Current(b)
      BY <3>2 DEF Current
    <3>5. QED
      BY <1>7, <1>8, <3>2, <3>3, <3>4
  <2>2. CASE ~(s.level < s.priority[t])
    <3>1. e = b
      BY <2>2
    <3>2. \A x \in Task : b.status[x] = IF x = t THEN "WAIT" ELSE s.status[x]
      <4>1. s.status \in [Task -> Status]
        BY <1>1 DEF Typed
      <4>2. b.status = [s.status EXCEPT ![t] = "WAIT"]
        BY <1>3, <1>6
      <4>3. QED
        BY <4>1, <4>2
    <3>3. NoneAbove(s) => NoneAbove(b)
      BY <1>1, <1>3, <1>6, <2>2, <3>2 DEF NoneAbove
    <3>4. Owes(s) => Owes(b)
      BY <1>3, <1>6, <1>7 DEF Owes, c
    <3>5. QED
      BY <1>7, <1>8, <3>1, <3>3, <3>4 DEF Orderly
  <2>3. QED
    BY <2>1, <2>2
<1> HIDE DEF e
<1>10. QED
  BY <1>2, <1>9, AllowOrders

LEMMA WakeUpOrders ==
  ASSUME NEW s, Good(s), CurrentRuns(s), NEW t \in Task, Orderly(s)
  PROVE  Orderly(WakeUp(s, t))
  BY ContinueTaskOrders DEF WakeUp
-----------------------------------------------------------------------------
(* Every step leaves the tasks in order.                                   *)
LEMMA OrderStart ==
  ASSUME Init  PROVE Orderly(sched)
<1>1. sched.level = KERNEL
  BY DEF Init
<1>2. Good(sched)
  BY InitInvariant DEF IInv
<1>3. \A x \in Task : sched.priority[x] \in 0 .. 3
  BY <1>2, GoodParts
<1>4. QED
  BY <1>1, <1>3, Constants DEF Orderly, NoneAbove

LEMMA WakingOrders ==
  ASSUME IInv, NEW t \in Task, Orderly(sched),
         sched' = WakeUp(sched, t) \/ sched' = SwitchTask(WakeUp(sched, t))
  PROVE  Orderly(sched')
<1> DEFINE w == WakeUp(sched, t)
<1>1. Good(sched) /\ CurrentRuns(sched)
  BY DEF IInv
<1>2. Good(w) /\ CurrentRuns(w)
  BY <1>1, WakeUpGood DEF Wakes
<1>3. Orderly(w)
  BY <1>1, WakeUpOrders
<1> HIDE DEF w
<1>4. Orderly(SwitchTask(w))
  BY <1>2, SwitchTaskOrders
<1>5. QED
  BY <1>3, <1>4 DEF w

LEMMA SleepOrders ==
  ASSUME IInv, NEW c \in Task, SleepTask(c)
  PROVE  NoneAbove(sched') /\ sched'.status[c] = "SLEEP"
<1>1. /\ c = Current(sched) /\ ReadyLevels(sched, IDLE) # {}
      /\ sched' = Dispatch(sched, IDLE, "SLEEP")
  BY DEF SleepTask, Runs
<1>2. Good(sched) /\ sched.status[Current(sched)] # "WAIT"
  BY DEF IInv, CurrentRuns
<1>3. IDLE \in Priority /\ "SLEEP" \in Status
  BY Constants DEF Status
<1>4. LET d == Dispatch(sched, IDLE, "SLEEP")
      IN NoneAbove(d) /\ Typed(d) /\ d.status[Current(sched)] = "SLEEP"
         /\ d.priority = sched.priority
  BY <1>1, <1>2, <1>3, DispatchOrders
<1>5. QED
  BY <1>1, <1>4

(* A new task sleeps, below its creator.                                   *)
LEMMA CreateOrders ==
  ASSUME IInv, NEW c \in Task, NEW t \in Pool, NEW p \in TaskPriorities,
         NEW owner \in {c, main_task}, CreateTask(c, t, p, owner)
  PROVE  (Orderly(sched) => Orderly(sched')) /\ Current(sched') = c
<1>0. p \in Priority /\ t \in Task
  BY Constants DEF Priority
<1>1. /\ c = Current(sched) /\ sched.status[t] = "FREE" /\ p < sched.priority[c]
      /\ sched' = [sched EXCEPT !.ring[p] = Insert(@, t), !.priority[t] = p,
                                !.status[t] = "SLEEP", !.switch_prohibition_level[t] = 0,
                                !.pending = @ \ {t}, !.elapsed_time[t] = 0,
                                !.fresh = @ \cup {t}]
  BY DEF CreateTask, Works, Runs
<1>2. /\ Typed(sched) /\ sched.priority[c] = sched.level /\ sched.level \in 0 .. 3
      /\ sched.status[c] = "RUN"
  BY <1>1, RunningTask, GoodParts
<1>3. /\ sched.ring \in [Priority -> Seq(Task)] /\ sched.status \in [Task -> Status]
      /\ sched.priority \in [Task -> Priority]
      /\ sched.elapsed_time \in [Task -> 0 .. ElapsedModulus - 1]
  BY <1>2 DEF Typed
<1>4. /\ sched'.ring = [sched.ring EXCEPT ![p] = Insert(sched.ring[p], t)]
      /\ sched'.level = sched.level
      /\ sched'.priority = [sched.priority EXCEPT ![t] = p]
      /\ sched'.status = [sched.status EXCEPT ![t] = "SLEEP"]
      /\ sched'.pending = sched.pending \ {t}
      /\ sched'.elapsed_time = [sched.elapsed_time EXCEPT ![t] = 0]
  BY <1>1, <1>2 DEF Typed
<1>5. p # sched.level /\ t # c
  <2>1. p \in 0 .. 3
    BY <1>0, Constants
  <2>2. QED
    BY <1>1, <1>2, <2>1
<1>6. Current(sched') = c
  <2>1. sched'.ring[sched.level] = sched.ring[sched.level]
    BY <1>0, <1>3, <1>4, <1>5
  <2>2. QED
    BY <1>1, <1>4, <2>1 DEF Current
<1>7. NoneAbove(sched) => NoneAbove(sched')
  BY <1>0, <1>3, <1>4 DEF NoneAbove
<1>8. Owes(sched) => Owes(sched')
  <2>1. sched'.elapsed_time[c] = sched.elapsed_time[c]
    BY <1>0, <1>3, <1>4, <1>5
  <2>2. c \in sched.pending => c \in sched'.pending
    BY <1>4, <1>5
  <2>3. QED
    BY <1>1, <1>6, <2>1, <2>2 DEF Owes
<1>9. QED
  BY <1>6, <1>7, <1>8 DEF Orderly

(* The task that is started ranks below the one that starts it.            *)
LEMMA StartOrders ==
  ASSUME IInv, NEW c \in Task, StartTask(c)
  PROVE  (Orderly(sched) => Orderly(sched')) /\ Current(sched') = c
<1> DEFINE t == creating[c]
<1>1. /\ c = Current(sched) /\ t # NULL
      /\ sched' = [sched EXCEPT !.status[t] = "WAIT", !.elapsed_time[t] = 0]
  BY DEF StartTask, Works, Runs
<1>2. /\ Typed(sched) /\ sched.priority[c] = sched.level /\ sched.level \in 0 .. 3
      /\ RestTyped /\ Creations /\ \A x \in Task : sched.priority[x] \in 0 .. 3
  BY <1>1, RunningTask, GoodParts
<1>3. t \in Task /\ sched.priority[t] < sched.priority[c]
  BY <1>1, <1>2, Constants DEF RestTyped, Creations
<1> HIDE DEF t
<1>4. /\ sched.status \in [Task -> Status]
      /\ sched.elapsed_time \in [Task -> 0 .. ElapsedModulus - 1]
  BY <1>2 DEF Typed
<1>5. /\ sched'.ring = sched.ring /\ sched'.level = sched.level
      /\ sched'.priority = sched.priority
      /\ sched'.status = [sched.status EXCEPT ![t] = "WAIT"]
      /\ sched'.pending = sched.pending
      /\ sched'.elapsed_time = [sched.elapsed_time EXCEPT ![t] = 0]
  BY <1>1, <1>2 DEF Typed
<1>6. t # c
  BY <1>2, <1>3
<1>7. Current(sched') = c
  BY <1>1, <1>5 DEF Current
<1>8. NoneAbove(sched) => NoneAbove(sched')
  <2>1. ASSUME NEW x \in Task, sched'.status[x] = "WAIT", NoneAbove(sched)
        PROVE  sched'.priority[x] <= sched'.level
    <3>1. CASE x = t
      BY <1>2, <1>3, <1>5, <3>1
    <3>2. CASE x # t
      <4>1. sched.status[x] = "WAIT"
        BY <1>3, <1>4, <1>5, <2>1, <3>2
      <4>2. QED
        BY <1>5, <2>1, <4>1 DEF NoneAbove
    <3>3. QED
      BY <3>1, <3>2
  <2>2. QED
    BY <2>1 DEF NoneAbove
<1>9. Owes(sched) => Owes(sched')
  <2>1. sched'.elapsed_time[c] = sched.elapsed_time[c]
    BY <1>3, <1>4, <1>5, <1>6
  <2>2. QED
    BY <1>1, <1>5, <1>7, <2>1 DEF Owes
<1>10. QED
  BY <1>7, <1>8, <1>9 DEF Orderly

(* close_task() hands over to the best of those that wait.                 *)
LEMMA CloseOrders ==
  ASSUME IInv, NEW c \in Task, CloseTask(c)
  PROVE  NoneAbove(sched')
<1> DEFINE told == WakeUp(Prohibit(sched), parent[c])
           next == Dispatch(told, IDLE, "FREE")
<1>1. /\ MayClose(c) /\ ReadyLevels(told, IDLE) # {}
      /\ \E ring : sched' = Forget([next EXCEPT !.ring = ring], c)
  BY DEF CloseTask
<1>2. c \in Pool /\ Good(told) /\ Current(told) = c /\ told.status[c] = "RUN"
  BY <1>1, TellingParent
<1>3. IDLE \in Priority /\ "FREE" \in Status
  BY Constants DEF Status
<1> HIDE DEF told
<1>4. NoneAbove(next) /\ Typed(next) /\ next.status[c] = "FREE"
  <2>1. told.status[Current(told)] # "WAIT"
    BY <1>2
  <2>2. NoneAbove(next) /\ Typed(next) /\ next.status[Current(told)] = "FREE"
    BY <1>1, <1>2, <1>3, <2>1, DispatchOrders
  <2>3. QED
    BY <1>2, <2>2
<1> HIDE DEF next
<1>5. /\ sched'.status = next.status /\ sched'.level = next.level
      /\ sched'.priority = [next.priority EXCEPT ![c] = IDLE]
  BY <1>1, <1>4 DEF Typed, Forget
<1>6. next.priority \in [Task -> Priority]
  BY <1>4 DEF Typed
<1>7. QED
  BY <1>4, <1>5, <1>6 DEF NoneAbove

(* A close_task() that is interrupted ends with the main task running.     *)
LEMMA MainOnTop ==
  ASSUME NEW s, Good(s), s.status[main_task] = "RUN"
  PROVE  NoneAbove(s)
<1>1. Current(s) = main_task
  BY Constants DEF Good, OnlyCurrentRuns
<1>2. s.level = 3
  BY <1>1, GoodParts, Constants DEF Good, Permanent
<1>3. QED
  BY <1>2, GoodParts DEF NoneAbove

LEMMA NextOrders == IInv /\ Orderly(sched) /\ [Next]_vars => Orderly(sched')
<1> SUFFICES ASSUME IInv, Orderly(sched), [Next]_vars  PROVE Orderly(sched')
  OBVIOUS
<1>0. Good(sched) /\ CurrentRuns(sched) /\ main_task \in Task
  BY Constants DEF IInv
<1>1. CASE UNCHANGED vars
  BY <1>1 DEF vars
<1>2. ASSUME NEW c \in Task, ProhibitSwitchTask(c)  PROVE Orderly(sched')
  <2>1. sched' = Prohibit(sched)
    BY <1>2 DEF ProhibitSwitchTask
  <2>2. LET d == Prohibit(sched)
        IN /\ d.ring = sched.ring /\ d.level = sched.level
           /\ d.priority = sched.priority /\ d.status = sched.status
           /\ d.pending = sched.pending /\ d.elapsed_time = sched.elapsed_time
    BY <1>0, ProhibitGood
  <2>3. QED
    BY <2>1, <2>2, SameOrder
<1>3. ASSUME NEW c \in Task, AllowSwitchTask(c)  PROVE Orderly(sched')
  <2>1. /\ sched' = Allow(sched) /\ c = Current(sched)
        /\ sched.switch_prohibition_level[c] > 0
    BY <1>3 DEF AllowSwitchTask, Works, Runs
  <2>2. QED
    BY <1>0, <2>1, AllowOrders
<1>4. ASSUME NEW c \in Task,
             CreateEventQueue(c) \/ Dequeue(c) \/ DequeueNothing(c) \/ HaltInSystemCall(c)
      PROVE  Orderly(sched')
  BY <1>4 DEF CreateEventQueue, Dequeue, DequeueNothing, HaltInSystemCall
<1>5. ASSUME NEW c \in Task, SleepTask(c)  PROVE Orderly(sched')
  BY <1>5, SleepOrders DEF Orderly
<1>6. ASSUME NEW c \in Task, StartTask(c)  PROVE Orderly(sched')
  BY <1>6, StartOrders
<1>7. ASSUME NEW c \in Task, CloseTask(c)  PROVE Orderly(sched')
  BY <1>7, CloseOrders DEF Orderly
<1>8. ASSUME NEW c \in Task, CloseTaskInterrupted(c)  PROVE Orderly(sched')
  <2>1. sched'.status[main_task] = "RUN"
    BY <1>8 DEF CloseTaskInterrupted
  <2>2. IInv'
    BY <1>8, CloseInterruptedStep
  <2>3. Good(sched')
    BY <2>2 DEF IInv
  <2>4. QED
    BY <2>1, <2>3, MainOnTop DEF Orderly
<1>9. ASSUME NEW c \in Task, NEW t \in Task, Send(c, t)  PROVE Orderly(sched')
  BY <1>9, WakingOrders DEF Send
<1>10. ASSUME NEW c \in Task, NEW t \in Pool, NEW p \in TaskPriorities,
              NEW owner \in {c, main_task}, CreateTask(c, t, p, owner)
       PROVE  Orderly(sched')
  BY <1>10, CreateOrders
<1>11. CASE DeviceInterrupt
  BY <1>0, <1>11, WakingOrders DEF DeviceInterrupt
<1>12. CASE PitInterrupt
  BY <1>0, <1>12, WakingOrders DEF PitInterrupt
<1>13. CASE PitSwitch
  BY <1>0, <1>13, SwitchTaskOrders DEF PitSwitch
<1>14. QED
  BY <1>1, <1>2, <1>3, <1>4, <1>5, <1>6, <1>7, <1>8, <1>9, <1>10, <1>11, <1>12, <1>13
     DEF Next

InOrder == Orderly(sched)

(* A ready task waits for one of lower priority only while that one owes   *)
(* it a switch: one it made pending by prohibiting switches, or the one of *)
(* the tick in which its elapsed_time wrapped (task.c).                    *)
THEOREM ReadyTasksComeFirst == Spec => []NoInversion
<1>1. Init => InOrder
  BY OrderStart DEF InOrder
<1>2. IInv /\ InOrder /\ [Next]_vars => InOrder'
  BY NextOrders DEF InOrder
<1>3. IInv /\ InOrder => NoInversion
  <2> SUFFICES ASSUME IInv, Orderly(sched)  PROVE NoInversion
    BY DEF InOrder
  <2>1. sched.level \in 0 .. 3 /\ \A x \in Task : sched.priority[x] \in 0 .. 3
    BY GoodParts DEF IInv
  <2>2. QED
    BY <2>1 DEF Orderly, NoneAbove, Owes, NoInversion
<1>4. QED
  BY <1>1, <1>2, <1>3, SchedulerInvariant, PTL DEF Spec
-----------------------------------------------------------------------------
(* What ProhibitedStaysCurrent says of a step.                             *)
Kept(s, d) == s.ring = d.ring /\ s.level = d.level

StaysOrSleeps ==
  LET c == Current(sched)
  IN /\ sched.switch_prohibition_level[c] > 0
     /\ sched'.switch_prohibition_level[c] > 0
     => Current(sched') = c \/ (c \in drained /\ sched'.status[c] = "SLEEP")

LEMMA KeptCurrent ==
  ASSUME NEW s, NEW d, Kept(s, d)  PROVE Current(d) = Current(s)
BY DEF Kept, Current

(* Whoever wakes another task while it prohibits switching goes on.        *)
LEMMA WakingStays ==
  ASSUME IInv, NEW t \in Task,
         sched' = WakeUp(sched, t) \/ sched' = SwitchTask(WakeUp(sched, t)),
         sched.switch_prohibition_level[Current(sched)] > 0
  PROVE  Current(sched') = Current(sched)
<1> DEFINE w == WakeUp(sched, t)
           c == Current(sched)
<1>1. Good(sched)
  BY DEF IInv
<1>2. Wakes(sched, w, t)
  BY <1>1, WakeUpGood
<1> HIDE DEF w
<1>3. /\ Good(w) /\ w.switch_prohibition_level = sched.switch_prohibition_level
      /\ Kept(sched, w)
  BY <1>2 DEF Wakes, Kept
<1>4. Current(w) = c
  BY <1>3, KeptCurrent
<1>5. Kept(w, SwitchTask(w))
  BY <1>3, <1>4, SwitchTaskGood DEF Kept
<1>6. Current(SwitchTask(w)) = c
  BY <1>4, <1>5, KeptCurrent
<1>7. QED
  BY <1>4, <1>6 DEF w

LEMMA NextStays == IInv /\ [Next]_vars => StaysOrSleeps
<1> DEFINE c0 == Current(sched)
<1> SUFFICES ASSUME IInv, [Next]_vars,
                    sched.switch_prohibition_level[c0] > 0,
                    sched'.switch_prohibition_level[c0] > 0
             PROVE  Current(sched') = c0 \/ (c0 \in drained /\ sched'.status[c0] = "SLEEP")
  BY DEF StaysOrSleeps
<1>0. Good(sched) /\ CurrentRuns(sched) /\ main_task \in Task
  BY Constants DEF IInv
<1>2. ASSUME NEW c \in Task, ProhibitSwitchTask(c)  PROVE Current(sched') = c0
  <2>1. sched' = Prohibit(sched)
    BY <1>2 DEF ProhibitSwitchTask
  <2>2. QED
    BY <1>0, <2>1, ProhibitGood
<1>3. ASSUME NEW c \in Task, AllowSwitchTask(c)  PROVE Current(sched') = c0
  <2>1. sched' = Allow(sched)
    BY <1>3 DEF AllowSwitchTask
  <2>2. /\ Allow(sched).switch_prohibition_level =
             [sched.switch_prohibition_level EXCEPT ![c0] = sched.switch_prohibition_level[c0] - 1]
        /\ sched.switch_prohibition_level[c0] > 1 => Kept(sched, Allow(sched))
    BY <1>0, AllowGood DEF Kept
  <2>3. c0 \in Task /\ sched.switch_prohibition_level \in [Task -> Nat]
    BY RunningTask
  <2> HIDE DEF c0
  <2>4. sched.switch_prohibition_level[c0] > 1
    BY <2>1, <2>2, <2>3
  <2>5. QED
    BY <2>1, <2>2, <2>4, KeptCurrent DEF c0
<1>4. ASSUME NEW c \in Task,
             CreateEventQueue(c) \/ Dequeue(c) \/ DequeueNothing(c) \/ HaltInSystemCall(c)
      PROVE  Current(sched') = c0
  BY <1>4 DEF CreateEventQueue, Dequeue, DequeueNothing, HaltInSystemCall
<1>5. ASSUME NEW c \in Task, SleepTask(c)
      PROVE  c0 \in drained /\ sched'.status[c0] = "SLEEP"
  BY <1>5, SleepOrders DEF SleepTask, Runs
<1>6. ASSUME NEW c \in Task, StartTask(c)  PROVE Current(sched') = c0
  <2>1. c = c0
    BY <1>6 DEF StartTask, Works, Runs
  <2>2. Current(sched') = c
    BY <1>6, StartOrders
  <2>3. QED
    BY <2>1, <2>2
<1>7. ASSUME NEW c \in Task, CloseTask(c) \/ CloseTaskInterrupted(c)  PROVE FALSE
  BY <1>7 DEF CloseTask, CloseTaskInterrupted, MayClose, InLoop, Works, Runs
<1>9. ASSUME NEW c \in Task, NEW t \in Task, Send(c, t)  PROVE Current(sched') = c0
  BY <1>9, WakingStays DEF Send
<1>10. ASSUME NEW c \in Task, NEW t \in Pool, NEW p \in TaskPriorities,
              NEW owner \in {c, main_task}, CreateTask(c, t, p, owner)
       PROVE  Current(sched') = c0
  <2>1. c = c0
    BY <1>10 DEF CreateTask, Works, Runs
  <2>2. Current(sched') = c
    BY <1>10, CreateOrders
  <2>3. QED
    BY <2>1, <2>2
<1>11. CASE DeviceInterrupt
  BY <1>0, <1>11, WakingStays DEF DeviceInterrupt
<1>12. CASE PitInterrupt
  BY <1>0, <1>12, WakingStays DEF PitInterrupt
<1>13. CASE PitSwitch
  <2>1. sched' = SwitchTask(sched)
    BY <1>13 DEF PitSwitch
  <2>2. Kept(sched, SwitchTask(sched))
    BY <1>0, SwitchTaskGood DEF Kept
  <2>3. QED
    BY <2>1, <2>2, KeptCurrent
<1>14. CASE UNCHANGED vars
  BY <1>14 DEF vars
<1>15. QED
  BY <1>2, <1>3, <1>4, <1>5, <1>6, <1>7, <1>9, <1>10, <1>11, <1>12, <1>13, <1>14 DEF Next

(* A task that prohibits switching, and goes on to, keeps the processor    *)
(* through every call and interrupt, unless it goes to sleep itself.       *)
THEOREM ProhibitionHolds == Spec => ProhibitedStaysCurrent
<1>1. IInv /\ [Next]_vars => [StaysOrSleeps]_vars
  BY NextStays
<1>2. ProhibitedStaysCurrent <=> [][StaysOrSleeps]_vars
  BY DEF ProhibitedStaysCurrent, StaysOrSleeps
<1>3. QED
  BY <1>1, <1>2, SchedulerInvariant, PTL DEF Spec
-----------------------------------------------------------------------------
(* Round robin.  The turn of a task is its place in the search order of    *)
(* its level, where the first waiting task is the next to run.             *)
TurnOf(s, t) ==
  CHOOSE i \in DOMAIN s.ring[s.priority[t]] : s.ring[s.priority[t]][i] = t

(* The one exception: a new task is searched before the level's current    *)
(* task, which is the last.                                                *)
NewcomerBefore(s, d, t) ==
  /\ TurnOf(s, t) = Len(s.ring[s.priority[t]])
  /\ TurnOf(d, t) = TurnOf(s, t) + 1
  /\ \E u \in Pool : /\ s.status[u] = "FREE" /\ d.status[u] = "SLEEP"
                     /\ d.priority[u] = s.priority[t]

ComesNearer(s, d, t) ==
  /\ TurnOf(d, t) <= TurnOf(s, t) \/ NewcomerBefore(s, d, t)
  /\ d.level = s.priority[t] /\ Current(d) # Current(s) => TurnOf(d, t) < TurnOf(s, t)

WaitingCloseUp ==
  \A t \in Task : sched.status[t] = "WAIT" /\ sched'.status[t] = "WAIT" =>
                    ComesNearer(sched, sched', t)

(* A step leaves every ready task at its turn or nearer to it (task.c, the *)
(* search in switch_task(), sleep_task() and close_task()).                *)
TurnsComeNearer == [][WaitingCloseUp]_vars

HasTurn(s, t, k) ==
  k \in 1 .. Len(s.ring[s.priority[t]]) /\ s.ring[s.priority[t]][k] = t

(* A task that is linked once has one turn.                                *)
LEMMA OneTurn ==
  ASSUME NEW s, Typed(s), Linked(s), NEW t \in Task, NEW k, HasTurn(s, t, k)
  PROVE  TurnOf(s, t) = k
<1> DEFINE p == s.priority[t]
           r == s.ring[p]
<1>1. p \in Priority /\ r \in Seq(Task)
  BY DEF Typed
<1>2. DOMAIN r = 1 .. Len(r) /\ \A i, j \in 1 .. Len(r) : r[i] = r[j] => i = j
  BY <1>1 DEF Linked
<1>3. k \in DOMAIN r /\ r[k] = t
  BY <1>2 DEF HasTurn
<1> HIDE DEF r
<1>4. \A i \in DOMAIN r : r[i] = t => i = k
  BY <1>2, <1>3
<1>5. QED
  BY <1>3, <1>4 DEF TurnOf, r, p

LEMMA WaitingHasTurn ==
  ASSUME NEW s, Good(s), NEW t \in Task, s.status[t] = "WAIT"
  PROVE  \E k : HasTurn(s, t, k)
BY DEF Good, Linked, Exists, HasTurn

(* Turning a ring moves those after the chosen one forward by its place.   *)
LEMMA RotateForward ==
  ASSUME NEW r \in Seq(Task), NEW i \in 1 .. Len(r), NEW k \in 1 .. Len(r), i < k
  PROVE  k - i \in 1 .. Len(Rotate(r, i)) /\ Rotate(r, i)[k - i] = r[k]
<1>1. Len(Rotate(r, i)) = Len(r)
  BY RotateTurns
<1>2. k - i \in 1 .. Len(r) /\ i + (k - i) = k /\ k <= Len(r)
  OBVIOUS
<1>3. Rotate(r, i)[k - i] = r[i + (k - i)]
  BY <1>2 DEF Rotate
<1>4. QED
  BY <1>1, <1>2, <1>3

(* Only the last task of a ring is moved back by a new one.                *)
LEMMA InsertShifts ==
  ASSUME NEW r \in Seq(Task), NEW t, NEW k \in 1 .. Len(r)
  PROVE  LET j == IF k < Len(r) THEN k ELSE k + 1
         IN j \in 1 .. Len(Insert(r, t)) /\ Insert(r, t)[j] = r[k]
<1> DEFINE n == Len(r)
           q == Insert(r, t)
<1>1. n \in Nat \ {0} /\ k \in 1 .. n
  OBVIOUS
<1>2. q = [m \in 1 .. n + 1 |-> IF m < n THEN r[m] ELSE IF m = n THEN t ELSE r[n]]
  BY DEF Insert
<1> HIDE DEF q, n
<1>3. Len(q) = n + 1
  <2>1. q \in Seq({q[m] : m \in 1 .. n + 1})
    BY <1>1, <1>2
  <2>2. DOMAIN q = 1 .. n + 1 /\ n + 1 \in Nat
    BY <1>1, <1>2
  <2>3. QED
    BY <2>1, <2>2
<1>4. CASE k < n
  BY <1>1, <1>2, <1>3, <1>4 DEF n, q
<1>5. CASE ~(k < n)
  <2>1. k = n /\ n + 1 \in 1 .. n + 1 /\ ~(n + 1 < n) /\ n + 1 # n
    BY <1>1, <1>5
  <2>2. q[n + 1] = r[n]
    BY <1>2, <2>1
  <2>3. QED
    BY <1>3, <1>5, <2>1, <2>2 DEF n, q
<1>6. QED
  BY <1>4, <1>5
-----------------------------------------------------------------------------
(* The task that runs is the same, and nobody who waits is disturbed.      *)
Idle(s, d) ==
  /\ d.ring = s.ring /\ d.level = s.level /\ d.priority = s.priority
  /\ \A x \in Task : s.status[x] = "WAIT" => d.status[x] = "WAIT"

(* The i-th task of level p, the first that waits there, runs.             *)
TurnsTo(s, d, p, i) ==
  /\ p \in Priority /\ i \in 1 .. Len(s.ring[p])
  /\ d.ring = [s.ring EXCEPT ![p] = Rotate(s.ring[p], i)]
  /\ d.level = p /\ d.priority = s.priority
  /\ d.status[s.ring[p][i]] = "RUN"
  /\ CurrentRuns(s) => Current(s) # s.ring[p][i]
  /\ \A k \in 1 .. Len(s.ring[p]) : s.status[s.ring[p][k]] = "WAIT" => i <= k
  /\ NoneAbove(d)

(* What the functions of task.c do to the turns: at most one switch.       *)
Moves(s, d) == Idle(s, d) \/ \E p, i : TurnsTo(s, d, p, i)

LEMMA FirstWaits ==
  ASSUME NEW s, Typed(s), NEW p \in Priority, NEW k \in 1 .. Len(s.ring[p]),
         s.status[s.ring[p][k]] = "WAIT"
  PROVE  Least(Waiting(s, p)) <= k
<1>1. s.ring[p] \in Seq(Task)
  BY DEF Typed
<1>2. k \in Waiting(s, p) /\ Waiting(s, p) \subseteq Nat
  BY <1>1 DEF Waiting
<1>3. QED
  BY <1>2, LeastIsFirst

LEMMA DispatchTurns ==
  ASSUME NEW s, Good(s), NEW floor \in Priority, NEW st \in Status,
         ReadyLevels(s, floor) # {}, st = "WAIT" => floor = s.level
  PROVE  \E p, i : TurnsTo(s, Dispatch(s, floor, st), p, i)
<1> DEFINE p == Greatest(ReadyLevels(s, floor))
           i == Least(Waiting(s, p))
           d == Dispatch(s, floor, st)
<1>1. Typed(s) /\ s.ring[s.level] # << >>
  BY DEF Good
<1>2. Switched(s, d, floor, st, p, i)
  BY <1>1, DispatchFields
<1>3. NoneAbove(d)
  BY DispatchOrders
<1>4. s.ring[p] \in Seq(Task) /\ p \in Priority
  BY <1>1, <1>2 DEF Typed, Switched
<1>6. \A k \in 1 .. Len(s.ring[p]) : s.status[s.ring[p][k]] = "WAIT" => i <= k
  BY <1>1, <1>4, FirstWaits
<1> HIDE DEF p, i, d
<1>7. s.ring[p][i] \in Task /\ s.status \in [Task -> Status]
  <2>1. i \in 1 .. Len(s.ring[p])
    BY <1>2 DEF Switched
  <2>2. s.ring[p][i] \in Task
    BY <1>4, <2>1
  <2>3. QED
    BY <1>1, <2>2 DEF Typed
<1>8. d.status[s.ring[p][i]] = "RUN"
  BY <1>2, <1>7 DEF Switched
<1>9. CurrentRuns(s) => Current(s) # s.ring[p][i]
  BY <1>2 DEF Switched, CurrentRuns
<1>10. TurnsTo(s, d, p, i)
  BY <1>2, <1>3, <1>6, <1>8, <1>9 DEF Switched, TurnsTo
<1>11. QED
  BY <1>10 DEF d

LEMMA IdleThenMoves ==
  ASSUME NEW s, Typed(s), NEW e, Idle(s, e), CurrentRuns(s) => CurrentRuns(e),
         NEW d, Moves(e, d)
  PROVE  Moves(s, d)
<1>1. /\ e.ring = s.ring /\ e.level = s.level /\ e.priority = s.priority
      /\ \A x \in Task : s.status[x] = "WAIT" => e.status[x] = "WAIT"
  BY DEF Idle
<1>2. CASE Idle(e, d)
  BY <1>1, <1>2 DEF Idle, Moves
<1>3. ASSUME NEW p, NEW i, TurnsTo(e, d, p, i)  PROVE TurnsTo(s, d, p, i)
  <2>1. /\ p \in Priority /\ i \in 1 .. Len(s.ring[p])
        /\ d.ring = [s.ring EXCEPT ![p] = Rotate(s.ring[p], i)]
        /\ d.level = p /\ d.priority = s.priority
        /\ d.status[s.ring[p][i]] = "RUN" /\ NoneAbove(d)
        /\ CurrentRuns(e) => Current(e) # s.ring[p][i]
        /\ \A k \in 1 .. Len(s.ring[p]) : e.status[s.ring[p][k]] = "WAIT" => i <= k
    BY <1>1, <1>3 DEF TurnsTo
  <2>2. CurrentRuns(s) => Current(s) # s.ring[p][i]
    BY <1>1, <2>1 DEF Current
  <2>3. s.ring[p] \in Seq(Task)
    BY <2>1 DEF Typed
  <2>4. \A k \in 1 .. Len(s.ring[p]) : s.ring[p][k] \in Task
    BY <2>3
  <2>5. \A k \in 1 .. Len(s.ring[p]) : s.status[s.ring[p][k]] = "WAIT" => i <= k
    BY <1>1, <2>1, <2>4
  <2>6. QED
    BY <2>1, <2>2, <2>5 DEF TurnsTo
<1>4. QED
  BY <1>2, <1>3 DEF Moves

LEMMA SameStatusIsIdle ==
  ASSUME NEW s, NEW d, d.ring = s.ring, d.level = s.level, d.priority = s.priority,
         d.status = s.status
  PROVE  Idle(s, d)
BY DEF Idle

(* Whoever is switched to is the current task.                             *)
LEMMA TurnsToCurrent ==
  ASSUME NEW s, Typed(s), NEW d, NEW p, NEW i, TurnsTo(s, d, p, i)
  PROVE  Current(d) = s.ring[p][i]
<1>1. /\ p \in Priority /\ i \in 1 .. Len(s.ring[p]) /\ d.level = p
      /\ d.ring = [s.ring EXCEPT ![p] = Rotate(s.ring[p], i)]
  BY DEF TurnsTo
<1>2. s.ring \in [Priority -> Seq(Task)] /\ s.ring[p] \in Seq(Task)
  BY <1>1 DEF Typed
<1>3. d.ring[d.level] = Rotate(s.ring[p], i)
  BY <1>1, <1>2
<1>4. /\ Len(Rotate(s.ring[p], i)) = Len(s.ring[p])
      /\ Rotate(s.ring[p], i)[Len(s.ring[p])] = s.ring[p][i]
  BY <1>1, <1>2, RotateTurns
<1>5. QED
  BY <1>3, <1>4 DEF Current

(* switch_task(), allow_switch_task(), continue_task() and enqueue() hand  *)
(* the processor over once at most, and the last two wake their task.      *)
LEMMA SwitchTaskMoves ==
  ASSUME NEW s, Good(s)
  PROVE  Moves(s, SwitchTask(s))
<1> DEFINE c == Current(s)
           e == [s EXCEPT !.elapsed_time[c] = (s.elapsed_time[c] + 1) % ElapsedModulus]
<1>1. Typed(s) /\ c \in Task
  BY GoodParts
<1>2. SwitchTask(s) =
        IF e.elapsed_time[c] < 1 THEN e
        ELSE IF e.switch_prohibition_level[c] > 0 THEN [e EXCEPT !.pending = e.pending \cup {c}]
        ELSE IF ReadyLevels(e, e.level) = {} THEN e
        ELSE Dispatch(e, e.level, "WAIT")
  BY DEF SwitchTask, occupancy_time
<1> HIDE DEF c
<1>3. (s.elapsed_time[c] + 1) % ElapsedModulus \in 0 .. ElapsedModulus - 1
  <2>1. s.elapsed_time[c] \in 0 .. ElapsedModulus - 1
    BY ONLY <1>1 DEF Typed
  <2>2. QED
    BY ONLY <2>1, Constants
<1>4. /\ Typed(e)
      /\ e.ring = s.ring /\ e.level = s.level /\ e.priority = s.priority
      /\ e.status = s.status /\ e.pending = s.pending
      /\ e.switch_prohibition_level = s.switch_prohibition_level
  BY <1>1, <1>3 DEF Typed
<1> HIDE DEF e
<1>5. Owed(e)
  BY <1>4 DEF Good, Owed
<1>6. Good(e) /\ (CurrentRuns(s) => CurrentRuns(e)) /\ Idle(s, e)
  BY <1>4, <1>5, SameLinks, SameStatusIsIdle
<1>7. CASE SwitchTask(s) = e
  BY <1>6, <1>7 DEF Moves
<1>8. CASE SwitchTask(s) = [e EXCEPT !.pending = e.pending \cup {c}]
  <2> DEFINE d == [e EXCEPT !.pending = e.pending \cup {c}]
  <2>1. /\ d.ring = e.ring /\ d.level = e.level /\ d.priority = e.priority
        /\ d.status = e.status
    BY <1>4 DEF Typed
  <2> HIDE DEF d
  <2>2. Idle(s, d)
    BY <1>4, <2>1, SameStatusIsIdle
  <2>3. QED
    BY <1>8, <2>2 DEF Moves, d
<1>9. CASE /\ SwitchTask(s) = Dispatch(e, e.level, "WAIT")
           /\ ReadyLevels(e, e.level) # {}
  <2>1. e.level \in Priority /\ "WAIT" \in Status
    BY <1>6, GoodParts DEF Status
  <2>2. \E p, i : TurnsTo(e, Dispatch(e, e.level, "WAIT"), p, i)
    BY <1>6, <1>9, <2>1, DispatchTurns
  <2>3. Moves(e, Dispatch(e, e.level, "WAIT"))
    BY <2>2 DEF Moves
  <2>4. QED
    BY <1>1, <1>6, <1>9, <2>3, IdleThenMoves
<1>10. QED
  BY <1>2, <1>7, <1>8, <1>9

LEMMA AllowMoves ==
  ASSUME NEW s, Good(s), s.switch_prohibition_level[Current(s)] > 0
  PROVE  Moves(s, Allow(s))
<1> DEFINE c == Current(s)
           e == [s EXCEPT !.switch_prohibition_level[c] = s.switch_prohibition_level[c] - 1]
           f == [e EXCEPT !.pending = e.pending \ {c}]
<1>1. Typed(s) /\ c \in Task /\ Owed(s) /\ s.switch_prohibition_level[c] > 0
  BY GoodParts
<1>2. Allow(s) = IF e.switch_prohibition_level[c] = 0 /\ c \in e.pending
                 THEN SwitchTask(f) ELSE e
  BY DEF Allow
<1> HIDE DEF c
<1>3. [s.switch_prohibition_level EXCEPT ![c] = s.switch_prohibition_level[c] - 1] \in [Task -> Nat]
  BY <1>1 DEF Typed
<1>4. /\ e.ring = s.ring /\ e.level = s.level /\ e.priority = s.priority
      /\ e.status = s.status /\ e.pending = s.pending
      /\ e.switch_prohibition_level =
           [s.switch_prohibition_level EXCEPT ![c] = s.switch_prohibition_level[c] - 1]
      /\ Typed(e)
  BY <1>1, <1>3 DEF Typed
<1> HIDE DEF e
<1>5. /\ f.ring = s.ring /\ f.level = s.level /\ f.priority = s.priority
      /\ f.status = s.status /\ f.pending = s.pending \ {c}
      /\ f.switch_prohibition_level = e.switch_prohibition_level
      /\ Typed(f)
  BY <1>1, <1>4 DEF Typed
<1> HIDE DEF f
<1>6. Good(f) /\ (CurrentRuns(s) => CurrentRuns(f))
  <2>1. \A x \in Task : x # c => f.switch_prohibition_level[x] = s.switch_prohibition_level[x]
    BY <1>1, <1>4, <1>5 DEF Typed
  <2>2. s.pending \subseteq Task
    BY <1>1 DEF Typed
  <2>3. Owed(f)
    BY <1>1, <1>5, <2>1, <2>2 DEF Owed
  <2>4. QED
    BY <1>5, <2>3, SameLinks
<1>7. Idle(s, e) /\ Idle(s, f)
  BY <1>4, <1>5, SameStatusIsIdle
<1>8. Moves(f, SwitchTask(f))
  BY <1>6, SwitchTaskMoves
<1>9. Moves(s, SwitchTask(f))
  BY <1>1, <1>6, <1>7, <1>8, IdleThenMoves
<1>10. Moves(s, e)
  BY <1>7 DEF Moves
<1>11. QED
  BY <1>2, <1>9, <1>10

LEMMA ContinueTaskMoves ==
  ASSUME NEW s, Good(s), NEW t \in Task, s.status[t] = "SLEEP"
  PROVE  Moves(s, ContinueTask(s, t)) /\ Awake(ContinueTask(s, t), t)
<1> DEFINE c == Current(s)
           a == Prohibit(s)
           b == [a EXCEPT !.status[t] = "WAIT"]
           e == IF s.level < s.priority[t] THEN SwitchTask(b) ELSE b
<1>1. Typed(s) /\ c \in Task
  BY GoodParts
<1>2. ContinueTask(s, t) = Allow(e)
  BY DEF ContinueTask
<1>3. /\ Good(a) /\ Current(a) = c /\ (CurrentRuns(s) <=> CurrentRuns(a))
      /\ a.ring = s.ring /\ a.level = s.level
      /\ a.priority = s.priority /\ a.status = s.status
      /\ a.switch_prohibition_level =
           [s.switch_prohibition_level EXCEPT ![c] = s.switch_prohibition_level[c] + 1]
  BY ProhibitGood
<1> HIDE DEF c, a
<1>4. Typed(a) /\ Owed(a)
  BY <1>3 DEF Good
<1>5. [a.status EXCEPT ![t] = "WAIT"] \in [Task -> Status]
  BY <1>4 DEF Typed, Status
<1>6. /\ Typed(b) /\ b.ring = a.ring /\ b.level = a.level /\ b.priority = a.priority
      /\ b.status = [a.status EXCEPT ![t] = "WAIT"]
      /\ b.switch_prohibition_level = a.switch_prohibition_level
      /\ b.pending = a.pending
  BY <1>4, <1>5 DEF Typed
<1> HIDE DEF b
<1>7. Good(b) /\ Current(b) = c /\ (CurrentRuns(s) => CurrentRuns(b))
  <2>1. Owed(b) /\ a.status[t] = "SLEEP"
    BY <1>3, <1>4, <1>6 DEF Owed
  <2>2. QED
    BY <1>3, <1>6, <2>1, Readied
<1>8. b.switch_prohibition_level[c] > 0
  BY <1>1, <1>3, <1>6 DEF Typed
<1>9. s.status \in [Task -> Status] /\ b.status = [s.status EXCEPT ![t] = "WAIT"]
  BY <1>1, <1>3, <1>6 DEF Typed
<1>10. /\ Good(e) /\ (CurrentRuns(b) => CurrentRuns(e))
       /\ e.switch_prohibition_level = b.switch_prohibition_level
       /\ e.ring = b.ring /\ e.level = b.level /\ e.status = b.status
       /\ e.priority = b.priority
  <2>1. CASE e = SwitchTask(b)
    BY <1>7, <1>8, <2>1, SwitchTaskGood DEF Gives
  <2>2. CASE e = b
    BY <1>7, <2>2
  <2>3. QED
    BY <2>1, <2>2
<1> HIDE DEF e
<1>11. Current(e) = c
  BY <1>7, <1>10 DEF Current
<1>12. Moves(e, Allow(e)) /\ Gives(e, Allow(e), {c})
  BY <1>8, <1>10, <1>11, AllowMoves, AllowGood
<1>13. Idle(s, e)
  BY <1>3, <1>6, <1>9, <1>10 DEF Idle
<1>14. Moves(s, Allow(e))
  BY <1>1, <1>7, <1>10, <1>12, <1>13, IdleThenMoves
<1>15. Awake(e, t)
  BY <1>9, <1>10 DEF Awake
<1>16. QED
  BY <1>2, <1>12, <1>14, <1>15 DEF Gives

LEMMA WakeUpMoves ==
  ASSUME NEW s, Good(s), NEW t \in Task
  PROVE  Moves(s, WakeUp(s, t)) /\ WakeUp(s, t).status[t] # "SLEEP"
<1>1. CASE s.status[t] = "SLEEP"
  BY <1>1, ContinueTaskMoves DEF WakeUp, Awake
<1>2. CASE s.status[t] # "SLEEP"
  BY <1>2, SameStatusIsIdle DEF WakeUp, Moves
<1>3. QED
  BY <1>1, <1>2

(* A second switch_task() does nothing to the turns of a first one: it is  *)
(* called only when the first was none.                                    *)
LEMMA MovesOnce ==
  ASSUME NEW s, Good(s), CurrentRuns(s), NEW w, Good(w), CurrentRuns(w), Moves(s, w),
         Current(w) = Current(s)
  PROVE  Moves(s, SwitchTask(w))
<1>1. Typed(s)
  BY DEF Good
<1>2. Idle(s, w)
  <2>1. ASSUME NEW p, NEW i, TurnsTo(s, w, p, i)  PROVE FALSE
    <3>1. Current(w) = s.ring[p][i]
      BY <1>1, <2>1, TurnsToCurrent
    <3>2. QED
      BY <2>1, <3>1 DEF TurnsTo
  <2>2. QED
    BY <2>1 DEF Moves
<1>3. Moves(w, SwitchTask(w))
  BY SwitchTaskMoves
<1>4. QED
  BY <1>1, <1>2, <1>3, IdleThenMoves

(* Where a change of turns leaves the task with turn k: no further back,   *)
(* and nearer if another task of its level runs.                           *)
LEMMA MovesForward ==
  ASSUME NEW s, Typed(s), NEW d, Moves(s, d), NEW t \in Task,
         s.status[t] = "WAIT", d.status[t] = "WAIT", NEW k, HasTurn(s, t, k)
  PROVE  \E j \in 1 .. k : /\ HasTurn(d, t, j)
                           /\ Current(d) # Current(s) /\ d.level = s.priority[t] => j < k
<1> DEFINE q == s.priority[t]
<1>1. /\ q \in Priority /\ s.ring \in [Priority -> Seq(Task)] /\ s.ring[q] \in Seq(Task)
      /\ k \in 1 .. Len(s.ring[q]) /\ s.ring[q][k] = t
  BY DEF Typed, HasTurn
<1> HIDE DEF q
<1>2. k \in 1 .. k /\ k \in Nat
  BY <1>1
<1>3. CASE Idle(s, d)
  <2>1. HasTurn(d, t, k)
    BY <1>3 DEF Idle, HasTurn
  <2>2. Current(d) = Current(s)
    BY <1>3 DEF Idle, Current
  <2>3. QED
    BY <1>2, <2>1, <2>2
<1>4. ASSUME NEW p, NEW i, TurnsTo(s, d, p, i)
      PROVE  \E j \in 1 .. k : /\ HasTurn(d, t, j)
                               /\ d.level = s.priority[t] => j < k
  <2>1. /\ p \in Priority /\ i \in 1 .. Len(s.ring[p])
        /\ d.ring = [s.ring EXCEPT ![p] = Rotate(s.ring[p], i)]
        /\ d.level = p /\ d.priority = s.priority
        /\ d.status[s.ring[p][i]] = "RUN"
        /\ \A m \in 1 .. Len(s.ring[p]) : s.status[s.ring[p][m]] = "WAIT" => i <= m
    BY <1>4 DEF TurnsTo
  <2>2. CASE p = q
    <3>1. i <= k /\ i # k
      BY <1>1, <2>1, <2>2
    <3>2. i \in 1 .. Len(s.ring[q]) /\ i < k
      BY <1>1, <2>1, <2>2, <3>1
    <3>3. k - i \in 1 .. Len(Rotate(s.ring[q], i)) /\ Rotate(s.ring[q], i)[k - i] = t
      BY <1>1, <3>2, RotateForward
    <3>4. d.ring[d.priority[t]] = Rotate(s.ring[q], i)
      BY <1>1, <2>1, <2>2 DEF q
    <3>5. HasTurn(d, t, k - i) /\ k - i \in 1 .. k /\ k - i < k
      BY <1>1, <3>2, <3>3, <3>4 DEF HasTurn
    <3>6. QED
      BY <3>5
  <2>3. CASE p # q
    <3>1. d.ring[d.priority[t]] = s.ring[q]
      BY <1>1, <2>1, <2>3 DEF q
    <3>2. HasTurn(d, t, k) /\ d.level # s.priority[t]
      BY <1>1, <2>1, <2>3, <3>1 DEF HasTurn, q
    <3>3. QED
      BY <1>2, <3>2
  <2>4. QED
    BY <2>2, <2>3
<1>5. QED
  BY <1>3, <1>4 DEF Moves

LEMMA MovesNearer ==
  ASSUME NEW s, Good(s), NEW d, Good(d), Moves(s, d), NEW t \in Task,
         s.status[t] = "WAIT", d.status[t] = "WAIT"
  PROVE  ComesNearer(s, d, t)
<1>1. Typed(s) /\ Linked(s) /\ Typed(d) /\ Linked(d)
  BY DEF Good
<1>2. PICK k : HasTurn(s, t, k)
  BY WaitingHasTurn
<1>3. PICK j \in 1 .. k : /\ HasTurn(d, t, j)
                          /\ Current(d) # Current(s) /\ d.level = s.priority[t] => j < k
  BY <1>1, <1>2, MovesForward
<1>4. TurnOf(s, t) = k /\ TurnOf(d, t) = j
  BY <1>1, <1>2, <1>3, OneTurn
<1>5. j <= k
  BY <1>3
<1>6. QED
  BY <1>3, <1>4, <1>5 DEF ComesNearer
-----------------------------------------------------------------------------
(* The steps that do more to a ring than to turn it.  A new task stands    *)
(* before the last one of its ring.                                        *)
LEMMA CreateComesNearer ==
  ASSUME IInv, NEW c \in Task, NEW t \in Pool, NEW p \in TaskPriorities,
         NEW owner \in {c, main_task}, CreateTask(c, t, p, owner),
         NEW x \in Task, sched.status[x] = "WAIT"
  PROVE  ComesNearer(sched, sched', x)
<1> DEFINE q == sched.priority[x]
           r == sched.ring[q]
<1>0. p \in Priority /\ t \in Task
  BY Constants DEF Priority
<1>1. /\ sched.status[t] = "FREE"
      /\ sched' = [sched EXCEPT !.ring[p] = Insert(@, t), !.priority[t] = p,
                                !.status[t] = "SLEEP", !.switch_prohibition_level[t] = 0,
                                !.pending = @ \ {t}, !.elapsed_time[t] = 0,
                                !.fresh = @ \cup {t}]
      /\ c = Current(sched)
  BY DEF CreateTask, Works, Runs
<1>2. IInv'
  BY CreateStep
<1>3. Typed(sched) /\ Linked(sched) /\ Typed(sched') /\ Linked(sched') /\ Good(sched)
  BY <1>2 DEF IInv, Good
<1>4. /\ sched'.ring = [sched.ring EXCEPT ![p] = Insert(sched.ring[p], t)]
      /\ sched'.priority = [sched.priority EXCEPT ![t] = p]
      /\ sched'.status = [sched.status EXCEPT ![t] = "SLEEP"]
  BY <1>1, <1>3 DEF Typed
<1>5. PICK k : HasTurn(sched, x, k)
  BY <1>3, WaitingHasTurn
<1>6. /\ q \in Priority /\ r \in Seq(Task) /\ k \in 1 .. Len(r) /\ r[k] = x /\ x # t
      /\ sched.ring \in [Priority -> Seq(Task)] /\ sched.priority \in [Task -> Priority]
      /\ sched.status \in [Task -> Status]
  <2>1. /\ sched.ring \in [Priority -> Seq(Task)] /\ sched.priority \in [Task -> Priority]
        /\ sched.status \in [Task -> Status]
    BY <1>3 DEF Typed
  <2>2. q \in Priority /\ r \in Seq(Task)
    BY <2>1
  <2>3. k \in 1 .. Len(r) /\ r[k] = x
    BY <1>5 DEF HasTurn
  <2>4. x # t
    BY <1>1
  <2>5. QED
    BY <2>1, <2>2, <2>3, <2>4
<1>7. sched'.priority[x] = q
  BY <1>4, <1>6
<1> HIDE DEF q, r
<1>8. TurnOf(sched, x) = k
  BY <1>3, <1>5, OneTurn
<1>9. Current(sched') = Current(sched)
  BY <1>1, CreateOrders
<1>10. CASE p # q
  <2>1. sched'.ring[q] = r
    BY <1>4, <1>6, <1>10 DEF r
  <2>2. HasTurn(sched', x, k)
    BY <1>6, <1>7, <2>1 DEF HasTurn
  <2>3. TurnOf(sched', x) = k
    BY <1>3, <2>2, OneTurn
  <2>4. k <= k
    BY <1>6
  <2>5. QED
    BY <1>8, <1>9, <2>3, <2>4 DEF ComesNearer
<1>11. CASE p = q
  <2> DEFINE j == IF k < Len(r) THEN k ELSE k + 1
  <2>1. sched'.ring[q] = Insert(r, t)
    BY <1>4, <1>6, <1>11 DEF r
  <2>2. j \in 1 .. Len(Insert(r, t)) /\ Insert(r, t)[j] = x
    BY <1>6, InsertShifts
  <2>3. HasTurn(sched', x, j)
    BY <1>7, <2>1, <2>2 DEF HasTurn
  <2> HIDE DEF j
  <2>4. TurnOf(sched', x) = j
    BY <1>3, <2>3, OneTurn
  <2>5. CASE k < Len(r)
    <3>1. j <= k
      BY <1>6, <2>5 DEF j
    <3>2. QED
      BY <1>8, <1>9, <2>4, <3>1 DEF ComesNearer
  <2>6. CASE ~(k < Len(r))
    <3>1. k = Len(r) /\ j = k + 1
      BY <1>6, <2>6 DEF j
    <3>2. sched'.status[t] = "SLEEP" /\ sched'.priority[t] = q
      BY <1>0, <1>4, <1>6, <1>11
    <3>3. NewcomerBefore(sched, sched', x)
      BY <1>1, <1>8, <2>4, <3>1, <3>2 DEF NewcomerBefore, q, r
    <3>4. QED
      BY <1>9, <3>3 DEF ComesNearer
  <2>7. QED
    BY <2>5, <2>6
<1>12. QED
  BY <1>10, <1>11

(* close_task() wakes the parent before anything else.                     *)
LEMMA TellingDisturbsNobody ==
  ASSUME IInv, NEW c \in Task, MayClose(c)
  PROVE  LET told == WakeUp(Prohibit(sched), parent[c])
         IN Idle(sched, told) /\ Awake(told, parent[c])
<1> DEFINE q == parent[c]
           a == Prohibit(sched)
           told == WakeUp(a, q)
<1>1. /\ q \in Task /\ queue[q] # "NONE"
      /\ told.ring = sched.ring /\ told.level = sched.level
      /\ told.priority = sched.priority
      /\ \A x \in Task : x # q => told.status[x] = sched.status[x]
      /\ \A x \in Task : Exists(told, x) <=> Exists(sched, x)
      /\ Good(told)
  BY TellingParent
<1>2. Good(a) /\ a.status = sched.status
  BY ProhibitGood DEF IInv
<1> HIDE DEF q, a
<1>3. told.status[q] # "SLEEP"
  BY <1>1, <1>2, WakeUpMoves
<1>4. Exists(told, q)
  BY <1>1 DEF IInv, Queues
<1>5. sched.status[q] = "WAIT" => told.status[q] = "WAIT"
  BY <1>2 DEF WakeUp
<1> HIDE DEF told
<1>6. told.status[q] \in Status
  BY <1>1 DEF Good, Typed
<1>7. Awake(told, q)
  BY <1>3, <1>4, <1>6 DEF Awake, Exists, Status
<1>8. Idle(sched, told)
  BY <1>1, <1>5 DEF Idle
<1>9. QED
  BY <1>7, <1>8 DEF told, a, q

(* The task that closes is the last of its ring, and the others keep their *)
(* places when it is gone.                                                 *)
LEMMA OthersKeepPlaces ==
  ASSUME NEW r \in Seq(Task), NEW k \in 1 .. Len(r), r[k] # r[Len(r)]
  PROVE  /\ WithoutCurrent(r) \in Seq(Task)
         /\ k \in 1 .. Len(WithoutCurrent(r)) /\ WithoutCurrent(r)[k] = r[k]
<1> DEFINE n == Len(r)
           w == WithoutCurrent(r)
<1>1. n \in Nat \ {0} /\ k \in 1 .. n /\ k # n /\ \A m \in 1 .. n : r[m] \in Task
  OBVIOUS
<1>2. w = [m \in 1 .. n - 1 |-> r[m]]
  BY DEF WithoutCurrent
<1> HIDE DEF w, n
<1>3. w \in [1 .. n - 1 -> Task] /\ n - 1 \in Nat /\ k \in 1 .. n - 1
  BY <1>1, <1>2
<1>4. w \in Seq(Task) /\ Len(w) = n - 1
  BY <1>3
<1>5. QED
  BY <1>2, <1>3, <1>4 DEF w

(* close_task(): the first that waits in the highest level runs, whether   *)
(* or not that is the level of the task that closes.                       *)
LEMMA CloseComesNearer ==
  ASSUME IInv, NEW c \in Task, CloseTask(c)
  PROVE  /\ \A x \in Task : sched.status[x] = "WAIT" /\ sched'.status[x] = "WAIT" =>
                              ComesNearer(sched, sched', x)
         /\ sched'.status[parent[c]] # "SLEEP"
         /\ \A x \in Task \ {c} : sched'.priority[x] = sched.priority[x]
         /\ sched'.priority[c] = IDLE
<1> DEFINE l == sched.level
           told == WakeUp(Prohibit(sched), parent[c])
           next == Dispatch(told, IDLE, "FREE")
           p == Greatest(ReadyLevels(told, IDLE))
           i == Least(Waiting(told, p))
           t == told.ring[p][i]
           w == WithoutCurrent(told.ring[l])
           ring == IF next.level = l THEN Rotate(w, Least(Waiting(told, l)))
                   ELSE WithoutCurrent(next.ring[l])
           d == sched'
<1>1. /\ MayClose(c) /\ ReadyLevels(told, IDLE) # {}
      /\ d = Forget([next EXCEPT !.ring = [next.ring EXCEPT ![l] = ring]], c)
  BY DEF CloseTask
<1>2. /\ c = Current(sched) /\ parent[c] \in Task /\ parent[c] # c
      /\ Good(told) /\ Current(told) = c /\ told.status[c] = "RUN"
      /\ told.ring = sched.ring /\ told.level = l /\ told.priority = sched.priority
  BY <1>1, TellingParent
<1>3. Idle(sched, told) /\ Awake(told, parent[c])
  BY <1>1, TellingDisturbsNobody
<1>4. Good(sched) /\ Good(d)
  BY CloseStep DEF IInv
<1> HIDE DEF told, next, p, d
<1>5. /\ Typed(told) /\ told.ring[told.level] # << >> /\ IDLE \in Priority
      /\ "FREE" \in Status
  BY <1>2, Constants DEF Good, Status
<1>6. Switched(told, next, IDLE, "FREE", p, i)
  BY <1>1, <1>5, DispatchFields DEF next, p
<1>7. /\ p \in Priority /\ i \in 1 .. Len(told.ring[p]) /\ told.status[t] = "WAIT"
      /\ Typed(next) /\ next.level = p /\ next.priority = told.priority
      /\ next.ring = [told.ring EXCEPT ![p] = Rotate(told.ring[p], i)]
      /\ next.status = [told.status EXCEPT ![c] = "FREE", ![t] = "RUN"]
  BY <1>2, <1>6 DEF Switched
<1>8. p = l => Least(Waiting(told, l)) = i
  OBVIOUS
<1> HIDE DEF i
<1>9. /\ told.ring \in [Priority -> Seq(Task)] /\ told.status \in [Task -> Status]
      /\ told.priority \in [Task -> Priority] /\ l \in Priority
  BY <1>2, <1>5 DEF Typed
<1>10. t \in Task
  BY <1>7, <1>9
<1> HIDE DEF t, ring, w
<1>11. /\ d.ring = [next.ring EXCEPT ![l] = ring] /\ d.level = p
       /\ d.priority = [told.priority EXCEPT ![c] = IDLE] /\ d.status = next.status
  BY <1>1, <1>7 DEF Typed, Forget
<1>12. /\ \A x \in Task : d.status[x] = IF x = t THEN "RUN"
                                        ELSE IF x = c THEN "FREE" ELSE told.status[x]
       /\ \A x \in Task : d.priority[x] = IF x = c THEN IDLE ELSE told.priority[x]
       /\ \A x \in Priority : d.ring[x] = IF x = l THEN ring ELSE next.ring[x]
       /\ \A x \in Priority :
            next.ring[x] = IF x = p THEN Rotate(told.ring[p], i) ELSE told.ring[x]
  BY <1>7, <1>9, <1>10, <1>11
<1>13. told.ring[l] \in Seq(Task) /\ told.ring[l][Len(told.ring[l])] = c
  BY <1>2, <1>9 DEF Current
<1>14. ASSUME NEW x \in Task, sched.status[x] = "WAIT", d.status[x] = "WAIT"
       PROVE  ComesNearer(sched, d, x)
  <2> DEFINE q == told.priority[x]
  <2>1. PICK k : HasTurn(sched, x, k)
    BY <1>4, <1>14, WaitingHasTurn
  <2>2. /\ q \in Priority /\ k \in 1 .. Len(told.ring[q]) /\ told.ring[q][k] = x
        /\ told.ring[q] \in Seq(Task) /\ k \in Nat
    BY <1>2, <1>9, <2>1 DEF HasTurn
  <2>3. told.status[x] = "WAIT" /\ x # c /\ x # t
    BY <1>2, <1>3, <1>12, <1>14 DEF Idle
  <2>4. d.priority[x] = q /\ sched.priority[x] = q
    BY <1>2, <1>12, <2>3
  <2> HIDE DEF q
  <2>5. q = l => w \in Seq(Task) /\ k \in 1 .. Len(w) /\ w[k] = x
    BY <1>13, <2>2, <2>3, OthersKeepPlaces DEF w
  <2>6. q = p => i <= k /\ i # k
    <3>1. q = p => i <= k
      BY <1>5, <2>2, <2>3, FirstWaits DEF i
    <3>2. q = p => i # k
      BY <2>2, <2>3 DEF t
    <3>3. QED
      BY <3>1, <3>2
  <2>7. \E j \in 1 .. k : HasTurn(d, x, j) /\ (d.level = q => j < k)
    <3>1. CASE q = p /\ p = l
      <4>1. d.ring[q] = Rotate(w, i)
        BY <1>7, <1>8, <1>12, <2>2, <3>1 DEF ring
      <4>2. i \in 1 .. Len(w) /\ i < k
        BY <1>7, <2>2, <2>5, <2>6, <3>1
      <4>3. k - i \in 1 .. Len(Rotate(w, i)) /\ Rotate(w, i)[k - i] = x
        BY <2>5, <3>1, <4>2, RotateForward
      <4>4. HasTurn(d, x, k - i)
        BY <2>4, <4>1, <4>3 DEF HasTurn
      <4>5. k - i \in 1 .. k /\ k - i < k
        BY <2>2, <4>2
      <4>6. QED
        BY <4>4, <4>5
    <3>2. CASE q = p /\ p # l
      <4>1. d.ring[q] = Rotate(told.ring[q], i)
        BY <1>12, <2>2, <3>2
      <4>2. i \in 1 .. Len(told.ring[q]) /\ i < k
        BY <1>7, <2>2, <2>6, <3>2
      <4>3. k - i \in 1 .. Len(Rotate(told.ring[q], i)) /\ Rotate(told.ring[q], i)[k - i] = x
        BY <2>2, <4>2, RotateForward
      <4>4. HasTurn(d, x, k - i)
        BY <2>4, <4>1, <4>3 DEF HasTurn
      <4>5. k - i \in 1 .. k /\ k - i < k
        BY <2>2, <4>2
      <4>6. QED
        BY <4>4, <4>5
    <3>3. CASE q # p /\ q = l
      <4>1. d.ring[q] = w
        BY <1>7, <1>9, <1>12, <2>2, <3>3 DEF ring, w
      <4>2. HasTurn(d, x, k)
        BY <2>4, <2>5, <3>3, <4>1 DEF HasTurn
      <4>3. k \in 1 .. k /\ d.level # q
        BY <1>11, <2>2, <3>3
      <4>4. QED
        BY <4>2, <4>3
    <3>4. CASE q # p /\ q # l
      <4>1. d.ring[q] = told.ring[q]
        BY <1>12, <2>2, <3>4
      <4>2. HasTurn(d, x, k)
        BY <2>2, <2>4, <4>1 DEF HasTurn
      <4>3. k \in 1 .. k /\ d.level # q
        BY <1>11, <2>2, <3>4
      <4>4. QED
        BY <4>2, <4>3
    <3>5. QED
      BY <3>1, <3>2, <3>3, <3>4
  <2>8. PICK j \in 1 .. k : HasTurn(d, x, j) /\ (d.level = q => j < k)
    BY <2>7
  <2>9. TurnOf(sched, x) = k /\ TurnOf(d, x) = j
    BY <1>4, <2>1, <2>8, OneTurn DEF Good
  <2>10. j <= k
    BY <2>2, <2>8
  <2>11. QED
    BY <2>4, <2>8, <2>9, <2>10 DEF ComesNearer
<1>15. d.status[parent[c]] # "SLEEP"
  BY <1>2, <1>3, <1>12 DEF Awake
<1>16. (\A x \in Task \ {c} : d.priority[x] = sched.priority[x]) /\ d.priority[c] = IDLE
  BY <1>2, <1>12
<1>17. QED
  BY <1>14, <1>15, <1>16 DEF d

(* Commands and consoles rank below the main task.                         *)
PoolIsBelow == \A x \in Pool : sched.priority[x] < KERNEL

(* A close_task() that is interrupted: the rest of the level keeps its     *)
(* places, and the main task runs.                                         *)
LEMMA InterruptedComesNearer ==
  ASSUME IInv, PoolIsBelow, NEW c \in Task, CloseTaskInterrupted(c)
  PROVE  /\ \A x \in Task : sched.status[x] = "WAIT" /\ sched'.status[x] = "WAIT" =>
                              ComesNearer(sched, sched', x)
         /\ sched'.status[parent[c]] # "SLEEP"
         /\ \A x \in Task \ {c} : sched'.priority[x] = sched.priority[x]
         /\ sched'.priority[c] = IDLE
<1> DEFINE l == sched.level
           told == WakeUp(Prohibit(sched), parent[c])
           w == WithoutCurrent(told.ring[l])
           u == Forget([told EXCEPT !.ring[l] = w, !.status[c] = "LOST"], c)
           woken == WakeUp(u, main_task)
           d == sched'
<1>1. /\ MayClose(c) /\ w # << >>
      /\ d = IF woken.level = l THEN SwitchTask(woken) ELSE woken
      /\ d.status[main_task] = "RUN"
  BY DEF CloseTaskInterrupted
<1>2. /\ c = Current(sched) /\ c \in Pool /\ parent[c] \in Task /\ parent[c] # c
      /\ Good(told) /\ Current(told) = c
      /\ told.ring = sched.ring /\ told.level = l /\ told.priority = sched.priority
  BY <1>1, TellingParent
<1>3. Idle(sched, told) /\ Awake(told, parent[c])
  BY <1>1, TellingDisturbsNobody
<1>4. /\ Good(sched) /\ Good(d) /\ sched.status[c] = "RUN" /\ sched.priority[c] = l
      /\ main_task \in Task /\ main_task # c
  BY <1>2, CloseInterruptedStep, RunningTask, Constants DEF IInv
<1> HIDE DEF told, w, d
<1>5. /\ Typed(told) /\ l \in Priority /\ l \in 0 .. 3 /\ l < 3
  BY <1>2, <1>4, Constants, GoodParts DEF Good, Typed, PoolIsBelow
<1> HIDE DEF l
<1>6. /\ u.ring = [told.ring EXCEPT ![l] = w] /\ u.level = told.level
      /\ u.priority = [told.priority EXCEPT ![c] = IDLE]
      /\ u.status = [told.status EXCEPT ![c] = "LOST"]
      /\ u.switch_prohibition_level = [told.switch_prohibition_level EXCEPT ![c] = 0]
      /\ u.pending = told.pending \ {c}
      /\ u.elapsed_time = [told.elapsed_time EXCEPT ![c] = 0]
      /\ u.fresh = told.fresh
  BY <1>5 DEF Forget, Typed
<1>7. Unlinked(told, u, c, "LOST")
  <2>1. u = [ring |-> u.ring, level |-> u.level, priority |-> u.priority,
             status |-> u.status, switch_prohibition_level |-> u.switch_prohibition_level,
             pending |-> u.pending, elapsed_time |-> u.elapsed_time, fresh |-> told.fresh]
    <3>1. u \in [ring : {u.ring}, level : {u.level}, priority : {u.priority},
                 status : {u.status}, switch_prohibition_level : {u.switch_prohibition_level},
                 pending : {u.pending}, elapsed_time : {u.elapsed_time}, fresh : {u.fresh}]
      BY <1>5 DEF Forget, Typed
    <3> HIDE DEF u
    <3>2. QED
      BY <1>6, <3>1
  <2> HIDE DEF u
  <2>2. QED
    BY <1>2, <1>5, <1>6, <2>1 DEF Unlinked, w
<1> HIDE DEF u
<1>8. /\ Typed(u) /\ Linked(u) /\ Permanent(u) /\ Owed(u)
      /\ \A x \in Task : u.status[x] # "RUN"
      /\ \A x \in Task : x # c => u.status[x] = told.status[x]
                                  /\ u.priority[x] = told.priority[x]
  BY <1>2, <1>7, UnlinkedGood
<1>9. told.ring \in [Priority -> Seq(Task)] /\ told.ring[l] \in Seq(Task)
  BY <1>5 DEF Typed
<1>10. Good(u)
  <2>1. u.ring[u.level] = w
    BY <1>2, <1>5, <1>6, <1>9
  <2>2. QED
    BY <1>1, <1>8, <2>1 DEF Good, OnlyCurrentRuns
<1>11. /\ Moves(u, woken) /\ woken.status[main_task] # "SLEEP" /\ Good(woken)
       /\ Gives(u, woken, {Current(u), main_task})
  BY <1>4, <1>10, WakeUpMoves, WakeUpGood DEF Wakes
<1>12. CurrentRuns(u) => FALSE
  BY <1>8, <1>10, GoodParts DEF CurrentRuns
<1> HIDE DEF woken
<1>13. ASSUME NEW p, NEW i, TurnsTo(u, woken, p, i)  PROVE woken.level # l
  <2>1. NoneAbove(woken)
    BY <1>13 DEF TurnsTo
  <2>2. /\ woken.status[main_task] \in {"SLEEP", "WAIT", "RUN"}
        /\ woken.priority[main_task] = 3
    BY <1>11, Constants DEF Good, Permanent
  <2>3. CASE woken.status[main_task] = "RUN"
    <3>1. woken.level = 3
      BY <1>4, <1>11, <2>2, <2>3, GoodParts DEF Good, OnlyCurrentRuns
    <3>2. QED
      BY <1>5, <3>1
  <2>4. CASE woken.status[main_task] = "WAIT"
    <3>1. 3 <= woken.level
      BY <1>4, <2>1, <2>2, <2>4 DEF NoneAbove
    <3>2. QED
      BY <1>5, <3>1
  <2>5. QED
    BY <1>11, <2>2, <2>3, <2>4
<1>14. Moves(u, d) /\ d.priority = u.priority /\ (Awake(u, parent[c]) => Awake(d, parent[c]))
  <2>1. CASE woken.level = l
    <3>1. Idle(u, woken)
      BY <1>11, <1>13, <2>1 DEF Moves
    <3>2. d = SwitchTask(woken)
      BY <1>1, <2>1
    <3>3. Moves(woken, d) /\ Gives(woken, d, {Current(woken)})
      BY <1>11, <3>2, SwitchTaskMoves, SwitchTaskGood
    <3>4. Moves(u, d)
      BY <1>8, <1>12, <3>1, <3>3, IdleThenMoves
    <3>5. QED
      BY <1>2, <1>11, <3>3, <3>4 DEF Gives
  <2>2. CASE woken.level # l
    BY <1>1, <1>2, <1>11, <2>2 DEF Gives
  <2>3. QED
    BY <2>1, <2>2
<1>15. told.priority \in [Task -> Priority]
  BY <1>5 DEF Typed
<1>16. (\A x \in Task \ {c} : d.priority[x] = sched.priority[x]) /\ d.priority[c] = IDLE
  BY <1>2, <1>6, <1>14, <1>15
<1>17. d.status[parent[c]] # "SLEEP"
  BY <1>2, <1>3, <1>8, <1>14 DEF Awake
<1>18. d.level = 3
  BY <1>1, <1>4, Constants, GoodParts DEF Good, OnlyCurrentRuns, Permanent
<1>19. ASSUME NEW x \in Task, sched.status[x] = "WAIT", d.status[x] = "WAIT"
       PROVE  ComesNearer(sched, d, x)
  <2> DEFINE q == told.priority[x]
  <2>1. PICK k : HasTurn(sched, x, k)
    BY <1>4, <1>19, WaitingHasTurn
  <2>2. /\ q \in Priority /\ k \in 1 .. Len(told.ring[q]) /\ told.ring[q][k] = x
        /\ told.ring[q] \in Seq(Task) /\ k \in Nat
    BY <1>2, <1>9, <1>15, <2>1 DEF HasTurn
  <2>3. x # c /\ u.status[x] = "WAIT" /\ u.priority[x] = q /\ sched.priority[x] = q
    BY <1>2, <1>3, <1>4, <1>8, <1>19 DEF Idle
  <2> HIDE DEF q
  <2>4. HasTurn(u, x, k)
    <3>1. CASE q = l
      <4>1. told.ring[l][Len(told.ring[l])] = c
        BY <1>2 DEF Current
      <4>2. k \in 1 .. Len(w) /\ w[k] = x
        BY <1>9, <2>2, <2>3, <3>1, <4>1, OthersKeepPlaces DEF w
      <4>3. u.ring[q] = w
        BY <1>5, <1>6, <1>9, <3>1
      <4>4. QED
        BY <2>3, <4>2, <4>3 DEF HasTurn
    <3>2. CASE q # l
      <4>1. u.ring[q] = told.ring[q]
        BY <1>6, <1>9, <2>2, <3>2
      <4>2. QED
        BY <2>2, <2>3, <4>1 DEF HasTurn
    <3>3. QED
      BY <3>1, <3>2
  <2>5. PICK j \in 1 .. k : HasTurn(d, x, j)
    BY <1>8, <1>14, <1>19, <2>3, <2>4, MovesForward
  <2>6. TurnOf(sched, x) = k /\ TurnOf(d, x) = j
    BY <1>4, <2>1, <2>5, OneTurn DEF Good
  <2>7. j <= k
    BY <2>2, <2>5
  <2>8. q # 3
    <3>1. CASE x \in Pool
      BY <2>2, <2>3, <3>1, Constants DEF PoolIsBelow
    <3>2. CASE x = main_task
      BY <1>1, <1>19, <3>2
    <3>3. CASE x = idle_task
      BY <1>4, <2>3, <3>3, Constants DEF Good, Permanent
    <3>4. QED
      BY <3>1, <3>2, <3>3 DEF Task
  <2>9. QED
    BY <1>18, <2>3, <2>6, <2>7, <2>8 DEF ComesNearer
<1>20. QED
  BY <1>16, <1>17, <1>19 DEF d
-----------------------------------------------------------------------------
(* Every other step hands the processor over once at most.                 *)
LEMMA WakingMoves ==
  ASSUME IInv, NEW t \in Task,
         \/ sched' = WakeUp(sched, t)
         \/ /\ sched' = SwitchTask(WakeUp(sched, t))
            /\ Current(WakeUp(sched, t)) = Current(sched)
  PROVE  Moves(sched, sched')
<1> DEFINE v == WakeUp(sched, t)
<1>1. Good(sched) /\ CurrentRuns(sched)
  BY DEF IInv
<1>2. Good(v) /\ CurrentRuns(v) /\ Moves(sched, v)
  BY <1>1, WakeUpGood, WakeUpMoves DEF Wakes
<1> HIDE DEF v
<1>3. Current(v) = Current(sched) => Moves(sched, SwitchTask(v))
  BY <1>1, <1>2, MovesOnce
<1>4. QED
  BY <1>2, <1>3 DEF v

LEMMA StartIsIdle ==
  ASSUME IInv, NEW c \in Task, StartTask(c)
  PROVE  Idle(sched, sched')
<1> DEFINE t == creating[c]
<1>1. sched' = [sched EXCEPT !.status[t] = "WAIT", !.elapsed_time[t] = 0]
  BY DEF StartTask
<1>2. Typed(sched)
  BY RunningTask
<1> HIDE DEF t
<1>3. sched.status \in [Task -> Status]
  BY <1>2 DEF Typed
<1>4. /\ sched'.ring = sched.ring /\ sched'.level = sched.level
      /\ sched'.priority = sched.priority
      /\ sched'.status = [sched.status EXCEPT ![t] = "WAIT"]
  BY <1>1, <1>2 DEF Typed
<1>5. QED
  BY <1>3, <1>4 DEF Idle

LEMMA NextMoves ==
  ASSUME IInv, [Next]_vars
  PROVE  \/ Moves(sched, sched')
         \/ \E c \in Task : CloseTask(c) \/ CloseTaskInterrupted(c)
         \/ \E c \in Task, t \in Pool, p \in TaskPriorities :
              \E owner \in {c, main_task} : CreateTask(c, t, p, owner)
<1>0. Good(sched) /\ CurrentRuns(sched) /\ main_task \in Task
  BY Constants DEF IInv
<1>1. ASSUME sched' = sched  PROVE Moves(sched, sched')
  BY <1>1, SameStatusIsIdle DEF Moves
<1>2. ASSUME NEW c \in Task, ProhibitSwitchTask(c)  PROVE Moves(sched, sched')
  <2>1. sched' = Prohibit(sched)
    BY <1>2 DEF ProhibitSwitchTask
  <2> DEFINE d == Prohibit(sched)
  <2>2. /\ d.ring = sched.ring /\ d.level = sched.level
        /\ d.priority = sched.priority /\ d.status = sched.status
    BY <1>0, ProhibitGood
  <2> HIDE DEF d
  <2>3. Idle(sched, d)
    BY <2>2, SameStatusIsIdle
  <2>4. QED
    BY <2>1, <2>3 DEF Moves, d
<1>3. ASSUME NEW c \in Task, AllowSwitchTask(c)  PROVE Moves(sched, sched')
  <2>1. /\ sched' = Allow(sched) /\ c = Current(sched)
        /\ sched.switch_prohibition_level[c] > 0
    BY <1>3 DEF AllowSwitchTask, Works, Runs
  <2>2. QED
    BY <1>0, <2>1, AllowMoves
<1>4. ASSUME NEW c \in Task,
             CreateEventQueue(c) \/ Dequeue(c) \/ DequeueNothing(c) \/ HaltInSystemCall(c)
      PROVE  Moves(sched, sched')
  BY <1>1, <1>4 DEF CreateEventQueue, Dequeue, DequeueNothing, HaltInSystemCall
<1>5. ASSUME NEW c \in Task, SleepTask(c)  PROVE Moves(sched, sched')
  <2>1. ReadyLevels(sched, IDLE) # {} /\ sched' = Dispatch(sched, IDLE, "SLEEP")
    BY <1>5 DEF SleepTask
  <2>2. IDLE \in Priority /\ "SLEEP" \in Status
    BY Constants DEF Status
  <2>3. QED
    BY <1>0, <2>1, <2>2, DispatchTurns DEF Moves
<1>6. ASSUME NEW c \in Task, StartTask(c)  PROVE Moves(sched, sched')
  BY <1>6, StartIsIdle DEF Moves
<1>9. ASSUME NEW c \in Task, NEW t \in Task, Send(c, t)  PROVE Moves(sched, sched')
  BY <1>9, WakingMoves DEF Send
<1>11. CASE DeviceInterrupt
  BY <1>0, <1>11, WakingMoves DEF DeviceInterrupt
<1>12. CASE PitInterrupt
  BY <1>0, <1>12, WakingMoves DEF PitInterrupt
<1>13. CASE PitSwitch
  BY <1>0, <1>13, SwitchTaskMoves DEF PitSwitch
<1>14. CASE UNCHANGED vars
  BY <1>1, <1>14 DEF vars
<1>15. QED
  BY <1>2, <1>3, <1>4, <1>5, <1>6, <1>9, <1>11, <1>12, <1>13, <1>14 DEF Next

LEMMA NextClosesUp ==
  ASSUME IInv, PoolIsBelow, [Next]_vars
  PROVE  PoolIsBelow' /\ WaitingCloseUp
<1>1. Good(sched) /\ Good(sched') /\ KERNEL = 3 /\ IDLE = 0 /\ Pool \subseteq Task
  BY NextInvariant, Constants DEF IInv
<1>2. CASE Moves(sched, sched')
  <2>1. sched'.priority = sched.priority
    BY <1>2 DEF Moves, Idle, TurnsTo
  <2>2. PoolIsBelow'
    BY <2>1 DEF PoolIsBelow
  <2>3. WaitingCloseUp
    BY <1>1, <1>2, MovesNearer DEF WaitingCloseUp
  <2>4. QED
    BY <2>2, <2>3
<1>3. ASSUME NEW c \in Task, CloseTask(c) \/ CloseTaskInterrupted(c)
      PROVE  PoolIsBelow' /\ WaitingCloseUp
  <2>1. /\ \A x \in Task : sched.status[x] = "WAIT" /\ sched'.status[x] = "WAIT" =>
                             ComesNearer(sched, sched', x)
        /\ \A x \in Task \ {c} : sched'.priority[x] = sched.priority[x]
        /\ sched'.priority[c] = IDLE
    BY <1>3, CloseComesNearer, InterruptedComesNearer
  <2>2. PoolIsBelow'
    BY <1>1, <2>1 DEF PoolIsBelow
  <2>3. QED
    BY <2>1, <2>2 DEF WaitingCloseUp
<1>4. ASSUME NEW c \in Task, NEW t \in Pool, NEW p \in TaskPriorities,
             NEW owner \in {c, main_task}, CreateTask(c, t, p, owner)
      PROVE  PoolIsBelow' /\ WaitingCloseUp
  <2>1. sched'.priority = [sched.priority EXCEPT ![t] = p] /\ p \in {1, 2}
    BY <1>1, <1>4, Constants DEF CreateTask, Good, Typed
  <2>2. sched.priority \in [Task -> Priority]
    BY <1>1 DEF Good, Typed
  <2>3. PoolIsBelow'
    BY <1>1, <2>1, <2>2 DEF PoolIsBelow
  <2>4. WaitingCloseUp
    BY <1>4, CreateComesNearer DEF WaitingCloseUp
  <2>5. QED
    BY <2>3, <2>4
<1>5. QED
  BY <1>2, <1>3, <1>4, NextMoves

(* Round robin, step by step: a task that is ready and not yet running     *)
(* never falls back in the search order of its level, except behind a task *)
(* that is created there while it is itself the level's current task, and  *)
(* whenever the processor goes to another task of its level it is nearer   *)
(* to its turn.                                                            *)
THEOREM ReadyTasksCloseUp == Spec => TurnsComeNearer
<1>1. Init => PoolIsBelow
  BY Constants DEF Init, PoolIsBelow
<1>2. IInv /\ PoolIsBelow /\ [Next]_vars => PoolIsBelow' /\ [WaitingCloseUp]_vars
  BY NextClosesUp
<1>3. QED
  BY <1>1, <1>2, SchedulerInvariant, PTL DEF Spec, TurnsComeNearer
-----------------------------------------------------------------------------
(* An event for a task that sleeps wakes it: enqueue() and every interrupt *)
(* handler do, and so does close_task() for the parent.                    *)
SleepersHaveNoNews ==
  \A t \in Task : sched.status[t] = "SLEEP" /\ sched'.status[t] = "SLEEP"
                  /\ queue'[t] = "EVENTS" => queue[t] = "EVENTS"

(* The race between an empty dequeue() and sleep_task() is made up for by  *)
(* the next interrupt, which does not ask what the queue held.             *)
InterruptWakesMain ==
  DeviceInterrupt \/ PitInterrupt => sched'.status[main_task] # "SLEEP"

(* No step leaves a task asleep and puts the first event in its queue, and *)
(* no interrupt leaves the main task asleep (queue.c, enqueue(), which     *)
(* wakes whom the event is for).                                           *)
NoEventLeftAsleep == [][SleepersHaveNoNews /\ InterruptWakesMain]_vars

(* ... because a task that is woken stays awake through the switch_task()  *)
(* that may follow.                                                        *)
LEMMA WakingWakes ==
  ASSUME IInv, NEW t \in Task, Exists(sched, t),
         sched' = WakeUp(sched, t) \/ sched' = SwitchTask(WakeUp(sched, t))
  PROVE  sched'.status[t] # "SLEEP"
<1> DEFINE w == WakeUp(sched, t)
<1>1. Good(sched)
  BY DEF IInv
<1>2. /\ w.status[t] # "SLEEP" /\ Good(w)
      /\ Gives(sched, w, {Current(sched), t})
  BY <1>1, WakeUpMoves, WakeUpGood DEF Wakes
<1> HIDE DEF w
<1>3. Exists(w, t) /\ w.status[t] \in Status
  BY <1>2 DEF Gives, Good, Typed
<1>4. Awake(w, t)
  BY <1>2, <1>3 DEF Awake, Exists, Status
<1>5. Awake(SwitchTask(w), t)
  BY <1>2, <1>4, SwitchTaskGood DEF Gives
<1>6. QED
  BY <1>4, <1>5 DEF Awake, w

LEMMA NextWakesSleepers == IInv /\ PoolIsBelow /\ [Next]_vars => SleepersHaveNoNews
<1> SUFFICES ASSUME IInv, PoolIsBelow, [Next]_vars,
                    NEW x \in Task, sched.status[x] = "SLEEP", sched'.status[x] = "SLEEP",
                    queue'[x] = "EVENTS", queue[x] # "EVENTS"
             PROVE  FALSE
  BY DEF SleepersHaveNoNews
<1>0. /\ queue \in [Task -> {"NONE", "EMPTY", "EVENTS"}] /\ main_task \in Task
      /\ Queues /\ Exists(sched, main_task) /\ Exists(sched, x)
  BY Constants DEF IInv, RestTyped, Good, Permanent, Exists
<1>1. CASE queue' = queue
  BY <1>1
<1>2. ASSUME NEW c \in Task, CreateEventQueue(c)  PROVE FALSE
  BY <1>0, <1>2 DEF CreateEventQueue
<1>3. ASSUME NEW c \in Task, Dequeue(c)  PROVE FALSE
  BY <1>0, <1>3 DEF Dequeue
<1>4. ASSUME NEW c \in Task, StartTask(c)  PROVE FALSE
  BY <1>0, <1>4 DEF StartTask
<1>5. ASSUME NEW t \in Task, queue' = [queue EXCEPT ![t] = "EVENTS"], Exists(sched, t),
             sched' = WakeUp(sched, t) \/ sched' = SwitchTask(WakeUp(sched, t))
      PROVE  FALSE
  <2>1. x = t
    BY <1>0, <1>5
  <2>2. QED
    BY <1>5, <2>1, WakingWakes
<1>6. ASSUME NEW c \in Task, NEW t \in Task, Send(c, t)  PROVE FALSE
  <2>1. Exists(sched, t)
    BY <1>0, <1>6 DEF Send, Queues
  <2>2. QED
    BY <1>5, <1>6, <2>1 DEF Send, Post
<1>7. CASE DeviceInterrupt
  BY <1>0, <1>5, <1>7 DEF DeviceInterrupt, Post
<1>8. CASE PitInterrupt
  BY <1>0, <1>5, <1>8 DEF PitInterrupt, Post
<1>9. ASSUME NEW c \in Task, CloseTask(c)  PROVE FALSE
  <2>1. queue' = [queue EXCEPT ![parent[c]] = "EVENTS", ![c] = "NONE"]
    BY <1>9 DEF CloseTask
  <2>2. x = parent[c]
    BY <1>0, <2>1
  <2>3. QED
    BY <1>9, <2>2, CloseComesNearer
<1>10. ASSUME NEW c \in Task, CloseTaskInterrupted(c)  PROVE FALSE
  <2>1. /\ queue' = [queue EXCEPT ![parent[c]] = "EVENTS", ![main_task] = "EVENTS",
                                  ![c] = "NONE"]
        /\ sched'.status[main_task] = "RUN"
    BY <1>10 DEF CloseTaskInterrupted
  <2>2. x = parent[c] \/ x = main_task
    BY <1>0, <2>1
  <2>3. sched'.status[parent[c]] # "SLEEP"
    BY <1>10, InterruptedComesNearer
  <2>4. QED
    BY <2>1, <2>2, <2>3
<1>11. CASE UNCHANGED vars
  BY <1>1, <1>11 DEF vars
<1>12. ASSUME NEW c \in Task,
              \/ ProhibitSwitchTask(c) \/ AllowSwitchTask(c) \/ DequeueNothing(c)
              \/ HaltInSystemCall(c) \/ SleepTask(c)
       PROVE  FALSE
  BY <1>1, <1>12 DEF ProhibitSwitchTask, AllowSwitchTask, DequeueNothing, HaltInSystemCall,
                     SleepTask
<1>13. ASSUME NEW c \in Task, NEW t \in Pool, NEW p \in TaskPriorities,
              NEW owner \in {c, main_task}, CreateTask(c, t, p, owner)
       PROVE  FALSE
  BY <1>1, <1>13 DEF CreateTask
<1>14. CASE PitSwitch
  BY <1>1, <1>14 DEF PitSwitch
<1>15. QED
  BY <1>2, <1>3, <1>4, <1>6, <1>7, <1>8, <1>9, <1>10, <1>11, <1>12, <1>13, <1>14 DEF Next

LEMMA InterruptsWake == IInv /\ [Next]_vars => InterruptWakesMain
<1> SUFFICES ASSUME IInv, DeviceInterrupt \/ PitInterrupt
             PROVE  sched'.status[main_task] # "SLEEP"
  BY DEF InterruptWakesMain
<1>1. main_task \in Task /\ Exists(sched, main_task)
  BY Constants DEF IInv, Good, Permanent, Exists
<1>2. sched' = WakeUp(sched, main_task) \/ sched' = SwitchTask(WakeUp(sched, main_task))
  BY DEF DeviceInterrupt, PitInterrupt
<1>3. QED
  BY <1>1, <1>2, WakingWakes

(* A task that sleeps on an event went to sleep after it came: the only    *)
(* wake-up that is lost is the one between an empty dequeue() and          *)
(* sleep_task(), which looks at no queue; and for the main task the next   *)
(* tick of the timer makes up for that one.                                *)
THEOREM EventsWakeTheirTask == Spec => NoEventLeftAsleep
<1>1. Init => PoolIsBelow
  BY Constants DEF Init, PoolIsBelow
<1>2. IInv /\ PoolIsBelow /\ [Next]_vars =>
        PoolIsBelow' /\ [SleepersHaveNoNews /\ InterruptWakesMain]_vars
  BY NextClosesUp, NextWakesSleepers, InterruptsWake
<1>3. QED
  BY <1>1, <1>2, SchedulerInvariant, PTL DEF Spec, NoEventLeftAsleep
=============================================================================
