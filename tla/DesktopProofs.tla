----------------------------- MODULE DesktopProofs -----------------------------
(***************************************************************************)
(* Proofs about closing, for any number of applications, windows and       *)
(* clicks: the busy flag of the console tells whether an application runs  *)
(* on it, the console is used after its deletion only if an application    *)
(* was started too late, and an application that exits leaves no window    *)
(* behind but for the two reasons the model records.  At the end: no       *)
(* deletion is forgotten, when the queues are empty all of them are done.  *)
(*                                                                         *)
(* The events in the queues are promises about the state: the invariant    *)
(* says what each of them means while it is under way.  A handler may send *)
(* what is already true (Sendable); what it changes may take nothing back  *)
(* that the events in the queues say (Lasting).  There is one lemma for    *)
(* each action.                                                            *)
(***************************************************************************)
EXTENDS Desktop, SequenceTheorems, FiniteSetTheorems, TLAPS

-----------------------------------------------------------------------------
(* The inductive invariant.                                                *)

EventTypes == {"sheet clicked", "sheet keyboard", "command issued", "close button clicked",
               "sheet deletion request", "sheet deletion response",
               "window deletion request", "window deletion response",
               "task deletion request", "task deletion response"}
AllSheets == AllWindows \X Parts
Events == [type : EventTypes, subject : AllWindows \cup AllSheets \cup Tasks]

Typed ==
  /\ queues \in [Tasks -> Seq(Events)]
  /\ status \in [Tasks -> {"none", "running", "exiting", "closed"}]
  /\ status["main"] = "running" /\ status["console"] \in {"running", "closed"}
  /\ parent \in [Applications -> {"none", "main", "console"}]
  /\ sheets \subseteq AllSheets
  /\ marked \subseteq AllSheets
  /\ windows \subseteq AllWindows
  /\ owner \in [AllWindows -> Tasks \cup {"none"}] /\ owner[ConsoleWindow] = "console"
  /\ \A w \in Windows : owner[w] # "console"
  /\ console \in [allocated : BOOLEAN, accepted : BOOLEAN, busy : BOOLEAN, exit : BOOLEAN]
  /\ entries \in Seq([window : Windows, owner_task : Applications])
  /\ cursor \in [Applications -> Windows \cup {"none"}]

(* Nothing is left of the window of the console.                           *)
Gone ==
  /\ ~console.allocated
  /\ ConsoleWindow \notin windows
  /\ \A part \in Parts : <<ConsoleWindow, part>> \notin sheets

(* What the event e in the queue of task t says of the state.              *)
EventOK(t, e) ==
  /\ e.type \in {"sheet keyboard", "command issued"} => t = "console"
  /\ e.type \in {"sheet clicked", "sheet keyboard", "command issued",
                 "sheet deletion request", "sheet deletion response"} => e.subject \in AllSheets
  /\ e.type = "sheet deletion request" /\ e.subject[1] = ConsoleWindow => console.accepted
  /\ e.type \in {"close button clicked", "window deletion request",
                 "window deletion response"} => e.subject \in AllWindows
  /\ e.type = "window deletion response" =>
       /\ e.subject \notin windows /\ owner[e.subject] # "none"
       /\ e.subject = ConsoleWindow => Gone
  /\ e.type = "task deletion request" => t = "console" /\ Gone
  /\ e.type = "task deletion response" =>
       \/ t = "main" /\ e.subject = "console"
       \/ /\ e.subject \in Applications
          /\ status[e.subject] = "closed" /\ parent[e.subject] = t

QueuesOK == \A t \in Tasks : \A i \in DOMAIN queues[t] : EventOK(t, queues[t][i])

(* The end of an application is reported once.                             *)
Once(q, e) == \A i, j \in DOMAIN q : q[i] = e /\ q[j] = q[i] => i = j
ReportedOnce ==
  \A t \in Tasks, a \in Applications : Once(queues[t], Event("task deletion response", a))

(* A sheet goes after its children, and the client sheet of the console    *)
(* takes the console with it.                                              *)
SheetsOK ==
  /\ <<ConsoleWindow, "close button">> \in sheets => <<ConsoleWindow, "title">> \in sheets
  /\ console.allocated => Client(ConsoleWindow) \in sheets
  /\ \A s \in marked : s[2] # "client"
  /\ \A s \in sheets : owner[s[1]] # "none"
  /\ \A w \in windows : owner[w] # "none"

ConsoleOK ==
  /\ ~console.accepted => console.allocated
  /\ status["console"] = "closed" => Gone
  /\ \A a \in Applications : status[a] # "none" => parent[a] # "none"
  /\ \A a \in Applications : console.accepted /\ InForeground(a) => a \in late

(* The entries are those of the windows of applications, each once.        *)
EntriesOK ==
  /\ \A i, j \in DOMAIN entries : entries[i].window = entries[j].window => i = j
  /\ \A i \in DOMAIN entries : owner[entries[i].window] # "none"
  /\ \A w \in windows : owner[w] \in Applications =>
       \E k \in DOMAIN entries : entries[k] = [window |-> w, owner_task |-> owner[w]]

Owns(a, i) == entries[i].owner_task = a

(* delete_windows() has left no entry of the application behind the cursor. *)
Passed(a, k) ==
  /\ entries[k].window = cursor[a]
  /\ \A i \in 1 .. k - 1 : ~Owns(a, i)
  /\ k = 1 /\ Owns(a, 1) => \A i \in DOMAIN entries \ {1} : ~Owns(a, i)

ExitOK(a) ==
  /\ status[a] = "closed" => cursor[a] = "none"
  /\ status[a] \in {"exiting", "closed"} =>
       IF cursor[a] = "none" THEN \A i \in DOMAIN entries : ~Owns(a, i)
       ELSE \E k \in DOMAIN entries : Passed(a, k)

DesktopInv ==
  /\ Typed /\ QueuesOK /\ ReportedOnce /\ SheetsOK /\ ConsoleOK
  /\ BusyMeansRunning /\ ConsoleOutlivesUse
  /\ EntriesOK
  /\ \A a \in Applications \ (disturbed \cup headFirst) : ExitOK(a)

-----------------------------------------------------------------------------
(* Names of tasks and windows are different.                               *)
LEMMA Names ==
  /\ "main" \in Tasks /\ "console" \in Tasks /\ Applications \subseteq Tasks
  /\ "main" \notin Applications /\ "console" \notin Applications /\ "none" \notin Applications
  /\ ConsoleWindow \in AllWindows /\ ConsoleWindow \notin Windows /\ "none" \notin Windows
  /\ Windows \subseteq AllWindows /\ AllWindows = Windows \cup {ConsoleWindow}
  /\ Tasks = {"main", "console"} \cup Applications
BY DesktopAssumption DEF Tasks, AllWindows

(* What events say of the state stays true.                                *)
LEMMA EventStays ==
  ASSUME Gone => Gone', console.accepted => console'.accepted,
         \A w \in AllWindows : w \notin windows /\ owner[w] # "none" => w \notin windows' /\ owner'[w] # "none",
         \A a \in Applications : status[a] = "closed" => status'[a] = "closed" /\ parent'[a] = parent[a],
         NEW t \in Tasks, NEW e \in Events, EventOK(t, e)
  PROVE  EventOK(t, e)'
<1> HIDE DEF Gone
<1>1. e.type = "window deletion response" =>
        /\ e.subject \in AllWindows /\ e.subject \notin windows /\ owner[e.subject] # "none"
        /\ e.subject = ConsoleWindow => Gone
  BY DEF EventOK
<1>2. e.type = "window deletion response" =>
        /\ e.subject \notin windows' /\ owner'[e.subject] # "none"
        /\ e.subject = ConsoleWindow => Gone'
  BY <1>1
<1>3. e.type = "task deletion response" =>
       \/ t = "main" /\ e.subject = "console"
       \/ /\ e.subject \in Applications
          /\ status'[e.subject] = "closed" /\ parent'[e.subject] = t
  BY DEF EventOK
<1>4. /\ e.type \in {"sheet keyboard", "command issued"} => t = "console"
      /\ e.type \in {"sheet clicked", "sheet keyboard", "command issued",
                     "sheet deletion request", "sheet deletion response"} => e.subject \in AllSheets
      /\ e.type = "sheet deletion request" /\ e.subject[1] = ConsoleWindow => console'.accepted
      /\ e.type \in {"close button clicked", "window deletion request",
                     "window deletion response"} => e.subject \in AllWindows
      /\ e.type = "task deletion request" => t = "console" /\ Gone'
  BY DEF EventOK
<1>5. QED
  BY <1>2, <1>3, <1>4 DEF EventOK

(* The rest of the queues after a step that takes events out.              *)
Remains(from) ==
  /\ from \in [Tasks -> Seq(Events)]
  /\ \A t \in Tasks : \/ from[t] = queues[t]
                      \/ from[t] = << >>
                      \/ queues[t] # << >> /\ from[t] = Tail(queues[t])

(* The k-th event that remains was the (k + d)-th.                         *)
LEMMA Shifted ==
  ASSUME Typed, NEW from, Remains(from), NEW t \in Tasks
  PROVE  \E d \in Nat : \A i \in DOMAIN from[t] : i + d \in DOMAIN queues[t] /\ from[t][i] = queues[t][i + d]
<1>1. queues[t] \in Seq(Events)
  BY DEF Typed
<1>2. CASE from[t] = queues[t]
  <2>1. \A i \in DOMAIN from[t] : i + 0 \in DOMAIN queues[t] /\ from[t][i] = queues[t][i + 0]
    BY <1>1, <1>2
  <2>2. QED
    BY <2>1
<1>3. CASE from[t] = << >>
  <2>1. DOMAIN from[t] = {}
    BY <1>3
  <2>2. QED
    BY <2>1
<1>4. CASE queues[t] # << >> /\ from[t] = Tail(queues[t])
  <2> DEFINE q == queues[t]
             r == Tail(q)
  <2> HIDE DEF q
  <2>0. q \in Seq(Events) /\ q # << >>
    BY <1>1, <1>4 DEF q
  <2>1. /\ r \in Seq(Events) /\ Len(r) = Len(q) - 1
        /\ \A i \in 1 .. Len(r) : r[i] = q[i + 1]
    BY <2>0, HeadTailProperties
  <2> HIDE DEF r
  <2>2. DOMAIN r = 1 .. Len(r) /\ DOMAIN q = 1 .. Len(q) /\ Len(q) \in Nat
    BY <2>0, <2>1
  <2>3. \A i \in DOMAIN r : i + 1 \in DOMAIN q /\ r[i] = q[i + 1]
    BY <2>1, <2>2
  <2>4. from[t] = r
    BY <1>4 DEF r, q
  <2>5. QED
    BY <2>3, <2>4 DEF q
<1>5. QED
  BY <1>2, <1>3, <1>4 DEF Remains

Reports(e) == e.type = "task deletion response" /\ e.subject \in Applications

(* The only place of a sequence of one element.                           *)
LEMMA OnlyOne == \A k, n : k \in 1 .. n /\ n = 1 => k = 1
OBVIOUS

(* Two places behind the same prefix are the same if they are as far      *)
(* behind it.                                                             *)
LEMMA SamePlace ==
  \A n, m \in Nat : \A i, j \in 1 .. n + m : i - n = j - n => i = j
OBVIOUS

(* Events are taken out of the queues, and others are sent to task u.      *)
LEMMA QueueStep ==
  ASSUME Typed, QueuesOK, ReportedOnce, NEW from, Remains(from),
         NEW u \in Tasks, NEW events \in Seq(Events), queues' = [from EXCEPT ![u] = @ \o events],
         \A i \in DOMAIN events : EventOK(u, events[i])',
         \A t \in Tasks, e \in Events : EventOK(t, e) => EventOK(t, e)',
         \A i \in DOMAIN events : Reports(events[i]) =>
           Len(events) = 1 /\ \A j \in DOMAIN queues[u] : queues[u][j] # events[i]
  PROVE  queues' \in [Tasks -> Seq(Events)] /\ QueuesOK' /\ ReportedOnce'
<1> HIDE DEF EventOK
<1>1. from \in [Tasks -> Seq(Events)] /\ queues \in [Tasks -> Seq(Events)]
  BY DEF Remains, Typed
<1> DEFINE r == from[u]
           s == r \o events
<1>2. r \in Seq(Events)
  BY <1>1
<1> HIDE DEF r
<1>3. /\ s \in Seq(Events) /\ Len(s) = Len(r) + Len(events)
      /\ \A i \in 1 .. Len(r) + Len(events) : s[i] = IF i <= Len(r) THEN r[i] ELSE events[i - Len(r)]
  BY <1>2, ConcatProperties
<1>4. /\ DOMAIN r = 1 .. Len(r) /\ DOMAIN events = 1 .. Len(events)
      /\ Len(r) \in Nat /\ Len(events) \in Nat
  BY <1>2
<1>5. DOMAIN s = 1 .. Len(r) + Len(events)
  BY <1>3
<1> HIDE DEF s
<1>6. \A i \in DOMAIN s : \/ i \in DOMAIN r /\ s[i] = r[i]
                          \/ /\ i > Len(r) /\ i - Len(r) \in DOMAIN events
                             /\ s[i] = events[i - Len(r)]
  <2> SUFFICES ASSUME NEW i \in DOMAIN s
               PROVE  \/ i \in DOMAIN r /\ s[i] = r[i]
                      \/ i > Len(r) /\ i - Len(r) \in DOMAIN events /\ s[i] = events[i - Len(r)]
    OBVIOUS
  <2>1. CASE i <= Len(r)
    BY <2>1, <1>3, <1>4, <1>5
  <2>2. CASE ~(i <= Len(r))
    <3>1. i \in 1 .. Len(r) + Len(events) /\ i - Len(r) \in 1 .. Len(events) /\ i > Len(r)
      BY <2>2, <1>4, <1>5
    <3>2. s[i] = events[i - Len(r)]
      BY <2>2, <3>1, <1>3
    <3>3. QED
      BY <3>1, <3>2, <1>4
  <2>3. QED
    BY <2>1, <2>2
<1>7. /\ queues' \in [Tasks -> Seq(Events)] /\ queues'[u] = s
      /\ \A t \in Tasks : t # u => queues'[t] = from[t]
  BY <1>1, <1>3 DEF r, s
<1>8. ASSUME NEW t \in Tasks, NEW i \in DOMAIN from[t]
      PROVE  from[t][i] \in Events /\ EventOK(t, from[t][i])'
  <2>1. PICK d \in Nat : \A k \in DOMAIN from[t] : k + d \in DOMAIN queues[t] /\ from[t][k] = queues[t][k + d]
    BY Shifted
  <2>2. i + d \in DOMAIN queues[t] /\ from[t][i] = queues[t][i + d]
    BY <2>1
  <2>3. EventOK(t, from[t][i])
    BY <2>2 DEF QueuesOK
  <2>4. from[t] \in Seq(Events)
    BY <1>1
  <2>5. from[t][i] \in Events
    BY <2>4
  <2>6. QED
    BY <2>3, <2>5
<1>8a. \A l \in DOMAIN r : \E m \in DOMAIN queues[u] : r[l] = queues[u][m]
  <2>1. \E d \in Nat : \A l \in DOMAIN from[u] : l + d \in DOMAIN queues[u] /\ from[u][l] = queues[u][l + d]
    BY Shifted
  <2>2. QED
    BY <2>1 DEF r
<1>9. QueuesOK'
  <2> SUFFICES ASSUME NEW t \in Tasks, NEW i \in DOMAIN queues'[t]
               PROVE  EventOK(t, queues[t][i])'
    BY DEF QueuesOK
  <2> DEFINE e == queues'[t][i]
  <2>0. SUFFICES ASSUME NEW f, f = e PROVE EventOK(t, f)'
    OBVIOUS
  <2> HIDE DEF e
  <2>1. CASE t = u
    <3>1. CASE i \in DOMAIN r /\ s[i] = r[i]
      <4>1. f = from[u][i] /\ i \in DOMAIN from[u]
        BY <2>0, <2>1, <3>1, <1>7 DEF r, e
      <4>2. QED
        BY <2>1, <4>1, <1>8
    <3>2. CASE i - Len(r) \in DOMAIN events /\ s[i] = events[i - Len(r)]
      <4>1. f = events[i - Len(r)]
        BY <2>0, <2>1, <3>2, <1>7 DEF e
      <4>2. QED
        BY <2>1, <3>2, <4>1
    <3>3. QED
      BY <2>1, <3>1, <3>2, <1>6, <1>7
  <2>2. CASE t # u
    <3>1. f = from[t][i] /\ i \in DOMAIN from[t]
      BY <2>0, <2>2, <1>7 DEF e
    <3>2. QED
      BY <3>1, <1>8
  <2>3. QED
    BY <2>1, <2>2
<1>10. ASSUME NEW t \in Tasks, NEW a \in Applications, NEW i \in DOMAIN from[t], NEW j \in DOMAIN from[t],
              from[t][i] = Event("task deletion response", a), from[t][j] = from[t][i]
       PROVE  i = j
  <2>1. PICK d \in Nat : \A k \in DOMAIN from[t] : k + d \in DOMAIN queues[t] /\ from[t][k] = queues[t][k + d]
    BY Shifted
  <2>2. i + d = j + d
    <3>1. /\ i + d \in DOMAIN queues[t] /\ j + d \in DOMAIN queues[t]
          /\ queues[t][i + d] = Event("task deletion response", a) /\ queues[t][j + d] = queues[t][i + d]
      BY <2>1, <1>10
    <3>2. QED
      BY <3>1 DEF ReportedOnce, Once
  <2>3. from[t] \in Seq(Events)
    BY <1>1
  <2>4. i \in Nat /\ j \in Nat
    BY <2>3
  <2>5. QED
    BY <2>2, <2>4
<1>11. ASSUME NEW t \in Tasks, NEW a \in Applications,
              NEW i \in DOMAIN queues'[t], NEW j \in DOMAIN queues'[t],
              queues'[t][i] = Event("task deletion response", a), queues'[t][j] = queues'[t][i]
       PROVE  i = j
  <2>1. CASE t # u
    <3>1. queues'[t] = from[t]
      BY <2>1, <1>7
    <3>2. QED
      BY <3>1, <1>10, <1>11
  <2>2. CASE t = u
    <3> DEFINE e == Event("task deletion response", a)
    <3>1. i \in DOMAIN s /\ j \in DOMAIN s /\ s[i] = e /\ s[j] = e
      BY <2>2, <1>7, <1>11
    <3>2. Reports(e)
      BY DEF Reports, Event
    <3> HIDE DEF e
    <3>3. ASSUME NEW k \in DOMAIN events, events[k] = e
          PROVE  k = 1 /\ \A l \in DOMAIN r : r[l] # e
      <4>1. Len(events) = 1 /\ \A l \in DOMAIN queues[u] : queues[u][l] # e
        BY <3>2, <3>3
      <4>2. \A l \in DOMAIN r : \E m \in DOMAIN queues[u] : r[l] = queues[u][m]
        BY <1>8a
      <4>3. \A l \in DOMAIN r : r[l] # e
        BY <4>1, <4>2
      <4>4. k \in 1 .. Len(events) /\ Len(events) = 1
        BY <4>1, <3>3, <1>4
      <4>4a. k = 1
        BY <4>4, OnlyOne
      <4>5. QED
        BY <4>3, <4>4a
    <3>4. CASE i \in DOMAIN r /\ s[i] = r[i] /\ j \in DOMAIN r /\ s[j] = r[j]
      BY <3>1, <3>4, <1>10 DEF r, e
    <3>5. CASE /\ i > Len(r) /\ i - Len(r) \in DOMAIN events /\ s[i] = events[i - Len(r)]
               /\ j > Len(r) /\ j - Len(r) \in DOMAIN events /\ s[j] = events[j - Len(r)]
      <4>1. i - Len(r) = 1 /\ j - Len(r) = 1
        BY <3>1, <3>3, <3>5
      <4>2. /\ i \in 1 .. Len(r) + Len(events) /\ j \in 1 .. Len(r) + Len(events)
            /\ i - Len(r) = j - Len(r)
        BY <3>1, <4>1, <1>5
      <4>3. QED
        BY <4>2, <1>4, SamePlace
    <3>6. CASE /\ i \in DOMAIN r /\ s[i] = r[i]
               /\ j - Len(r) \in DOMAIN events /\ s[j] = events[j - Len(r)]
      BY <3>1, <3>3, <3>6
    <3>7. CASE /\ j \in DOMAIN r /\ s[j] = r[j]
               /\ i - Len(r) \in DOMAIN events /\ s[i] = events[i - Len(r)]
      BY <3>1, <3>3, <3>7
    <3>8. QED
      BY <3>1, <3>4, <3>5, <3>6, <3>7, <1>6
  <2>3. QED
    BY <2>1, <2>2
<1>12. ASSUME NEW t \in Tasks, NEW a \in Applications
       PROVE  Once(queues'[t], Event("task deletion response", a))
  <2> SUFFICES ASSUME NEW i \in DOMAIN queues'[t], NEW j \in DOMAIN queues'[t],
                      queues'[t][i] = Event("task deletion response", a), queues'[t][j] = queues'[t][i]
               PROVE  i = j
    BY DEF Once
  <2>1. QED
    BY <1>11
<1>13. ReportedOnce'
  BY <1>12 DEF ReportedOnce
<1>14. QED
  BY <1>7, <1>9, <1>13

-----------------------------------------------------------------------------
(* What is in a sequence that is joined of two, and behind a head.         *)
LEMMA JoinedElements ==
  ASSUME NEW a \in Seq(Events), NEW b \in Seq(Events)
  PROVE  ToSet(a \o b) = ToSet(a) \cup ToSet(b)
<1> DEFINE s == a \o b
<1>1. /\ s \in Seq(Events) /\ Len(s) = Len(a) + Len(b)
      /\ \A i \in 1 .. Len(a) + Len(b) : s[i] = IF i <= Len(a) THEN a[i] ELSE b[i - Len(a)]
  BY ConcatProperties
<1>2. /\ DOMAIN a = 1 .. Len(a) /\ DOMAIN b = 1 .. Len(b) /\ DOMAIN s = 1 .. Len(a) + Len(b)
      /\ Len(a) \in Nat /\ Len(b) \in Nat
  BY <1>1
<1> HIDE DEF s
<1>3. ASSUME NEW e \in ToSet(s)  PROVE e \in ToSet(a) \cup ToSet(b)
  <2>1. PICK i \in DOMAIN s : e = s[i]
    BY <1>3 DEF ToSet
  <2>2. CASE i <= Len(a)
    <3>1. i \in DOMAIN a /\ e = a[i]
      BY <2>1, <2>2, <1>1, <1>2
    <3>2. QED
      BY <3>1 DEF ToSet
  <2>3. CASE ~(i <= Len(a))
    <3>1. i - Len(a) \in DOMAIN b /\ e = b[i - Len(a)]
      BY <2>1, <2>3, <1>1, <1>2
    <3>2. QED
      BY <3>1 DEF ToSet
  <2>4. QED
    BY <2>2, <2>3
<1>4. ASSUME NEW e \in ToSet(a)  PROVE e \in ToSet(s)
  <2>1. PICK i \in DOMAIN a : e = a[i]
    BY <1>4 DEF ToSet
  <2>2. i \in DOMAIN s /\ e = s[i]
    BY <2>1, <1>1, <1>2
  <2>3. QED
    BY <2>2 DEF ToSet
<1>5. ASSUME NEW e \in ToSet(b)  PROVE e \in ToSet(s)
  <2>1. PICK i \in DOMAIN b : e = b[i]
    BY <1>5 DEF ToSet
  <2>2. i + Len(a) \in DOMAIN s /\ ~(i + Len(a) <= Len(a)) /\ (i + Len(a)) - Len(a) = i
    BY <2>1, <1>2
  <2>3. e = s[i + Len(a)]
    BY <2>1, <2>2, <1>1, <1>2
  <2>4. QED
    BY <2>2, <2>3 DEF ToSet
<1>6. QED
  BY <1>3, <1>4, <1>5 DEF s

(* A queue holds its first event and those behind it.                     *)
LEMMA TailElements ==
  ASSUME NEW q \in Seq(Events), q # << >>
  PROVE  /\ Head(q) \in Events /\ Tail(q) \in Seq(Events)
         /\ Head(q) \in ToSet(q) /\ ToSet(q) = ToSet(Tail(q)) \cup {Head(q)}
<1> DEFINE r == Tail(q)
<1>1. /\ Head(q) \in Events /\ r \in Seq(Events) /\ Len(r) = Len(q) - 1
      /\ Head(q) = q[1] /\ \A i \in 1 .. Len(r) : r[i] = q[i + 1]
  BY HeadTailProperties
<1>2. DOMAIN q = 1 .. Len(q) /\ Len(q) \in Nat /\ DOMAIN r = 1 .. Len(r) /\ 1 \in DOMAIN q
  BY <1>1
<1> HIDE DEF r
<1>3. Head(q) \in ToSet(q)
  BY <1>1, <1>2 DEF ToSet
<1>4. ASSUME NEW e \in ToSet(r)  PROVE e \in ToSet(q)
  <2>1. PICK i \in DOMAIN r : e = r[i]
    BY <1>4 DEF ToSet
  <2>2. i + 1 \in DOMAIN q /\ e = q[i + 1]
    BY <2>1, <1>1, <1>2
  <2>3. QED
    BY <2>2 DEF ToSet
<1>5. ASSUME NEW e \in ToSet(q), e # Head(q)  PROVE e \in ToSet(r)
  <2>1. PICK i \in DOMAIN q : e = q[i]
    BY <1>5 DEF ToSet
  <2>2. i # 1
    BY <2>1, <1>1, <1>5
  <2>3. i - 1 \in DOMAIN r /\ i - 1 \in 1 .. Len(r) /\ (i - 1) + 1 = i
    BY <2>1, <2>2, <1>1, <1>2
  <2>4. e = r[i - 1]
    BY <2>1, <2>3, <1>1
  <2>5. QED
    BY <2>3, <2>4 DEF ToSet
<1>6. QED
  BY <1>1, <1>3, <1>4, <1>5 DEF r

(* Task t takes the first event of its queue, or loses all of them.        *)
LEMMA TakesFirst ==
  ASSUME Typed, NEW t \in Tasks, queues[t] # << >>, NEW from, from = [queues EXCEPT ![t] = Tail(@)]
  PROVE  /\ Remains(from)
         /\ from[t] = Tail(queues[t]) /\ \A v \in Tasks : v # t => from[v] = queues[v]
<1>1. queues \in [Tasks -> Seq(Events)]
  BY DEF Typed
<1>2. Tail(queues[t]) \in Seq(Events)
  BY <1>1, TailElements
<1>3. QED
  BY <1>1, <1>2 DEF Remains

(* A queue that is freed holds nothing; the others stay as they are.      *)
LEMMA LosesAll ==
  ASSUME Typed, NEW t \in Tasks, NEW from, from = [queues EXCEPT ![t] = << >>]
  PROVE  /\ Remains(from)
         /\ from[t] = << >> /\ \A v \in Tasks : v # t => from[v] = queues[v]
<1>1. queues \in [Tasks -> Seq(Events)]
  BY DEF Typed
<1>2. QED
  BY <1>1 DEF Remains

(* The events that remain were there.                                      *)
LEMMA RemainsWere ==
  ASSUME Typed, NEW from, Remains(from), NEW t \in Tasks
  PROVE  ToSet(from[t]) \subseteq ToSet(queues[t]) /\ from[t] \in Seq(Events)
<1>1. queues[t] \in Seq(Events) /\ from[t] \in Seq(Events)
  BY DEF Typed, Remains
<1>2. CASE from[t] = << >>
  BY <1>2, <1>1 DEF ToSet
<1>3. CASE queues[t] # << >> /\ from[t] = Tail(queues[t])
  BY <1>3, <1>1, TailElements
<1>4. QED
  BY <1>1, <1>2, <1>3 DEF Remains

(* What a queue holds after a step.                                        *)
LEMMA QueueHolds ==
  ASSUME NEW from \in [Tasks -> Seq(Events)], NEW u \in Tasks, NEW events \in Seq(Events),
         queues' = [from EXCEPT ![u] = @ \o events], NEW t \in Tasks
  PROVE  ToSet(queues'[t]) = IF t = u THEN ToSet(from[t]) \cup ToSet(events) ELSE ToSet(from[t])
<1>1. from[u] \in Seq(Events)
  OBVIOUS
<1>2. ToSet(from[u] \o events) = ToSet(from[u]) \cup ToSet(events)
  BY <1>1, JoinedElements
<1>3. queues'[t] = IF t = u THEN from[u] \o events ELSE from[t]
  OBVIOUS
<1>4. QED
  BY <1>2, <1>3

-----------------------------------------------------------------------------
(* What a step may not take back, for the events in the queues to stay     *)
(* true.                                                                   *)
Lasting ==
  /\ Gone => Gone'
  /\ console.accepted => console'.accepted
  /\ \A w \in AllWindows : w \notin windows /\ owner[w] # "none" => w \notin windows' /\ owner'[w] # "none"
  /\ \A a \in Applications : status[a] = "closed" => status'[a] = "closed" /\ parent'[a] = parent[a]

(* Events sent to task u, which may say what they say after the step,     *)
(* leave the invariant of the queues true. The end of an application must *)
(* not already be in the queue.                                           *)
LEMMA QueuesKept ==
  ASSUME Typed, QueuesOK, ReportedOnce, Lasting, NEW from, Remains(from),
         NEW u \in Tasks, NEW events \in Seq(Events), queues' = [from EXCEPT ![u] = @ \o events],
         \A e \in ToSet(events) : EventOK(u, e)',
         \A e \in ToSet(events) : Reports(e) => Len(events) = 1 /\ e \notin ToSet(queues[u])
  PROVE  queues' \in [Tasks -> Seq(Events)] /\ QueuesOK' /\ ReportedOnce'
<1> HIDE DEF EventOK
<1>1. \A t \in Tasks, e \in Events : EventOK(t, e) => EventOK(t, e)'
  BY EventStays DEF Lasting
<1>2. \A i \in DOMAIN events : events[i] \in ToSet(events)
  BY DEF ToSet
<1>3. \A i \in DOMAIN events : EventOK(u, events[i])'
  <2> SUFFICES ASSUME NEW i \in DOMAIN events, NEW e, e = events[i]
               PROVE  EventOK(u, e)'
    OBVIOUS
  <2>1. QED
    BY <1>2
<1>4. ASSUME NEW i \in DOMAIN events, Reports(events[i])
      PROVE  Len(events) = 1 /\ \A j \in DOMAIN queues[u] : queues[u][j] # events[i]
  BY <1>2, <1>4 DEF ToSet
<1>5. QED
  BY <1>1, <1>3, <1>4, QueueStep

(* The windows of applications, for a step that leaves the entries alone.  *)
LEMMA EntriesKept ==
  ASSUME EntriesOK, \A a \in Applications \ (disturbed \cup headFirst) : ExitOK(a),
         UNCHANGED <<entries, cursor, disturbed, headFirst, owner>>,
         windows' \subseteq windows,
         \A a \in Applications : status'[a] \in {"exiting", "closed"} => status'[a] = status[a]
  PROVE  EntriesOK' /\ \A a \in Applications \ (disturbed \cup headFirst)' : ExitOK(a)'
<1>1. EntriesOK'
  BY DEF EntriesOK
<1>2. ASSUME NEW a \in Applications \ (disturbed \cup headFirst)  PROVE ExitOK(a)'
  <2>1. ExitOK(a)
    BY <1>2
  <2>2. (status'[a] = "closed" => status[a] = "closed")
        /\ (status'[a] \in {"exiting", "closed"} => status[a] \in {"exiting", "closed"})
    BY <1>2
  <2>3. QED
    BY <2>1, <2>2 DEF ExitOK, Passed, Owns
<1>3. QED
  BY <1>1, <1>2
-----------------------------------------------------------------------------
(* A window that is not yet deleted has an owner that is alive.            *)
LEMMA OwnerLives ==
  ASSUME DesktopInv, NEW w \in AllWindows, w \in windows \/ \E part \in Parts : <<w, part>> \in sheets
  PROVE  owner[w] \in Tasks /\ (owner[w] = "console" => w = ConsoleWindow /\ status["console"] = "running")
<1>1. owner[w] \in Tasks \cup {"none"} /\ (owner[w] = "console" => w = ConsoleWindow)
  BY Names DEF DesktopInv, Typed
<1>2. owner[w] # "none"
  <2>1. CASE w \in windows
    BY <2>1 DEF DesktopInv, SheetsOK
  <2>2. CASE \E part \in Parts : <<w, part>> \in sheets
    <3>1. PICK part \in Parts : <<w, part>> \in sheets
      BY <2>2
    <3>2. owner[<<w, part>>[1]] # "none"
      BY <3>1 DEF DesktopInv, SheetsOK
    <3>3. QED
      BY <3>2
  <2>3. QED
    BY <2>1, <2>2
<1>3. w = ConsoleWindow => ~Gone
  BY DEF Gone
<1>4. status["console"] \in {"running", "closed"} /\ (status["console"] = "closed" => Gone)
  BY DEF DesktopInv, Typed, ConsoleOK
<1>5. QED
  BY <1>1, <1>2, <1>3, <1>4

(* What may be sent while nothing else changes.                            *)
Messages == [task : Tasks, events : Seq(Events)]
Sendable(sent) ==
  /\ sent \in Messages
  /\ \A e \in ToSet(sent.events) : EventOK(sent.task, e) /\ ~Reports(e)
  /\ sent.events # << >> /\ sent.task = "console" => status["console"] = "running"

(* To send nothing is always allowed.                                     *)
LEMMA NothingSendable == Sendable(Nothing)
<1>1. Nothing.task = "main" /\ Nothing.events = << >>
  BY DEF Nothing, To
<1>2. << >> \in Seq(Events) /\ ToSet(<< >>) = {}
  BY DEF ToSet
<1>3. Nothing \in Messages
  BY <1>1, <1>2, Names DEF Messages, Nothing, To
<1>4. QED
  BY <1>1, <1>2, <1>3 DEF Sendable

(* One event that may be in the queue of u may be sent to u.              *)
LEMMA OneSendable ==
  ASSUME NEW u \in Tasks, NEW e \in Events, EventOK(u, e), ~Reports(e),
         u = "console" => status["console"] = "running"
  PROVE  Sendable(To(u, <<e>>))
<1>1. To(u, <<e>>).task = u /\ To(u, <<e>>).events = <<e>>
  BY DEF To
<1>2. <<e>> \in Seq(Events) /\ ToSet(<<e>>) = {e}
  BY DEF ToSet
<1>3. To(u, <<e>>) \in Messages
  BY <1>2 DEF Messages, To
<1>4. QED
  BY <1>1, <1>2, <1>3 DEF Sendable

(* Where the messages of a handler go, and that it used no freed console.  *)
LEMMA Delivers ==
  ASSUME NEW sent \in Messages, NEW from, Deliver(sent, from),
         sent.events # << >> /\ sent.task = "console" => status["console"] = "running"
  PROVE  /\ queues' = [from EXCEPT ![sent.task] = @ \o sent.events]
         /\ "console" \in faults' => "console" \in faults
<1>1. sent.events # << >> /\ status[sent.task] = "closed" => FreedQueue(sent.task) # "console"
  BY DEF FreedQueue
<1>2. QED
  BY <1>1 DEF Deliver

(* A handler that follows a stale pointer drops its event and sends       *)
(* nothing.                                                               *)
LEMMA Misused ==
  ASSUME Typed, NEW t \in Tasks, queues[t] # << >>, NEW what, Misuses(t, what),
         NEW from, from = [queues EXCEPT ![t] = Tail(@)]
  PROVE  /\ queues' = [from EXCEPT !["main"] = @ \o << >>]
         /\ faults' = faults \cup {what}
<1>1. from \in [Tasks -> Seq(Events)]
  BY TakesFirst DEF Remains
<1>2. from["main"] \o << >> = from["main"]
  BY <1>1, Names, ConcatEmptySeq
<1>3. QED
  BY <1>1, <1>2 DEF Misuses

-----------------------------------------------------------------------------
(* A step that moves messages, none of which reports the end of an         *)
(* application.                                                            *)
LEMMA Moved ==
  ASSUME DesktopInv, Lasting, NEW from, Remains(from),
         \A a \in Applications : LET e == Event("task deletion response", a)
                                 IN e \in ToSet(queues["console"]) => e \in ToSet(from["console"]),
         NEW u \in Tasks, NEW events \in Seq(Events), queues' = [from EXCEPT ![u] = @ \o events],
         \A e \in ToSet(events) : EventOK(u, e)' /\ ~Reports(e)
  PROVE  /\ queues' \in [Tasks -> Seq(Events)] /\ QueuesOK' /\ ReportedOnce'
         /\ \A a \in Applications : Event("task deletion response", a) \in ToSet(queues'["console"])
                                    <=> Event("task deletion response", a) \in ToSet(queues["console"])
<1> HIDE DEF EventOK
<1>1. queues' \in [Tasks -> Seq(Events)] /\ QueuesOK' /\ ReportedOnce'
  BY QueuesKept DEF DesktopInv
<1>2. ASSUME NEW a \in Applications, NEW e, e = Event("task deletion response", a)
      PROVE  e \in ToSet(queues'["console"]) <=> e \in ToSet(queues["console"])
  <2>1. Reports(e)
    BY <1>2 DEF Reports, Event
  <2>2. /\ ToSet(from["console"]) \subseteq ToSet(queues["console"])
        /\ from \in [Tasks -> Seq(Events)] /\ "console" \in Tasks
    BY RemainsWere, Names DEF DesktopInv, Remains
  <2>3. ToSet(queues'["console"]) = IF "console" = u THEN ToSet(from["console"]) \cup ToSet(events)
                                    ELSE ToSet(from["console"])
    BY <2>2, QueueHolds
  <2>4. e \notin ToSet(events)
    BY <2>1
  <2>5. e \in ToSet(queues["console"]) => e \in ToSet(from["console"])
    BY <1>2
  <2>6. QED
    BY <2>2, <2>3, <2>4, <2>5
<1>3. QED
  BY <1>1, <1>2

StateUnchanged == UNCHANGED <<status, parent, desktop, console, entries, cursor, history>>

(* A step that moves messages and leaves the rest as it is.                *)
LEMMA Quiet ==
  ASSUME DesktopInv, StateUnchanged, NEW from, Remains(from),
         \A a \in Applications : LET e == Event("task deletion response", a)
                                 IN e \in ToSet(queues["console"]) => e \in ToSet(from["console"]),
         NEW u \in Tasks, NEW events \in Seq(Events), queues' = [from EXCEPT ![u] = @ \o events],
         \A e \in ToSet(events) : EventOK(u, e) /\ ~Reports(e),
         "console" \in faults' => "console" \in faults
  PROVE  DesktopInv'
<1> HIDE DEF EventOK
<1>1. UNCHANGED <<status, parent, sheets, marked, windows, owner, console, entries, cursor,
                  late, disturbed, headFirst>>
  BY DEF StateUnchanged, desktop, history
<1>2. Gone' = Gone /\ Lasting
  BY <1>1 DEF Gone, Lasting
<1>3. \A e \in ToSet(events) : EventOK(u, e)'
  BY <1>1, <1>2 DEF EventOK
<1>4. /\ queues' \in [Tasks -> Seq(Events)] /\ QueuesOK' /\ ReportedOnce'
      /\ \A a \in Applications : Event("task deletion response", a) \in ToSet(queues'["console"])
                                 <=> Event("task deletion response", a) \in ToSet(queues["console"])
  BY <1>2, <1>3, Moved
<1>5. Typed'
  BY <1>1, <1>4 DEF DesktopInv, Typed
<1>6. SheetsOK'
  BY <1>1 DEF DesktopInv, SheetsOK
<1>7. \A a \in Applications : InForeground(a)' <=> InForeground(a)
  BY <1>1, <1>4 DEF InForeground
<1>8. ConsoleOK'
  BY <1>1, <1>2, <1>7 DEF DesktopInv, ConsoleOK
<1>9. BusyMeansRunning'
  BY <1>1, <1>7 DEF DesktopInv, BusyMeansRunning
<1>10. ConsoleOutlivesUse'
  BY <1>1 DEF DesktopInv, ConsoleOutlivesUse
<1>11. EntriesOK' /\ \A a \in Applications \ (disturbed \cup headFirst)' : ExitOK(a)'
  BY <1>1, EntriesKept DEF DesktopInv
<1>12. QED
  BY <1>4, <1>5, <1>6, <1>8, <1>9, <1>10, <1>11 DEF DesktopInv

(* A handler that dequeues an event, not the end of an application of the  *)
(* console, and sends something.                                           *)
Takes(t) ==
  /\ t \in Tasks /\ queues[t] # << >>
  /\ t = "console" => ~Reports(Head(queues[t]))

(* A handler takes the first event out of its queue; no report to the     *)
(* console is lost, since it is none.                                     *)
LEMMA RepliesStep ==
  ASSUME DesktopInv, NEW t, Takes(t), NEW from, from = [queues EXCEPT ![t] = Tail(@)]
  PROVE  /\ Remains(from)
         /\ \A a \in Applications : LET e == Event("task deletion response", a)
                                    IN e \in ToSet(queues["console"]) => e \in ToSet(from["console"])
<1>1. t \in Tasks /\ queues[t] # << >> /\ queues \in [Tasks -> Seq(Events)]
  BY DEF Takes, DesktopInv, Typed
<1>2. Remains(from) /\ from[t] = Tail(queues[t]) /\ \A v \in Tasks : v # t => from[v] = queues[v]
  BY <1>1, TakesFirst DEF DesktopInv
<1>3. ASSUME NEW a \in Applications, NEW e, e = Event("task deletion response", a), e \in ToSet(queues["console"])
      PROVE  e \in ToSet(from["console"])
  <2>1. CASE t # "console"
    BY <2>1, <1>2, <1>3, Names
  <2>2. CASE t = "console"
    <3>1. Reports(e)
      BY <1>3 DEF Reports, Event
    <3>2. e # Head(queues[t])
      BY <3>1, <2>2 DEF Takes
    <3>3. ToSet(queues[t]) = ToSet(Tail(queues[t])) \cup {Head(queues[t])}
      BY <1>1, TailElements
    <3>4. QED
      BY <3>2, <3>3, <1>2, <1>3, <2>2
  <2>3. QED
    BY <2>1, <2>2
<1>4. QED
  BY <1>2, <1>3

(* A handler that only replies keeps the invariant.                       *)
LEMMA QuietReply ==
  ASSUME DesktopInv, StateUnchanged, NEW t, Takes(t), NEW sent, Sendable(sent), Replies(t, sent)
  PROVE  DesktopInv'
<1> DEFINE from == [queues EXCEPT ![t] = Tail(@)]
<1>1. Deliver(sent, from)
  BY DEF Replies
<1> HIDE DEF from
<1>2. /\ Remains(from)
      /\ \A a \in Applications : LET e == Event("task deletion response", a)
                                 IN e \in ToSet(queues["console"]) => e \in ToSet(from["console"])
  BY RepliesStep DEF from
<1>3. /\ queues' = [from EXCEPT ![sent.task] = @ \o sent.events]
      /\ "console" \in faults' => "console" \in faults
  BY <1>1, Delivers DEF Sendable
<1>4. sent.task \in Tasks /\ sent.events \in Seq(Events)
  BY DEF Sendable, Messages
<1>5. QED
  BY <1>2, <1>3, <1>4, Quiet DEF Sendable

(* So does one that follows a stale pointer to a window.                  *)
LEMMA QuietMisuse ==
  ASSUME DesktopInv, StateUnchanged, NEW t, Takes(t), Misuses(t, "window")
  PROVE  DesktopInv'
<1> DEFINE from == [queues EXCEPT ![t] = Tail(@)]
<1>1. /\ Remains(from)
      /\ \A a \in Applications : LET e == Event("task deletion response", a)
                                 IN e \in ToSet(queues["console"]) => e \in ToSet(from["console"])
  BY RepliesStep
<1>2. queues' = [from EXCEPT !["main"] = @ \o << >>] /\ faults' = faults \cup {"window"}
  BY Misused DEF Takes, DesktopInv
<1> HIDE DEF from
<1>3. << >> \in Seq(Events) /\ ToSet(<< >>) = {}
  BY DEF ToSet
<1>4. QED
  BY <1>1, <1>2, <1>3, Quiet, Names

(* So does the user, by what is sent for a click or a key.                *)
LEMMA QuietSend ==
  ASSUME DesktopInv, StateUnchanged, NEW sent, Sendable(sent), Send(sent)
  PROVE  DesktopInv'
<1>1. Remains(queues)
  BY DEF Remains, DesktopInv, Typed
<1>2. /\ queues' = [queues EXCEPT ![sent.task] = @ \o sent.events]
      /\ "console" \in faults' => "console" \in faults
  BY Delivers DEF Sendable, Send
<1>3. sent.task \in Tasks /\ sent.events \in Seq(Events)
  BY DEF Sendable, Messages
<1>4. QED
  BY <1>1, <1>2, <1>3, Quiet DEF Sendable
-----------------------------------------------------------------------------
(* Events have their types and their subjects.                            *)
LEMMA EventTyped ==
  ASSUME NEW type \in EventTypes, NEW subject \in AllWindows \cup AllSheets \cup Tasks
  PROVE  Event(type, subject) \in Events
BY DEF Event, Events

(* What an event says, by its type.                                        *)
LEMMA Meaning ==
  ASSUME NEW t, NEW x
  PROVE  /\ EventOK(t, Event("sheet clicked", x)) <=> x \in AllSheets
         /\ EventOK(t, Event("sheet keyboard", x)) <=> t = "console" /\ x \in AllSheets
         /\ EventOK(t, Event("command issued", x)) <=> t = "console" /\ x \in AllSheets
         /\ EventOK(t, Event("close button clicked", x)) <=> x \in AllWindows
         /\ EventOK(t, Event("window deletion request", x)) <=> x \in AllWindows
         /\ EventOK(t, Event("sheet deletion response", x)) <=> x \in AllSheets
         /\ EventOK(t, Event("sheet deletion request", x)) <=>
              x \in AllSheets /\ (x[1] = ConsoleWindow => console.accepted)
         /\ EventOK(t, Event("window deletion response", x)) <=>
              /\ x \in AllWindows /\ x \notin windows /\ owner[x] # "none"
              /\ x = ConsoleWindow => Gone
         /\ EventOK(t, Event("task deletion request", x)) <=> t = "console" /\ Gone
         /\ EventOK(t, Event("task deletion response", x)) <=>
              \/ t = "main" /\ x = "console"
              \/ x \in Applications /\ status[x] = "closed" /\ parent[x] = t
<1> HIDE DEF Gone
<1>1. EventOK(t, Event("sheet clicked", x)) <=> x \in AllSheets
  BY DEF EventOK, Event
<1>2. EventOK(t, Event("sheet keyboard", x)) <=> t = "console" /\ x \in AllSheets
  BY DEF EventOK, Event
<1>3. EventOK(t, Event("command issued", x)) <=> t = "console" /\ x \in AllSheets
  BY DEF EventOK, Event
<1>4. EventOK(t, Event("close button clicked", x)) <=> x \in AllWindows
  BY DEF EventOK, Event
<1>5. EventOK(t, Event("window deletion request", x)) <=> x \in AllWindows
  BY DEF EventOK, Event
<1>6. EventOK(t, Event("sheet deletion response", x)) <=> x \in AllSheets
  BY DEF EventOK, Event
<1>7. EventOK(t, Event("sheet deletion request", x)) <=>
              x \in AllSheets /\ (x[1] = ConsoleWindow => console.accepted)
  BY DEF EventOK, Event
<1>8. EventOK(t, Event("window deletion response", x)) <=>
              /\ x \in AllWindows /\ x \notin windows /\ owner[x] # "none"
              /\ x = ConsoleWindow => Gone
  BY DEF EventOK, Event
<1>9. EventOK(t, Event("task deletion request", x)) <=> t = "console" /\ Gone
  BY DEF EventOK, Event
<1>10. EventOK(t, Event("task deletion response", x)) <=>
              \/ t = "main" /\ x = "console"
              \/ x \in Applications /\ status[x] = "closed" /\ parent[x] = t
  BY DEF EventOK, Event
<1>11. QED
  BY <1>1, <1>2, <1>3, <1>4, <1>5, <1>6, <1>7, <1>8, <1>9, <1>10

(* Only the end of an application is a report.                             *)
LEMMA NoReports ==
  ASSUME NEW x
  PROVE  /\ ~Reports(Event("sheet clicked", x)) /\ ~Reports(Event("sheet keyboard", x))
         /\ ~Reports(Event("command issued", x)) /\ ~Reports(Event("close button clicked", x))
         /\ ~Reports(Event("sheet deletion request", x)) /\ ~Reports(Event("sheet deletion response", x))
         /\ ~Reports(Event("window deletion request", x)) /\ ~Reports(Event("window deletion response", x))
         /\ ~Reports(Event("task deletion request", x))
         /\ Reports(Event("task deletion response", x)) <=> x \in Applications
BY DEF Reports, Event

(* The event a task handles.                                               *)
LEMMA Dequeued ==
  ASSUME DesktopInv, NEW t \in Tasks, NEW type, NEW subject, Dequeues(t, type, subject)
  PROVE  /\ queues[t] # << >> /\ status[t] = "running"
         /\ Head(queues[t]) = Event(type, subject)
         /\ EventOK(t, Event(type, subject))
         /\ ~Reports(Event(type, subject)) => Takes(t)
<1>1. queues[t] # << >> /\ status[t] = "running" /\ Head(queues[t]) = Event(type, subject)
  BY DEF Dequeues
<1>2. queues[t] \in Seq(Events)
  BY DEF DesktopInv, Typed
<1>3. 1 \in DOMAIN queues[t] /\ queues[t][1] = Head(queues[t])
  BY <1>1, <1>2, HeadTailProperties
<1>4. EventOK(t, Event(type, subject))
  <2>1. EventOK(t, queues[t][1])
    BY <1>3 DEF DesktopInv, QueuesOK
  <2>2. QED
    BY <2>1, <1>1, <1>3
<1>5. QED
  BY <1>1, <1>4 DEF Takes

-----------------------------------------------------------------------------
(* A live window gets the events of its sheets.                           *)
LEMMA SheetMessage ==
  ASSUME DesktopInv, NEW type \in {"sheet clicked", "sheet deletion response"}, NEW s \in AllSheets,
         s[1] \in windows \/ \E part \in Parts : <<s[1], part>> \in sheets
  PROVE  Sendable(ToSheet(type, s))
<1>1. s[1] \in AllWindows
  BY DEF AllSheets
<1>2. owner[s[1]] \in Tasks /\ (owner[s[1]] = "console" => status["console"] = "running")
  BY <1>1, OwnerLives
<1>3. Event(type, s) \in Events
  BY EventTyped DEF EventTypes
<1>4. EventOK(owner[s[1]], Event(type, s))
  BY Meaning
<1>5. ~Reports(Event(type, s))
  BY NoReports
<1>6. QED
  BY <1>2, <1>3, <1>4, <1>5, OneSendable DEF ToSheet

(* A live window gets the events of windows.                              *)
LEMMA WindowMessage ==
  ASSUME DesktopInv, NEW type \in {"close button clicked", "window deletion request"}, NEW w \in AllWindows,
         w \in windows \/ \E part \in Parts : <<w, part>> \in sheets
  PROVE  Sendable(ToWindow(type, w))
<1>1. owner[w] \in Tasks /\ (owner[w] = "console" => status["console"] = "running")
  BY OwnerLives
<1>2. Event(type, w) \in Events
  BY EventTyped DEF EventTypes
<1>3. EventOK(owner[w], Event(type, w))
  BY Meaning
<1>4. ~Reports(Event(type, w))
  BY NoReports
<1>5. QED
  BY <1>1, <1>2, <1>3, <1>4, OneSendable DEF ToWindow

(* Input of the console goes to the console.                               *)
LEMMA ConsoleMessage ==
  ASSUME DesktopInv, NEW type \in {"sheet keyboard", "command issued"}, Client(ConsoleWindow) \in sheets
  PROVE  Sendable(ToSheet(type, Client(ConsoleWindow)))
<1> DEFINE s == Client(ConsoleWindow)
<1>1. s \in AllSheets /\ s[1] = ConsoleWindow
  BY Names DEF DesktopInv, Typed, Client
<1>2. owner[ConsoleWindow] = "console" /\ status["console"] = "running"
  <2>1. owner[ConsoleWindow] = "console"
    BY DEF DesktopInv, Typed
  <2>2. \E part \in Parts : <<ConsoleWindow, part>> \in sheets
    BY DEF Client, Parts
  <2>3. QED
    BY <2>1, <2>2, Names, OwnerLives
<1> HIDE DEF s
<1>3. Event(type, s) \in Events
  BY <1>1, EventTyped DEF EventTypes
<1>4. EventOK("console", Event(type, s))
  BY <1>1, Meaning
<1>5. ~Reports(Event(type, s))
  BY NoReports
<1>6. Sendable(To("console", <<Event(type, s)>>))
  BY <1>2, <1>3, <1>4, <1>5, Names, OneSendable
<1>7. ToSheet(type, s) = To("console", <<Event(type, s)>>)
  BY <1>1, <1>2 DEF ToSheet
<1>8. QED
  BY <1>6, <1>7 DEF s

-----------------------------------------------------------------------------
(* ClickCloseButton keeps the invariant.                                  *)
LEMMA ClickKeeps ==
  ASSUME DesktopInv, NEW w \in AllWindows, ClickCloseButton(w)
  PROVE  DesktopInv'
<1> DEFINE s == <<w, "close button">>
<1>1. s \in sheets /\ Send(ToSheet("sheet clicked", s)) /\ StateUnchanged
  BY DEF ClickCloseButton, StateUnchanged
<1>2. s \in AllSheets /\ s[1] = w /\ \E part \in Parts : <<s[1], part>> \in sheets
  BY <1>1 DEF AllSheets, Parts
<1> HIDE DEF s
<1>3. Sendable(ToSheet("sheet clicked", s))
  BY <1>2, SheetMessage
<1>4. QED
  BY <1>1, <1>3, QuietSend

(* AltF4 keeps the invariant.                                             *)
LEMMA AltF4Keeps ==
  ASSUME DesktopInv, NEW w \in AllWindows, AltF4(w)
  PROVE  DesktopInv'
<1>1. w \in windows /\ Send(ToWindow("window deletion request", w)) /\ StateUnchanged
  BY DEF AltF4, StateUnchanged
<1>2. Sendable(ToWindow("window deletion request", w))
  BY <1>1, WindowMessage
<1>3. QED
  BY <1>1, <1>2, QuietSend

(* Enter keeps the invariant.                                             *)
LEMMA EnterKeeps ==
  ASSUME DesktopInv, Enter
  PROVE  DesktopInv'
<1>1. /\ Client(ConsoleWindow) \in sheets /\ StateUnchanged
      /\ Send(ToSheet("sheet keyboard", Client(ConsoleWindow)))
  BY DEF Enter, StateUnchanged
<1>2. Sendable(ToSheet("sheet keyboard", Client(ConsoleWindow)))
  BY <1>1, ConsoleMessage
<1>3. QED
  BY <1>1, <1>2, QuietSend

(* SheetClicked keeps the invariant.                                      *)
LEMMA SheetClickedKeeps ==
  ASSUME DesktopInv, NEW t \in Tasks, NEW s, SheetClicked(t, s)
  PROVE  DesktopInv'
<1>1. Takes(t) /\ EventOK(t, Event("sheet clicked", s))
  BY Dequeued, NoReports DEF SheetClicked
<1>2. s \in AllSheets
  BY <1>1, Meaning
<1>3. StateUnchanged
  BY DEF SheetClicked, StateUnchanged
<1>4. CASE s \in sheets
  <2>1. s[1] \in AllWindows /\ \E part \in Parts : <<s[1], part>> \in sheets
    BY <1>2, <1>4 DEF AllSheets
  <2>2. Sendable(ToWindow("close button clicked", s[1]))
    BY <2>1, WindowMessage
  <2>3. Replies(t, ToWindow("close button clicked", s[1]))
    BY <1>4 DEF SheetClicked
  <2>4. QED
    BY <1>1, <1>3, <2>2, <2>3, QuietReply
<1>5. CASE s \notin sheets
  <2>1. Replies(t, Nothing)
    BY <1>5 DEF SheetClicked
  <2>2. QED
    BY <1>1, <1>3, <2>1, NothingSendable, QuietReply
<1>6. QED
  BY <1>4, <1>5

(* CloseButtonClicked keeps the invariant.                                *)
LEMMA CloseButtonClickedKeeps ==
  ASSUME DesktopInv, NEW t \in Tasks, NEW w, CloseButtonClicked(t, w)
  PROVE  DesktopInv'
<1> DEFINE sent == IF Root(w) \in sheets THEN ToWindow("window deletion request", w) ELSE Nothing
<1>1. Takes(t) /\ EventOK(t, Event("close button clicked", w))
  BY Dequeued, NoReports DEF CloseButtonClicked
<1>2. w \in AllWindows
  BY <1>1, Meaning
<1>3. StateUnchanged /\ FollowsWindow(t, w, sent)
  BY DEF CloseButtonClicked, StateUnchanged
<1>4. CASE w \in windows
  <2>1. Sendable(ToWindow("window deletion request", w))
    BY <1>2, <1>4, WindowMessage
  <2>2. Sendable(sent)
    BY <2>1, NothingSendable
  <2> HIDE DEF sent
  <2>3. Replies(t, sent)
    BY <1>3, <1>4 DEF FollowsWindow
  <2>4. QED
    BY <1>1, <1>3, <2>2, <2>3, QuietReply
<1>5. CASE w \notin windows
  <2> HIDE DEF sent
  <2>1. Misuses(t, "window")
    BY <1>3, <1>5 DEF FollowsWindow
  <2>2. QED
    BY <1>1, <1>3, <2>1, QuietMisuse
<1>6. QED
  BY <1>4, <1>5

(* KeyboardToConsole keeps the invariant.                                 *)
LEMMA KeyboardToConsoleKeeps ==
  ASSUME DesktopInv, NEW t \in Tasks, KeyboardToConsole(t)
  PROVE  DesktopInv'
<1> DEFINE s == Client(ConsoleWindow)
           sent == IF s \in sheets THEN ToSheet("command issued", s) ELSE Nothing
<1>1. Takes(t)
  BY Dequeued, NoReports DEF KeyboardToConsole
<1>2. Replies(t, sent) /\ StateUnchanged
  BY DEF KeyboardToConsole, StateUnchanged
<1>3. Sendable(sent)
  BY ConsoleMessage, NothingSendable
<1> HIDE DEF sent
<1>4. QED
  BY <1>1, <1>2, <1>3, QuietReply

(* IgnoreCommand keeps the invariant.                                     *)
LEMMA IgnoreCommandKeeps ==
  ASSUME DesktopInv, NEW t \in Tasks, IgnoreCommand(t)
  PROVE  DesktopInv'
<1>1. Takes(t)
  BY Dequeued, NoReports DEF IgnoreCommand
<1>2. Replies(t, Nothing) /\ StateUnchanged
  BY DEF IgnoreCommand, Drops, StateUnchanged
<1>3. QED
  BY <1>1, <1>2, NothingSendable, QuietReply

(* ConsoleWindowDeleted keeps the invariant: the request to close the     *)
(* task is sent when nothing is left of the window.                       *)
LEMMA ConsoleWindowDeletedKeeps ==
  ASSUME DesktopInv, NEW t \in Tasks, ConsoleWindowDeleted(t)
  PROVE  DesktopInv'
<1>1. t = "console" /\ Dequeues(t, "window deletion response", ConsoleWindow)
  BY DEF ConsoleWindowDeleted
<1>2. Takes(t) /\ status[t] = "running" /\ EventOK(t, Event("window deletion response", ConsoleWindow))
  BY <1>1, Dequeued, NoReports
<1>3. Gone
  BY <1>2, Meaning
<1>4. Event("task deletion request", t) \in Events
  BY EventTyped DEF EventTypes
<1>5. EventOK(t, Event("task deletion request", t))
  BY <1>1, <1>3, Meaning
<1>6. ~Reports(Event("task deletion request", t))
  BY NoReports
<1>7. Sendable(To(t, <<Event("task deletion request", t)>>))
  BY <1>2, <1>4, <1>5, <1>6, OneSendable
<1>8. Replies(t, To(t, <<Event("task deletion request", t)>>)) /\ StateUnchanged
  BY DEF ConsoleWindowDeleted, StateUnchanged
<1>9. QED
  BY <1>2, <1>7, <1>8, QuietReply

(* ConsoleClosed keeps the invariant.                                     *)
LEMMA ConsoleClosedKeeps ==
  ASSUME DesktopInv, NEW t \in Tasks, ConsoleClosed(t)
  PROVE  DesktopInv'
<1>1. Takes(t)
  BY Dequeued, NoReports, Names DEF ConsoleClosed
<1>2. Replies(t, Nothing) /\ StateUnchanged
  BY DEF ConsoleClosed, Drops, StateUnchanged
<1>3. QED
  BY <1>1, <1>2, NothingSendable, QuietReply
-----------------------------------------------------------------------------
(* What a message may say in a state it may also say after a step that     *)
(* takes nothing back.                                                     *)
LEMMA StaysSendable ==
  ASSUME DesktopInv, Lasting, NEW sent, Sendable(sent)
  PROVE  \A e \in ToSet(sent.events) : EventOK(sent.task, e)' /\ ~Reports(e)
<1> HIDE DEF EventOK
<1> SUFFICES ASSUME NEW e \in ToSet(sent.events)
             PROVE  EventOK(sent.task, e)' /\ ~Reports(e)
  OBVIOUS
<1>1. sent.task \in Tasks /\ sent.events \in Seq(Events) /\ EventOK(sent.task, e) /\ ~Reports(e)
  BY DEF Sendable, Messages
<1>2. e \in Events
  BY <1>1 DEF ToSet
<1>3. QED
  BY <1>1, <1>2, EventStays DEF Lasting

(* The queues are as they should be, the same applications are reported to *)
(* the console, and no freed console was used.                             *)
Forwarded ==
  /\ queues' \in [Tasks -> Seq(Events)] /\ QueuesOK' /\ ReportedOnce'
  /\ \A a \in Applications : Event("task deletion response", a) \in ToSet(queues'["console"])
                             <=> Event("task deletion response", a) \in ToSet(queues["console"])
  /\ "console" \in faults' => "console" \in faults

(* A handler that changes more than the queues.                            *)
LEMMA Handled ==
  ASSUME DesktopInv, Lasting, NEW t, Takes(t), NEW sent \in Messages, Replies(t, sent),
         \A e \in ToSet(sent.events) : EventOK(sent.task, e)' /\ ~Reports(e),
         sent.events # << >> /\ sent.task = "console" => status["console"] = "running"
  PROVE  Forwarded
<1> HIDE DEF EventOK
<1> DEFINE from == [queues EXCEPT ![t] = Tail(@)]
<1>1. Deliver(sent, from)
  BY DEF Replies
<1>2. /\ Remains(from)
      /\ \A a \in Applications : LET e == Event("task deletion response", a)
                                 IN e \in ToSet(queues["console"]) => e \in ToSet(from["console"])
  BY RepliesStep
<1> HIDE DEF from
<1>3. /\ queues' = [from EXCEPT ![sent.task] = @ \o sent.events]
      /\ "console" \in faults' => "console" \in faults
  BY <1>1, Delivers
<1>4. sent.task \in Tasks /\ sent.events \in Seq(Events)
  BY DEF Messages
<1>5. QED
  BY <1>2, <1>3, <1>4, Moved DEF Forwarded

(* A handler that sends one event, true after the step.                   *)
LEMMA HandledOne ==
  ASSUME DesktopInv, Lasting, NEW t, Takes(t), NEW u \in Tasks, NEW e \in Events,
         Replies(t, To(u, <<e>>)), EventOK(u, e)', ~Reports(e),
         u = "console" => status["console"] = "running"
  PROVE  Forwarded
<1> HIDE DEF EventOK
<1> DEFINE sent == To(u, <<e>>)
<1>1. sent.task = u /\ sent.events = <<e>> /\ sent \in Messages /\ ToSet(<<e>>) = {e}
  BY DEF To, Messages, ToSet
<1> HIDE DEF sent
<1>2. Replies(t, sent)
  BY DEF sent
<1>3. \A x \in ToSet(sent.events) : EventOK(sent.task, x)' /\ ~Reports(x)
  <2>1. \A x \in ToSet(<<e>>) : EventOK(u, x)' /\ ~Reports(x)
    BY <1>1
  <2>2. QED
    BY <2>1, <1>1
<1>4. QED
  BY <1>1, <1>2, <1>3, Handled

(* A handler that follows a stale pointer to a window.                    *)
LEMMA HandledMisuse ==
  ASSUME DesktopInv, Lasting, NEW t, Takes(t), Misuses(t, "window")
  PROVE  Forwarded
<1> DEFINE from == [queues EXCEPT ![t] = Tail(@)]
<1>1. /\ Remains(from)
      /\ \A a \in Applications : LET e == Event("task deletion response", a)
                                 IN e \in ToSet(queues["console"]) => e \in ToSet(from["console"])
  BY RepliesStep
<1>2. queues' = [from EXCEPT !["main"] = @ \o << >>] /\ faults' = faults \cup {"window"}
  BY Misused DEF Takes, DesktopInv
<1> HIDE DEF from
<1>3. << >> \in Seq(Events) /\ \A e \in ToSet(<< >>) : EventOK("main", e)' /\ ~Reports(e)
  BY DEF ToSet
<1>4. QED
  BY <1>1, <1>2, <1>3, Moved, Names DEF Forwarded

-----------------------------------------------------------------------------
(* The console accepts its deletion only while it is not busy.             *)
LEMMA AcceptingKeeps ==
  ASSUME DesktopInv, NEW accepts \in BOOLEAN,
         UNCHANGED <<status, parent, sheets, marked, windows, owner, entries, cursor, late, disturbed, headFirst>>,
         console' = [console EXCEPT !.accepted = @ \/ accepts],
         accepts => ~console.accepted /\ ~console.busy,
         Lasting => Forwarded
  PROVE  DesktopInv'
<1> DEFINE C == [allocated : BOOLEAN, accepted : BOOLEAN, busy : BOOLEAN, exit : BOOLEAN]
<1>1. console \in C
  BY DEF DesktopInv, Typed
<1>2. /\ console' \in C /\ console'.allocated = console.allocated /\ console'.busy = console.busy
      /\ console'.accepted = (console.accepted \/ accepts)
  BY <1>1
<1>3. Gone' = Gone
  BY <1>2 DEF Gone
<1>4. Lasting
  BY <1>2, <1>3 DEF Lasting
<1>5. /\ queues' \in [Tasks -> Seq(Events)] /\ QueuesOK' /\ ReportedOnce'
      /\ \A a \in Applications : Event("task deletion response", a) \in ToSet(queues'["console"])
                                 <=> Event("task deletion response", a) \in ToSet(queues["console"])
      /\ "console" \in faults' => "console" \in faults
  BY <1>4 DEF Forwarded
<1>6. Typed'
  BY <1>2, <1>5 DEF DesktopInv, Typed
<1>7. SheetsOK'
  BY <1>2 DEF DesktopInv, SheetsOK
<1>8. \A a \in Applications : InForeground(a)' <=> InForeground(a)
  BY <1>5 DEF InForeground
<1>9. ConsoleOK'
  <2>1. ~console'.accepted => console'.allocated
    BY <1>2 DEF DesktopInv, ConsoleOK
  <2>2. status'["console"] = "closed" => Gone'
    BY <1>3 DEF DesktopInv, ConsoleOK
  <2>3. \A a \in Applications : status'[a] # "none" => parent'[a] # "none"
    BY DEF DesktopInv, ConsoleOK
  <2>4. ASSUME NEW a \in Applications, console'.accepted, InForeground(a)'
        PROVE  a \in late'
    <3>1. InForeground(a)
      BY <1>8, <2>4
    <3>2. CASE console.accepted
      BY <3>1, <3>2 DEF DesktopInv, ConsoleOK
    <3>3. CASE ~console.accepted
      <4>1. console.allocated /\ ~console.busy
        BY <3>3, <2>4, <1>2 DEF DesktopInv, ConsoleOK
      <4>2. QED
        BY <3>1, <4>1 DEF DesktopInv, BusyMeansRunning
    <3>4. QED
      BY <3>2, <3>3
  <2>5. QED
    BY <2>1, <2>2, <2>3, <2>4 DEF ConsoleOK
<1>10. BusyMeansRunning'
  BY <1>2, <1>8 DEF DesktopInv, BusyMeansRunning
<1>11. ConsoleOutlivesUse'
  BY <1>5 DEF DesktopInv, ConsoleOutlivesUse
<1>12. EntriesOK' /\ \A a \in Applications \ (disturbed \cup headFirst)' : ExitOK(a)'
  BY EntriesKept DEF DesktopInv
<1>13. QED
  BY <1>5, <1>6, <1>7, <1>9, <1>10, <1>11, <1>12 DEF DesktopInv

(* WindowDeletionRequest keeps the invariant: the console refuses while   *)
(* its shell is busy.                                                     *)
LEMMA WindowDeletionRequestKeeps ==
  ASSUME DesktopInv, NEW t \in Tasks, NEW w, WindowDeletionRequest(t, w)
  PROVE  DesktopInv'
<1> DEFINE accepts == Root(w) \in sheets /\ AsksConsole(w) /\ ~Refuses(w)
           sent == IF Root(w) \in sheets /\ ~Refuses(w)
                   THEN ToSheet("sheet deletion request", Root(w)) ELSE Nothing
<1>1. Takes(t) /\ EventOK(t, Event("window deletion request", w))
  BY Dequeued, NoReports DEF WindowDeletionRequest
<1>2. w \in AllWindows
  BY <1>1, Meaning
<1>3. AsksConsole(w) => console.allocated
  BY DEF AsksConsole, DesktopInv, ConsoleOK
<1>4. FollowsWindow(t, w, sent) /\ console' = [console EXCEPT !.accepted = @ \/ accepts]
  BY <1>3 DEF WindowDeletionRequest
<1>5. UNCHANGED <<status, parent, sheets, marked, windows, owner, entries, cursor, late, disturbed, headFirst>>
  BY DEF WindowDeletionRequest, desktop, history
<1>6. accepts \in BOOLEAN /\ (accepts => ~console.accepted /\ ~console.busy)
  BY DEF AsksConsole, Refuses
<1>7. w = ConsoleWindow /\ Root(w) \in sheets /\ ~Refuses(w) => console'.accepted
  <2>1. console \in [allocated : BOOLEAN, accepted : BOOLEAN, busy : BOOLEAN, exit : BOOLEAN]
    BY DEF DesktopInv, Typed
  <2>2. console'.accepted = (console.accepted \/ accepts)
    BY <2>1, <1>4
  <2>3. QED
    BY <2>2 DEF AsksConsole
<1>8. ASSUME Lasting  PROVE Forwarded
  <2>1. CASE w \notin windows
    <3> HIDE DEF sent
    <3>1. Misuses(t, "window")
      BY <1>4, <2>1 DEF FollowsWindow
    <3>2. QED
      BY <1>1, <1>8, <3>1, HandledMisuse
  <2>2. CASE w \in windows
    <3>1. Replies(t, sent)
      BY <1>4, <2>2 DEF FollowsWindow
    <3>2. CASE Root(w) \in sheets /\ ~Refuses(w)
      <4>1. PICK u \in Tasks : u = owner[w] /\ (u = "console" => status["console"] = "running")
        BY <1>2, <2>2, OwnerLives
      <4> DEFINE e == Event("sheet deletion request", Root(w))
      <4>2. sent = To(u, <<e>>)
        BY <3>2, <4>1 DEF ToSheet, Root
      <4>3. Root(w) \in AllSheets /\ Root(w)[1] = w
        BY <1>2 DEF AllSheets, Root, Parts
      <4>4. e \in Events
        BY <4>3, EventTyped DEF EventTypes
      <4>5. EventOK(u, e)'
        BY <4>3, <1>7, <3>2 DEF EventOK, Event
      <4>6. ~Reports(e)
        BY NoReports
      <4>7. Replies(t, To(u, <<e>>))
        BY <3>1, <4>2
      <4> HIDE DEF e, sent
      <4>8. QED
        BY <1>1, <1>8, <4>1, <4>4, <4>5, <4>6, <4>7, HandledOne
    <3>3. CASE ~(Root(w) \in sheets /\ ~Refuses(w))
      <4>1. Replies(t, Nothing)
        BY <3>1, <3>3
      <4>2. \A x \in ToSet(Nothing.events) : EventOK(Nothing.task, x)' /\ ~Reports(x)
        BY <1>8, NothingSendable, StaysSendable
      <4>3. QED
        BY <1>1, <1>8, <4>1, <4>2, NothingSendable, Handled DEF Sendable
    <3>4. QED
      BY <3>2, <3>3
  <2>3. QED
    BY <2>1, <2>2
<1> HIDE DEF accepts, sent
<1>9. QED
  BY <1>4, <1>5, <1>6, <1>8, AcceptingKeeps
-----------------------------------------------------------------------------
(* The tree of a window.                                                   *)
LEMMA Tree ==
  ASSUME NEW s \in AllSheets
  PROVE  /\ s[1] \in AllWindows /\ s[2] \in Parts /\ s = <<s[1], s[2]>>
         /\ \A c \in Children(s) : c \in sheets /\ c[1] = s[1]
         /\ s[2] = "title" /\ <<s[1], "close button">> \in sheets => Children(s) # {}
         /\ s[2] = "root" /\ <<s[1], "title">> \in sheets => Children(s) # {}
         /\ s[2] = "root" /\ <<s[1], "client">> \in sheets => Children(s) # {}
         /\ s[2] # "root" => <<s[1], Above[s[2]]>> \in AllSheets
<1>1. s[1] \in AllWindows /\ s[2] \in Parts /\ s = <<s[1], s[2]>>
  BY DEF AllSheets
<1>2. /\ Above["close button"] = "title" /\ Above["title"] = "root" /\ Above["client"] = "root"
      /\ \A part \in Parts \ {"root"} : Above[part] \in {"title", "root"}
  BY DEF Above, Parts
<1>3. s[2] # "root" => <<s[1], Above[s[2]]>> \in AllSheets
  BY <1>1, <1>2 DEF AllSheets, Parts
<1>4. s[2] = "title" /\ <<s[1], "close button">> \in sheets => <<s[1], "close button">> \in Children(s)
  BY <1>2 DEF Children
<1>5. s[2] = "root" /\ <<s[1], "title">> \in sheets => <<s[1], "title">> \in Children(s)
  BY <1>2 DEF Children
<1>6. s[2] = "root" /\ <<s[1], "client">> \in sheets => <<s[1], "client">> \in Children(s)
  BY <1>2 DEF Children
<1>7. \A c \in Children(s) : c \in sheets /\ c[1] = s[1] /\ s[2] = Above[c[2]] /\ c[2] # "root"
  BY DEF Children
<1>8. QED
  BY <1>1, <1>3, <1>4, <1>5, <1>6, <1>7

(* No child of a client sheet: there is none, when sheets are sheets.      *)
LEMMA ClientIsLeaf ==
  ASSUME Typed, NEW s \in AllSheets, s[2] = "client"
  PROVE  Children(s) = {}
<1> SUFFICES ASSUME NEW c \in Children(s)
             PROVE  FALSE
  OBVIOUS
<1>1. c \in AllSheets /\ c[2] # "root" /\ Above[c[2]] = "client"
  BY DEF Children, Typed
<1>2. c[2] \in Parts \ {"root"}
  BY <1>1 DEF AllSheets
<1>3. Above[c[2]] \in {"title", "root"}
  BY <1>2 DEF Above
<1>4. QED
  BY <1>1, <1>3

(* The handlers of the requests and responses of sheets.                   *)
LEMMA SheetStep ==
  ASSUME DesktopInv, Lasting => Forwarded,
         UNCHANGED <<status, parent, owner, entries, cursor, late, disturbed, headFirst>>,
         console' \in [allocated : BOOLEAN, accepted : BOOLEAN, busy : BOOLEAN, exit : BOOLEAN],
         console'.accepted = console.accepted, console'.busy = console.busy,
         console'.allocated => console.allocated,
         ~console'.accepted => console'.allocated,
         sheets' \subseteq sheets, windows' \subseteq windows, marked' \subseteq AllSheets,
         SheetsOK'
  PROVE  DesktopInv'
<1>1. Gone => Gone'
  BY DEF Gone
<1>2. Lasting
  BY <1>1 DEF Lasting
<1>3. Forwarded
  BY <1>2
<1>4. Typed'
  BY <1>3 DEF DesktopInv, Typed, Forwarded
<1>5. \A a \in Applications : InForeground(a)' <=> InForeground(a)
  BY <1>3 DEF InForeground, Forwarded
<1>6. ConsoleOK'
  <2>1. ~console'.accepted => console'.allocated
    OBVIOUS
  <2>2. status'["console"] = "closed" => Gone'
    BY <1>1 DEF DesktopInv, ConsoleOK
  <2>3. \A a \in Applications : status'[a] # "none" => parent'[a] # "none"
    BY DEF DesktopInv, ConsoleOK
  <2>4. \A a \in Applications : console'.accepted /\ InForeground(a)' => a \in late'
    BY <1>5 DEF DesktopInv, ConsoleOK
  <2>5. QED
    BY <2>1, <2>2, <2>3, <2>4 DEF ConsoleOK
<1>7. BusyMeansRunning'
  BY <1>5 DEF DesktopInv, BusyMeansRunning
<1>8. ConsoleOutlivesUse'
  BY <1>3 DEF DesktopInv, ConsoleOutlivesUse, Forwarded
<1>9. EntriesOK' /\ \A a \in Applications \ (disturbed \cup headFirst)' : ExitOK(a)'
  BY EntriesKept DEF DesktopInv
<1>10. QED
  BY <1>3, <1>4, <1>6, <1>7, <1>8, <1>9 DEF DesktopInv, Forwarded

(* A sheet without children goes.                                          *)
LEMMA SheetGoes ==
  ASSUME DesktopInv, NEW s \in AllSheets, Children(s) = {}, sheets' = sheets \ {s},
         marked' = marked, windows' \subseteq windows, owner' = owner,
         console'.allocated => console.allocated /\ s # Client(ConsoleWindow)
  PROVE  SheetsOK'
<1>1. <<ConsoleWindow, "close button">> \in sheets' => <<ConsoleWindow, "title">> \in sheets'
  <2> SUFFICES ASSUME <<ConsoleWindow, "close button">> \in sheets'
               PROVE  <<ConsoleWindow, "title">> \in sheets'
    OBVIOUS
  <2>1. <<ConsoleWindow, "close button">> \in sheets /\ <<ConsoleWindow, "title">> \in sheets
    BY DEF DesktopInv, SheetsOK
  <2>2. s # <<ConsoleWindow, "title">>
    <3> SUFFICES ASSUME s = <<ConsoleWindow, "title">>
                 PROVE  FALSE
      OBVIOUS
    <3>1. s[1] = ConsoleWindow /\ s[2] = "title"
      OBVIOUS
    <3>2. QED
      BY <3>1, <2>1, Tree
  <2>3. QED
    BY <2>1, <2>2
<1>2. console'.allocated => Client(ConsoleWindow) \in sheets'
  BY DEF DesktopInv, SheetsOK
<1>3. QED
  BY <1>1, <1>2 DEF DesktopInv, SheetsOK

(* A live sheet is one of the sheets of its window.                       *)
LEMMA OneOfItsSheets ==
  ASSUME NEW s \in AllSheets, s \in sheets
  PROVE  s[1] \in AllWindows /\ \E part \in Parts : <<s[1], part>> \in sheets
<1>1. s[1] \in AllWindows /\ s[2] \in Parts /\ s = <<s[1], s[2]>>
  BY Tree
<1>2. s[2] \in Parts /\ <<s[1], s[2]>> \in sheets
  BY <1>1
<1>3. QED
  BY <1>1, <1>2

(* Four things are finitely many: SetToSeqs needs a finite set of         *)
(* children.                                                              *)
LEMMA FourAreFinite == \A a, b, c, d : IsFiniteSet({a, b, c, d})
<1> SUFFICES ASSUME NEW a, NEW b, NEW c, NEW d
             PROVE  IsFiniteSet({a, b, c, d})
  OBVIOUS
<1>1. IsFiniteSet({})
  BY FS_EmptySet
<1>2. IsFiniteSet({} \cup {a})
  BY <1>1, FS_AddElement
<1>3. IsFiniteSet(({} \cup {a}) \cup {b})
  BY <1>2, FS_AddElement
<1>4. IsFiniteSet((({} \cup {a}) \cup {b}) \cup {c})
  BY <1>3, FS_AddElement
<1>5. IsFiniteSet(((({} \cup {a}) \cup {b}) \cup {c}) \cup {d})
  BY <1>4, FS_AddElement
<1>6. (((({} \cup {a}) \cup {b}) \cup {c}) \cup {d}) = {a, b, c, d}
  OBVIOUS
<1>7. QED
  BY <1>5, <1>6

(* The response of a sheet that is going may be sent to its parent.       *)
LEMMA ResponseSendable ==
  ASSUME DesktopInv, NEW s \in AllSheets, s \in sheets
  PROVE  Sendable(Response(s))
<1>1. CASE s[2] = "root"
  BY <1>1, NothingSendable DEF Response
<1>2. CASE s[2] # "root"
  <2> DEFINE p == <<s[1], Above[s[2]]>>
  <2>1. p \in AllSheets /\ p[1] = s[1] /\ \E part \in Parts : <<s[1], part>> \in sheets
    BY <1>2, Tree, OneOfItsSheets
  <2> HIDE DEF p
  <2>2. Sendable(ToSheet("sheet deletion response", p))
    BY <2>1, SheetMessage
  <2>3. QED
    BY <1>2, <2>2 DEF Response, p
<1>3. QED
  BY <1>1, <1>2

(* A message that was fit to send is forwarded.                            *)
LEMMA HandledSendable ==
  ASSUME DesktopInv, Lasting, NEW t, Takes(t), NEW sent, Sendable(sent), Replies(t, sent)
  PROVE  Forwarded
<1>1. \A e \in ToSet(sent.events) : EventOK(sent.task, e)' /\ ~Reports(e)
  BY StaysSendable
<1>2. QED
  BY <1>1, Handled DEF Sendable

(* The requests to the children of a sheet, in whatever order.             *)
LEMMA RequestsSendable ==
  ASSUME DesktopInv, NEW s \in AllSheets, s \in sheets, s[1] = ConsoleWindow => console.accepted,
         NEW order \in SetToSeqs(Children(s))
  PROVE  Sendable(To(owner[s[1]], [k \in DOMAIN order |-> Event("sheet deletion request", order[k])]))
<1> DEFINE events == [k \in DOMAIN order |-> Event("sheet deletion request", order[k])]
<1>1. sheets \subseteq AllSheets
  BY DEF DesktopInv, Typed
<1>2. \A c \in Children(s) : c \in AllSheets /\ c[1] = s[1]
  BY <1>1, Tree
<1>3. order \in [1 .. Cardinality(Children(s)) -> Children(s)]
  BY DEF SetToSeqs
<1>4. Cardinality(Children(s)) \in Nat
  <2>1. Children(s) \subseteq {<<s[1], "root">>, <<s[1], "title">>, <<s[1], "close button">>, <<s[1], "client">>}
    <3> SUFFICES ASSUME NEW c \in Children(s)
                 PROVE  c \in {<<s[1], "root">>, <<s[1], "title">>, <<s[1], "close button">>, <<s[1], "client">>}
      OBVIOUS
    <3>1. c \in AllSheets /\ c[1] = s[1]
      BY <1>2
    <3>2. c = <<c[1], c[2]>> /\ c[2] \in {"root", "title", "close button", "client"}
      BY <3>1, Tree DEF Parts
    <3>3. QED
      BY <3>1, <3>2
  <2>2. IsFiniteSet({<<s[1], "root">>, <<s[1], "title">>, <<s[1], "close button">>, <<s[1], "client">>})
    BY FourAreFinite
  <2>3. QED
    BY <2>1, <2>2, FS_Subset, FS_CardinalityType
<1>5. \A c \in Children(s) : Event("sheet deletion request", c) \in Events
  BY <1>2, EventTyped DEF EventTypes
<1>6. events \in Seq(Events)
  <2> DEFINE n == Cardinality(Children(s))
  <2>1. n \in Nat /\ DOMAIN order = 1 .. n /\ \A k \in 1 .. n : order[k] \in Children(s)
    BY <1>3, <1>4
  <2> HIDE DEF n
  <2>2. events \in [1 .. n -> Events]
    BY <2>1, <1>5
  <2> HIDE DEF events
  <2>3. QED
    BY <2>1, <2>2
<1>7. owner[s[1]] \in Tasks /\ (owner[s[1]] = "console" => status["console"] = "running")
  <2>1. s[1] \in AllWindows /\ \E part \in Parts : <<s[1], part>> \in sheets
    BY OneOfItsSheets
  <2>2. QED
    BY <2>1, OwnerLives
<1>8. ASSUME NEW e \in ToSet(events)
      PROVE  EventOK(owner[s[1]], e) /\ ~Reports(e)
  <2>1. PICK k \in DOMAIN order : e = Event("sheet deletion request", order[k])
    BY <1>8 DEF ToSet
  <2>2. PICK c \in Children(s) : e = Event("sheet deletion request", c)
    BY <2>1, <1>3
  <2>3. c \in AllSheets /\ (c[1] = ConsoleWindow => console.accepted)
    BY <1>2
  <2>4. QED
    BY <2>2, <2>3, Meaning, NoReports
<1> HIDE DEF events
<1>9. /\ To(owner[s[1]], events).task = owner[s[1]] /\ To(owner[s[1]], events).events = events
      /\ To(owner[s[1]], events) \in Messages
  BY <1>6, <1>7 DEF To, Messages
<1>10. Sendable(To(owner[s[1]], events))
  BY <1>7, <1>8, <1>9 DEF Sendable
<1>11. QED
  BY <1>10 DEF events
-----------------------------------------------------------------------------
(* SheetDeletionRequest keeps the invariant: a sheet passes the request   *)
(* on to its children, or goes.                                           *)
LEMMA SheetDeletionRequestKeeps ==
  ASSUME DesktopInv, NEW t \in Tasks, NEW s, SheetDeletionRequest(t, s)
  PROVE  DesktopInv'
<1>1. Takes(t) /\ EventOK(t, Event("sheet deletion request", s))
  BY Dequeued, NoReports DEF SheetDeletionRequest
<1>2. s \in AllSheets /\ (s[1] = ConsoleWindow => console.accepted)
  <2>1. EventOK(t, Event("sheet deletion request", s)) <=>
          s \in AllSheets /\ (s[1] = ConsoleWindow => console.accepted)
    BY DEF EventOK, Event
  <2>2. QED
    BY <1>1, <2>1
<1> DEFINE C == [allocated : BOOLEAN, accepted : BOOLEAN, busy : BOOLEAN, exit : BOOLEAN]
           dies == s \in sheets /\ DeletesConsole(s)
<1>3. console \in C /\ console' = [console EXCEPT !.allocated = @ /\ ~dies]
  <2>1. console \in C
    BY DEF DesktopInv, Typed
  <2>2. console' = [console EXCEPT !.allocated = @ /\ ~dies]
    BY DEF SheetDeletionRequest
  <2>3. QED
    BY <2>1, <2>2
<1>4. /\ console' \in C /\ console'.accepted = console.accepted /\ console'.busy = console.busy
      /\ console'.allocated = (console.allocated /\ ~dies)
  BY <1>3
<1>5. ~console'.accepted => console'.allocated
  <2>1. dies => console.accepted
    BY <1>2 DEF DeletesConsole, Client
  <2>2. ~console.accepted => console.allocated
    BY DEF DesktopInv, ConsoleOK
  <2>3. QED
    BY <1>4, <2>1, <2>2
<1>6. UNCHANGED <<status, parent, owner, entries, cursor, late, disturbed, headFirst>>
  BY DEF SheetDeletionRequest, desktop, history
<1>7. marked \subseteq AllSheets
  BY DEF DesktopInv, Typed
<1>8. CASE s \notin sheets
  <2>1. Replies(t, Nothing) /\ UNCHANGED <<sheets, marked, windows, owner>>
    BY <1>8 DEF SheetDeletionRequest, Drops, desktop
  <2>2. SheetsOK'
    BY <2>1, <1>4, <1>8 DEF DesktopInv, SheetsOK
  <2>3. Lasting => Forwarded
    BY <2>1, <1>1, NothingSendable, HandledSendable
  <2>4. QED
    BY <2>1, <2>2, <2>3, <1>4, <1>5, <1>6, <1>7, SheetStep
<1>9. CASE s \in sheets /\ Children(s) # {}
  <2>1. /\ marked' = marked \cup {s} /\ UNCHANGED <<sheets, windows, owner>>
        /\ \E order \in SetToSeqs(Children(s)) :
              Replies(t, To(owner[s[1]], [k \in DOMAIN order |-> Event("sheet deletion request", order[k])]))
    BY <1>9 DEF SheetDeletionRequest
  <2>2. PICK order \in SetToSeqs(Children(s)) :
              Replies(t, To(owner[s[1]], [k \in DOMAIN order |-> Event("sheet deletion request", order[k])]))
    BY <2>1
  <2>3. Sendable(To(owner[s[1]], [k \in DOMAIN order |-> Event("sheet deletion request", order[k])]))
    BY <1>2, <1>9, RequestsSendable
  <2> DEFINE m == To(owner[s[1]], [k \in DOMAIN order |-> Event("sheet deletion request", order[k])])
  <2>4. Sendable(m) /\ Replies(t, m)
    BY <2>2, <2>3
  <2> HIDE DEF m
  <2>5. Lasting => Forwarded
    BY <2>4, <1>1, HandledSendable
  <2>6. s[2] # "client"
    BY <1>2, <1>9, ClientIsLeaf DEF DesktopInv
  <2>7. SheetsOK'
    BY <2>1, <2>6, <1>4, <1>9 DEF DesktopInv, SheetsOK, DeletesConsole, Client
  <2>8. QED
    BY <2>1, <2>5, <2>7, <1>2, <1>4, <1>5, <1>6, <1>7, SheetStep
<1>10. CASE s \in sheets /\ Children(s) = {}
  <2>1. sheets' = sheets \ {s} /\ Replies(t, Response(s)) /\ UNCHANGED <<marked, windows, owner>>
    BY <1>10 DEF SheetDeletionRequest
  <2>2. console'.allocated => console.allocated /\ s # Client(ConsoleWindow)
    BY <1>4, <1>10 DEF DeletesConsole
  <2>3. SheetsOK'
    BY <2>1, <2>2, <1>2, <1>10, SheetGoes
  <2>4. Lasting => Forwarded
    BY <2>1, <1>1, <1>2, <1>10, ResponseSendable, HandledSendable
  <2>5. QED
    BY <2>1, <2>3, <2>4, <1>4, <1>5, <1>6, <1>7, SheetStep
<1>11. QED
  BY <1>8, <1>9, <1>10

(* The last child of the root of a window is gone: so is the window.       *)
LEMMA RootGoes ==
  ASSUME DesktopInv, NEW w \in AllWindows, Root(w) \in sheets, Children(Root(w)) = {},
         sheets' = sheets \ {Root(w)}, windows' = windows \ {w}, owner' = owner, console' = console
  PROVE  EventOK(owner[w], Event("window deletion response", w))'
<1>1. Root(w) \in AllSheets /\ Root(w)[1] = w /\ Root(w)[2] = "root"
  BY DEF AllSheets, Root, Parts
<1>2. owner[w] # "none"
  BY <1>1, OneOfItsSheets, OwnerLives, Names
<1>3. <<w, "title">> \notin sheets /\ <<w, "client">> \notin sheets
  BY <1>1, Tree
<1>4. w = ConsoleWindow => Gone'
  <2> SUFFICES ASSUME w = ConsoleWindow
               PROVE  Gone'
    OBVIOUS
  <2>1. <<ConsoleWindow, "close button">> \notin sheets /\ ~console.allocated
    BY <1>3 DEF DesktopInv, SheetsOK, Client
  <2>2. \A part \in Parts : <<ConsoleWindow, part>> \notin sheets'
    BY <1>3, <2>1 DEF Parts, Root
  <2>3. QED
    BY <2>1, <2>2 DEF Gone
<1>5. w \notin windows' /\ owner'[w] # "none"
  BY <1>2
<1>6. QED
  BY <1>4, <1>5 DEF EventOK, Event

(* SheetDeletionResponse keeps the invariant: a sheet goes after its last *)
(* child, the root sheet with the window.                                 *)
LEMMA SheetDeletionResponseKeeps ==
  ASSUME DesktopInv, NEW t \in Tasks, NEW s, SheetDeletionResponse(t, s)
  PROVE  DesktopInv'
<1> DEFINE C == [allocated : BOOLEAN, accepted : BOOLEAN, busy : BOOLEAN, exit : BOOLEAN]
<1>1. Takes(t) /\ EventOK(t, Event("sheet deletion response", s))
  BY Dequeued, NoReports DEF SheetDeletionResponse
<1>2. s \in AllSheets
  BY <1>1, Meaning
<1>3. console' \in C /\ console' = console /\ marked \subseteq AllSheets
  BY DEF DesktopInv, Typed, SheetDeletionResponse
<1>4. ~console'.accepted => console'.allocated
  BY <1>3 DEF DesktopInv, ConsoleOK
<1>5. UNCHANGED <<status, parent, owner, entries, cursor, late, disturbed, headFirst>>
  BY DEF SheetDeletionResponse, desktop, history
<1>6. CASE ~(s \in sheets /\ s \in marked /\ Children(s) = {})
  <2>1. Replies(t, Nothing) /\ UNCHANGED <<sheets, marked, windows, owner>>
    BY <1>6 DEF SheetDeletionResponse, Drops, desktop
  <2>2. SheetsOK'
    BY <2>1, <1>3 DEF DesktopInv, SheetsOK
  <2>3. Lasting => Forwarded
    BY <2>1, <1>1, NothingSendable, HandledSendable
  <2>4. QED
    BY <2>1, <2>2, <2>3, <1>3, <1>4, <1>5, SheetStep
<1>7. CASE s \in sheets /\ s \in marked /\ Children(s) = {}
  <2>1. /\ sheets' = sheets \ {s} /\ UNCHANGED <<marked, owner>>
        /\ windows' = IF s[2] = "root" THEN windows \ {s[1]} ELSE windows
        /\ Replies(t, IF s[2] = "root" THEN ToWindow("window deletion response", s[1]) ELSE Response(s))
    BY <1>7 DEF SheetDeletionResponse
  <2>2. s # Client(ConsoleWindow)
    <3>1. s[2] # "client"
      BY <1>7 DEF DesktopInv, SheetsOK
    <3>2. Client(ConsoleWindow)[2] = "client"
      BY DEF Client
    <3>3. QED
      BY <3>1, <3>2
  <2>3. SheetsOK'
    BY <2>1, <2>2, <1>2, <1>3, <1>7, SheetGoes
  <2>4. Lasting => Forwarded
    <3> SUFFICES ASSUME Lasting PROVE Forwarded
      OBVIOUS
    <3>1. CASE s[2] # "root"
      <4>1. Replies(t, Response(s))
        BY <2>1, <3>1
      <4>2. QED
        BY <4>1, <1>1, <1>2, <1>7, ResponseSendable, HandledSendable
    <3>2. CASE s[2] = "root"
      <4>1. PICK w \in AllWindows : w = s[1]
        BY <1>2, Tree
      <4>2. s = Root(w)
        BY <1>2, <3>2, <4>1, Tree DEF Root
      <4>3. PICK u \in Tasks : u = owner[w] /\ (u = "console" => status["console"] = "running")
        BY <1>2, <1>7, <4>1, OneOfItsSheets, OwnerLives
      <4>4. EventOK(owner[w], Event("window deletion response", w))'
        BY <2>1, <1>3, <1>7, <3>2, <4>1, <4>2, RootGoes
      <4>5. EventOK(u, Event("window deletion response", w))'
        BY <4>3, <4>4, <2>1
      <4>6. Event("window deletion response", w) \in Events
        BY EventTyped DEF EventTypes
      <4>7. Replies(t, To(u, <<Event("window deletion response", w)>>))
        BY <2>1, <3>2, <4>1, <4>3 DEF ToWindow
      <4>8. QED
        BY <1>1, <4>3, <4>5, <4>6, <4>7, NoReports, HandledOne
    <3>3. QED
      BY <3>1, <3>2
  <2>5. QED
    BY <2>1, <2>3, <2>4, <1>3, <1>4, <1>5, SheetStep
<1>8. QED
  BY <1>6, <1>7
-----------------------------------------------------------------------------
(* ExecuteCommand keeps the invariant: the application started is the     *)
(* only one in the foreground, and late if the console is being closed.   *)
LEMMA ExecuteCommandKeeps ==
  ASSUME DesktopInv, NEW t \in Tasks, NEW a \in Applications, NEW background \in BOOLEAN,
         ExecuteCommand(t, a, background)
  PROVE  DesktopInv'
<1> DEFINE C == [allocated : BOOLEAN, accepted : BOOLEAN, busy : BOOLEAN, exit : BOOLEAN]
<1>1. Takes(t) /\ EventOK(t, Event("command issued", Client(ConsoleWindow)))
  BY Dequeued, NoReports DEF ExecuteCommand
<1>2. t = "console"
  BY <1>1, Meaning
<1>3. /\ status[a] = "none" /\ ~console.busy /\ Replies(t, Nothing)
      /\ status' = [status EXCEPT ![a] = "running"]
      /\ parent' = [parent EXCEPT ![a] = IF background THEN "main" ELSE "console"]
      /\ console' = [console EXCEPT !.busy = ~background]
      /\ late' = IF console.accepted /\ ~background THEN late \cup {a} ELSE late
      /\ UNCHANGED <<sheets, marked, windows, owner, entries, cursor, disturbed, headFirst>>
  BY <1>2 DEF ExecuteCommand, Fresh, Drops, desktop
<1>4. console \in C /\ status \in [Tasks -> {"none", "running", "exiting", "closed"}]
      /\ parent \in [Applications -> {"none", "main", "console"}]
  BY DEF DesktopInv, Typed
<1>5. /\ console' \in C /\ console'.accepted = console.accepted
      /\ console'.allocated = console.allocated /\ console'.busy = ~background
  BY <1>3, <1>4
<1>6. /\ status' \in [Tasks -> {"none", "running", "exiting", "closed"}]
      /\ parent' \in [Applications -> {"none", "main", "console"}]
      /\ status'[a] = "running" /\ parent'[a] = IF background THEN "main" ELSE "console"
      /\ \A x \in Tasks : x # a => status'[x] = status[x]
      /\ \A x \in Applications : x # a => parent'[x] = parent[x]
  BY <1>3, <1>4, Names
<1>7. Gone' = Gone
  BY <1>3, <1>5 DEF Gone
<1>8. Lasting
  <2>1. \A x \in Applications : status[x] = "closed" => status'[x] = "closed" /\ parent'[x] = parent[x]
    BY <1>3, <1>6, Names
  <2>2. QED
    BY <2>1, <1>3, <1>5, <1>7 DEF Lasting
<1>9. Forwarded
  BY <1>1, <1>3, <1>8, NothingSendable, HandledSendable
<1>10. Typed'
  <2>1. status'["main"] = status["main"] /\ status'["console"] = status["console"]
    BY <1>6, Names
  <2>2. queues' \in [Tasks -> Seq(Events)]
    BY <1>9 DEF Forwarded
  <2> HIDE DEF C
  <2>3. QED
    BY <2>1, <2>2, <1>3, <1>5, <1>6 DEF DesktopInv, Typed, C
<1>11. SheetsOK'
  BY <1>3, <1>5 DEF DesktopInv, SheetsOK
<1>12. \A b \in Applications : b # a => (InForeground(b)' <=> InForeground(b))
  BY <1>6, <1>9, Names DEF InForeground, Forwarded
<1>13. InForeground(a)' <=> ~background
  BY <1>6 DEF InForeground
<1>14. ConsoleOK'
  <2>1. ~console'.accepted => console'.allocated
    BY <1>5 DEF DesktopInv, ConsoleOK
  <2>2. status'["console"] = "closed" => Gone'
    BY <1>6, <1>7, Names DEF DesktopInv, ConsoleOK
  <2>3. \A x \in Applications : status'[x] # "none" => parent'[x] # "none"
    BY <1>6, Names DEF DesktopInv, ConsoleOK
  <2>4. \A x \in Applications : console'.accepted /\ InForeground(x)' => x \in late'
    BY <1>3, <1>5, <1>12, <1>13 DEF DesktopInv, ConsoleOK
  <2>5. QED
    BY <2>1, <2>2, <2>3, <2>4 DEF ConsoleOK
<1>15. BusyMeansRunning'
  <2> SUFFICES ASSUME console.allocated
               PROVE  /\ console'.busy <=> \E x \in Applications : InForeground(x)'
                      /\ \A x, y \in Applications : InForeground(x)' /\ InForeground(y)' => x = y
    BY <1>5 DEF BusyMeansRunning
  <2>1. \A x \in Applications : ~InForeground(x)
    BY <1>3 DEF DesktopInv, BusyMeansRunning
  <2>2. \A x \in Applications : InForeground(x)' <=> x = a /\ ~background
    BY <2>1, <1>12, <1>13
  <2>3. QED
    BY <2>2, <1>5
<1>16. ConsoleOutlivesUse'
  BY <1>3, <1>9 DEF DesktopInv, ConsoleOutlivesUse, Forwarded
<1>17. EntriesOK' /\ \A x \in Applications \ (disturbed \cup headFirst)' : ExitOK(x)'
  <2>1. \A x \in Applications : status'[x] \in {"exiting", "closed"} => status'[x] = status[x]
    BY <1>6, Names
  <2>2. QED
    BY <2>1, <1>3, EntriesKept DEF DesktopInv
<1>18. QED
  BY <1>9, <1>10, <1>11, <1>14, <1>15, <1>16, <1>17 DEF DesktopInv, Forwarded

-----------------------------------------------------------------------------
(* An application of which the end is not newly reported is in the         *)
(* foreground only if it was.                                              *)
LEMMA ForegroundWas ==
  ASSUME Typed, NEW from, Remains(from), NEW u \in Tasks, NEW events \in Seq(Events),
         queues' = [from EXCEPT ![u] = @ \o events], \A e \in ToSet(events) : ~Reports(e),
         NEW a \in Applications, parent' = parent, status'[a] = status[a]
  PROVE  /\ InForeground(a)' => InForeground(a)
         /\ Event("task deletion response", a) \in ToSet(queues'["console"]) =>
              Event("task deletion response", a) \in ToSet(from["console"])
<1> DEFINE e == Event("task deletion response", a)
<1>1. Reports(e)
  BY NoReports
<1> HIDE DEF e
<1>2. /\ ToSet(from["console"]) \subseteq ToSet(queues["console"])
      /\ from \in [Tasks -> Seq(Events)] /\ "console" \in Tasks
  BY RemainsWere, Names DEF Remains
<1>3. ToSet(queues'["console"]) = IF "console" = u THEN ToSet(from["console"]) \cup ToSet(events)
                                  ELSE ToSet(from["console"])
  BY <1>2, QueueHolds
<1>4. e \in ToSet(queues'["console"]) => e \in ToSet(from["console"])
  BY <1>1, <1>3
<1>5. e \in ToSet(queues'["console"]) => e \in ToSet(queues["console"])
  BY <1>2, <1>4
<1>6. QED
  BY <1>4, <1>5 DEF e, InForeground

(* What a queue holds once is not in the rest of it.                       *)
LEMMA FirstOnce ==
  ASSUME NEW q \in Seq(Events), q # << >>, NEW e, Head(q) = e,
         Once(q, e)
  PROVE  e \notin ToSet(Tail(q))
<1> DEFINE r == Tail(q)
<1>1. /\ Head(q) \in Events /\ r \in Seq(Events) /\ Len(r) = Len(q) - 1
      /\ Head(q) = q[1] /\ \A i \in 1 .. Len(r) : r[i] = q[i + 1]
  BY HeadTailProperties
<1>2. DOMAIN q = 1 .. Len(q) /\ Len(q) \in Nat /\ DOMAIN r = 1 .. Len(r) /\ 1 \in DOMAIN q
  BY <1>1
<1> HIDE DEF r
<1>3. ASSUME NEW i \in DOMAIN r, r[i] = e
      PROVE  FALSE
  <2>1. i + 1 \in DOMAIN q /\ q[i + 1] = e /\ i + 1 # 1
    BY <1>1, <1>2, <1>3
  <2>2. q[1] = e
    BY <1>1
  <2>3. i + 1 = 1
    BY <2>1, <2>2, <1>2 DEF Once
  <2>4. QED
    BY <2>1, <2>3
<1>4. QED
  BY <1>3 DEF ToSet, r

(* The first event is the only one that reports the end of an application. *)
LEMMA HeadOnce ==
  ASSUME Typed, ReportedOnce, NEW t \in Tasks, NEW a \in Applications, queues[t] # << >>,
         Head(queues[t]) = Event("task deletion response", a)
  PROVE  Event("task deletion response", a) \notin ToSet(Tail(queues[t]))
<1>1. queues[t] \in Seq(Events)
  BY DEF Typed
<1>2. Once(queues[t], Event("task deletion response", a))
  BY DEF ReportedOnce
<1>3. QED
  BY <1>1, <1>2, FirstOnce

(* CleanUpCommandTask keeps the invariant: the report that is handled is  *)
(* the only one, so the flag may be cleared; a console that is gone by    *)
(* then was used too late.                                                *)
LEMMA CleanUpCommandTaskKeeps ==
  ASSUME DesktopInv, NEW t \in Tasks, NEW a, CleanUpCommandTask(t, a)
  PROVE  DesktopInv'
<1> DEFINE C == [allocated : BOOLEAN, accepted : BOOLEAN, busy : BOOLEAN, exit : BOOLEAN]
           e == Event("task deletion response", a)
           from == [queues EXCEPT ![t] = Tail(@)]
<1>1. /\ a \in Applications /\ queues[t] # << >> /\ status[t] = "running"
      /\ Head(queues[t]) = e /\ EventOK(t, e)
  BY Dequeued DEF CleanUpCommandTask
<1>2. status[a] = "closed" /\ parent[a] = t
  BY <1>1, Meaning, Names
<1>3. UNCHANGED <<status, parent, sheets, marked, windows, owner, entries, cursor, late, disturbed, headFirst>>
  BY DEF CleanUpCommandTask, desktop, history
<1>4. CASE t = "main"
  <2>1. Takes(t) /\ Replies(t, Nothing) /\ UNCHANGED console
    BY <1>1, <1>4 DEF Takes, CleanUpCommandTask, Drops
  <2>2. StateUnchanged
    BY <2>1, <1>3 DEF StateUnchanged, desktop, history
  <2>3. QED
    BY <2>1, <2>2, NothingSendable, QuietReply
<1>5. CASE t # "main"
  <2>1. t = "console"
    BY <1>1, <1>2, <1>5, Names DEF DesktopInv, Typed
  <2>2. InForeground(a)
    <3>1. queues[t] \in Seq(Events)
      BY DEF DesktopInv, Typed
    <3>2. e \in ToSet(queues["console"])
      BY <3>1, <1>1, <2>1, TailElements
    <3>3. QED
      BY <3>2, <1>2, <2>1 DEF InForeground
  <2>3. /\ Remains(from) /\ from["console"] = Tail(queues["console"])
    BY <1>1, <2>1, TakesFirst DEF DesktopInv
  <2>4. e \notin ToSet(from["console"])
    BY <1>1, <2>1, <2>3, HeadOnce DEF DesktopInv
  <2> HIDE DEF from, e
  <2>5. console \in C
    BY DEF DesktopInv, Typed
  <2>6. SUFFICES ASSUME NEW events \in Seq(Events),
                        queues' = [from EXCEPT !["console"] = @ \o events],
                        \A x \in ToSet(events) : EventOK("console", x) /\ ~Reports(x),
                        console' \in C, console'.accepted = console.accepted,
                        console'.allocated = console.allocated, console.allocated => ~console'.busy,
                        "console" \in faults' => "console" \in faults \/ ~console.allocated
                 PROVE  DesktopInv'
    <3>1. CASE ~console.allocated
      <4>1. Misuses(t, "console") /\ console' = console
        BY <1>5, <3>1 DEF CleanUpCommandTask
      <4>2. queues' = [from EXCEPT !["main"] = @ \o << >>]
        BY <4>1, <1>1, Misused DEF from, DesktopInv
      <4>3. /\ from \in [Tasks -> Seq(Events)] /\ "main" \in Tasks /\ "console" \in Tasks
        BY <2>3, Names DEF Remains
      <4>4. from["main"] \o << >> = from["main"] /\ from["console"] \o << >> = from["console"]
        BY <4>3, ConcatEmptySeq
      <4>5. queues' = [from EXCEPT !["console"] = @ \o << >>]
        BY <4>2, <4>3, <4>4
      <4>6. << >> \in Seq(Events) /\ \A x \in ToSet(<< >>) : EventOK("console", x) /\ ~Reports(x)
        BY DEF ToSet
      <4>7. console' \in C
        BY <4>1, <2>5
      <4>8. QED
        BY <2>6, <4>1, <4>5, <4>6, <4>7, <3>1
    <3>2. CASE console.allocated
      <4> DEFINE sent == IF console.exit THEN ToWindow("window deletion request", ConsoleWindow) ELSE Nothing
                 events == IF console.exit THEN <<Event("window deletion request", ConsoleWindow)>> ELSE << >>
                 request == Event("window deletion request", ConsoleWindow)
      <4>1. console' = AfterCommand(console) /\ Replies(t, sent)
        BY <1>5, <3>2 DEF CleanUpCommandTask
      <4>2. /\ console' \in C /\ console'.accepted = console.accepted
            /\ console'.allocated = console.allocated /\ ~console'.busy
        BY <4>1, <2>5 DEF AfterCommand
      <4>3. owner[ConsoleWindow] = "console"
        BY DEF DesktopInv, Typed
      <4>4. /\ request \in Events /\ EventOK("console", request) /\ ~Reports(request)
        BY Names, EventTyped, Meaning, NoReports DEF EventTypes
      <4> HIDE DEF request
      <4>5. /\ << >> \in Seq(Events) /\ <<request>> \in Seq(Events)
            /\ ToSet(<< >>) = {} /\ ToSet(<<request>>) = {request}
        BY <4>4 DEF ToSet
      <4>6. CASE console.exit
        <5>1. Replies(t, To("console", <<request>>))
          BY <4>1, <4>3, <4>6 DEF ToWindow, request
        <5>2. Deliver(To("console", <<request>>), from)
          BY <5>1 DEF Replies, from
        <5>3. To("console", <<request>>) \in Messages
          BY <4>5, Names DEF To, Messages
        <5>4. /\ queues' = [from EXCEPT !["console"] = @ \o <<request>>]
              /\ "console" \in faults' => "console" \in faults
          BY <5>2, <5>3, <1>1, <2>1, Delivers DEF To
        <5>5. QED
          BY <2>6, <4>2, <4>4, <4>5, <5>4
      <4>7. CASE ~console.exit
        <5>1. Deliver(Nothing, from)
          BY <4>1, <4>7 DEF Replies, from
        <5>2. Nothing \in Messages /\ Nothing.task = "main" /\ Nothing.events = << >>
          BY NothingSendable DEF Sendable, Nothing, To
        <5>3. /\ queues' = [from EXCEPT !["main"] = @ \o << >>]
              /\ "console" \in faults' => "console" \in faults
          BY <5>1, <5>2, Delivers
        <5>4. /\ from \in [Tasks -> Seq(Events)] /\ "main" \in Tasks /\ "console" \in Tasks
          BY <2>3, Names DEF Remains
        <5>5. from["main"] \o << >> = from["main"] /\ from["console"] \o << >> = from["console"]
          BY <5>4, ConcatEmptySeq
        <5>6. queues' = [from EXCEPT !["console"] = @ \o << >>]
          BY <5>3, <5>4, <5>5
        <5>7. QED
          BY <2>6, <4>2, <4>5, <5>3, <5>6
      <4>8. QED
        BY <4>6, <4>7
    <3>3. QED
      BY <3>1, <3>2
  <2>7. Gone' = Gone
    BY <1>3, <2>6 DEF Gone
  <2>8. Lasting
    BY <1>3, <2>6, <2>7 DEF Lasting
  <2>9. \A x \in ToSet(events) : EventOK("console", x)'
    <3> SUFFICES ASSUME NEW x \in ToSet(events)
                 PROVE  EventOK("console", x)'
      OBVIOUS
    <3>1. x \in Events /\ EventOK("console", x) /\ "console" \in Tasks
      BY <2>6, Names DEF ToSet
    <3>2. QED
      BY <3>1, <2>8, EventStays DEF Lasting
  <2>10. queues' \in [Tasks -> Seq(Events)] /\ QueuesOK' /\ ReportedOnce'
    BY <2>3, <2>6, <2>8, <2>9, Names, QueuesKept DEF DesktopInv
  <2>11. ASSUME NEW b \in Applications
         PROVE  /\ InForeground(b)' => InForeground(b)
                /\ Event("task deletion response", b) \in ToSet(queues'["console"]) =>
                     Event("task deletion response", b) \in ToSet(from["console"])
    BY <2>3, <2>6, <1>3, Names, ForegroundWas DEF DesktopInv
  <2>12. ~InForeground(a)'
    <3>1. Event("task deletion response", a) \notin ToSet(queues'["console"])
      BY <1>1, <2>4, <2>11 DEF e
    <3>2. QED
      BY <3>1, <1>2, <1>3 DEF InForeground
  <2>13. Typed'
    BY <1>3, <2>6, <2>10 DEF DesktopInv, Typed
  <2>14. SheetsOK'
    BY <1>3, <2>6 DEF DesktopInv, SheetsOK
  <2>15. ConsoleOK'
    <3>1. ~console'.accepted => console'.allocated
      BY <2>6 DEF DesktopInv, ConsoleOK
    <3>2. status'["console"] = "closed" => Gone'
      BY <1>3, <2>7 DEF DesktopInv, ConsoleOK
    <3>3. \A x \in Applications : status'[x] # "none" => parent'[x] # "none"
      BY <1>3 DEF DesktopInv, ConsoleOK
    <3>4. \A x \in Applications : console'.accepted /\ InForeground(x)' => x \in late'
      BY <1>3, <2>6, <2>11 DEF DesktopInv, ConsoleOK
    <3>5. QED
      BY <3>1, <3>2, <3>3, <3>4 DEF ConsoleOK
  <2>16. BusyMeansRunning'
    <3> SUFFICES ASSUME console.allocated
                 PROVE  /\ console'.busy <=> \E x \in Applications : InForeground(x)'
                        /\ \A x, y \in Applications : InForeground(x)' /\ InForeground(y)' => x = y
      BY <2>6 DEF BusyMeansRunning
    <3>1. \A x \in Applications : InForeground(x) => x = a
      BY <1>1, <2>2 DEF DesktopInv, BusyMeansRunning
    <3>2. \A x \in Applications : ~InForeground(x)'
      BY <3>1, <2>11, <2>12
    <3>3. QED
      BY <3>2, <2>6
  <2>17. ConsoleOutlivesUse'
    <3>1. ~console.allocated => a \in late
      BY <1>1, <2>2 DEF DesktopInv, ConsoleOK
    <3>2. QED
      BY <3>1, <1>3, <2>6 DEF DesktopInv, ConsoleOutlivesUse
  <2>18. EntriesOK' /\ \A x \in Applications \ (disturbed \cup headFirst)' : ExitOK(x)'
    BY <1>3, EntriesKept DEF DesktopInv
  <2>19. QED
    BY <2>10, <2>13, <2>14, <2>15, <2>16, <2>17, <2>18 DEF DesktopInv
<1>6. QED
  BY <1>4, <1>5

-----------------------------------------------------------------------------
(* The console task closes: its queue is freed, and nothing is left of its *)
(* window.                                                                 *)
LEMMA CloseConsoleKeeps ==
  ASSUME DesktopInv, NEW t \in Tasks, CloseConsole(t)
  PROVE  DesktopInv'
<1> DEFINE e == Event("task deletion response", t)
           from == [queues EXCEPT ![t] = << >>]
<1>1. EventOK(t, Event("task deletion request", t))
  BY Dequeued DEF CloseConsole
<1>2. t = "console" /\ Gone
  BY <1>1, Meaning
<1>3. /\ Deliver(To("main", <<e>>), from)
      /\ status' = [status EXCEPT ![t] = "closed"]
      /\ UNCHANGED <<parent, sheets, marked, windows, owner, console, entries, cursor, late, disturbed, headFirst>>
  BY DEF CloseConsole, desktop, history
<1>4. /\ status \in [Tasks -> {"none", "running", "exiting", "closed"}]
      /\ status["main"] = "running"
  BY DEF DesktopInv, Typed
<1>5. /\ status' \in [Tasks -> {"none", "running", "exiting", "closed"}]
      /\ status'["main"] = "running" /\ status'["console"] = "closed"
      /\ \A a \in Applications : status'[a] = status[a]
  BY <1>2, <1>3, <1>4, Names
<1>6. Gone'
  BY <1>2, <1>3 DEF Gone
<1>7. Lasting
  BY <1>3, <1>5, <1>6 DEF Lasting
<1>8. Remains(from)
  BY LosesAll DEF DesktopInv
<1>9. /\ e \in Events /\ EventOK("main", e) /\ ~Reports(e)
  BY <1>2, EventTyped, Meaning, NoReports, Names DEF EventTypes
<1> HIDE DEF e, from
<1>10. /\ <<e>> \in Seq(Events) /\ ToSet(<<e>>) = {e}
       /\ To("main", <<e>>) \in Messages
       /\ To("main", <<e>>).task = "main" /\ To("main", <<e>>).events = <<e>>
  BY <1>9, Names DEF ToSet, To, Messages
<1>11. /\ queues' = [from EXCEPT !["main"] = @ \o <<e>>]
       /\ "console" \in faults' => "console" \in faults
  <2> DEFINE sent == To("main", <<e>>)
  <2> HIDE DEF sent
  <2>1. sent \in Messages /\ Deliver(sent, from) /\ sent.task = "main" /\ sent.events = <<e>>
    BY <1>3, <1>10 DEF sent
  <2>2. /\ queues' = [from EXCEPT ![sent.task] = @ \o sent.events]
        /\ "console" \in faults' => "console" \in faults
    BY <2>1, Delivers
  <2>3. QED
    BY <2>1, <2>2
<1>12. \A x \in ToSet(<<e>>) : EventOK("main", x)' /\ ~Reports(x)
  <2>1. EventOK("main", e)'
    BY <1>7, <1>9, Names, EventStays DEF Lasting
  <2>2. QED
    BY <2>1, <1>9, <1>10
<1>13. queues' \in [Tasks -> Seq(Events)] /\ QueuesOK' /\ ReportedOnce'
  BY <1>7, <1>8, <1>10, <1>11, <1>12, Names, QueuesKept DEF DesktopInv
<1>14. \A b \in Applications : InForeground(b)' => InForeground(b)
  BY <1>3, <1>5, <1>8, <1>10, <1>11, <1>12, Names, ForegroundWas DEF DesktopInv
<1>15. Typed'
  BY <1>3, <1>5, <1>13 DEF DesktopInv, Typed
<1>16. SheetsOK'
  BY <1>3 DEF DesktopInv, SheetsOK
<1>17. ConsoleOK'
  <2>1. ~console'.accepted => console'.allocated
    BY <1>3 DEF DesktopInv, ConsoleOK
  <2>2. \A x \in Applications : status'[x] # "none" => parent'[x] # "none"
    BY <1>3, <1>5 DEF DesktopInv, ConsoleOK
  <2>3. \A x \in Applications : console'.accepted /\ InForeground(x)' => x \in late'
    BY <1>3, <1>14 DEF DesktopInv, ConsoleOK
  <2>4. QED
    BY <1>6, <2>1, <2>2, <2>3 DEF ConsoleOK
<1>18. BusyMeansRunning'
  BY <1>6 DEF BusyMeansRunning, Gone
<1>19. ConsoleOutlivesUse'
  BY <1>3, <1>11 DEF DesktopInv, ConsoleOutlivesUse
<1>20. EntriesOK' /\ \A x \in Applications \ (disturbed \cup headFirst)' : ExitOK(x)'
  BY <1>3, <1>5, EntriesKept DEF DesktopInv
<1>21. QED
  BY <1>13, <1>15, <1>16, <1>17, <1>18, <1>19, <1>20 DEF DesktopInv

(* No message is moved.                                                    *)
LEMMA QueuesRemain == ASSUME Typed  PROVE Remains(queues)
BY DEF Typed, Remains

(* The events that may be under way may stay so.                          *)
LEMMA NothingMoves ==
  ASSUME DesktopInv, Lasting, queues' = queues, "console" \in faults' => "console" \in faults
  PROVE  Forwarded
<1>1. Remains(queues) /\ queues \in [Tasks -> Seq(Events)]
  BY QueuesRemain DEF DesktopInv, Typed
<1>2. queues["main"] \o << >> = queues["main"]
  BY <1>1, ConcatEmptySeq, Names
<1>3. queues' = [queues EXCEPT !["main"] = @ \o << >>]
  BY <1>1, <1>2
<1>4. << >> \in Seq(Events) /\ \A e \in ToSet(<< >>) : EventOK("main", e)' /\ ~Reports(e)
  BY DEF ToSet
<1>5. QED
  BY <1>1, <1>3, <1>4, Names, Moved DEF Forwarded

(* SerialCommand keeps the invariant: what the main task starts is not in *)
(* the foreground of the console.                                         *)
LEMMA SerialCommandKeeps ==
  ASSUME DesktopInv, NEW a \in Applications, NEW background \in BOOLEAN, SerialCommand(a, background)
  PROVE  DesktopInv'
<1>1. /\ status[a] = "none" /\ status' = [status EXCEPT ![a] = "running"]
      /\ parent' = [parent EXCEPT ![a] = "main"]
      /\ UNCHANGED <<queues, sheets, marked, windows, owner, console, entries, cursor,
                     late, disturbed, headFirst, faults>>
  BY DEF SerialCommand, Fresh, desktop, history
<1>2. /\ status \in [Tasks -> {"none", "running", "exiting", "closed"}]
      /\ parent \in [Applications -> {"none", "main", "console"}]
  BY DEF DesktopInv, Typed
<1>3. /\ status' \in [Tasks -> {"none", "running", "exiting", "closed"}]
      /\ parent' \in [Applications -> {"none", "main", "console"}]
      /\ status'[a] = "running" /\ parent'[a] = "main"
      /\ \A x \in Tasks : x # a => status'[x] = status[x]
      /\ \A x \in Applications : x # a => parent'[x] = parent[x]
  BY <1>1, <1>2, Names
<1>4. Gone' = Gone
  BY <1>1 DEF Gone
<1>5. Lasting
  <2>1. \A x \in Applications : status[x] = "closed" => status'[x] = "closed" /\ parent'[x] = parent[x]
    BY <1>1, <1>3, Names
  <2>2. QED
    BY <2>1, <1>1, <1>4 DEF Lasting
<1>6. Forwarded
  BY <1>1, <1>5, NothingMoves
<1>7. Typed'
  <2>1. status'["main"] = status["main"] /\ status'["console"] = status["console"]
    BY <1>3, Names
  <2>2. QED
    BY <2>1, <1>1, <1>3 DEF DesktopInv, Typed
<1>8. SheetsOK'
  BY <1>1 DEF DesktopInv, SheetsOK
<1>9. \A b \in Applications : InForeground(b)' <=> b # a /\ InForeground(b)
  BY <1>1, <1>3, Names DEF InForeground
<1>10. ~InForeground(a)
  <2>1. queues["console"] \in Seq(Events) /\ "console" \in Tasks
    BY Names DEF DesktopInv, Typed
  <2>2. ASSUME Event("task deletion response", a) \in ToSet(queues["console"])  PROVE FALSE
    <3>1. PICK i \in DOMAIN queues["console"] : queues["console"][i] = Event("task deletion response", a)
      BY <2>2 DEF ToSet
    <3>2. EventOK("console", Event("task deletion response", a))
      BY <2>1, <3>1 DEF DesktopInv, QueuesOK
    <3>3. status[a] = "closed"
      <4>1. EventOK("console", Event("task deletion response", a)) =>
              \/ "console" = "main" /\ a = "console"
              \/ a \in Applications /\ status[a] = "closed" /\ parent[a] = "console"
        BY Meaning
      <4> HIDE DEF EventOK
      <4>2. QED
        BY <4>1, <3>2
    <3>4. QED
      BY <3>3, <1>1
  <2>3. QED
    BY <2>2, <1>1 DEF InForeground
<1>11. ConsoleOK'
  <2>1. \A x \in Applications : status'[x] # "none" => parent'[x] # "none"
    BY <1>3, Names DEF DesktopInv, ConsoleOK
  <2>2. status'["console"] = "closed" => Gone'
    BY <1>3, <1>4, Names DEF DesktopInv, ConsoleOK
  <2>3. QED
    BY <2>1, <2>2, <1>1, <1>9 DEF DesktopInv, ConsoleOK
<1>12. BusyMeansRunning'
  BY <1>1, <1>9, <1>10 DEF DesktopInv, BusyMeansRunning
<1>13. ConsoleOutlivesUse'
  BY <1>1 DEF DesktopInv, ConsoleOutlivesUse
<1>14. EntriesOK' /\ \A x \in Applications \ (disturbed \cup headFirst)' : ExitOK(x)'
  <2>1. \A x \in Applications : status'[x] \in {"exiting", "closed"} => status'[x] = status[x]
    BY <1>3, Names
  <2>2. QED
    BY <2>1, <1>1, EntriesKept DEF DesktopInv
<1>15. QED
  BY <1>6, <1>7, <1>8, <1>11, <1>12, <1>13, <1>14 DEF DesktopInv, Forwarded

(* RequestExit keeps the invariant.                                       *)
LEMMA RequestExitKeeps ==
  ASSUME DesktopInv, NEW a \in Applications, RequestExit(a)
  PROVE  DesktopInv'
<1> DEFINE C == [allocated : BOOLEAN, accepted : BOOLEAN, busy : BOOLEAN, exit : BOOLEAN]
<1>1. /\ console' = [console EXCEPT !.exit = TRUE]
      /\ UNCHANGED <<queues, status, parent, sheets, marked, windows, owner, entries, cursor, late, disturbed, headFirst, faults>>
  BY DEF RequestExit, desktop, history
<1>2. console \in C /\ marked \subseteq AllSheets
  BY DEF DesktopInv, Typed
<1>3. /\ console' \in C /\ console'.accepted = console.accepted
      /\ console'.busy = console.busy /\ console'.allocated = console.allocated
  BY <1>1, <1>2
<1>4. ~console'.accepted => console'.allocated
  BY <1>3 DEF DesktopInv, ConsoleOK
<1>5. SheetsOK'
  BY <1>1, <1>3 DEF DesktopInv, SheetsOK
<1>6. Lasting => Forwarded
  BY <1>1, NothingMoves
<1>7. QED
  BY <1>1, <1>2, <1>3, <1>4, <1>5, <1>6, SheetStep

-----------------------------------------------------------------------------
(* Steps of applications and of the main task on the windows of            *)
(* applications, that leave the sheets and the console alone.              *)
LEMMA WindowsStep ==
  ASSUME DesktopInv, Lasting => Forwarded,
         UNCHANGED <<parent, sheets, marked, windows, console, late>>,
         status' \in [Tasks -> {"none", "running", "exiting", "closed"}],
         status'["main"] = status["main"], status'["console"] = status["console"],
         \A a \in Applications : /\ status'[a] \in {"running", "exiting"} <=> status[a] \in {"running", "exiting"}
                                 /\ status'[a] = "none" <=> status[a] = "none"
                                 /\ status[a] = "closed" => status'[a] = "closed",
         owner' \in [AllWindows -> Tasks \cup {"none"}],
         \A w \in AllWindows : owner'[w] = owner[w] \/ (w \in Windows /\ owner[w] # "none" /\ owner'[w] = "main"),
         entries' \in Seq([window : Windows, owner_task : Applications]),
         cursor' \in [Applications -> Windows \cup {"none"}],
         EntriesOK', \A a \in Applications \ (disturbed \cup headFirst)' : ExitOK(a)'
  PROVE  DesktopInv'
<1>1. Gone' = Gone
  BY DEF Gone
<1>2. Lasting
  BY <1>1, Names DEF Lasting
<1>3. Forwarded
  BY <1>2
<1>4. \A w \in AllWindows : owner[w] # "none" => owner'[w] # "none"
  OBVIOUS
<1>5. Typed'
  <2>1. owner'[ConsoleWindow] = "console"
    BY Names DEF DesktopInv, Typed
  <2>2. \A w \in Windows : owner'[w] # "console"
    BY Names DEF DesktopInv, Typed
  <2>3. QED
    BY <1>3, <2>1, <2>2 DEF DesktopInv, Typed, Forwarded
<1>6. SheetsOK'
  <2>1. ASSUME NEW s \in sheets  PROVE owner'[s[1]] # "none"
    <3>1. s[1] \in AllWindows /\ owner[s[1]] # "none"
      BY <2>1 DEF DesktopInv, Typed, SheetsOK, AllSheets
    <3>2. QED
      BY <3>1, <1>4
  <2>2. \A w \in windows : owner'[w] # "none"
    BY <1>4 DEF DesktopInv, Typed, SheetsOK
  <2>3. QED
    BY <2>1, <2>2 DEF DesktopInv, SheetsOK
<1>7. \A a \in Applications : InForeground(a)' <=> InForeground(a)
  BY <1>3 DEF InForeground, Forwarded
<1>8. ConsoleOK'
  <2>1. ~console'.accepted => console'.allocated
    BY DEF DesktopInv, ConsoleOK
  <2>2. status'["console"] = "closed" => Gone'
    BY <1>1 DEF DesktopInv, ConsoleOK
  <2>3. \A a \in Applications : status'[a] # "none" => parent'[a] # "none"
    BY DEF DesktopInv, ConsoleOK
  <2>4. \A a \in Applications : console'.accepted /\ InForeground(a)' => a \in late'
    BY <1>7 DEF DesktopInv, ConsoleOK
  <2>5. QED
    BY <2>1, <2>2, <2>3, <2>4 DEF ConsoleOK
<1>9. BusyMeansRunning'
  BY <1>7 DEF DesktopInv, BusyMeansRunning
<1>10. ConsoleOutlivesUse'
  BY <1>3 DEF DesktopInv, ConsoleOutlivesUse, Forwarded
<1>11. QED
  BY <1>3, <1>5, <1>6, <1>8, <1>9, <1>10 DEF DesktopInv, Forwarded

-----------------------------------------------------------------------------
(* What is left of a sequence without its k-th element.                    *)
LEMMA Removed ==
  ASSUME NEW S, NEW s \in Seq(S), NEW k \in DOMAIN s
  PROVE  /\ RemoveAt(s, k) \in Seq(S) /\ Len(RemoveAt(s, k)) = Len(s) - 1
         /\ \A i \in 1 .. Len(s) - 1 : RemoveAt(s, k)[i] = IF i < k THEN s[i] ELSE s[i + 1]
<1> DEFINE l == SubSeq(s, 1, k - 1)
           r == SubSeq(s, k + 1, Len(s))
<1>1. DOMAIN s = 1 .. Len(s) /\ Len(s) \in Nat /\ k \in 1 .. Len(s) /\ \A i \in 1 .. Len(s) : s[i] \in S
  OBVIOUS
<1>2. /\ l \in Seq(S) /\ Len(l) = k - 1
      /\ \A i \in 1 .. k - 1 : l[i] = s[i]
  <2>1. 1 \in Int /\ k - 1 \in Int /\ \A i \in 1 .. k - 1 : s[i] \in S
    BY <1>1
  <2>2. /\ l \in Seq(S) /\ Len(l) = IF 1 <= k - 1 THEN k - 1 - 1 + 1 ELSE 0
        /\ \A i \in 1 .. k - 1 - 1 + 1 : l[i] = s[1 + i - 1]
    BY <2>1, SubSeqProperties
  <2> HIDE DEF l
  <2>3. Len(l) = k - 1
    BY <2>2, <1>1
  <2>4. ASSUME NEW i \in 1 .. k - 1  PROVE l[i] = s[i]
    <3>1. i \in 1 .. k - 1 - 1 + 1 /\ 1 + i - 1 = i
      BY <1>1
    <3>2. QED
      BY <2>2, <3>1
  <2>5. QED
    BY <2>2, <2>3, <2>4
<1>3. /\ r \in Seq(S) /\ Len(r) = Len(s) - k
      /\ \A i \in 1 .. Len(s) - k : r[i] = s[k + i]
  <2>1. k + 1 \in Int /\ Len(s) \in Int /\ \A i \in k + 1 .. Len(s) : s[i] \in S
    BY <1>1
  <2>2. /\ r \in Seq(S) /\ Len(r) = IF k + 1 <= Len(s) THEN Len(s) - (k + 1) + 1 ELSE 0
        /\ \A i \in 1 .. Len(s) - (k + 1) + 1 : r[i] = s[k + 1 + i - 1]
    BY <2>1, SubSeqProperties
  <2> HIDE DEF r
  <2>3. Len(r) = Len(s) - k
    <3>1. CASE k + 1 <= Len(s)
      BY <3>1, <2>2, <1>1
    <3>2. CASE ~(k + 1 <= Len(s))
      <4>1. k = Len(s)
        BY <3>2, <1>1
      <4>2. QED
        BY <3>2, <4>1, <2>2, <1>1
    <3>3. QED
      BY <3>1, <3>2
  <2>4. ASSUME NEW i \in 1 .. Len(s) - k  PROVE r[i] = s[k + i]
    <3>1. i \in 1 .. Len(s) - (k + 1) + 1 /\ k + 1 + i - 1 = k + i
      BY <1>1
    <3>2. QED
      BY <2>2, <3>1
  <2>5. QED
    BY <2>2, <2>3, <2>4
<1> HIDE DEF l, r
<1>4. /\ l \o r \in Seq(S) /\ Len(l \o r) = Len(l) + Len(r)
      /\ \A i \in 1 .. Len(l) + Len(r) : (l \o r)[i] = IF i <= Len(l) THEN l[i] ELSE r[i - Len(l)]
  BY <1>2, <1>3, ConcatProperties
<1> DEFINE q == l \o r
<1> HIDE DEF q
<1>5. /\ q \in Seq(S) /\ Len(q) = Len(s) - 1
      /\ \A i \in 1 .. Len(s) - 1 : q[i] = IF i <= k - 1 THEN l[i] ELSE r[i - (k - 1)]
  <2>1. Len(l) + Len(r) = Len(s) - 1 /\ Len(l) = k - 1
    BY <1>1, <1>2, <1>3
  <2>2. QED
    BY <2>1, <1>4 DEF q
<1>6. ASSUME NEW i \in 1 .. Len(s) - 1
      PROVE  q[i] = IF i < k THEN s[i] ELSE s[i + 1]
  <2>1. CASE i < k
    <3>1. i <= k - 1 /\ i \in 1 .. k - 1
      BY <1>1, <1>6, <2>1
    <3>2. QED
      BY <1>2, <1>5, <1>6, <2>1, <3>1
  <2>2. CASE ~(i < k)
    <3>1. ~(i <= k - 1) /\ i - (k - 1) \in 1 .. Len(s) - k /\ k + (i - (k - 1)) = i + 1
      BY <1>1, <1>6, <2>2
    <3>2. QED
      BY <1>3, <1>5, <1>6, <2>2, <3>1
  <2>3. QED
    BY <2>1, <2>2
<1>7. q = RemoveAt(s, k)
  BY DEF q, l, r, RemoveAt
<1>8. QED
  BY <1>5, <1>6, <1>7

(* Where the elements that are left come from, and went.                   *)
LEMMA RemovedPlaces ==
  ASSUME NEW S, NEW s \in Seq(S), NEW k \in DOMAIN s, NEW r, r = RemoveAt(s, k)
  PROVE  /\ r \in Seq(S) /\ DOMAIN r = 1 .. Len(s) - 1
         /\ \A i \in DOMAIN r : \E j \in DOMAIN s \ {k} : r[i] = s[j]
         /\ \A i \in DOMAIN r : i < k => i \in DOMAIN s \ {k} /\ r[i] = s[i]
         /\ \A i \in DOMAIN r : ~(i < k) => i + 1 \in DOMAIN s \ {k} /\ r[i] = s[i + 1]
         /\ \A j \in DOMAIN s \ {k} : \E i \in DOMAIN r : r[i] = s[j]
<1>1. /\ r \in Seq(S) /\ Len(r) = Len(s) - 1
      /\ \A i \in 1 .. Len(s) - 1 : r[i] = IF i < k THEN s[i] ELSE s[i + 1]
  BY Removed
<1>2. /\ DOMAIN s = 1 .. Len(s) /\ Len(s) \in Nat /\ k \in 1 .. Len(s) /\ DOMAIN r = 1 .. Len(s) - 1
  BY <1>1
<1>3. \A i \in DOMAIN r : i < k => i \in DOMAIN s \ {k} /\ r[i] = s[i]
  BY <1>1, <1>2
<1>4. \A i \in DOMAIN r : ~(i < k) => i + 1 \in DOMAIN s \ {k} /\ r[i] = s[i + 1]
  BY <1>1, <1>2
<1>5. \A i \in DOMAIN r : \E j \in DOMAIN s \ {k} : r[i] = s[j]
  BY <1>3, <1>4
<1>6. ASSUME NEW j \in DOMAIN s \ {k}  PROVE \E i \in DOMAIN r : r[i] = s[j]
  <2>1. CASE j < k
    <3>1. j \in DOMAIN r
      BY <1>2, <1>6, <2>1
    <3>2. QED
      BY <1>3, <2>1, <3>1
  <2>2. CASE ~(j < k)
    <3>1. j - 1 \in DOMAIN r /\ ~(j - 1 < k) /\ (j - 1) + 1 = j
      BY <1>2, <1>6, <2>2
    <3>2. r[j - 1] = s[j]
      BY <1>4, <3>1
    <3>3. QED
      BY <3>1, <3>2
  <2>3. QED
    BY <2>1, <2>2
<1>7. QED
  BY <1>1, <1>2, <1>3, <1>4, <1>5, <1>6

(* Windows that occur once still do.                                       *)
LEMMA StillOnce ==
  ASSUME NEW S, NEW s \in Seq(S), NEW k \in DOMAIN s, NEW r, r = RemoveAt(s, k),
         \A i, j \in DOMAIN s : s[i].window = s[j].window => i = j
  PROVE  \A i, j \in DOMAIN r : r[i].window = r[j].window => i = j
<1> DEFINE Place(i) == IF i < k THEN i ELSE i + 1
<1>1. k \in Int /\ DOMAIN r = 1 .. Len(s) - 1 /\ Len(s) \in Int
  BY RemovedPlaces
<1>2. ASSUME NEW i \in DOMAIN r
      PROVE  \E p \in DOMAIN s : p = Place(i) /\ r[i] = s[p]
  <2>1. CASE i < k
    <3>1. i \in DOMAIN s /\ r[i] = s[i]
      BY <2>1, RemovedPlaces
    <3>2. QED
      BY <2>1, <3>1
  <2>2. CASE ~(i < k)
    <3>1. i + 1 \in DOMAIN s /\ r[i] = s[i + 1]
      BY <2>2, RemovedPlaces
    <3>2. QED
      BY <2>2, <3>1
  <2>3. QED
    BY <2>1, <2>2
<1>3. ASSUME NEW i \in DOMAIN r, NEW j \in DOMAIN r, Place(i) = Place(j)
      PROVE  i = j
  <2>1. i \in Int /\ j \in Int
    BY <1>1
  <2>2. QED
    BY <1>1, <1>3, <2>1
<1> HIDE DEF Place
<1>4. ASSUME NEW i \in DOMAIN r, NEW j \in DOMAIN r, r[i].window = r[j].window
      PROVE  i = j
  <2>1. PICK p \in DOMAIN s : p = Place(i) /\ r[i] = s[p]
    BY <1>2
  <2>2. PICK q \in DOMAIN s : q = Place(j) /\ r[j] = s[q]
    BY <1>2
  <2>3. p = q
    BY <1>4, <2>1, <2>2
  <2>4. QED
    BY <1>3, <2>1, <2>2, <2>3
<1>5. QED
  BY <1>4

Records == [window : Windows, owner_task : Applications]

(* The entry of a window is the only one.                                  *)
LEMMA EntryFound ==
  ASSUME NEW w, Listed(w)
  PROVE  Entry(w) \in DOMAIN entries /\ entries[Entry(w)].window = w
BY DEF Listed, Entry

(* The entry of a window that is deleted, or handed over, may go.          *)
LEMMA EntryGoes ==
  ASSUME EntriesOK, entries \in Seq(Records), NEW k \in DOMAIN entries, entries' = RemoveAt(entries, k),
         windows' = windows, windows \subseteq AllWindows,
         \A u \in AllWindows : owner'[u] = owner[u] \/ (owner[u] # "none" /\ owner'[u] = "main"),
         \A i \in DOMAIN entries : entries[i].window \in AllWindows,
         entries[k].window \in windows => owner'[entries[k].window] = "main"
  PROVE  EntriesOK'
<1> DEFINE s == entries
           r == entries'
<1>0. s \in Seq(Records) /\ k \in DOMAIN s /\ r = RemoveAt(s, k)
  OBVIOUS
<1>1. /\ r \in Seq(Records) /\ DOMAIN r = 1 .. Len(s) - 1
      /\ \A i \in DOMAIN r : \E j \in DOMAIN s \ {k} : r[i] = s[j]
      /\ \A i \in DOMAIN r : i < k => i \in DOMAIN s \ {k} /\ r[i] = s[i]
      /\ \A i \in DOMAIN r : ~(i < k) => i + 1 \in DOMAIN s \ {k} /\ r[i] = s[i + 1]
      /\ \A j \in DOMAIN s \ {k} : \E i \in DOMAIN r : r[i] = s[j]
  BY <1>0, RemovedPlaces
<1>2. k \in Nat /\ Len(s) \in Nat
  BY <1>0
<1>3. /\ \A i, j \in DOMAIN s : s[i].window = s[j].window => i = j
      /\ \A i \in DOMAIN s : owner[s[i].window] # "none"
      /\ \A w \in windows : owner[w] \in Applications =>
           \E j \in DOMAIN s : s[j] = [window |-> w, owner_task |-> owner[w]]
  BY DEF EntriesOK
<1>4. \A i \in DOMAIN s : s[i].window \in AllWindows
  OBVIOUS
<1>5. s[k].window \in windows => owner'[s[k].window] = "main"
  OBVIOUS
<1> HIDE DEF s, r
<1>6. \A i, j \in DOMAIN r : r[i].window = r[j].window => i = j
  BY <1>0, <1>3, StillOnce
<1>7. ASSUME NEW i \in DOMAIN r  PROVE owner'[r[i].window] # "none"
  <2>1. PICK j \in DOMAIN s : r[i] = s[j]
    BY <1>1, <1>7
  <2>2. PICK u \in AllWindows : u = s[j].window
    BY <1>4
  <2>3. owner[u] # "none"
    BY <2>2, <1>3
  <2>4. owner'[u] # "none"
    BY <2>3
  <2>5. QED
    BY <2>1, <2>2, <2>4
<1>8. ASSUME NEW w \in windows', owner'[w] \in Applications
      PROVE  \E i \in DOMAIN r : r[i] = [window |-> w, owner_task |-> owner'[w]]
  <2>1. w \in AllWindows /\ w \in windows /\ owner'[w] = owner[w] /\ owner'[w] # "main"
    BY <1>8, Names
  <2>2. PICK j \in DOMAIN s : s[j] = [window |-> w, owner_task |-> owner[w]]
    BY <2>1, <1>3, <1>8
  <2>3. s[j].window = w
    BY <2>2
  <2>4. j # k
    BY <2>1, <2>3, <1>5
  <2>5. PICK i \in DOMAIN r : r[i] = s[j]
    BY <2>4, <1>1
  <2>6. QED
    BY <2>1, <2>2, <2>5
<1>9. QED
  BY <1>6, <1>7, <1>8 DEF EntriesOK, r

-----------------------------------------------------------------------------
(* An application whose delete_windows() is over keeps it behind it.       *)
LEMMA StaysOver ==
  ASSUME NEW b \in Applications, ExitOK(b), status[b] = "closed", UNCHANGED <<status, cursor>>,
         \A i \in DOMAIN entries' : \E j \in DOMAIN entries : entries'[i] = entries[j]
  PROVE  ExitOK(b)'
<1>1. cursor[b] = "none" /\ \A i \in DOMAIN entries : ~Owns(b, i)
  BY DEF ExitOK
<1>2. \A i \in DOMAIN entries' : ~Owns(b, i)'
  BY <1>1 DEF Owns
<1>3. cursor'[b] = "none"
  BY <1>1
<1>4. QED
  BY <1>2, <1>3 DEF ExitOK

(* An application that is not closing its windows has nothing to keep.     *)
LEMMA NotExiting ==
  ASSUME NEW b \in Applications, status'[b] \notin {"exiting", "closed"}
  PROVE  ExitOK(b)'
BY DEF ExitOK

(* The entries name windows and tasks of applications.                    *)
LEMMA EntriesTyped ==
  ASSUME DesktopInv
  PROVE  /\ entries \in Seq(Records) /\ windows \subseteq AllWindows
         /\ \A i \in DOMAIN entries : entries[i].window \in Windows /\ entries[i].owner_task \in Applications
         /\ \A i \in DOMAIN entries : entries[i].window \in AllWindows
<1>1. entries \in Seq(Records) /\ windows \subseteq AllWindows
  BY DEF DesktopInv, Typed, Records
<1>2. \A i \in DOMAIN entries : entries[i] \in Records
  BY <1>1
<1>3. \A i \in DOMAIN entries : entries[i].window \in Windows /\ entries[i].owner_task \in Applications
  BY <1>2 DEF Records
<1>4. QED
  BY <1>1, <1>3, Names

(* WindowDeleted keeps the invariant: the entry of the deleted window     *)
(* goes, and an application in delete_windows() is disturbed.             *)
LEMMA WindowDeletedKeeps ==
  ASSUME DesktopInv, NEW t \in Tasks, NEW w, WindowDeleted(t, w)
  PROVE  DesktopInv'
<1>1. Takes(t) /\ EventOK(t, Event("window deletion response", w)) /\ status[t] = "running"
  BY Dequeued, NoReports DEF WindowDeleted
<1>2. w \notin windows
  BY <1>1, Meaning
<1>3. /\ Replies(t, Nothing)
      /\ entries' = IF t = "main" THEN entries ELSE Without(w)
      /\ disturbed' = IF entries' = entries THEN disturbed ELSE disturbed \cup Exiting(t)
      /\ UNCHANGED <<status, parent, sheets, marked, windows, owner, console, cursor, late, headFirst>>
  BY DEF WindowDeleted, Drops, desktop
<1>4. Lasting => Forwarded
  BY <1>1, <1>3, NothingSendable, HandledSendable
<1>5. /\ entries \in Seq(Records) /\ windows \subseteq AllWindows
      /\ \A i \in DOMAIN entries : entries[i].window \in AllWindows
  BY EntriesTyped
<1>6. CASE entries' = entries
  <2>1. EntriesOK' /\ \A x \in Applications \ (disturbed \cup headFirst)' : ExitOK(x)'
    BY <1>3, <1>6, EntriesKept DEF DesktopInv
  <2>2. QED
    BY <2>1, <1>3, <1>4, <1>6, WindowsStep DEF DesktopInv, Typed
<1>7. CASE entries' # entries
  <2>1. Listed(w) /\ entries' = RemoveAt(entries, Entry(w)) /\ disturbed' = disturbed \cup Exiting(t)
    BY <1>3, <1>7 DEF Without
  <2>2. PICK k \in DOMAIN entries : k = Entry(w) /\ entries[k].window = w
    BY <2>1, EntryFound
  <2>3. entries' = RemoveAt(entries, k)
    BY <2>1, <2>2
  <2>4. /\ entries' \in Seq(Records)
        /\ \A i \in DOMAIN entries' : \E j \in DOMAIN entries \ {k} : entries'[i] = entries[j]
    BY <2>3, <1>5, RemovedPlaces
  <2>5. EntriesOK'
    BY <1>2, <1>3, <1>5, <2>2, <2>3, EntryGoes DEF DesktopInv
  <2>6. ASSUME NEW b \in Applications, b \notin disturbed', b \notin headFirst'  PROVE ExitOK(b)'
    <3>1. ExitOK(b) /\ b \notin Exiting(t)
      BY <2>1, <2>6, <1>3 DEF DesktopInv
    <3>2. status[b] # "exiting"
      BY <3>1, <1>1 DEF Exiting
    <3>3. CASE status[b] = "closed"
      BY <3>1, <3>3, <2>4, <1>3, StaysOver
    <3>4. CASE status[b] # "closed"
      BY <3>2, <3>4, <1>3, NotExiting
    <3>5. QED
      BY <3>3, <3>4
  <2>7. QED
    BY <2>4, <2>5, <2>6, <1>3, <1>4, WindowsStep DEF DesktopInv, Typed, Records
<1>8. QED
  BY <1>6, <1>7

(* The loop of delete_windows() begins at the head.                        *)
LEMMA ExitKeeps ==
  ASSUME DesktopInv, NEW a \in Applications, Exit(a)
  PROVE  DesktopInv'
<1>1. /\ status[a] = "running"
      /\ status' = [status EXCEPT ![a] = "exiting"]
      /\ cursor' = [cursor EXCEPT ![a] = IF entries = << >> THEN "none" ELSE entries[1].window]
      /\ headFirst' = IF /\ entries # << >> /\ entries[1].owner_task = a
                         /\ \E k \in DOMAIN entries \ {1} : entries[k].owner_task = a
                      THEN headFirst \cup {a} ELSE headFirst
      /\ UNCHANGED <<queues, parent, sheets, marked, windows, owner, console, entries, late, disturbed, faults>>
  BY DEF Exit, Running, desktop
<1>2. /\ status \in [Tasks -> {"none", "running", "exiting", "closed"}]
      /\ cursor \in [Applications -> Windows \cup {"none"}]
  BY DEF DesktopInv, Typed
<1>3. /\ entries \in Seq(Records)
      /\ \A i \in DOMAIN entries : entries[i].window \in Windows
  BY EntriesTyped
<1>4. entries # << >> => 1 \in DOMAIN entries
  BY <1>3
<1>5. /\ status' \in [Tasks -> {"none", "running", "exiting", "closed"}]
      /\ status'[a] = "exiting" /\ \A x \in Tasks : x # a => status'[x] = status[x]
  BY <1>1, <1>2, Names
<1>6. /\ cursor' \in [Applications -> Windows \cup {"none"}]
      /\ cursor'[a] = IF entries = << >> THEN "none" ELSE entries[1].window
      /\ \A x \in Applications : x # a => cursor'[x] = cursor[x]
  BY <1>1, <1>2, <1>3, <1>4
<1>7. EntriesOK'
  BY <1>1 DEF DesktopInv, EntriesOK
<1>8. ASSUME NEW b \in Applications, b \notin disturbed', b \notin headFirst'  PROVE ExitOK(b)'
  <2>1. CASE b # a
    <3>1. ExitOK(b) /\ status'[b] = status[b] /\ cursor'[b] = cursor[b]
      BY <2>1, <1>1, <1>5, <1>6, <1>8, Names DEF DesktopInv
    <3>2. QED
      BY <3>1, <1>1 DEF ExitOK, Passed, Owns
  <2>2. CASE b = a /\ entries = << >>
    <3>1. cursor'[a] = "none" /\ DOMAIN entries' = {}
      BY <2>2, <1>1, <1>6
    <3>2. QED
      BY <3>1, <2>2 DEF ExitOK
  <2>3. CASE b = a /\ entries # << >>
    <3>1. 1 \in DOMAIN entries /\ cursor'[a] = entries[1].window /\ cursor'[a] # "none"
      BY <2>3, <1>3, <1>4, <1>6, Names
    <3>2. Owns(a, 1) => \A i \in DOMAIN entries \ {1} : ~Owns(a, i)
      BY <2>3, <1>1, <1>8 DEF Owns
    <3>3. Passed(a, 1)'
      BY <3>1, <3>2, <1>1 DEF Passed, Owns
    <3>4. QED
      BY <3>1, <3>3, <2>3, <1>1, <1>5 DEF ExitOK
  <2>4. QED
    BY <2>1, <2>2, <2>3
<1>9. Lasting => Forwarded
  BY <1>1, NothingMoves
<1>10. status'["main"] = status["main"] /\ status'["console"] = status["console"]
  BY <1>5, Names
<1>11. \A x \in Applications : /\ status'[x] \in {"running", "exiting"} <=> status[x] \in {"running", "exiting"}
                               /\ status'[x] = "none" <=> status[x] = "none"
                               /\ status[x] = "closed" => status'[x] = "closed"
  BY <1>1, <1>5, Names
<1>12. QED
  BY <1>1, <1>5, <1>6, <1>7, <1>8, <1>9, <1>10, <1>11, WindowsStep DEF DesktopInv, Typed

-----------------------------------------------------------------------------
(* The place after the k-th of the ring of n entries.                      *)
LEMMA NextPlace ==
  \A n \in Nat : \A k \in 1 .. n : (k % n) + 1 = IF k = n THEN 1 ELSE k + 1
<1> SUFFICES ASSUME NEW n \in Nat, NEW k \in 1 .. n
             PROVE  (k % n) + 1 = IF k = n THEN 1 ELSE k + 1
  OBVIOUS
<1>1. CASE k = n
  <2>1. n % n = 0
    OBVIOUS
  <2>2. QED
    BY <1>1, <2>1
<1>2. CASE k < n
  <2>1. k % n = k
    BY <1>2
  <2>2. QED
    BY <1>2, <2>1
<1>3. QED
  BY <1>1, <1>2

(* A round that finds a window of another task goes on behind it.          *)
LEMMA RoundPasses ==
  ASSUME DesktopInv, NEW a \in Applications, NEW k \in DOMAIN entries, Passed(a, k), ~Owns(a, k),
         status'[a] = "exiting", entries' = entries,
         cursor'[a] = IF entries = << >> \/ After(k) = entries[1].window THEN "none" ELSE After(k)
  PROVE  ExitOK(a)'
<1>1. /\ entries \in Seq(Records)
      /\ \A i \in DOMAIN entries : entries[i].window \in Windows
  BY EntriesTyped
<1>2. DOMAIN entries = 1 .. Len(entries) /\ Len(entries) \in Nat /\ k \in 1 .. Len(entries)
      /\ 1 \in DOMAIN entries /\ entries # << >>
  BY <1>1
<1>3. After(k) = entries[IF k = Len(entries) THEN 1 ELSE k + 1].window
  BY <1>2, NextPlace DEF After
<1>4. \A i \in 1 .. k : ~Owns(a, i)
  BY <1>2 DEF Passed
<1>5. CASE k = Len(entries)
  <2>1. cursor'[a] = "none"
    BY <1>2, <1>3, <1>5
  <2>2. \A i \in DOMAIN entries' : ~Owns(a, i)'
    BY <1>2, <1>4, <1>5 DEF Owns
  <2>3. QED
    BY <2>1, <2>2 DEF ExitOK
<1>6. CASE k # Len(entries)
  <2>1. /\ k + 1 \in DOMAIN entries /\ k + 1 # 1 /\ After(k) = entries[k + 1].window
    BY <1>2, <1>3, <1>6
  <2>2. entries[k + 1].window # entries[1].window
    BY <1>2, <2>1 DEF DesktopInv, EntriesOK
  <2>3. cursor'[a] = entries[k + 1].window /\ cursor'[a] \in Windows /\ cursor'[a] # "none"
    BY <1>1, <1>2, <2>1, <2>2, Names
  <2>4. \A i \in 1 .. (k + 1) - 1 : ~Owns(a, i)
    BY <1>2, <1>4
  <2>5. Passed(a, k + 1)'
    BY <2>1, <2>3, <2>4 DEF Passed, Owns
  <2>6. QED
    BY <2>1, <2>3, <2>5 DEF ExitOK
<1>7. QED
  BY <1>5, <1>6

(* A round that frees an entry goes on behind it, and never at the head.   *)
LEMMA RoundFrees ==
  ASSUME DesktopInv, NEW a \in Applications, NEW k \in DOMAIN entries, Passed(a, k), Owns(a, k),
         status'[a] = "exiting", entries' = RemoveAt(entries, k),
         cursor'[a] = IF entries' = << >> \/ After(k) = entries'[1].window THEN "none" ELSE After(k)
  PROVE  ExitOK(a)'
<1> DEFINE n == Len(entries)
<1>1. /\ entries \in Seq(Records)
      /\ \A i \in DOMAIN entries : entries[i].window \in Windows
  BY EntriesTyped
<1>2. DOMAIN entries = 1 .. n /\ n \in Nat /\ k \in 1 .. n
  BY <1>1
<1>3. After(k) = entries[IF k = n THEN 1 ELSE k + 1].window
  BY <1>2, NextPlace DEF After
<1>4. /\ entries' \in Seq(Records) /\ DOMAIN entries' = 1 .. n - 1
      /\ \A i \in DOMAIN entries' : \E j \in DOMAIN entries \ {k} : entries'[i] = entries[j]
      /\ \A i \in DOMAIN entries' : i < k => i \in DOMAIN entries \ {k} /\ entries'[i] = entries[i]
      /\ \A i \in DOMAIN entries' : ~(i < k) => i + 1 \in DOMAIN entries \ {k} /\ entries'[i] = entries[i + 1]
  BY <1>1, RemovedPlaces
<1>5. entries' # << >> => 1 \in DOMAIN entries' /\ n >= 2
  BY <1>2, <1>4
<1>6. entries' = << >> => DOMAIN entries' = {}
  OBVIOUS
<1>7. /\ \A i \in 1 .. k - 1 : ~Owns(a, i)
      /\ k = 1 => \A i \in DOMAIN entries \ {1} : ~Owns(a, i)
  BY DEF Passed
<1> HIDE DEF n
<1>8. SUFFICES ASSUME entries' # << >>
               PROVE  ExitOK(a)'
  <2>1. CASE entries' = << >>
    <3>1. cursor'[a] = "none" /\ \A i \in DOMAIN entries' : ~Owns(a, i)'
      BY <2>1, <1>6
    <3>2. QED
      BY <3>1 DEF ExitOK
  <2>2. QED
    BY <2>1, <1>8
<1>9. CASE k = 1
  <2>1. entries'[1] = entries[2]
    BY <1>4, <1>5, <1>8, <1>9
  <2>2. After(k) = entries[2].window
    BY <1>2, <1>3, <1>5, <1>8, <1>9
  <2>3. cursor'[a] = "none"
    BY <2>1, <2>2
  <2>4. \A i \in DOMAIN entries' : ~Owns(a, i)'
    BY <1>4, <1>7, <1>9 DEF Owns
  <2>5. QED
    BY <2>3, <2>4 DEF ExitOK
<1>10. CASE k # 1 /\ k = n
  <2>1. entries'[1] = entries[1]
    BY <1>2, <1>4, <1>5, <1>8, <1>10
  <2>2. cursor'[a] = "none"
    BY <2>1, <1>3, <1>10
  <2>3. ASSUME NEW i \in DOMAIN entries'  PROVE ~Owns(a, i)'
    <3>1. i < k /\ i \in 1 .. k - 1
      BY <1>2, <1>4, <1>10
    <3>2. QED
      BY <3>1, <1>4, <1>7 DEF Owns
  <2>4. QED
    BY <2>2, <2>3 DEF ExitOK
<1>11. CASE k # 1 /\ k # n
  <2>1. entries'[1] = entries[1]
    BY <1>2, <1>4, <1>5, <1>8, <1>11
  <2>2. k + 1 \in DOMAIN entries /\ 1 \in DOMAIN entries /\ k + 1 # 1 /\ After(k) = entries[k + 1].window
    BY <1>2, <1>3, <1>11
  <2>3. entries[k + 1].window # entries[1].window
    BY <2>2 DEF DesktopInv, EntriesOK
  <2>4. cursor'[a] = entries[k + 1].window /\ cursor'[a] \in Windows /\ cursor'[a] # "none"
    BY <1>1, <1>8, <2>1, <2>2, <2>3, Names
  <2>5. k \in DOMAIN entries' /\ entries'[k] = entries[k + 1]
    BY <1>2, <1>4, <1>11
  <2>6. ASSUME NEW i \in 1 .. k - 1  PROVE ~Owns(a, i)'
    <3>1. i \in DOMAIN entries' /\ i < k
      BY <1>2, <1>4
    <3>2. QED
      BY <3>1, <1>4, <1>7 DEF Owns
  <2>7. Passed(a, k)'
    BY <2>4, <2>5, <2>6, <1>11 DEF Passed
  <2>8. QED
    BY <2>4, <2>5, <2>7 DEF ExitOK
<1>12. QED
  BY <1>9, <1>10, <1>11

(* A round of the loop of delete_windows().                                *)
LEMMA DeleteWindowsKeeps ==
  ASSUME DesktopInv, NEW a \in Applications, DeleteWindows(a)
  PROVE  DesktopInv'
<1>1. /\ status[a] = "exiting" /\ cursor[a] # "none"
      /\ UNCHANGED <<status, parent, sheets, marked, windows, console, late, headFirst>>
  BY DEF DeleteWindows
<1>2. /\ entries \in Seq(Records) /\ windows \subseteq AllWindows
      /\ \A i \in DOMAIN entries : entries[i].window \in Windows /\ entries[i].owner_task \in Applications
      /\ \A i \in DOMAIN entries : entries[i].window \in AllWindows
  BY EntriesTyped
<1>3. /\ status \in [Tasks -> {"none", "running", "exiting", "closed"}]
      /\ owner \in [AllWindows -> Tasks \cup {"none"}]
      /\ cursor \in [Applications -> Windows \cup {"none"}]
      /\ queues \in [Tasks -> Seq(Events)]
  BY DEF DesktopInv, Typed
<1>4. CASE ~Listed(cursor[a])
  <2>1. /\ faults' = faults \cup {"entry"}
        /\ UNCHANGED <<entries, disturbed, owner, queues, cursor>>
    BY <1>4 DEF DeleteWindows
  <2>2. Lasting => Forwarded
    BY <2>1, NothingMoves
  <2>3. EntriesOK' /\ \A x \in Applications \ (disturbed \cup headFirst)' : ExitOK(x)'
    BY <1>1, <2>1, EntriesKept DEF DesktopInv
  <2>4. QED
    BY <1>1, <1>3, <2>1, <2>2, <2>3, WindowsStep DEF DesktopInv, Typed
<1>5. CASE Listed(cursor[a])
  <2>1. PICK w \in Windows : w = cursor[a]
    BY <1>1, <1>3
  <2>2. PICK k \in DOMAIN entries : k = Entry(w) /\ entries[k].window = w
    BY <1>5, <2>1, EntryFound
  <2>3. DeleteWindow(a, w, After(k))
    BY <1>5, <2>1, <2>2 DEF DeleteWindows
  <2>4. /\ cursor' = [cursor EXCEPT ![a] = IF entries' = << >> \/ After(k) = entries'[1].window
                                           THEN "none" ELSE After(k)]
        /\ w \in AllWindows
    BY <2>3, Names DEF DeleteWindow
  <2>5. After(k) \in Windows
    <3>1. DOMAIN entries = 1 .. Len(entries) /\ Len(entries) \in Nat
      BY <1>2
    <3>2. k \in 1 .. Len(entries) /\ After(k) = entries[IF k = Len(entries) THEN 1 ELSE k + 1].window
      BY <3>1, NextPlace DEF After
    <3>3. (IF k = Len(entries) THEN 1 ELSE k + 1) \in DOMAIN entries
      BY <3>1, <3>2
    <3>4. QED
      BY <3>2, <3>3, <1>2
  <2>6. /\ cursor' \in [Applications -> Windows \cup {"none"}]
        /\ cursor'[a] = IF entries' = << >> \/ After(k) = entries'[1].window THEN "none" ELSE After(k)
        /\ \A x \in Applications : x # a => cursor'[x] = cursor[x]
    BY <2>4, <2>5, <1>3
  <2>7. a \in Tasks /\ status'[a] = "exiting"
    BY <1>1, Names
  <2>8. ASSUME a \notin disturbed, a \notin headFirst  PROVE Passed(a, k)
    <3>1. ExitOK(a)
      BY <2>8 DEF DesktopInv
    <3>2. PICK m \in DOMAIN entries : Passed(a, m)
      BY <3>1, <1>1 DEF ExitOK
    <3>3. entries[m].window = entries[k].window
      BY <3>2, <2>1, <2>2 DEF Passed
    <3>4. m = k
      BY <3>3 DEF DesktopInv, EntriesOK
    <3>5. QED
      BY <3>2, <3>4
  <2>9. CASE ~Owns(a, k)
    <3>1. UNCHANGED <<entries, disturbed, owner, queues, faults>>
      BY <2>2, <2>3, <2>9 DEF DeleteWindow, Owns
    <3>2. Lasting => Forwarded
      BY <3>1, NothingMoves
    <3>3. EntriesOK'
      BY <3>1, <1>1 DEF DesktopInv, EntriesOK
    <3>4. ASSUME NEW b \in Applications, b \notin disturbed', b \notin headFirst'  PROVE ExitOK(b)'
      <4>1. CASE b = a
        BY <4>1, <3>1, <3>4, <1>1, <2>6, <2>7, <2>8, <2>9, RoundPasses
      <4>2. CASE b # a
        <5>1. ExitOK(b) /\ cursor'[b] = cursor[b]
          BY <4>2, <3>1, <3>4, <1>1, <2>6 DEF DesktopInv
        <5>2. QED
          BY <5>1, <3>1, <1>1 DEF ExitOK, Passed, Owns
      <4>3. QED
        BY <4>1, <4>2
    <3>5. QED
      BY <1>1, <1>3, <2>6, <3>1, <3>2, <3>3, <3>4, WindowsStep DEF DesktopInv, Typed
  <2>10. CASE Owns(a, k)
    <3> DEFINE e == Event("window deletion request", w)
    <3>1. /\ entries' = Without(w) /\ disturbed' = disturbed \cup Exiting(a)
          /\ owner' = [owner EXCEPT ![w] = "main"]
          /\ queues' = [queues EXCEPT !["main"] = Append(@, e)]
          /\ faults' = faults \cup (IF w \in windows THEN {} ELSE {"window"})
      BY <2>2, <2>3, <2>10 DEF DeleteWindow, Owns
    <3>2. entries' = RemoveAt(entries, k)
      BY <3>1, <1>5, <2>1, <2>2 DEF Without
    <3>3. /\ entries' \in Seq(Records)
          /\ \A i \in DOMAIN entries' : \E j \in DOMAIN entries \ {k} : entries'[i] = entries[j]
      BY <3>2, <1>2, RemovedPlaces
    <3>4. /\ owner' \in [AllWindows -> Tasks \cup {"none"}] /\ owner'[w] = "main"
          /\ \A u \in AllWindows : u # w => owner'[u] = owner[u]
      BY <3>1, <1>3, <2>4, Names
    <3>5. owner[w] # "none"
      BY <2>2 DEF DesktopInv, EntriesOK
    <3>6. EntriesOK'
      BY <1>1, <1>2, <2>2, <3>2, <3>4, <3>5, EntryGoes DEF DesktopInv
    <3>7. e \in Events /\ EventOK("main", e) /\ ~Reports(e)
      BY <2>4, EventTyped, Meaning, NoReports DEF EventTypes
    <3> HIDE DEF e
    <3>8. Lasting => Forwarded
      <4> SUFFICES ASSUME Lasting  PROVE Forwarded
        OBVIOUS
      <4>1. <<e>> \in Seq(Events) /\ ToSet(<<e>>) = {e} /\ "main" \in Tasks
        BY <3>7, Names DEF ToSet
      <4>2. Append(queues["main"], e) = queues["main"] \o <<e>>
        BY <4>1, <3>7, <1>3, AppendIsConcat
      <4>3. queues' = [queues EXCEPT !["main"] = @ \o <<e>>]
        BY <3>1, <4>2
      <4>4. Remains(queues)
        BY QueuesRemain DEF DesktopInv
      <4>5. EventOK("main", e)'
        BY <4>1, <3>7, EventStays DEF Lasting
      <4>6. \A x \in ToSet(<<e>>) : EventOK("main", x)' /\ ~Reports(x)
        BY <4>1, <4>5, <3>7
      <4>7. "console" \in faults' => "console" \in faults
        BY <3>1
      <4>8. QED
        BY <4>1, <4>3, <4>4, <4>6, <4>7, Moved DEF Forwarded
    <3>9. ASSUME NEW b \in Applications, b \notin disturbed', b \notin headFirst'  PROVE ExitOK(b)'
      <4>1. b \notin disturbed /\ b \notin Exiting(a) /\ b \notin headFirst
        BY <3>1, <3>9, <1>1
      <4>2. CASE b = a
        BY <4>1, <4>2, <2>6, <2>7, <2>8, <2>10, <3>2, RoundFrees
      <4>3. CASE b # a
        <5>1. ExitOK(b) /\ status[b] # "exiting" /\ cursor'[b] = cursor[b] /\ status'[b] = status[b]
          BY <4>1, <4>3, <1>1, <2>6 DEF DesktopInv, Exiting
        <5>2. CASE status[b] = "closed"
          <6>1. cursor[b] = "none" /\ \A i \in DOMAIN entries : ~Owns(b, i)
            BY <5>1, <5>2 DEF ExitOK
          <6>2. \A i \in DOMAIN entries' : ~Owns(b, i)'
            BY <6>1, <3>3 DEF Owns
          <6>3. QED
            BY <6>1, <6>2, <5>1 DEF ExitOK
        <5>3. CASE status[b] # "closed"
          BY <5>1, <5>3, NotExiting
        <5>4. QED
          BY <5>2, <5>3
      <4>4. QED
        BY <4>2, <4>3
    <3>10. \A u \in AllWindows : owner'[u] = owner[u] \/ (u \in Windows /\ owner[u] # "none" /\ owner'[u] = "main")
      BY <3>4, <3>5
    <3>11. QED
      BY <1>1, <1>3, <2>6, <3>3, <3>4, <3>6, <3>8, <3>9, <3>10, WindowsStep DEF DesktopInv, Typed, Records
  <2>11. QED
    BY <2>9, <2>10
<1>6. QED
  BY <1>4, <1>5

-----------------------------------------------------------------------------
(* A sequence with one element more.                                      *)
LEMMA AppendedEntry ==
  ASSUME NEW S, NEW s \in Seq(S), NEW x \in S, NEW r, r = Append(s, x)
  PROVE  /\ r \in Seq(S) /\ DOMAIN r = 1 .. Len(s) + 1 /\ DOMAIN s = 1 .. Len(s) /\ Len(s) \in Nat
         /\ \A i \in DOMAIN s : i \in DOMAIN r /\ r[i] = s[i]
         /\ Len(s) + 1 \in DOMAIN r /\ r[Len(s) + 1] = x
         /\ \A i \in DOMAIN r : i \in DOMAIN s \/ i = Len(s) + 1
OBVIOUS

(* A new window of an application has sheets, a place in the list of       *)
(* windows and the last entry.                                             *)
LEMMA CreateWindowKeeps ==
  ASSUME DesktopInv, NEW a \in Applications, NEW w \in Windows, CreateWindow(a, w)
  PROVE  DesktopInv'
<1> DEFINE new == [window |-> w, owner_task |-> a]
<1>0. PICK n : n = Len(entries) + 1
  OBVIOUS
<1>1. /\ status[a] = "running" /\ owner[w] = "none"
      /\ owner' = [owner EXCEPT ![w] = a]
      /\ sheets' = sheets \cup SheetsOf(w)
      /\ windows' = windows \cup {w}
      /\ entries' = Append(entries, new)
      /\ UNCHANGED <<queues, status, parent, marked, console, cursor, late, disturbed, headFirst, faults>>
  BY DEF CreateWindow, Running, Fresh, history
<1>2. /\ entries \in Seq(Records) /\ windows \subseteq AllWindows
      /\ \A i \in DOMAIN entries : entries[i].window \in Windows
  BY EntriesTyped
<1>3. new \in Records /\ new.window = w /\ new.owner_task = a
  BY DEF Records
<1> HIDE DEF new
<1>4. /\ entries' \in Seq(Records) /\ DOMAIN entries = 1 .. Len(entries) /\ Len(entries) \in Nat
      /\ \A i \in DOMAIN entries : i \in DOMAIN entries' /\ entries'[i] = entries[i]
      /\ n \in DOMAIN entries' /\ entries'[n] = new
      /\ \A i \in DOMAIN entries' : i \in DOMAIN entries \/ i = n
  BY <1>0, <1>1, <1>2, <1>3, AppendedEntry
<1>5. w # ConsoleWindow /\ w \in AllWindows /\ a \in Tasks /\ a # "none" /\ a # "console"
  BY Names
<1>6. /\ owner \in [AllWindows -> Tasks \cup {"none"}] /\ sheets \subseteq AllSheets
      /\ owner[ConsoleWindow] = "console" /\ \A u \in Windows : owner[u] # "console"
  BY DEF DesktopInv, Typed
<1>7. /\ owner' \in [AllWindows -> Tasks \cup {"none"}] /\ owner'[w] = a
      /\ \A u \in AllWindows : u # w => owner'[u] = owner[u]
  BY <1>1, <1>5, <1>6
<1>8. /\ sheets' \subseteq AllSheets /\ windows' \subseteq AllWindows
      /\ \A s \in sheets' : s \in sheets \/ s[1] = w
      /\ \A part \in Parts : <<ConsoleWindow, part>> \in sheets' <=> <<ConsoleWindow, part>> \in sheets
  BY <1>1, <1>2, <1>5, <1>6 DEF SheetsOf, AllSheets
<1>9. Gone' <=> Gone
  BY <1>1, <1>5, <1>8 DEF Gone
<1>10. Lasting
  <2>1. \A u \in AllWindows : u \notin windows /\ owner[u] # "none" => u \notin windows' /\ owner'[u] # "none"
    BY <1>1, <1>7
  <2>2. QED
    BY <2>1, <1>1, <1>9 DEF Lasting
<1>11. Forwarded
  BY <1>1, <1>10, NothingMoves
<1>12. Typed'
  <2>1. owner'[ConsoleWindow] = "console" /\ \A u \in Windows : owner'[u] # "console"
    BY <1>5, <1>6, <1>7, Names
  <2>2. QED
    BY <2>1, <1>1, <1>4, <1>7, <1>8, <1>11 DEF DesktopInv, Typed, Forwarded, Records
<1>13. SheetsOK'
  <2>1. /\ <<ConsoleWindow, "close button">> \in sheets' => <<ConsoleWindow, "title">> \in sheets'
        /\ console'.allocated => Client(ConsoleWindow) \in sheets'
    BY <1>1, <1>8 DEF DesktopInv, SheetsOK, Client, Parts
  <2>2. \A u \in AllWindows : owner[u] # "none" => owner'[u] # "none"
    BY <1>1, <1>7
  <2>3. ASSUME NEW s \in sheets'  PROVE owner'[s[1]] # "none"
    <3>1. CASE s[1] = w
      BY <3>1, <1>5, <1>7
    <3>2. CASE s \in sheets
      <4>1. s[1] \in AllWindows /\ owner[s[1]] # "none"
        BY <3>2, <1>6 DEF DesktopInv, SheetsOK, AllSheets
      <4>2. QED
        BY <4>1, <2>2
    <3>3. QED
      BY <3>1, <3>2, <1>8
  <2>4. ASSUME NEW u \in windows'  PROVE owner'[u] # "none"
    <3>1. CASE u = w
      BY <3>1, <1>5, <1>7
    <3>2. CASE u \in windows
      <4>1. u \in AllWindows /\ owner[u] # "none"
        BY <3>2, <1>2 DEF DesktopInv, SheetsOK
      <4>2. QED
        BY <4>1, <2>2
    <3>3. QED
      BY <3>1, <3>2, <1>1
  <2>5. QED
    BY <2>1, <2>3, <2>4, <1>1 DEF DesktopInv, SheetsOK
<1>14. \A b \in Applications : InForeground(b)' <=> InForeground(b)
  BY <1>1 DEF InForeground
<1>15. ConsoleOK'
  BY <1>1, <1>9, <1>14 DEF DesktopInv, ConsoleOK
<1>16. BusyMeansRunning'
  BY <1>1, <1>14 DEF DesktopInv, BusyMeansRunning
<1>17. ConsoleOutlivesUse'
  BY <1>1 DEF DesktopInv, ConsoleOutlivesUse
<1>18. \A i \in DOMAIN entries : entries[i].window # w
  BY <1>1 DEF DesktopInv, EntriesOK
<1>19. EntriesOK'
  <2>1. ASSUME NEW i \in DOMAIN entries', NEW j \in DOMAIN entries', entries'[i].window = entries'[j].window
        PROVE  i = j
    <3>1. CASE i \in DOMAIN entries /\ j \in DOMAIN entries
      BY <2>1, <3>1, <1>4 DEF DesktopInv, EntriesOK
    <3>2. CASE i = n \/ j = n
      BY <2>1, <3>2, <1>3, <1>4, <1>18
    <3>3. QED
      BY <3>1, <3>2, <1>4
  <2>2. ASSUME NEW i \in DOMAIN entries'  PROVE owner'[entries'[i].window] # "none"
    <3>1. CASE i = n
      BY <3>1, <1>3, <1>4, <1>5, <1>7
    <3>2. CASE i \in DOMAIN entries
      <4>1. PICK u \in AllWindows : u = entries[i].window
        BY <3>2, <1>2, Names
      <4>2. owner[u] # "none" /\ u # w
        BY <3>2, <4>1, <1>18 DEF DesktopInv, EntriesOK
      <4>3. owner'[u] # "none"
        BY <4>2, <1>7
      <4>4. entries'[i].window = u
        BY <3>2, <4>1, <1>4
      <4>5. QED
        BY <4>3, <4>4
    <3>3. QED
      BY <3>1, <3>2, <1>4
  <2>3. ASSUME NEW u \in windows', owner'[u] \in Applications
        PROVE  \E i \in DOMAIN entries' : entries'[i] = [window |-> u, owner_task |-> owner'[u]]
    <3>1. CASE u = w
      BY <3>1, <1>4, <1>7 DEF new
    <3>2. CASE u # w
      <4>1. u \in windows /\ owner'[u] = owner[u]
        BY <3>2, <2>3, <1>1, <1>2, <1>7
      <4>2. PICK i \in DOMAIN entries : entries[i] = [window |-> u, owner_task |-> owner[u]]
        BY <4>1, <2>3 DEF DesktopInv, EntriesOK
      <4>3. QED
        BY <4>1, <4>2, <1>4
    <3>3. QED
      BY <3>1, <3>2
  <2>4. QED
    BY <2>1, <2>2, <2>3 DEF EntriesOK
<1>20. ASSUME NEW b \in Applications, b \notin disturbed', b \notin headFirst'  PROVE ExitOK(b)'
  <2>1. CASE status[b] \notin {"exiting", "closed"}
    BY <2>1, <1>1, NotExiting
  <2>2. CASE status[b] \in {"exiting", "closed"}
    <3>1. ExitOK(b) /\ b # a
      BY <2>2, <1>1, <1>20 DEF DesktopInv
    <3>2. \A i \in DOMAIN entries : Owns(b, i)' <=> Owns(b, i)
      BY <1>4 DEF Owns
    <3>3. ~Owns(b, n)'
      BY <3>1, <1>3, <1>4 DEF Owns
    <3>4. CASE cursor[b] = "none"
      <4>1. \A i \in DOMAIN entries' : ~Owns(b, i)'
        BY <2>2, <3>1, <3>2, <3>3, <3>4, <1>4 DEF ExitOK
      <4>2. QED
        BY <4>1, <3>4, <1>1 DEF ExitOK
    <3>5. CASE cursor[b] # "none"
      <4>1. PICK k \in DOMAIN entries : Passed(b, k)
        BY <2>2, <3>1, <3>5 DEF ExitOK
      <4>2. \A i \in 1 .. k - 1 : ~Owns(b, i)'
        BY <4>1, <3>2, <1>4 DEF Passed
      <4>3. k = 1 /\ Owns(b, 1)' => \A i \in DOMAIN entries' \ {1} : ~Owns(b, i)'
        BY <4>1, <3>2, <3>3, <1>4 DEF Passed
      <4>4. Passed(b, k)'
        BY <4>1, <4>2, <4>3, <1>1, <1>4 DEF Passed
      <4>5. QED
        BY <4>1, <4>4, <3>1, <3>5, <1>1, <1>4 DEF ExitOK
    <3>6. QED
      BY <3>4, <3>5
  <2>3. QED
    BY <2>1, <2>2
<1>21. QED
  BY <1>11, <1>12, <1>13, <1>15, <1>16, <1>17, <1>19, <1>20 DEF DesktopInv, Forwarded

-----------------------------------------------------------------------------
(* close_task() reports the end of an application to its parent, and frees *)
(* its queue.                                                              *)
LEMMA CloseTaskKeeps ==
  ASSUME DesktopInv, NEW a \in Applications, CloseTask(a)
  PROVE  DesktopInv'
<1> DEFINE e == Event("task deletion response", a)
           from == [queues EXCEPT ![a] = << >>]
<1>1. /\ status[a] = "exiting" /\ cursor[a] = "none"
      /\ Deliver(To(parent[a], <<e>>), from)
      /\ status' = [status EXCEPT ![a] = "closed"]
      /\ UNCHANGED <<parent, sheets, marked, windows, owner, console, entries, cursor, late, disturbed, headFirst>>
  BY DEF CloseTask, desktop, history
<1>2. /\ status \in [Tasks -> {"none", "running", "exiting", "closed"}]
      /\ parent \in [Applications -> {"none", "main", "console"}]
      /\ status["main"] = "running"
      /\ a \in Tasks /\ a # "main" /\ a # "console"
  BY Names DEF DesktopInv, Typed
<1>3. PICK u \in Tasks : u = parent[a] /\ u \in {"main", "console"}
  <2>1. parent[a] # "none"
    BY <1>1 DEF DesktopInv, ConsoleOK
  <2>2. QED
    BY <2>1, <1>2, Names
<1>4. /\ status' \in [Tasks -> {"none", "running", "exiting", "closed"}]
      /\ status'[a] = "closed" /\ \A x \in Tasks : x # a => status'[x] = status[x]
      /\ status'["main"] = status["main"] /\ status'["console"] = status["console"]
  BY <1>1, <1>2, Names
<1>5. Gone' = Gone
  BY <1>1 DEF Gone
<1>6. Lasting
  <2>1. \A x \in Applications : status[x] = "closed" => status'[x] = "closed" /\ parent'[x] = parent[x]
    BY <1>1, <1>4, Names
  <2>2. QED
    BY <2>1, <1>1, <1>5 DEF Lasting
<1>7. /\ Remains(from) /\ from[a] = << >> /\ \A v \in Tasks : v # a => from[v] = queues[v]
  <2>1. queues \in [Tasks -> Seq(Events)] /\ a \in Tasks
    BY <1>2 DEF DesktopInv, Typed
  <2>2. Remains(from)
    BY <2>1, LosesAll DEF DesktopInv
  <2>3. QED
    BY <2>1, <2>2
<1>8. e \in Events /\ EventOK(u, e)'
  BY <1>1, <1>2, <1>3, <1>4, EventTyped DEF EventOK, Event, EventTypes
<1>9. e \notin ToSet(queues[u])
  <2> SUFFICES ASSUME e \in ToSet(queues[u])  PROVE FALSE
    OBVIOUS
  <2>1. PICK i \in DOMAIN queues[u] : queues[u][i] = e
    BY DEF ToSet
  <2>2. EventOK(u, queues[u][i])
    BY <2>1 DEF DesktopInv, QueuesOK
  <2>3. EventOK(u, e)
    BY <2>1, <2>2
  <2>4. EventOK(u, e) <=> \/ u = "main" /\ a = "console"
                          \/ a \in Applications /\ status[a] = "closed" /\ parent[a] = u
    BY Meaning
  <2>5. QED
    BY <2>3, <2>4, <1>1, <1>2
<1>10. \A b \in Applications : Event("task deletion response", b) = e => b = a
  BY DEF Event
<1> HIDE DEF e, from
<1>11. <<e>> \in Seq(Events) /\ ToSet(<<e>>) = {e} /\ Len(<<e>>) = 1
  BY <1>8 DEF ToSet
<1>12. /\ queues' = [from EXCEPT ![u] = @ \o <<e>>]
       /\ faults' = IF status[u] = "closed" THEN faults \cup {FreedQueue(u)} ELSE faults
  <2>1. /\ To(u, <<e>>).task = u /\ To(u, <<e>>).events = <<e>> /\ <<e>> # << >>
    BY DEF To
  <2>2. Deliver(To(u, <<e>>), from)
    BY <1>1, <1>3
  <2>3. QED
    BY <2>1, <2>2 DEF Deliver
<1>13. queues' \in [Tasks -> Seq(Events)] /\ QueuesOK' /\ ReportedOnce'
  <2>1. \A x \in ToSet(<<e>>) : EventOK(u, x)'
    BY <1>8, <1>11
  <2>2. \A x \in ToSet(<<e>>) : Reports(x) => Len(<<e>>) = 1 /\ x \notin ToSet(queues[u])
    BY <1>9, <1>11
  <2>3. QED
    BY <1>6, <1>7, <1>11, <1>12, <2>1, <2>2, QueuesKept DEF DesktopInv
<1>14. ToSet(queues'["console"]) = IF u = "console" THEN ToSet(queues["console"]) \cup {e}
                                   ELSE ToSet(queues["console"])
  <2>1. from \in [Tasks -> Seq(Events)] /\ "console" \in Tasks /\ from["console"] = queues["console"]
    BY <1>2, <1>7, Names DEF Remains
  <2>2. ToSet(queues'["console"]) = IF "console" = u THEN ToSet(from["console"]) \cup ToSet(<<e>>)
                                    ELSE ToSet(from["console"])
    BY <2>1, <1>11, <1>12, QueueHolds
  <2>3. QED
    BY <2>1, <2>2, <1>11
<1>15. ASSUME NEW b \in Applications
       PROVE  InForeground(b)' <=> InForeground(b)
  <2>1. CASE b = a
    <3>1. InForeground(b) <=> parent[a] = "console"
      BY <2>1, <1>1 DEF InForeground
    <3>2. parent[a] = "console" => e \in ToSet(queues'["console"])
      BY <1>3, <1>14
    <3>3. InForeground(b)' <=> parent[a] = "console"
      BY <2>1, <3>2, <1>1 DEF InForeground, e
    <3>4. QED
      BY <3>1, <3>3
  <2>2. CASE b # a
    <3>1. Event("task deletion response", b) # e
      BY <2>2, <1>10
    <3>2. Event("task deletion response", b) \in ToSet(queues'["console"])
            <=> Event("task deletion response", b) \in ToSet(queues["console"])
      BY <3>1, <1>14
    <3>3. status'[b] = status[b] /\ parent'[b] = parent[b]
      BY <2>2, <1>1, <1>4, Names
    <3>4. QED
      BY <3>2, <3>3 DEF InForeground
  <2>3. QED
    BY <2>1, <2>2
<1>16. Typed'
  BY <1>1, <1>4, <1>13 DEF DesktopInv, Typed
<1>17. SheetsOK'
  BY <1>1 DEF DesktopInv, SheetsOK
<1>18. ConsoleOK'
  <2>1. ~console'.accepted => console'.allocated
    BY <1>1 DEF DesktopInv, ConsoleOK
  <2>2. status'["console"] = "closed" => Gone'
    BY <1>4, <1>5 DEF DesktopInv, ConsoleOK
  <2>3. \A x \in Applications : status'[x] # "none" => parent'[x] # "none"
    BY <1>1, <1>4, Names DEF DesktopInv, ConsoleOK
  <2>4. \A x \in Applications : console'.accepted /\ InForeground(x)' => x \in late'
    BY <1>1, <1>15 DEF DesktopInv, ConsoleOK
  <2>5. QED
    BY <2>1, <2>2, <2>3, <2>4 DEF ConsoleOK
<1>19. BusyMeansRunning'
  BY <1>1, <1>15 DEF DesktopInv, BusyMeansRunning
<1>20. ConsoleOutlivesUse'
  <2>1. CASE "console" \in faults
    BY <2>1, <1>1 DEF DesktopInv, ConsoleOutlivesUse
  <2>2. CASE "console" \notin faults
    <3> SUFFICES ASSUME "console" \in faults'  PROVE a \in late'
      BY DEF ConsoleOutlivesUse
    <3>1. status[u] = "closed" /\ FreedQueue(u) = "console"
      BY <2>2, <1>12
    <3>2. u = "console"
      BY <3>1, <1>2, <1>3
    <3>3. Gone
      BY <3>1, <3>2 DEF DesktopInv, ConsoleOK
    <3>4. console.accepted
      BY <3>3 DEF DesktopInv, ConsoleOK, Gone
    <3>5. InForeground(a)
      BY <3>2, <1>1, <1>3 DEF InForeground
    <3>6. QED
      BY <3>4, <3>5, <1>1 DEF DesktopInv, ConsoleOK
  <2>3. QED
    BY <2>1, <2>2
<1>21. EntriesOK'
  BY <1>1 DEF DesktopInv, EntriesOK
<1>22. ASSUME NEW b \in Applications, b \notin disturbed', b \notin headFirst'  PROVE ExitOK(b)'
  <2>1. ExitOK(b)
    BY <1>1, <1>22 DEF DesktopInv
  <2>2. CASE b = a
    BY <2>1, <2>2, <1>1 DEF ExitOK, Owns
  <2>3. CASE b # a
    <3>1. status'[b] = status[b]
      BY <2>3, <1>4, Names
    <3>2. QED
      BY <2>1, <3>1, <1>1 DEF ExitOK, Passed, Owns
  <2>4. QED
    BY <2>2, <2>3
<1>23. QED
  BY <1>13, <1>16, <1>17, <1>18, <1>19, <1>20, <1>21, <1>22 DEF DesktopInv

-----------------------------------------------------------------------------
(* A console waits at its prompt.                                          *)
LEMMA InitHolds == ASSUME Init  PROVE DesktopInv
<1>1. \A a \in Applications : status[a] = "none" /\ parent[a] = "none" /\ cursor[a] = "none"
  BY Names DEF Init
<1>2. status["main"] = "running" /\ status["console"] = "running"
  BY Names DEF Init
<1>3. owner[ConsoleWindow] = "console" /\ \A w \in Windows : owner[w] = "none"
  BY Names DEF Init
<1>4. DOMAIN entries = {} /\ \A t \in Tasks : queues[t] = << >> /\ DOMAIN queues[t] = {} /\ ToSet(queues[t]) = {}
  BY DEF Init, ToSet
<1>5. Typed
  <2>1. sheets \subseteq AllSheets /\ marked \subseteq AllSheets /\ windows \subseteq AllWindows
    BY Names DEF Init, SheetsOf, AllSheets
  <2>2. queues \in [Tasks -> Seq(Events)]
    BY DEF Init
  <2>3. status \in [Tasks -> {"none", "running", "exiting", "closed"}]
    BY DEF Init
  <2>4. owner \in [AllWindows -> Tasks \cup {"none"}] /\ \A w \in Windows : owner[w] # "console"
    BY <1>3, Names DEF Init
  <2>5. /\ console \in [allocated : BOOLEAN, accepted : BOOLEAN, busy : BOOLEAN, exit : BOOLEAN]
        /\ entries \in Seq([window : Windows, owner_task : Applications])
        /\ cursor \in [Applications -> Windows \cup {"none"}]
        /\ parent \in [Applications -> {"none", "main", "console"}]
    BY DEF Init
  <2>6. QED
    BY <1>2, <1>3, <2>1, <2>2, <2>3, <2>4, <2>5 DEF Typed
<1>6. QueuesOK /\ ReportedOnce
  BY <1>4 DEF QueuesOK, ReportedOnce, Once
<1>7. SheetsOK
  <2>1. \A part \in Parts : <<ConsoleWindow, part>> \in sheets
    BY DEF Init, SheetsOf
  <2>2. \A s \in sheets : s[1] = ConsoleWindow
    BY DEF Init, SheetsOf
  <2>3. \A w \in windows : w = ConsoleWindow
    BY DEF Init
  <2>4. marked = {}
    BY DEF Init
  <2>5. QED
    BY <1>3, <2>1, <2>2, <2>3, <2>4 DEF SheetsOK, Client, Parts
<1>8. \A a \in Applications : ~InForeground(a)
  BY <1>1 DEF InForeground
<1>9. console.allocated /\ ~console.accepted /\ ~console.busy
  BY DEF Init
<1>10. ConsoleOK /\ BusyMeansRunning
  BY <1>1, <1>2, <1>8, <1>9 DEF ConsoleOK, BusyMeansRunning
<1>11. ConsoleOutlivesUse
  BY DEF Init, ConsoleOutlivesUse
<1>12. EntriesOK
  <2>1. \A w \in windows : owner[w] \notin Applications
    BY <1>3, Names DEF Init
  <2>2. QED
    BY <2>1, <1>4 DEF EntriesOK
<1>13. \A a \in Applications : ExitOK(a)
  BY <1>1 DEF ExitOK
<1>14. QED
  BY <1>5, <1>6, <1>7, <1>10, <1>11, <1>12, <1>13 DEF DesktopInv

(* A step that does nothing.                                               *)
LEMMA StutterKeeps == ASSUME DesktopInv, UNCHANGED vars  PROVE DesktopInv'
<1>1. UNCHANGED <<queues, status, parent, sheets, marked, windows, owner, console, entries, cursor,
                  late, disturbed, headFirst, faults>>
  BY DEF vars
<1>2. SheetsOK'
  BY <1>1 DEF DesktopInv, SheetsOK
<1>3. Lasting => Forwarded
  BY <1>1, NothingMoves
<1>4. /\ console' \in [allocated : BOOLEAN, accepted : BOOLEAN, busy : BOOLEAN, exit : BOOLEAN]
      /\ marked' \subseteq AllSheets /\ (~console'.accepted => console'.allocated)
  BY <1>1 DEF DesktopInv, Typed, ConsoleOK
<1>5. QED
  BY <1>1, <1>2, <1>3, <1>4, SheetStep

(* A task handles the first event of its queue.                            *)
LEMMA HandleEventKeeps ==
  ASSUME DesktopInv, NEW t \in Tasks, HandleEvent(t)
  PROVE  DesktopInv'
<1> DEFINE subject == Head(queues[t]).subject
<1>1. CASE SheetClicked(t, subject)
  BY <1>1, SheetClickedKeeps
<1>2. CASE CloseButtonClicked(t, subject)
  BY <1>2, CloseButtonClickedKeeps
<1>3. CASE WindowDeletionRequest(t, subject)
  BY <1>3, WindowDeletionRequestKeeps
<1>4. CASE WindowDeleted(t, subject)
  BY <1>4, WindowDeletedKeeps
<1>5. CASE SheetDeletionRequest(t, subject)
  BY <1>5, SheetDeletionRequestKeeps
<1>6. CASE SheetDeletionResponse(t, subject)
  BY <1>6, SheetDeletionResponseKeeps
<1>7. CASE KeyboardToConsole(t)
  BY <1>7, KeyboardToConsoleKeeps
<1>8. CASE IgnoreCommand(t)
  BY <1>8, IgnoreCommandKeeps
<1>9. CASE \E a \in Applications, background \in BOOLEAN : ExecuteCommand(t, a, background)
  BY <1>9, ExecuteCommandKeeps
<1>10. CASE CleanUpCommandTask(t, subject)
  BY <1>10, CleanUpCommandTaskKeeps
<1>11. CASE ConsoleWindowDeleted(t)
  BY <1>11, ConsoleWindowDeletedKeeps
<1>12. CASE CloseConsole(t)
  BY <1>12, CloseConsoleKeeps
<1>13. CASE ConsoleClosed(t)
  BY <1>13, ConsoleClosedKeeps
<1>14. QED
  BY <1>1, <1>2, <1>3, <1>4, <1>5, <1>6, <1>7, <1>8, <1>9, <1>10, <1>11, <1>12, <1>13 DEF HandleEvent

(* The steps of an application keep the invariant.                        *)
LEMMA ApplicationKeeps ==
  ASSUME DesktopInv, NEW a \in Applications, Application(a)
  PROVE  DesktopInv'
<1>1. CASE RequestExit(a)
  BY <1>1, RequestExitKeeps
<1>2. CASE Exit(a)
  BY <1>2, ExitKeeps
<1>3. CASE DeleteWindows(a)
  BY <1>3, DeleteWindowsKeeps
<1>4. CASE CloseTask(a)
  BY <1>4, CloseTaskKeeps
<1>5. CASE \E w \in Windows : CreateWindow(a, w)
  BY <1>5, CreateWindowKeeps
<1>6. QED
  BY <1>1, <1>2, <1>3, <1>4, <1>5 DEF Application

(* Every step keeps the invariant.                                        *)
LEMMA NextKeeps == ASSUME DesktopInv, [Next]_vars  PROVE DesktopInv'
<1>1. CASE User
  BY <1>1, ClickKeeps, AltF4Keeps, EnterKeeps, SerialCommandKeeps DEF User
<1>2. CASE \E t \in Tasks : HandleEvent(t)
  BY <1>2, HandleEventKeeps
<1>3. CASE \E a \in Applications : Application(a)
  BY <1>3, ApplicationKeeps
<1>4. CASE UNCHANGED vars
  BY <1>4, StutterKeeps
<1>5. QED
  BY <1>1, <1>2, <1>3, <1>4 DEF Next

-----------------------------------------------------------------------------
(* The invariant holds in every state: types, the meaning of the events   *)
(* in the queues (distribute_event), the tree of sheets, the console and  *)
(* its shell, and the list application_windows.                           *)
THEOREM DesktopInvariant == Spec => []DesktopInv
<1>1. Init => DesktopInv
  BY InitHolds
<1>2. DesktopInv /\ [Next]_vars => DesktopInv'
  BY NextKeeps
<1>3. QED
  BY <1>1, <1>2, PTL DEF Spec

(* delete_console() is followed by no use of the console, its shell or    *)
(* its queue, unless an application was started after the console had     *)
(* accepted its deletion (console.c, shell.c).                            *)
THEOREM ConsoleIsNotUsedAfterwards == Spec => []ConsoleOutlivesUse
<1>1. DesktopInv => ConsoleOutlivesUse
  BY DEF DesktopInv
<1>2. QED
  BY <1>1, DesktopInvariant, PTL

(* SHELL_FLAG_BUSY is set as long as an application runs in the           *)
(* foreground of the console or its end is not yet reported, and there is *)
(* at most one (execute_command, clean_up_command_task).                  *)
THEOREM BusyFlagIsRight == Spec => []BusyMeansRunning
<1>1. DesktopInv => BusyMeansRunning
  BY DEF DesktopInv
<1>2. QED
  BY <1>1, DesktopInvariant, PTL

(* An application that has exited has no entries, and every window that is *)
(* its own would have one.                                                 *)
LEMMA NoEntryNoWindow == ASSUME DesktopInv  PROVE ExitTakesWindows
<1> SUFFICES ASSUME NEW a \in Applications, a \notin disturbed, a \notin headFirst, status[a] = "closed",
                    NEW w \in windows, owner[w] = a
             PROVE  FALSE
  BY DEF ExitTakesWindows
<1>1. \A i \in DOMAIN entries : entries[i].owner_task # a
  BY DEF DesktopInv, ExitOK, Owns
<1>2. PICK k \in DOMAIN entries : entries[k] = [window |-> w, owner_task |-> owner[w]]
  BY DEF DesktopInv, EntriesOK
<1>3. entries[k].owner_task = a
  BY <1>2
<1>4. QED
  BY <1>1, <1>3

(* system_call_exit() hands all windows of the application over to the    *)
(* main task, unless its loop was disturbed by another task or began at   *)
(* an entry that it freed.                                                *)
THEOREM ExitLeavesNoWindow == Spec => []ExitTakesWindows
<1>1. DesktopInv => ExitTakesWindows
  BY NoEntryNoWindow
<1>2. QED
  BY <1>1, DesktopInvariant, PTL

-----------------------------------------------------------------------------
(* When the queues are empty, the desktop has settled.                     *)

Title(w) == <<w, "title">>
CloseButton(w) == <<w, "close button">>

(* An event waits in the queue of a task, or of the task of a sheet.       *)
Waits(t, type, subject) == Event(type, subject) \in ToSet(queues[t])
Requested(s) == Waits(owner[s[1]], "sheet deletion request", s)
Answered(s) == Waits(owner[s[1]], "sheet deletion response", s)

(* A sheet that is going has its request before it, or its response when   *)
(* its last child is gone; until then its children are going.              *)
TitleIsGoing(w) ==
  Title(w) \in sheets =>
    \/ Requested(Title(w))
    \/ /\ Title(w) \in marked
       /\ IF CloseButton(w) \in sheets THEN Requested(CloseButton(w)) ELSE Answered(Title(w))
RootIsGoing(w) ==
  Root(w) \in sheets =>
    \/ Requested(Root(w))
    \/ /\ Root(w) \in marked
       /\ IF Title(w) \in sheets \/ Client(w) \in sheets
          THEN TitleIsGoing(w) /\ (Client(w) \in sheets => Requested(Client(w)))
          ELSE Answered(Root(w))

(* Somebody attends to every window that is to be deleted, and to the      *)
(* console whose window is gone.                                           *)
Inherited(w) == owner[w] = "main" => Waits("main", "window deletion request", w) \/ RootIsGoing(w)
ConsoleEnds ==
  ConsoleWindow \notin windows =>
    \/ Waits("console", "window deletion response", ConsoleWindow)
    \/ Waits("console", "task deletion request", "console")
    \/ status["console"] = "closed"
Attended ==
  /\ \A w \in Windows \cap windows : Inherited(w)
  /\ console.accepted => RootIsGoing(ConsoleWindow)
  /\ ConsoleEnds

(* Appending to a queue takes nothing out of it.                           *)
LEMMA JoinedAny ==
  ASSUME NEW S, NEW a \in Seq(S), NEW T, NEW b \in Seq(T)
  PROVE  ToSet(a) \subseteq ToSet(a \o b) /\ ToSet(b) \subseteq ToSet(a \o b)
<1> DEFINE s == a \o b
<1>1. a \in Seq(S \cup T) /\ b \in Seq(S \cup T)
  OBVIOUS
<1>2. /\ s \in Seq(S \cup T) /\ Len(s) = Len(a) + Len(b)
      /\ \A i \in 1 .. Len(a) + Len(b) : s[i] = IF i <= Len(a) THEN a[i] ELSE b[i - Len(a)]
  BY <1>1, ConcatProperties
<1>3. /\ DOMAIN a = 1 .. Len(a) /\ DOMAIN b = 1 .. Len(b) /\ DOMAIN s = 1 .. Len(a) + Len(b)
      /\ Len(a) \in Nat /\ Len(b) \in Nat
  BY <1>2
<1> HIDE DEF s
<1>4. ASSUME NEW e \in ToSet(a)  PROVE e \in ToSet(s)
  <2>1. PICK i \in DOMAIN a : e = a[i]
    BY <1>4 DEF ToSet
  <2>2. i \in DOMAIN s /\ e = s[i]
    BY <2>1, <1>2, <1>3
  <2>3. QED
    BY <2>2 DEF ToSet
<1>5. ASSUME NEW e \in ToSet(b)  PROVE e \in ToSet(s)
  <2>1. PICK i \in DOMAIN b : e = b[i]
    BY <1>5 DEF ToSet
  <2>2. i + Len(a) \in DOMAIN s /\ ~(i + Len(a) <= Len(a)) /\ (i + Len(a)) - Len(a) = i
    BY <2>1, <1>3
  <2>3. e = s[i + Len(a)]
    BY <2>1, <2>2, <1>2, <1>3
  <2>4. QED
    BY <2>2, <2>3 DEF ToSet
<1>6. QED
  BY <1>4, <1>5 DEF s

(* A step takes at most the event e out of the queue of t.                 *)
LosesOnly(t, e) ==
  \A u \in Tasks : \A x \in ToSet(queues[u]) : (u = t /\ x = e) \/ x \in ToSet(queues'[u])

(* What a handler dequeues is all that the queues lose, and what it sends  *)
(* is in a queue.                                                          *)
LEMMA HandsOn ==
  ASSUME Typed, NEW t \in Tasks, NEW type, NEW subject, Dequeues(t, type, subject),
         NEW sent, NEW T, sent.events \in Seq(T), Replies(t, sent)
  PROVE  /\ LosesOnly(t, Event(type, subject))
         /\ sent.task \in Tasks => ToSet(sent.events) \subseteq ToSet(queues'[sent.task])
<1> DEFINE from == [queues EXCEPT ![t] = Tail(@)]
           e == Event(type, subject)
<1>1. queues' = [from EXCEPT ![sent.task] = @ \o sent.events]
  BY DEF Replies, Deliver
<1>2. queues \in [Tasks -> Seq(Events)] /\ queues[t] # << >> /\ Head(queues[t]) = e
  BY DEF Typed, Dequeues
<1>3. /\ from \in [Tasks -> Seq(Events)] /\ from[t] = Tail(queues[t])
      /\ \A u \in Tasks : u # t => from[u] = queues[u]
  BY <1>2, TakesFirst DEF Remains
<1> HIDE DEF from, e
<1>4. ASSUME NEW u \in Tasks, NEW x \in ToSet(queues[u])
      PROVE  (u = t /\ x = e) \/ x \in ToSet(from[u])
  <2>1. CASE u = t
    <3>1. ToSet(queues[t]) = ToSet(Tail(queues[t])) \cup {e}
      BY <1>2, TailElements
    <3>2. QED
      BY <3>1, <2>1, <1>3, <1>4
  <2>2. QED
    BY <2>1, <1>3, <1>4
<1>5. ASSUME NEW u \in Tasks
      PROVE  /\ ToSet(from[u]) \subseteq ToSet(queues'[u])
             /\ u = sent.task => ToSet(sent.events) \subseteq ToSet(queues'[u])
  <2>1. CASE u = sent.task
    <3>1. queues'[u] = from[u] \o sent.events /\ from[u] \in Seq(Events)
      BY <2>1, <1>1, <1>3
    <3>2. QED
      BY <3>1, JoinedAny
  <2>2. CASE u # sent.task
    <3>1. queues'[u] = from[u]
      BY <2>2, <1>1, <1>3
    <3>2. QED
      BY <3>1, <2>2
  <2>3. QED
    BY <2>1, <2>2
<1>6. LosesOnly(t, e)
  BY <1>4, <1>5 DEF LosesOnly
<1>7. QED
  BY <1>5, <1>6 DEF e

(* A handler that follows a stale pointer only dequeues.                   *)
LEMMA DropsOne ==
  ASSUME Typed, NEW t \in Tasks, NEW type, NEW subject, Dequeues(t, type, subject),
         NEW what, Misuses(t, what)
  PROVE  LosesOnly(t, Event(type, subject))
<1> DEFINE e == Event(type, subject)
<1>1. queues \in [Tasks -> Seq(Events)] /\ queues[t] # << >> /\ Head(queues[t]) = e
  BY DEF Typed, Dequeues
<1>2. queues' = [queues EXCEPT ![t] = Tail(@)]
  BY DEF Misuses
<1>3. queues'[t] = Tail(queues[t]) /\ \A u \in Tasks : u # t => queues'[u] = queues[u]
  BY <1>1, <1>2
<1> HIDE DEF e
<1>4. ToSet(queues[t]) = ToSet(Tail(queues[t])) \cup {e}
  BY <1>1, TailElements
<1>5. LosesOnly(t, e)
  BY <1>3, <1>4 DEF LosesOnly
<1>6. QED
  BY <1>5 DEF e

(* What is sent is a sequence, of one event or none.                       *)
LEMMA MessagesAreSequences ==
  ASSUME NEW type, NEW subject
  PROVE  /\ Nothing.events \in Seq(Events)
         /\ \A u : To(u, <<Event(type, subject)>>).events \in Seq({Event(type, subject)})
         /\ ToSheet(type, subject).events \in Seq({Event(type, subject)})
         /\ ToWindow(type, subject).events \in Seq({Event(type, subject)})
<1> DEFINE e == Event(type, subject)
<1>1. \A u, q : To(u, q).events = q
  BY DEF To
<1>2. << >> \in Seq(Events) /\ <<e>> \in Seq({e})
  OBVIOUS
<1>3. Nothing.events = << >> /\ ToSheet(type, subject).events = <<e>> /\ ToWindow(type, subject).events = <<e>>
  BY <1>1 DEF Nothing, ToSheet, ToWindow
<1> HIDE DEF e
<1>4. \A u : To(u, <<e>>).events \in Seq({e})
  BY <1>1, <1>2
<1>5. QED
  BY <1>2, <1>3, <1>4 DEF e

-----------------------------------------------------------------------------
(* Different events.                                                       *)
LEMMA EventsDiffer ==
  ASSUME NEW type, NEW subject, NEW type2, NEW subject2
  PROVE  Event(type, subject) = Event(type2, subject2) <=> type = type2 /\ subject = subject2
BY DEF Event

(* The four sheets of a window.                                            *)
LEMMA FourSheets ==
  ASSUME NEW w
  PROVE  /\ Root(w)[2] = "root" /\ Title(w)[2] = "title" /\ CloseButton(w)[2] = "close button"
         /\ Client(w)[2] = "client"
         /\ \A s \in {Root(w), Title(w), CloseButton(w), Client(w)} : s[1] = w
<1>1. Root(w)[1] = w /\ Title(w)[1] = w /\ CloseButton(w)[1] = w /\ Client(w)[1] = w
  BY DEF Root, Title, CloseButton, Client
<1>2. /\ Root(w)[2] = "root" /\ Title(w)[2] = "title" /\ CloseButton(w)[2] = "close button"
      /\ Client(w)[2] = "client"
  BY DEF Root, Title, CloseButton, Client
<1>3. QED
  BY <1>1, <1>2

(* A step that changes neither the sheets of a window nor what is said to  *)
(* them.                                                                   *)
LEMMA GoesOn ==
  ASSUME NEW w, marked \subseteq marked',
         \A s \in {Root(w), Title(w), CloseButton(w), Client(w)} :
           (s \in sheets' => s \in sheets) /\ (s \in sheets => s \in sheets'),
         \A s \in {Root(w), Title(w), CloseButton(w), Client(w)} :
           (Requested(s) => Requested(s)') /\ (Answered(s) => Answered(s)'),
         RootIsGoing(w)
  PROVE  RootIsGoing(w)'
<1> HIDE DEF Requested, Answered
<1>1. /\ Requested(Root(w)) => Requested(Root(w))'
      /\ Requested(Title(w)) => Requested(Title(w))'
      /\ Requested(CloseButton(w)) => Requested(CloseButton(w))'
      /\ Requested(Client(w)) => Requested(Client(w))'
      /\ Answered(Root(w)) => Answered(Root(w))'
      /\ Answered(Title(w)) => Answered(Title(w))'
  OBVIOUS
<1>2. /\ Root(w) \in sheets' <=> Root(w) \in sheets
      /\ Title(w) \in sheets' <=> Title(w) \in sheets
      /\ CloseButton(w) \in sheets' <=> CloseButton(w) \in sheets
      /\ Client(w) \in sheets' <=> Client(w) \in sheets
  OBVIOUS
<1>3. TitleIsGoing(w) => TitleIsGoing(w)'
  BY <1>1, <1>2 DEF TitleIsGoing
<1>4. QED
  BY <1>1, <1>2, <1>3 DEF RootIsGoing

(* What the events that somebody waits for are about.                      *)
Deletion(x) ==
  \/ x.type \in {"sheet deletion request", "sheet deletion response",
                 "window deletion request", "task deletion request"}
  \/ x = Event("window deletion response", ConsoleWindow)
KeepsDeletions == \A u \in {"main", "console"} : \A x \in ToSet(queues[u]) : Deletion(x) => x \in ToSet(queues'[u])

(* A step that keeps these events and the windows.                         *)
LEMMA StaysAttended ==
  ASSUME Typed, Attended, KeepsDeletions, UNCHANGED desktop,
         console'.accepted = console.accepted, status'["console"] = status["console"]
  PROVE  Attended'
<1>1. UNCHANGED <<sheets, marked, windows, owner>>
  BY DEF desktop
<1>2. ASSUME NEW u \in {"main", "console"}, NEW x
      PROVE  /\ Waits(u, "window deletion request", x) => Waits(u, "window deletion request", x)'
             /\ Waits(u, "sheet deletion request", x) => Waits(u, "sheet deletion request", x)'
             /\ Waits(u, "sheet deletion response", x) => Waits(u, "sheet deletion response", x)'
             /\ Waits(u, "task deletion request", x) => Waits(u, "task deletion request", x)'
             /\ Waits(u, "window deletion response", ConsoleWindow) => Waits(u, "window deletion response", ConsoleWindow)'
  <2>1. /\ Deletion(Event("window deletion request", x)) /\ Deletion(Event("sheet deletion request", x))
        /\ Deletion(Event("sheet deletion response", x)) /\ Deletion(Event("task deletion request", x))
        /\ Deletion(Event("window deletion response", ConsoleWindow))
    BY DEF Deletion, Event
  <2>2. QED
    BY <2>1 DEF KeepsDeletions, Waits
<1>3. ASSUME NEW w, owner[w] \in {"main", "console"}, RootIsGoing(w)
      PROVE  RootIsGoing(w)'
  <2>1. \A s \in {Root(w), Title(w), CloseButton(w), Client(w)} : s[1] = w
    BY FourSheets
  <2>2. \A s \in {Root(w), Title(w), CloseButton(w), Client(w)} :
           (Requested(s) => Requested(s)') /\ (Answered(s) => Answered(s)')
    BY <1>1, <1>2, <1>3, <2>1 DEF Requested, Answered
  <2>3. QED
    BY <1>1, <1>3, <2>2, GoesOn
<1>4. ASSUME NEW w \in Windows \cap windows'  PROVE Inherited(w)'
  <2>1. Inherited(w)
    BY <1>1, <1>4 DEF Attended
  <2>2. owner[w] = "main" => Waits("main", "window deletion request", w) \/ RootIsGoing(w)
    BY <2>1 DEF Inherited
  <2>3. Waits("main", "window deletion request", w) => Waits("main", "window deletion request", w)'
    BY <1>2
  <2>4. owner[w] = "main" /\ RootIsGoing(w) => RootIsGoing(w)'
    BY <1>3
  <2>5. QED
    BY <2>2, <2>3, <2>4, <1>1 DEF Inherited
<1>5. owner[ConsoleWindow] = "console"
  BY DEF Typed
<1>6. console'.accepted => RootIsGoing(ConsoleWindow)'
  BY <1>3, <1>5 DEF Attended
<1>7. ConsoleEnds'
  BY <1>1, <1>2 DEF Attended, ConsoleEnds
<1>8. QED
  BY <1>4, <1>6, <1>7 DEF Attended

(* A step that takes out of the queues at most one other event.            *)
LEMMA OtherEvent ==
  ASSUME Typed, Attended, NEW t, NEW e, LosesOnly(t, e), ~Deletion(e), UNCHANGED desktop,
         console'.accepted = console.accepted, status'["console"] = status["console"]
  PROVE  Attended'
<1>1. KeepsDeletions
  BY Names DEF LosesOnly, KeepsDeletions
<1>2. QED
  BY <1>1, StaysAttended

(* Events that are no part of a deletion.                                  *)
LEMMA NoDeletion ==
  ASSUME NEW x
  PROVE  /\ ~Deletion(Event("sheet clicked", x)) /\ ~Deletion(Event("close button clicked", x))
         /\ ~Deletion(Event("sheet keyboard", x)) /\ ~Deletion(Event("command issued", x))
         /\ ~Deletion(Event("task deletion response", x))
         /\ x # ConsoleWindow => ~Deletion(Event("window deletion response", x))
BY DEF Deletion, Event

(* A handler of such an event, that replies.                               *)
LEMMA OtherReply ==
  ASSUME Typed, Attended, NEW t \in Tasks, NEW type, NEW subject, Dequeues(t, type, subject),
         ~Deletion(Event(type, subject)), NEW sent, NEW T, sent.events \in Seq(T), Replies(t, sent),
         UNCHANGED desktop, console'.accepted = console.accepted, status' = status
  PROVE  Attended'
<1>1. LosesOnly(t, Event(type, subject))
  BY HandsOn
<1>2. QED
  BY <1>1, OtherEvent

(* The user takes no event away.                                           *)
LEMMA UserAttends ==
  ASSUME Typed, Attended, User
  PROVE  Attended'
<1>0. SUFFICES ASSUME ~\E a \in Applications, background \in BOOLEAN : SerialCommand(a, background)
               PROVE  Attended'
  <2>1. ASSUME NEW a \in Applications, NEW background \in BOOLEAN, SerialCommand(a, background)
        PROVE  Attended'
    <3>1. /\ UNCHANGED <<queues, desktop, console>> /\ status' = [status EXCEPT ![a] = "running"]
          /\ status \in [Tasks -> {"none", "running", "exiting", "closed"}]
      BY <2>1 DEF SerialCommand, Typed
    <3>2. status'["console"] = status["console"] /\ console'.accepted = console.accepted
      BY <3>1, Names
    <3>3. KeepsDeletions
      BY <3>1 DEF KeepsDeletions
    <3>4. QED
      BY <3>1, <3>2, <3>3, StaysAttended
  <2>2. QED
    BY <2>1
<1>1. PICK sent, e : Send(sent) /\ sent.events \in Seq({e}) /\ UNCHANGED <<status, desktop, console>>
  <2>1. CASE \E w \in AllWindows : ClickCloseButton(w)
    BY <2>1, MessagesAreSequences DEF ClickCloseButton
  <2>2. CASE \E w \in AllWindows : AltF4(w)
    BY <2>2, MessagesAreSequences DEF AltF4
  <2>3. CASE Enter
    BY <2>3, MessagesAreSequences DEF Enter
  <2>4. QED
    BY <1>0, <2>1, <2>2, <2>3 DEF User
<1>2. queues' = [queues EXCEPT ![sent.task] = @ \o sent.events] /\ queues \in [Tasks -> Seq(Events)]
  BY <1>1 DEF Send, Deliver, Typed
<1>3. ASSUME NEW u \in Tasks  PROVE ToSet(queues[u]) \subseteq ToSet(queues'[u])
  <2>1. CASE u = sent.task
    <3>1. queues'[u] = queues[u] \o sent.events /\ queues[u] \in Seq(Events)
      BY <2>1, <1>2
    <3>2. QED
      BY <3>1, <1>1, JoinedAny
  <2>2. CASE u # sent.task
    BY <2>2, <1>2
  <2>3. QED
    BY <2>1, <2>2
<1>4. KeepsDeletions
  BY <1>3, Names DEF KeepsDeletions
<1>5. QED
  BY <1>1, <1>4, StaysAttended

-----------------------------------------------------------------------------
(* A sheet is one of the four of its window, and these are its children.   *)
LEMMA OneOfFour ==
  ASSUME NEW s \in AllSheets
  PROVE  /\ s[1] \in AllWindows
         /\ s \in {Root(s[1]), Title(s[1]), CloseButton(s[1]), Client(s[1])}
<1>1. s[1] \in AllWindows /\ s = <<s[1], s[2]>> /\ s[2] \in {"root", "title", "close button", "client"}
  BY Tree DEF Parts
<1>2. QED
  BY <1>1 DEF Root, Title, CloseButton, Client

(* A pair is known by its members.                                         *)
LEMMA PairIs ==
  ASSUME NEW c, c = <<c[1], c[2]>>, NEW w, NEW part
  PROVE  c = <<w, part>> <=> c[1] = w /\ c[2] = part
OBVIOUS

(* The tree of the sheets of a window (create_window).                     *)
LEMMA TreeOf ==
  ASSUME sheets \subseteq AllSheets, NEW w \in AllWindows
  PROVE  /\ Children(Root(w)) = sheets \cap {Title(w), Client(w)}
         /\ Children(Title(w)) = sheets \cap {CloseButton(w)}
         /\ Children(CloseButton(w)) = {} /\ Children(Client(w)) = {}
         /\ Root(w) \in AllSheets /\ Title(w) \in AllSheets /\ CloseButton(w) \in AllSheets
         /\ Client(w) \in AllSheets
         /\ Root(w) # Title(w) /\ Root(w) # CloseButton(w) /\ Root(w) # Client(w)
         /\ Title(w) # CloseButton(w) /\ Title(w) # Client(w) /\ CloseButton(w) # Client(w)
<1>1. /\ Above["close button"] = "title" /\ Above["title"] = "root" /\ Above["client"] = "root"
  BY DEF Above, Parts
<1>2. \A c \in sheets : c = <<c[1], c[2]>> /\ c[2] \in {"root", "title", "close button", "client"}
  BY Tree DEF Parts
<1>3. ASSUME NEW part \in Parts
      PROVE  \A c : c \in Children(<<w, part>>) <=> c \in sheets /\ c[1] = w /\ c[2] # "root" /\ Above[c[2]] = part
  BY DEF Children
<1>4. \A c : c \in Children(Root(w)) <=> c \in sheets /\ c \in {Title(w), Client(w)}
  <2>1. \A c : c \in Children(Root(w)) <=> c \in sheets /\ c[1] = w /\ c[2] # "root" /\ Above[c[2]] = "root"
    BY <1>3 DEF Root, Parts
  <2>2. \A c \in sheets : c[1] = w /\ c[2] # "root" /\ Above[c[2]] = "root" <=> c[1] = w /\ c[2] \in {"title", "client"}
    BY <1>1, <1>2
  <2>3. \A c \in sheets : /\ c = Title(w) <=> c[1] = w /\ c[2] = "title"
                          /\ c = Client(w) <=> c[1] = w /\ c[2] = "client"
    BY <1>2, PairIs DEF Title, Client
  <2>4. QED
    BY <2>1, <2>2, <2>3
<1>5. \A c : c \in Children(Title(w)) <=> c \in sheets /\ c \in {CloseButton(w)}
  <2>1. \A c : c \in Children(Title(w)) <=> c \in sheets /\ c[1] = w /\ c[2] # "root" /\ Above[c[2]] = "title"
    BY <1>3 DEF Title, Parts
  <2>2. \A c \in sheets : c[1] = w /\ c[2] # "root" /\ Above[c[2]] = "title" <=> c[1] = w /\ c[2] = "close button"
    BY <1>1, <1>2
  <2>3. \A c \in sheets : c = CloseButton(w) <=> c[1] = w /\ c[2] = "close button"
    BY <1>2, PairIs DEF CloseButton
  <2>4. QED
    BY <2>1, <2>2, <2>3
<1>6. \A c : c \notin Children(CloseButton(w)) /\ c \notin Children(Client(w))
  BY <1>1, <1>2, <1>3 DEF CloseButton, Client, Parts
<1>7. /\ Root(w) \in AllSheets /\ Title(w) \in AllSheets /\ CloseButton(w) \in AllSheets
      /\ Client(w) \in AllSheets
  BY DEF AllSheets, Root, Title, CloseButton, Client, Parts
<1>8. /\ Root(w) # Title(w) /\ Root(w) # CloseButton(w) /\ Root(w) # Client(w)
      /\ Title(w) # CloseButton(w) /\ Title(w) # Client(w) /\ CloseButton(w) # Client(w)
  BY DEF Root, Title, CloseButton, Client
<1>9. QED
  BY <1>4, <1>5, <1>6, <1>7, <1>8

(* The parent of a sheet gets its response.                                *)
LEMMA ParentAnswered ==
  ASSUME NEW w
  PROVE  /\ Response(Root(w)) = Nothing
         /\ Response(Title(w)) = ToSheet("sheet deletion response", Root(w))
         /\ Response(Client(w)) = ToSheet("sheet deletion response", Root(w))
         /\ Response(CloseButton(w)) = ToSheet("sheet deletion response", Title(w))
<1>1. Above["close button"] = "title" /\ Above["title"] = "root" /\ Above["client"] = "root"
  BY DEF Above, Parts
<1>2. QED
  BY <1>1 DEF Response, Root, Title, CloseButton, Client

(* Other events than the one handled still wait.                           *)
LEMMA OthersWait ==
  ASSUME NEW t, NEW type, NEW subject, LosesOnly(t, Event(type, subject)), NEW u \in Tasks,
         NEW kind, NEW x, kind # type \/ x # subject, Waits(u, kind, x)
  PROVE  Waits(u, kind, x)'
<1>1. Event(kind, x) # Event(type, subject)
  BY DEF Event
<1>2. QED
  BY <1>1 DEF LosesOnly, Waits

(* The events of a sheet that wait still do, but for the one handled.      *)
LEMMA StillWaits ==
  ASSUME NEW t, NEW type, NEW s, LosesOnly(t, Event(type, s)), owner' = owner,
         NEW x, owner[x[1]] \in Tasks
  PROVE  /\ type # "sheet deletion request" \/ s # x => (Requested(x) => Requested(x)')
         /\ type # "sheet deletion response" \/ s # x => (Answered(x) => Answered(x)')
<1> DEFINE u == owner[x[1]]
<1>1. u \in Tasks /\ owner'[x[1]] = u
  OBVIOUS
<1>2. \A y \in ToSet(queues[u]) : y = Event(type, s) \/ y \in ToSet(queues'[u])
  BY <1>1 DEF LosesOnly
<1>3. Requested(x) => Event("sheet deletion request", x) = Event(type, s) \/ Requested(x)'
  BY <1>1, <1>2 DEF Requested, Waits
<1>4. Answered(x) => Event("sheet deletion response", x) = Event(type, s) \/ Answered(x)'
  BY <1>1, <1>2 DEF Answered, Waits
<1>5. /\ type # "sheet deletion request" \/ s # x => Event("sheet deletion request", x) # Event(type, s)
      /\ type # "sheet deletion response" \/ s # x => Event("sheet deletion response", x) # Event(type, s)
  BY DEF Event
<1>6. QED
  BY <1>3, <1>4, <1>5

(* What is sent to a sheet waits.                                          *)
LEMMA IsSent ==
  ASSUME Typed, NEW t \in Tasks, NEW type, NEW subject, Dequeues(t, type, subject), NEW x, owner' = owner,
         owner[x[1]] \in Tasks, NEW kind, Replies(t, ToSheet(kind, x))
  PROVE  Waits(owner[x[1]], kind, x)'
<1> DEFINE sent == ToSheet(kind, x)
           e == Event(kind, x)
<1>1. sent.events \in Seq({e})
  BY MessagesAreSequences
<1>2. sent.task = owner[x[1]] /\ sent.events = <<e>>
  BY DEF ToSheet, To
<1>3. e \in ToSet(<<e>>)
  BY DEF ToSet
<1> HIDE DEF sent, e
<1>4. Replies(t, sent)
  BY DEF sent
<1>5. sent.task \in Tasks => ToSet(sent.events) \subseteq ToSet(queues'[sent.task])
  BY <1>1, <1>4, HandsOn
<1>6. e \in ToSet(queues'[owner[x[1]]])
  BY <1>2, <1>3, <1>5
<1>7. QED
  BY <1>6 DEF Waits, e

(* A handler of sheets: the other windows are as they were.                *)
LEMMA SheetHandlerAttends ==
  ASSUME DesktopInv, Attended, NEW t \in Tasks, NEW type \in {"sheet deletion request", "sheet deletion response"},
         NEW s \in AllSheets, LosesOnly(t, Event(type, s)),
         owner' = owner, status' = status, console'.accepted = console.accepted,
         marked \subseteq marked', sheets' \subseteq sheets, sheets \ {s} \subseteq sheets',
         windows' \subseteq windows,
         ConsoleWindow \in windows /\ ConsoleWindow \notin windows' =>
           Waits("console", "window deletion response", ConsoleWindow)',
         owner[s[1]] \in Tasks /\ RootIsGoing(s[1]) => RootIsGoing(s[1])'
  PROVE  Attended'
<1>1. ASSUME NEW w \in AllWindows, owner[w] \in Tasks, RootIsGoing(w)
      PROVE  RootIsGoing(w)'
  <2>1. CASE w = s[1]
    BY <2>1, <1>1
  <2>2. CASE w # s[1]
    <3>1. \A x \in {Root(w), Title(w), CloseButton(w), Client(w)} : x[1] = w
      BY FourSheets
    <3>2. \A x \in {Root(w), Title(w), CloseButton(w), Client(w)} :
             (Requested(x) => Requested(x)') /\ (Answered(x) => Answered(x)')
      <4> SUFFICES ASSUME NEW x \in {Root(w), Title(w), CloseButton(w), Client(w)}
                   PROVE  (Requested(x) => Requested(x)') /\ (Answered(x) => Answered(x)')
        OBVIOUS
      <4>1. x[1] = w /\ s # x
        BY <2>2, <3>1
      <4>2. QED
        BY <4>1, <1>1, StillWaits
    <3>3. \A x \in {Root(w), Title(w), CloseButton(w), Client(w)} : x # s
      BY <2>2, <3>1
    <3>4. QED
      BY <3>2, <3>3, <1>1, GoesOn
  <2>3. QED
    BY <2>1, <2>2
<1>2. ASSUME NEW u \in Tasks, NEW kind, kind \notin {"sheet deletion request", "sheet deletion response"},
             NEW x, Waits(u, kind, x)
      PROVE  Waits(u, kind, x)'
  BY <1>2, OthersWait
<1>3. ASSUME NEW w \in Windows \cap windows'  PROVE Inherited(w)'
  <2>1. owner[w] = "main" => Waits("main", "window deletion request", w) \/ RootIsGoing(w)
    BY <1>3 DEF Attended, Inherited
  <2>2. Waits("main", "window deletion request", w) => Waits("main", "window deletion request", w)'
    BY <1>2, Names
  <2>3. owner[w] = "main" /\ RootIsGoing(w) => RootIsGoing(w)'
    BY <1>1, Names
  <2>4. QED
    BY <2>1, <2>2, <2>3 DEF Inherited
<1>4. owner[ConsoleWindow] = "console" /\ "console" \in Tasks /\ ConsoleWindow \in AllWindows
  BY Names DEF DesktopInv, Typed
<1>5. console'.accepted => RootIsGoing(ConsoleWindow)'
  BY <1>1, <1>4 DEF Attended
<1>6. ConsoleEnds'
  BY <1>2, <1>4 DEF Attended, ConsoleEnds
<1>7. QED
  BY <1>3, <1>5, <1>6 DEF Attended

-----------------------------------------------------------------------------
(* A sequence of SetToSeqs holds all the elements of its set.              *)
LEMMA AllListed ==
  ASSUME NEW S, IsFiniteSet(S), NEW order \in SetToSeqs(S)
  PROVE  ToSet(order) = S
<1> DEFINE n == Cardinality(S)
<1>1. n \in Nat
  BY FS_CardinalityType
<1>2. order \in [1 .. n -> S] /\ \A i, j \in 1 .. n : i # j => order[i] # order[j]
  BY DEF SetToSeqs
<1>3. Cardinality(1 .. n) = n
  BY <1>1, FS_Interval
<1>4. order \in Injection(1 .. n, S)
  BY <1>2 DEF Injection, IsInjective
<1>5. order \in Surjection(1 .. n, S)
  BY <1>3, <1>4, FS_Injection
<1>6. DOMAIN order = 1 .. n /\ \A x \in S : \E i \in 1 .. n : order[i] = x
  BY <1>2, <1>5 DEF Surjection
<1> HIDE DEF n
<1>7. QED
  BY <1>2, <1>6 DEF ToSet

(* A sheet that is asked to go is a sheet, and that of the console is      *)
(* asked when the console has accepted its deletion.                       *)
LEMMA RequestMeans ==
  ASSUME DesktopInv, NEW t \in Tasks, NEW s, Dequeues(t, "sheet deletion request", s)
  PROVE  s \in AllSheets /\ (s[1] = ConsoleWindow => console.accepted)
<1>1. EventOK(t, Event("sheet deletion request", s))
  BY Dequeued
<1>2. EventOK(t, Event("sheet deletion request", s)) <=>
        s \in AllSheets /\ (s[1] = ConsoleWindow => console.accepted)
  BY DEF EventOK, Event
<1>3. QED
  BY <1>1, <1>2

(* A window that is being deleted, when one of its sheets has handled a    *)
(* request.                                                                *)
LEMMA RequestGoesOn ==
  ASSUME DesktopInv, NEW t \in Tasks, NEW w \in AllWindows, owner[w] \in Tasks,
         NEW s \in {Root(w), Title(w), CloseButton(w), Client(w)}, SheetDeletionRequest(t, s),
         LosesOnly(t, Event("sheet deletion request", s)), RootIsGoing(w)
  PROVE  RootIsGoing(w)'
<1> DEFINE four == {Root(w), Title(w), CloseButton(w), Client(w)}
<1>1. sheets \subseteq AllSheets /\ owner' = owner /\ Typed
  BY DEF DesktopInv, Typed, SheetDeletionRequest, desktop
<1>2. \A x \in four : x[1] = w
  BY FourSheets
<1>3. ASSUME NEW x \in four
      PROVE  /\ s # x => (Requested(x) => Requested(x)')
             /\ Answered(x) => Answered(x)'
  <2>1. x[1] = w /\ owner[x[1]] \in Tasks
    BY <1>2, <1>3
  <2>2. PICK type : type = "sheet deletion request" /\ LosesOnly(t, Event(type, s))
    OBVIOUS
  <2>3. type # "sheet deletion response"
    BY <2>2
  <2> HIDE DEF four
  <2>4. owner' = owner
    BY <1>1
  <2>5. s # x => (Requested(x) => Requested(x)')
    BY ONLY <2>1, <2>2, <2>4, StillWaits
  <2>6. Answered(x) => Answered(x)'
    BY ONLY <2>1, <2>2, <2>3, <2>4, StillWaits
  <2>7. QED
    BY <2>5, <2>6
<1>4. Dequeues(t, "sheet deletion request", s) /\ s[1] = w
  BY <1>2 DEF SheetDeletionRequest
<1>5. CASE s \notin sheets
  <2>1. UNCHANGED <<sheets, marked>>
    BY <1>5 DEF SheetDeletionRequest, desktop
  <2>2. TitleIsGoing(w) => TitleIsGoing(w)'
    BY <2>1, <1>3, <1>5 DEF TitleIsGoing
  <2>3. QED
    BY <2>1, <2>2, <1>3, <1>5 DEF RootIsGoing
<1>6. CASE s \in sheets /\ Children(s) # {}
  <2>1. /\ marked' = marked \cup {s} /\ sheets' = sheets
        /\ \E order \in SetToSeqs(Children(s)) :
              Replies(t, To(owner[s[1]], [k \in DOMAIN order |-> Event("sheet deletion request", order[k])]))
    BY <1>6 DEF SheetDeletionRequest
  <2>2. \A c \in Children(s) : c \in four => Requested(c)'
    <3>1. PICK order \in SetToSeqs(Children(s)) :
              Replies(t, To(owner[w], [k \in DOMAIN order |-> Event("sheet deletion request", order[k])]))
      BY <2>1, <1>4
    <3> DEFINE events == [k \in DOMAIN order |-> Event("sheet deletion request", order[k])]
               sent == To(owner[w], events)
    <3>2. sent \in Messages
      <4>1. s \in AllSheets /\ (s[1] = ConsoleWindow => console.accepted)
        BY <1>4, RequestMeans
      <4>2. Sendable(To(owner[s[1]], events))
        BY <4>1, <1>6, RequestsSendable
      <4>3. QED
        BY <4>2, <1>4 DEF Sendable
    <3>3. sent.task = owner[w] /\ sent.events = events
      BY DEF To
    <3>4. ASSUME NEW c \in Children(s)  PROVE Event("sheet deletion request", c) \in ToSet(events)
      <4>1. ToSet(order) = Children(s)
        <5>1. Children(s) \subseteq four
          BY <1>1, TreeOf
        <5>2. IsFiniteSet(Children(s))
          BY <5>1, FourAreFinite, FS_Subset
        <5>3. QED
          BY <5>2, AllListed
      <4>2. PICK k \in DOMAIN order : order[k] = c
        BY <4>1 DEF ToSet
      <4>3. k \in DOMAIN events /\ events[k] = Event("sheet deletion request", c)
        BY <4>2
      <4>4. QED
        BY <4>3 DEF ToSet
    <3> HIDE DEF events, sent
    <3>5. Replies(t, sent) /\ sent.events \in Seq(Events)
      BY <3>1, <3>2 DEF sent, events, Messages
    <3>6. ToSet(events) \subseteq ToSet(queues'[owner[w]])
      BY <3>3, <3>5, <1>1, <1>4, HandsOn
    <3>7. ASSUME NEW c \in Children(s), c \in four  PROVE Requested(c)'
      <4>1. Event("sheet deletion request", c) \in ToSet(queues'[owner[w]])
        BY <3>4, <3>6, <3>7
      <4>2. QED
        BY <4>1, <3>7, <1>1, <1>2 DEF Requested, Waits
    <3>8. QED
      BY <3>7
  <2>3. CASE s = Root(w)
    <3>1. /\ Title(w) \in sheets => Requested(Title(w))'
          /\ Client(w) \in sheets => Requested(Client(w))'
          /\ Title(w) \in sheets \/ Client(w) \in sheets
      BY <2>2, <2>3, <1>1, <1>6, TreeOf
    <3>2. TitleIsGoing(w)'
      BY <3>1, <2>1 DEF TitleIsGoing
    <3>3. QED
      BY <3>1, <3>2, <2>1, <2>3 DEF RootIsGoing
  <2>4. CASE s = Title(w)
    <3>1. CloseButton(w) \in sheets /\ Requested(CloseButton(w))'
      BY <2>2, <2>4, <1>1, <1>6, TreeOf
    <3>2. TitleIsGoing(w)'
      BY <3>1, <2>1, <2>4 DEF TitleIsGoing
    <3>3. QED
      BY <3>2, <2>1, <2>4, <1>1, <1>3, TreeOf DEF RootIsGoing
  <2>5. CASE s \in {CloseButton(w), Client(w)}
    BY <2>5, <1>1, <1>6, TreeOf
  <2>6. QED
    BY <2>3, <2>4, <2>5
<1>7. CASE s \in sheets /\ Children(s) = {}
  <2>1. marked' = marked /\ sheets' = sheets \ {s} /\ Replies(t, Response(s))
    BY <1>7 DEF SheetDeletionRequest
  <2>2. CASE s = Root(w)
    BY <2>1, <2>2 DEF RootIsGoing
  <2>3. CASE s = Title(w)
    <3>1. CloseButton(w) \notin sheets
      BY <2>3, <1>1, <1>7, TreeOf
    <3>2. Answered(Root(w))'
      BY <2>1, <2>3, <1>1, <1>2, <1>4, ParentAnswered, IsSent DEF Answered
    <3>3. TitleIsGoing(w)'
      BY <2>1, <2>3 DEF TitleIsGoing
    <3>4. QED
      BY <3>2, <3>3, <2>1, <2>3, <1>1, <1>3, TreeOf DEF RootIsGoing
  <2>4. CASE s = CloseButton(w)
    <3>1. Answered(Title(w))'
      BY <2>1, <2>4, <1>1, <1>2, <1>4, ParentAnswered, IsSent DEF Answered
    <3>2. TitleIsGoing(w) => TitleIsGoing(w)'
      BY <3>1, <2>1, <2>4, <1>1, <1>3, TreeOf DEF TitleIsGoing
    <3>3. QED
      BY <3>2, <2>1, <2>4, <1>1, <1>3, TreeOf DEF RootIsGoing
  <2>5. CASE s = Client(w)
    <3>1. Answered(Root(w))'
      BY <2>1, <2>5, <1>1, <1>2, <1>4, ParentAnswered, IsSent DEF Answered
    <3>2. TitleIsGoing(w) => TitleIsGoing(w)'
      BY <2>1, <2>5, <1>1, <1>3, TreeOf DEF TitleIsGoing
    <3>3. QED
      BY <3>1, <3>2, <2>1, <2>5, <1>1, <1>3, TreeOf DEF RootIsGoing
  <2>6. QED
    BY <2>2, <2>3, <2>4, <2>5
<1>8. QED
  BY <1>5, <1>6, <1>7

(* A window that is being deleted, when one of its sheets has handled a    *)
(* response: the sheet goes, unless it does not need the response.         *)
LEMMA ResponseGoesOn ==
  ASSUME DesktopInv, NEW t \in Tasks, NEW w \in AllWindows, owner[w] \in Tasks,
         NEW s \in {Root(w), Title(w), CloseButton(w), Client(w)}, SheetDeletionResponse(t, s),
         LosesOnly(t, Event("sheet deletion response", s)), RootIsGoing(w)
  PROVE  RootIsGoing(w)'
<1> DEFINE four == {Root(w), Title(w), CloseButton(w), Client(w)}
<1>1. sheets \subseteq AllSheets /\ owner' = owner /\ marked' = marked /\ Typed
  BY DEF DesktopInv, Typed, SheetDeletionResponse, desktop
<1>2. \A x \in four : x[1] = w
  BY FourSheets
<1>3. ASSUME NEW x \in four
      PROVE  /\ Requested(x) => Requested(x)'
             /\ s # x => (Answered(x) => Answered(x)')
  <2>1. x[1] = w /\ owner[x[1]] \in Tasks
    BY <1>2, <1>3
  <2>2. PICK type : type = "sheet deletion response" /\ LosesOnly(t, Event(type, s))
    OBVIOUS
  <2>3. type # "sheet deletion request"
    BY <2>2
  <2> HIDE DEF four
  <2>4. owner' = owner
    BY <1>1
  <2>5. Requested(x) => Requested(x)'
    BY ONLY <2>1, <2>2, <2>3, <2>4, StillWaits
  <2>6. s # x => (Answered(x) => Answered(x)')
    BY ONLY <2>1, <2>2, <2>4, StillWaits
  <2>7. QED
    BY <2>5, <2>6
<1>4. Dequeues(t, "sheet deletion response", s) /\ s[1] = w
  BY <1>2 DEF SheetDeletionResponse
<1>5. CASE ~(s \in sheets /\ s \in marked /\ Children(s) = {})
  <2>1. sheets' = sheets
    BY <1>5 DEF SheetDeletionResponse, desktop
  <2>2. /\ s = Title(w) => ~(Title(w) \in sheets /\ Title(w) \in marked /\ CloseButton(w) \notin sheets)
        /\ s = Root(w) => ~(/\ Root(w) \in sheets /\ Root(w) \in marked
                            /\ Title(w) \notin sheets /\ Client(w) \notin sheets)
    <3>1. /\ Children(Root(w)) = sheets \cap {Title(w), Client(w)}
          /\ Children(Title(w)) = sheets \cap {CloseButton(w)} /\ Root(w) # Title(w)
      BY <1>1, TreeOf
    <3>2. CASE s = Title(w)
      <4>1. Children(s) = sheets \cap {CloseButton(w)}
        BY <3>1, <3>2
      <4>2. Title(w) \in sheets /\ Title(w) \in marked => Children(s) # {}
        BY <3>2, <1>5
      <4>3. QED
        BY <3>1, <3>2, <4>1, <4>2
    <3>3. CASE s = Root(w)
      <4>1. Children(s) = sheets \cap {Title(w), Client(w)}
        BY <3>1, <3>3
      <4>2. Root(w) \in sheets /\ Root(w) \in marked => Children(s) # {}
        BY <3>3, <1>5
      <4>3. QED
        BY <3>1, <3>3, <4>1, <4>2
    <3>4. QED
      BY <3>2, <3>3
  <2>3. /\ s # Title(w) => (Answered(Title(w)) => Answered(Title(w))')
        /\ s # Root(w) => (Answered(Root(w)) => Answered(Root(w))')
    BY <1>3
  <2>4. /\ Requested(Root(w)) => Requested(Root(w))'
        /\ Requested(Title(w)) => Requested(Title(w))'
        /\ Requested(CloseButton(w)) => Requested(CloseButton(w))'
        /\ Requested(Client(w)) => Requested(Client(w))'
    BY <1>3
  <2>5. TitleIsGoing(w) => TitleIsGoing(w)'
    BY <2>1, <2>2, <2>3, <2>4, <1>1 DEF TitleIsGoing
  <2>6. QED
    BY <2>1, <2>2, <2>3, <2>4, <2>5, <1>1 DEF RootIsGoing
<1>6. CASE s \in sheets /\ s \in marked /\ Children(s) = {}
  <2>1. /\ sheets' = sheets \ {s}
        /\ s[2] # "root" => Replies(t, Response(s))
    BY <1>6 DEF SheetDeletionResponse
  <2>2. CASE s = Root(w)
    BY <2>1, <2>2 DEF RootIsGoing
  <2>3. CASE s = Title(w)
    <3>1. Replies(t, Response(s))
      BY <2>1, <2>3, FourSheets
    <3>2. Answered(Root(w))'
      BY <3>1, <2>3, <1>1, <1>2, <1>4, ParentAnswered, IsSent DEF Answered
    <3>3. TitleIsGoing(w)'
      BY <2>1, <2>3 DEF TitleIsGoing
    <3>4. QED
      BY <3>2, <3>3, <2>1, <2>3, <1>1, <1>3, TreeOf DEF RootIsGoing
  <2>4. CASE s = CloseButton(w)
    <3>1. Replies(t, Response(s))
      BY <2>1, <2>4, FourSheets
    <3>2. Answered(Title(w))'
      BY <3>1, <2>4, <1>1, <1>2, <1>4, ParentAnswered, IsSent DEF Answered
    <3>3. TitleIsGoing(w) => TitleIsGoing(w)'
      BY <3>2, <2>1, <2>4, <1>1, <1>3, TreeOf DEF TitleIsGoing
    <3>4. QED
      BY <3>3, <2>1, <2>4, <1>1, <1>3, TreeOf DEF RootIsGoing
  <2>5. CASE s = Client(w)
    <3>1. Replies(t, Response(s))
      BY <2>1, <2>5, FourSheets
    <3>2. Answered(Root(w))'
      BY <3>1, <2>5, <1>1, <1>2, <1>4, ParentAnswered, IsSent DEF Answered
    <3>3. TitleIsGoing(w) => TitleIsGoing(w)'
      BY <2>1, <2>5, <1>1, <1>3, TreeOf DEF TitleIsGoing
    <3>4. QED
      BY <3>2, <3>3, <2>1, <2>5, <1>1, <1>3, TreeOf DEF RootIsGoing
  <2>6. QED
    BY <2>2, <2>3, <2>4, <2>5
<1>7. QED
  BY <1>5, <1>6

(* SheetDeletionRequest leaves every window attended.                      *)
LEMMA SheetDeletionRequestAttends ==
  ASSUME DesktopInv, Attended, NEW t \in Tasks, NEW s, SheetDeletionRequest(t, s)
  PROVE  Attended'
<1>1. Dequeues(t, "sheet deletion request", s) /\ Typed
  BY DEF SheetDeletionRequest, DesktopInv
<1>2. s \in AllSheets /\ (s[1] = ConsoleWindow => console.accepted)
  BY <1>1, RequestMeans
<1>3. UNCHANGED <<windows, owner, status>> /\ marked \subseteq marked' /\ sheets' \subseteq sheets
      /\ sheets \ {s} \subseteq sheets'
  BY DEF SheetDeletionRequest, desktop
<1>4. console'.accepted = console.accepted
  BY DEF DesktopInv, Typed, SheetDeletionRequest
<1>5. PICK sent \in Messages : Replies(t, sent)
  <2>1. CASE s \notin sheets
    BY <2>1, NothingSendable DEF SheetDeletionRequest, Drops, Sendable
  <2>2. CASE s \in sheets /\ Children(s) # {}
    <3>1. PICK order \in SetToSeqs(Children(s)) :
              Replies(t, To(owner[s[1]], [k \in DOMAIN order |-> Event("sheet deletion request", order[k])]))
      BY <2>2 DEF SheetDeletionRequest
    <3>2. Sendable(To(owner[s[1]], [k \in DOMAIN order |-> Event("sheet deletion request", order[k])]))
      BY <2>2, <1>2, RequestsSendable
    <3>3. QED
      BY <3>1, <3>2 DEF Sendable
  <2>3. CASE s \in sheets /\ Children(s) = {}
    BY <2>3, <1>2, ResponseSendable DEF SheetDeletionRequest, Sendable
  <2>4. QED
    BY <2>1, <2>2, <2>3
<1>6. LosesOnly(t, Event("sheet deletion request", s))
  <2>1. sent.events \in Seq(Events)
    BY DEF Messages
  <2>2. QED
    BY <2>1, <1>1, <1>5, HandsOn
<1>7. owner[s[1]] \in Tasks /\ RootIsGoing(s[1]) => RootIsGoing(s[1])'
  <2>1. s[1] \in AllWindows /\ s \in {Root(s[1]), Title(s[1]), CloseButton(s[1]), Client(s[1])}
    BY <1>2, OneOfFour
  <2>2. QED
    BY <2>1, <1>6, RequestGoesOn
<1>8. PICK type \in {"sheet deletion request", "sheet deletion response"} : type = "sheet deletion request"
  OBVIOUS
<1>9. LosesOnly(t, Event(type, s))
  BY <1>6, <1>8
<1>10. QED
  BY <1>2, <1>3, <1>4, <1>7, <1>9, SheetHandlerAttends

(* SheetDeletionResponse leaves every window attended: with the root sheet *)
(* its window goes, and the task of the window is told.                    *)
LEMMA SheetDeletionResponseAttends ==
  ASSUME DesktopInv, Attended, NEW t \in Tasks, NEW s, SheetDeletionResponse(t, s)
  PROVE  Attended'
<1>1. Dequeues(t, "sheet deletion response", s) /\ Typed
  BY DEF SheetDeletionResponse, DesktopInv
<1>2. s \in AllSheets
  <2>1. EventOK(t, Event("sheet deletion response", s))
    BY <1>1, Dequeued
  <2>2. QED
    BY <2>1, Meaning
<1>3. /\ UNCHANGED <<owner, status, marked, console>> /\ sheets' \subseteq sheets
      /\ sheets \ {s} \subseteq sheets' /\ windows' \subseteq windows
  BY DEF SheetDeletionResponse, desktop
<1> DEFINE goes == s \in sheets /\ s \in marked /\ Children(s) = {}
           told == ToWindow("window deletion response", s[1])
<1>4. /\ ~goes => windows' = windows /\ Replies(t, Nothing)
      /\ goes /\ s[2] = "root" => windows' = windows \ {s[1]} /\ Replies(t, told)
      /\ goes /\ s[2] # "root" => windows' = windows /\ Replies(t, Response(s)) /\ s \in sheets
  BY DEF SheetDeletionResponse, Drops, desktop
<1> HIDE DEF goes
<1>5. PICK sent, T : sent.events \in Seq(T) /\ Replies(t, sent)
  <2>1. CASE ~goes
    BY <2>1, <1>4, MessagesAreSequences
  <2>2. CASE goes /\ s[2] = "root"
    BY <2>2, <1>4, MessagesAreSequences
  <2>3. CASE goes /\ s[2] # "root"
    <3>1. Sendable(Response(s)) /\ Replies(t, Response(s))
      BY <2>3, <1>2, <1>4, ResponseSendable
    <3>2. QED
      BY <3>1 DEF Sendable, Messages
  <2>4. QED
    BY <2>1, <2>2, <2>3
<1>6. LosesOnly(t, Event("sheet deletion response", s))
  BY <1>1, <1>5, HandsOn
<1>7. owner[s[1]] \in Tasks /\ RootIsGoing(s[1]) => RootIsGoing(s[1])'
  <2>1. s[1] \in AllWindows /\ s \in {Root(s[1]), Title(s[1]), CloseButton(s[1]), Client(s[1])}
    BY <1>2, OneOfFour
  <2>2. QED
    BY <2>1, <1>6, ResponseGoesOn
<1>8. ASSUME ConsoleWindow \in windows, ConsoleWindow \notin windows'
      PROVE  Waits("console", "window deletion response", ConsoleWindow)'
  <2>1. s[1] = ConsoleWindow /\ Replies(t, told)
    BY <1>4, <1>8
  <2>2. owner[ConsoleWindow] = "console" /\ "console" \in Tasks
    BY Names DEF DesktopInv, Typed
  <2> DEFINE e == Event("window deletion response", ConsoleWindow)
  <2>3. told.task = "console" /\ told.events = <<e>>
    BY <2>1, <2>2 DEF ToWindow, To
  <2>4. told.events \in Seq({e})
    BY <2>1, MessagesAreSequences
  <2> HIDE DEF e, told
  <2>5. e \in ToSet(<<e>>)
    BY DEF ToSet
  <2>6. told.task \in Tasks => ToSet(told.events) \subseteq ToSet(queues'[told.task])
    BY <2>1, <2>4, <1>1, HandsOn
  <2>7. e \in ToSet(queues'["console"])
    BY <2>2, <2>3, <2>5, <2>6
  <2>8. QED
    BY <2>7 DEF Waits, e
<1>9. PICK type \in {"sheet deletion request", "sheet deletion response"} : type = "sheet deletion response"
  OBVIOUS
<1>10. LosesOnly(t, Event(type, s))
  BY <1>6, <1>9
<1>11. QED
  BY <1>2, <1>3, <1>7, <1>8, <1>10, SheetHandlerAttends

(* A handler that leaves the sheets alone.                                 *)
LEMMA SheetsGoOn ==
  ASSUME owner' = owner, UNCHANGED <<sheets, marked>>, NEW t, NEW type, NEW subject,
         type \notin {"sheet deletion request", "sheet deletion response"},
         LosesOnly(t, Event(type, subject)), NEW w, owner[w] \in Tasks, RootIsGoing(w)
  PROVE  RootIsGoing(w)'
<1>1. ASSUME NEW x \in {Root(w), Title(w), CloseButton(w), Client(w)}
      PROVE  (Requested(x) => Requested(x)') /\ (Answered(x) => Answered(x)')
  <2>1. \A y \in {Root(w), Title(w), CloseButton(w), Client(w)} : y[1] = w
    BY FourSheets
  <2>2. owner[x[1]] \in Tasks
    BY <2>1, <1>1
  <2>3. type # "sheet deletion request" /\ type # "sheet deletion response"
    OBVIOUS
  <2>4. QED
    BY <2>2, <2>3, StillWaits
<1>2. QED
  BY <1>1, GoesOn

(* A console whose window is gone is deleted.                              *)
LEMMA ConsoleIsGone == ASSUME DesktopInv, Attended, ConsoleWindow \notin windows  PROVE Gone
<1>1. ASSUME NEW type, NEW x, Waits("console", type, x)  PROVE EventOK("console", Event(type, x))
  <2>1. PICK i \in DOMAIN queues["console"] : queues["console"][i] = Event(type, x)
    BY <1>1 DEF Waits, ToSet
  <2>2. EventOK("console", queues["console"][i])
    BY <2>1, Names DEF DesktopInv, QueuesOK
  <2>3. QED
    BY <2>1, <2>2
<1>2. Waits("console", "window deletion response", ConsoleWindow) => Gone
  BY <1>1, Meaning
<1>3. ASSUME Waits("console", "task deletion request", "console")  PROVE Gone
  <2>1. EventOK("console", Event("task deletion request", "console"))
    BY <1>1, <1>3
  <2>2. QED
    BY <2>1, Meaning
<1>4. status["console"] = "closed" => Gone
  BY DEF DesktopInv, ConsoleOK
<1>5. QED
  BY <1>2, <1>3, <1>4 DEF Attended, ConsoleEnds

(* WindowDeletionRequest leaves every window attended: the root sheet is   *)
(* asked, when a window is inherited or the console accepts.               *)
LEMMA WindowDeletionRequestAttends ==
  ASSUME DesktopInv, Attended, NEW t \in Tasks, NEW w, WindowDeletionRequest(t, w)
  PROVE  Attended'
<1> DEFINE e == Event("window deletion request", w)
           asked == ToSheet("sheet deletion request", Root(w))
           accepts == Root(w) \in sheets /\ AsksConsole(w) /\ ~Refuses(w)
<1>1. Dequeues(t, "window deletion request", w) /\ Typed
  BY DEF WindowDeletionRequest, DesktopInv
<1>2. w \in AllWindows
  <2>1. EventOK(t, e)
    BY <1>1, Dequeued
  <2>2. QED
    BY <2>1, Meaning
<1>3. UNCHANGED <<status, sheets, marked, windows, owner>>
  BY DEF WindowDeletionRequest, desktop
<1>4. AsksConsole(w) => console.allocated
  BY DEF AsksConsole, DesktopInv, ConsoleOK
<1>5. /\ FollowsWindow(t, w, IF Root(w) \in sheets /\ ~Refuses(w) THEN asked ELSE Nothing)
      /\ console' = [console EXCEPT !.accepted = @ \/ accepts]
  BY <1>4 DEF WindowDeletionRequest
<1>6. console'.accepted = (console.accepted \/ accepts)
  <2> HIDE DEF accepts
  <2>1. console \in [allocated : BOOLEAN, accepted : BOOLEAN, busy : BOOLEAN, exit : BOOLEAN]
    BY DEF DesktopInv, Typed
  <2>2. QED
    BY <2>1, <1>5
<1>7. accepts => w = ConsoleWindow /\ w \in windows
  <2>1. accepts => w = ConsoleWindow
    BY DEF AsksConsole
  <2>2. ConsoleWindow \notin windows => Root(ConsoleWindow) \notin sheets
    BY ConsoleIsGone DEF Gone, Root, Parts
  <2>3. QED
    BY <2>1, <2>2
<1>8. LosesOnly(t, e)
  <2>1. CASE w \notin windows
    <3>1. Misuses(t, "window")
      BY <2>1, <1>5 DEF FollowsWindow
    <3>2. QED
      BY <3>1, <1>1, DropsOne
  <2>2. CASE w \in windows
    <3>1. Replies(t, asked) \/ Replies(t, Nothing)
      BY <2>2, <1>5 DEF FollowsWindow
    <3>2. asked.events \in Seq({Event("sheet deletion request", Root(w))}) /\ Nothing.events \in Seq(Events)
      BY MessagesAreSequences
    <3> HIDE DEF asked
    <3>3. QED
      BY <3>1, <3>2, <1>1, HandsOn
  <2>3. QED
    BY <2>1, <2>2
<1>9. ASSUME w \in windows, owner[w] \in Tasks, ~Refuses(w)
      PROVE  RootIsGoing(w)'
  <2>1. CASE Root(w) \notin sheets
    BY <2>1, <1>3 DEF RootIsGoing
  <2>2. CASE Root(w) \in sheets
    <3>1. Replies(t, ToSheet("sheet deletion request", Root(w)))
      BY <2>2, <1>5, <1>9 DEF FollowsWindow
    <3>2. Root(w)[1] = w
      BY FourSheets
    <3>3. Requested(Root(w))'
      BY <3>1, <3>2, <1>1, <1>3, <1>9, IsSent DEF Requested
    <3>4. QED
      BY <3>3 DEF RootIsGoing
  <2>3. QED
    BY <2>1, <2>2
<1> HIDE DEF asked, accepts
<1>10. ASSUME NEW v, owner[v] \in Tasks, RootIsGoing(v)
       PROVE  RootIsGoing(v)'
  <2>1. PICK type : type = "window deletion request" /\ LosesOnly(t, Event(type, w))
    BY <1>8
  <2>2. type \notin {"sheet deletion request", "sheet deletion response"}
    BY <2>1
  <2>3. QED
    BY <2>1, <2>2, <1>3, <1>10, SheetsGoOn
<1> HIDE DEF e
<1>11. ASSUME NEW v \in Windows \cap windows'  PROVE Inherited(v)'
  <2>1. owner[v] = "main" => Waits("main", "window deletion request", v) \/ RootIsGoing(v)
    BY <1>3, <1>11 DEF Attended, Inherited
  <2>2. ASSUME v # w, Waits("main", "window deletion request", v)
        PROVE  Waits("main", "window deletion request", v)'
    <3>1. Event("window deletion request", v) # e
      BY <2>2 DEF e, Event
    <3>2. QED
      BY <3>1, <2>2, <1>8, Names DEF LosesOnly, Waits
  <2>3. owner[v] = "main" /\ RootIsGoing(v) => RootIsGoing(v)'
    BY <1>10, Names
  <2>4. v = w /\ owner[v] = "main" => RootIsGoing(v)'
    <3>1. v = w => w \in windows /\ ~Refuses(w)
      BY <1>3, <1>11, Names DEF Refuses, AsksConsole
    <3>2. QED
      BY <3>1, <1>9, Names
  <2>5. QED
    BY <2>1, <2>2, <2>3, <2>4, <1>3 DEF Inherited
<1>12. owner[ConsoleWindow] = "console" /\ "console" \in Tasks
  BY Names DEF DesktopInv, Typed
<1>13. console'.accepted => RootIsGoing(ConsoleWindow)'
  <2>1. console.accepted => RootIsGoing(ConsoleWindow)'
    BY <1>10, <1>12 DEF Attended
  <2>2. accepts => RootIsGoing(ConsoleWindow)'
    BY <1>7, <1>9, <1>12 DEF accepts
  <2>3. QED
    BY <2>1, <2>2, <1>6
<1>14. ConsoleEnds'
  <2>1. ASSUME NEW kind, kind # "window deletion request", NEW x, Waits("console", kind, x)
        PROVE  Waits("console", kind, x)'
    BY <2>1, <1>8, <1>12, OthersWait DEF e
  <2>2. QED
    BY <2>1, <1>3 DEF Attended, ConsoleEnds
<1>15. QED
  BY <1>11, <1>13, <1>14 DEF Attended

(* ConsoleWindowDeleted: the task of the console asks itself to end.       *)
LEMMA ConsoleWindowDeletedAttends ==
  ASSUME DesktopInv, Attended, NEW t \in Tasks, ConsoleWindowDeleted(t)
  PROVE  Attended'
<1> DEFINE e == Event("window deletion response", ConsoleWindow)
           request == Event("task deletion request", "console")
           sent == To("console", <<request>>)
<1>1. /\ t = "console" /\ Dequeues(t, "window deletion response", ConsoleWindow) /\ Replies(t, sent)
      /\ UNCHANGED <<status, sheets, marked, windows, owner, console>> /\ Typed
  BY DEF ConsoleWindowDeleted, desktop, DesktopInv
<1>2. sent.events \in Seq({request})
  BY MessagesAreSequences
<1>3. sent.task = "console" /\ sent.events = <<request>>
  BY DEF To
<1> HIDE DEF e, request, sent
<1>4. LosesOnly(t, e) /\ ToSet(sent.events) \subseteq ToSet(queues'["console"])
  BY <1>1, <1>2, <1>3, Names, HandsOn DEF e
<1>5. Waits("console", "task deletion request", "console")'
  <2>1. request \in ToSet(<<request>>)
    BY DEF ToSet
  <2>2. QED
    BY <2>1, <1>3, <1>4 DEF Waits, request
<1>6. ASSUME NEW v, owner[v] \in Tasks, RootIsGoing(v)
      PROVE  RootIsGoing(v)'
  <2>1. PICK type : type = "window deletion response" /\ LosesOnly(t, Event(type, ConsoleWindow))
    BY <1>4 DEF e
  <2>2. type \notin {"sheet deletion request", "sheet deletion response"}
    BY <2>1
  <2>3. QED
    BY <2>1, <2>2, <1>1, <1>6, SheetsGoOn
<1>7. ASSUME NEW w \in Windows \cap windows'  PROVE Inherited(w)'
  <2>1. owner[w] = "main" => Waits("main", "window deletion request", w) \/ RootIsGoing(w)
    BY <1>1, <1>7 DEF Attended, Inherited
  <2>2. Waits("main", "window deletion request", w) => Waits("main", "window deletion request", w)'
    BY <1>1, <1>4, Names DEF LosesOnly, Waits
  <2>3. owner[w] = "main" /\ RootIsGoing(w) => RootIsGoing(w)'
    BY <1>6, Names
  <2>4. QED
    BY <2>1, <2>2, <2>3, <1>1 DEF Inherited
<1>8. owner[ConsoleWindow] = "console" /\ "console" \in Tasks
  BY Names DEF DesktopInv, Typed
<1>9. console'.accepted => RootIsGoing(ConsoleWindow)'
  BY <1>1, <1>6, <1>8 DEF Attended
<1>10. ConsoleEnds'
  BY <1>5 DEF ConsoleEnds
<1>11. QED
  BY <1>7, <1>9, <1>10 DEF Attended

(* CloseConsole: nothing is left that would need the queue of the console. *)
LEMMA CloseConsoleAttends ==
  ASSUME DesktopInv, Attended, NEW t \in Tasks, CloseConsole(t)
  PROVE  Attended'
<1> DEFINE report == Event("task deletion response", t)
           from == [queues EXCEPT ![t] = << >>]
<1>1. EventOK(t, Event("task deletion request", t))
  BY Dequeued DEF CloseConsole
<1>2. t = "console" /\ Gone
  BY <1>1, Meaning
<1>3. /\ Deliver(To("main", <<report>>), from) /\ status' = [status EXCEPT ![t] = "closed"]
      /\ UNCHANGED <<sheets, marked, windows, owner, console>> /\ Typed
  BY DEF CloseConsole, desktop, DesktopInv
<1>4. queues \in [Tasks -> Seq(Events)] /\ "main" \in Tasks /\ "main" # t
  BY <1>2, <1>3, Names DEF Typed
<1>5. queues' = [from EXCEPT !["main"] = @ \o <<report>>]
  BY <1>3 DEF Deliver, To
<1>6. queues'["main"] = queues["main"] \o <<report>>
  <2> HIDE DEF report
  <2>1. QED
    BY <1>4, <1>5
<1>7. ToSet(queues["main"]) \subseteq ToSet(queues'["main"])
  <2>1. <<report>> \in Seq({report}) /\ queues["main"] \in Seq(Events)
    BY <1>4
  <2> HIDE DEF report
  <2>2. QED
    BY <2>1, <1>6, JoinedAny
<1> HIDE DEF from, report
<1>8. ASSUME NEW w \in Windows \cap windows'  PROVE Inherited(w)'
  <2>1. owner[w] = "main" => Waits("main", "window deletion request", w) \/ RootIsGoing(w)
    BY <1>3, <1>8 DEF Attended, Inherited
  <2>2. Waits("main", "window deletion request", w) => Waits("main", "window deletion request", w)'
    BY <1>7 DEF Waits
  <2>3. ASSUME owner[w] = "main", RootIsGoing(w)  PROVE RootIsGoing(w)'
    <3>1. \A x \in {Root(w), Title(w), CloseButton(w), Client(w)} : x[1] = w
      BY FourSheets
    <3>2. \A x \in {Root(w), Title(w), CloseButton(w), Client(w)} :
             (Requested(x) => Requested(x)') /\ (Answered(x) => Answered(x)')
      BY <3>1, <2>3, <1>3, <1>7 DEF Requested, Answered, Waits
    <3>3. QED
      BY <3>2, <2>3, <1>3, GoesOn
  <2>4. QED
    BY <2>1, <2>2, <2>3, <1>3 DEF Inherited
<1>9. Root(ConsoleWindow) \notin sheets'
  BY <1>2, <1>3 DEF Gone, Root, Parts
<1>10. status'["console"] = "closed"
  BY <1>2, <1>3 DEF Typed
<1>11. QED
  BY <1>8, <1>9, <1>10 DEF Attended, RootIsGoing, ConsoleEnds

(* The other handlers deal with no event that somebody waits for.          *)
LEMMA OtherHandlersAttend ==
  ASSUME DesktopInv, Attended, NEW t \in Tasks, NEW x,
         \/ SheetClicked(t, x) \/ CloseButtonClicked(t, x) \/ WindowDeleted(t, x)
         \/ KeyboardToConsole(t) \/ IgnoreCommand(t) \/ CleanUpCommandTask(t, x) \/ ConsoleClosed(t)
         \/ \E a \in Applications, background \in BOOLEAN : ExecuteCommand(t, a, background)
  PROVE  Attended'
<1>1. Typed /\ console \in [allocated : BOOLEAN, accepted : BOOLEAN, busy : BOOLEAN, exit : BOOLEAN]
      /\ status \in [Tasks -> {"none", "running", "exiting", "closed"}]
  BY DEF DesktopInv, Typed
<1>2. PICK type, subject, sent, T :
         /\ Dequeues(t, type, subject) /\ ~Deletion(Event(type, subject))
         /\ \/ sent.events \in Seq(T) /\ Replies(t, sent)
            \/ \E what : Misuses(t, what)
         /\ UNCHANGED desktop /\ console'.accepted = console.accepted
         /\ status'["console"] = status["console"]
  <2>1. CASE SheetClicked(t, x)
    BY <2>1, NoDeletion, MessagesAreSequences DEF SheetClicked
  <2>2. CASE CloseButtonClicked(t, x)
    BY <2>2, NoDeletion, MessagesAreSequences DEF CloseButtonClicked, FollowsWindow
  <2>3. CASE WindowDeleted(t, x)
    BY <2>3, NoDeletion, MessagesAreSequences DEF WindowDeleted, Drops
  <2>4. CASE KeyboardToConsole(t)
    BY <2>4, NoDeletion, MessagesAreSequences DEF KeyboardToConsole
  <2>5. CASE IgnoreCommand(t)
    BY <2>5, NoDeletion, MessagesAreSequences DEF IgnoreCommand, Drops
  <2>6. CASE CleanUpCommandTask(t, x)
    BY <2>6, <1>1, NoDeletion, MessagesAreSequences DEF CleanUpCommandTask, AfterCommand, Drops
  <2>7. CASE ConsoleClosed(t)
    BY <2>7, NoDeletion, MessagesAreSequences DEF ConsoleClosed, Drops
  <2>8. CASE \E a \in Applications, background \in BOOLEAN : ExecuteCommand(t, a, background)
    BY <2>8, <1>1, Names, NoDeletion, MessagesAreSequences DEF ExecuteCommand, Drops
  <2>9. QED
    BY <2>1, <2>2, <2>3, <2>4, <2>5, <2>6, <2>7, <2>8
<1>3. LosesOnly(t, Event(type, subject))
  BY <1>1, <1>2, HandsOn, DropsOne
<1>4. QED
  BY <1>1, <1>2, <1>3, OtherEvent

(* Exit, RequestExit and CloseTask: only the queue of the application that *)
(* ends is lost.                                                           *)
LEMMA EndAttends ==
  ASSUME DesktopInv, Attended, NEW a \in Applications, Exit(a) \/ RequestExit(a) \/ CloseTask(a)
  PROVE  Attended'
<1>1. /\ Typed /\ console \in [allocated : BOOLEAN, accepted : BOOLEAN, busy : BOOLEAN, exit : BOOLEAN]
      /\ status \in [Tasks -> {"none", "running", "exiting", "closed"}]
      /\ queues \in [Tasks -> Seq(Events)]
  BY DEF DesktopInv, Typed
<1>2. CASE Exit(a) \/ RequestExit(a)
  <2>1. /\ UNCHANGED <<queues, desktop>> /\ console'.accepted = console.accepted
        /\ status'["console"] = status["console"]
    BY <1>1, <1>2, Names DEF Exit, RequestExit
  <2>2. KeepsDeletions
    BY <2>1 DEF KeepsDeletions
  <2>3. QED
    BY <2>1, <2>2, <1>1, StaysAttended
<1>3. CASE CloseTask(a)
  <2> DEFINE from == [queues EXCEPT ![a] = <<>>]
             report == Event("task deletion response", a)
  <2>1. /\ Deliver(To(parent[a], <<report>>), from) /\ UNCHANGED <<desktop, console>>
        /\ status' = [status EXCEPT ![a] = "closed"]
    BY <1>3 DEF CloseTask
  <2>2. queues' = [from EXCEPT ![parent[a]] = @ \o <<report>>]
    BY <2>1 DEF Deliver, To
  <2>3. from \in [Tasks -> Seq(Events)] /\ \A u \in {"main", "console"} : u \in Tasks /\ from[u] = queues[u]
    BY <1>1, Names
  <2>4. <<report>> \in Seq({report})
    OBVIOUS
  <2> HIDE DEF from, report
  <2>5. ASSUME NEW u \in {"main", "console"}  PROVE ToSet(queues[u]) \subseteq ToSet(queues'[u])
    <3>1. CASE u = parent[a]
      <4>1. queues'[u] = queues[u] \o <<report>> /\ queues[u] \in Seq(Events)
        BY <3>1, <2>2, <2>3, <2>5, <1>1
      <4>2. QED
        BY <4>1, <2>4, JoinedAny
    <3>2. CASE u # parent[a]
      BY <3>2, <2>2, <2>3, <2>5
    <3>3. QED
      BY <3>1, <3>2
  <2>6. KeepsDeletions
    BY <2>5 DEF KeepsDeletions
  <2>7. status'["console"] = status["console"]
    BY <2>1, <1>1, Names
  <2>8. QED
    BY <2>1, <2>6, <2>7, <1>1, StaysAttended
<1>4. QED
  BY <1>2, <1>3

(* CreateWindow and DeleteWindows change one window of an application: it  *)
(* is not inherited, or its request is sent to the main task.              *)
LEMMA OneWindowChanges ==
  ASSUME DesktopInv, Attended, NEW w \in Windows,
         \A v \in AllWindows : v # w => owner'[v] = owner[v],
         \A s \in sheets \cup sheets' : s[1] # w => s \in sheets /\ s \in sheets',
         windows' \ {w} = windows \ {w}, UNCHANGED <<status, marked, console>>,
         \A u \in Tasks : ToSet(queues[u]) \subseteq ToSet(queues'[u]),
         owner'[w] = "main" => Waits("main", "window deletion request", w)'
  PROVE  Attended'
<1>1. ASSUME NEW v \in AllWindows, v # w, owner[v] \in Tasks, RootIsGoing(v)
      PROVE  RootIsGoing(v)'
  <2>1. \A x \in {Root(v), Title(v), CloseButton(v), Client(v)} : x[1] = v
    BY FourSheets
  <2>2. \A x \in {Root(v), Title(v), CloseButton(v), Client(v)} :
           (Requested(x) => Requested(x)') /\ (Answered(x) => Answered(x)')
    BY <2>1, <1>1 DEF Requested, Answered, Waits
  <2>3. \A x \in {Root(v), Title(v), CloseButton(v), Client(v)} :
           (x \in sheets' => x \in sheets) /\ (x \in sheets => x \in sheets')
    <3> SUFFICES ASSUME NEW x \in {Root(v), Title(v), CloseButton(v), Client(v)}
                 PROVE  (x \in sheets' => x \in sheets) /\ (x \in sheets => x \in sheets')
      OBVIOUS
    <3>1. x[1] # w
      BY <2>1, <1>1
    <3>2. QED
      BY <3>1
  <2>4. QED
    BY <2>2, <2>3, <1>1, GoesOn
<1>2. ASSUME NEW v \in Windows \cap windows'  PROVE Inherited(v)'
  <2>1. CASE v = w
    BY <2>1 DEF Inherited
  <2>2. CASE v # w
    <3>1. owner[v] = "main" => Waits("main", "window deletion request", v) \/ RootIsGoing(v)
      BY <2>2, <1>2 DEF Attended, Inherited
    <3>2. Waits("main", "window deletion request", v) => Waits("main", "window deletion request", v)'
      BY Names DEF Waits
    <3>3. owner[v] = "main" /\ RootIsGoing(v) => RootIsGoing(v)'
      BY <2>2, <1>1, <1>2, Names
    <3>4. owner'[v] = owner[v]
      BY <2>2, <1>2, Names
    <3>5. QED
      BY <3>1, <3>2, <3>3, <3>4 DEF Inherited
  <2>3. QED
    BY <2>1, <2>2
<1>3. /\ owner[ConsoleWindow] = "console" /\ "console" \in Tasks
      /\ ConsoleWindow \in AllWindows /\ ConsoleWindow # w
  BY Names DEF DesktopInv, Typed
<1>4. console'.accepted => RootIsGoing(ConsoleWindow)'
  BY <1>1, <1>3 DEF Attended
<1>5. ConsoleEnds'
  BY <1>3 DEF Attended, ConsoleEnds, Waits
<1>6. QED
  BY <1>2, <1>4, <1>5 DEF Attended

(* CreateWindow leaves every window attended.                              *)
LEMMA CreateWindowAttends ==
  ASSUME DesktopInv, Attended, NEW a \in Applications, NEW w \in Windows, CreateWindow(a, w)
  PROVE  Attended'
<1>1. /\ owner' = [owner EXCEPT ![w] = a] /\ sheets' = sheets \cup SheetsOf(w)
      /\ windows' = windows \cup {w} /\ UNCHANGED <<queues, status, marked, console>>
  BY DEF CreateWindow
<1>2. owner \in [AllWindows -> Tasks \cup {"none"}] /\ w \in AllWindows
  BY Names DEF DesktopInv, Typed
<1>3. owner'[w] # "main" /\ \A v \in AllWindows : v # w => owner'[v] = owner[v]
  BY <1>1, <1>2, Names
<1>4. \A s \in SheetsOf(w) : s[1] = w
  BY DEF SheetsOf
<1>5. \A s \in sheets \cup sheets' : s[1] # w => s \in sheets /\ s \in sheets'
  BY <1>1, <1>4
<1>6. QED
  BY <1>1, <1>3, <1>5, OneWindowChanges

(* DeleteWindows: a window that is handed over has its request waiting in  *)
(* the queue of the main task.                                             *)
LEMMA DeleteWindowsAttends ==
  ASSUME DesktopInv, Attended, NEW a \in Applications, DeleteWindows(a)
  PROVE  Attended'
<1>1. cursor[a] # "none" /\ UNCHANGED <<status, sheets, marked, windows, console>>
  BY DEF DeleteWindows
<1>2. PICK w \in Windows : w = cursor[a]
  BY <1>1 DEF DesktopInv, Typed
<1>3. owner \in [AllWindows -> Tasks \cup {"none"}] /\ w \in AllWindows /\ queues \in [Tasks -> Seq(Events)]
  BY Names DEF DesktopInv, Typed
<1>4. CASE UNCHANGED <<owner, queues>>
  <2>1. KeepsDeletions
    BY <1>4 DEF KeepsDeletions
  <2>2. QED
    BY <1>1, <1>4, <2>1, StaysAttended DEF DesktopInv, desktop
<1>5. CASE ~UNCHANGED <<owner, queues>>
  <2> DEFINE request == Event("window deletion request", w)
  <2>1. /\ owner' = [owner EXCEPT ![w] = "main"]
        /\ queues' = [queues EXCEPT !["main"] = Append(@, request)]
    BY <1>2, <1>5 DEF DeleteWindows, DeleteWindow
  <2>2. owner'[w] = "main" /\ \A v \in AllWindows : v # w => owner'[v] = owner[v]
    BY <2>1, <1>3
  <2>3. request \in Events
    BY <1>3, EventTyped DEF EventTypes
  <2> HIDE DEF request
  <2>4. <<request>> \in Seq({request}) /\ request \in ToSet(<<request>>)
    BY DEF ToSet
  <2>5. queues'["main"] = queues["main"] \o <<request>> /\ queues["main"] \in Seq(Events)
    BY <2>1, <2>3, <1>3, Names, AppendIsConcat
  <2>6. ToSet(queues["main"]) \subseteq ToSet(queues'["main"]) /\ request \in ToSet(queues'["main"])
    BY <2>4, <2>5, JoinedAny
  <2>7. \A u \in Tasks : ToSet(queues[u]) \subseteq ToSet(queues'[u])
    BY <2>1, <2>6, <1>3
  <2>8. Waits("main", "window deletion request", w)'
    BY <2>6 DEF Waits, request
  <2>9. QED
    BY <2>2, <2>7, <2>8, <1>1, OneWindowChanges
<1>6. QED
  BY <1>4, <1>5

-----------------------------------------------------------------------------
(* Every step leaves every window attended.                                *)
LEMMA NextAttends == ASSUME DesktopInv, Attended, [Next]_vars  PROVE Attended'
<1>1. Typed
  BY DEF DesktopInv
<1>2. CASE User
  BY <1>1, <1>2, UserAttends
<1>3. ASSUME NEW t \in Tasks, HandleEvent(t)  PROVE Attended'
  <2> DEFINE subject == Head(queues[t]).subject
  <2>1. CASE WindowDeletionRequest(t, subject)
    BY <2>1, WindowDeletionRequestAttends
  <2>2. CASE SheetDeletionRequest(t, subject)
    BY <2>2, SheetDeletionRequestAttends
  <2>3. CASE SheetDeletionResponse(t, subject)
    BY <2>3, SheetDeletionResponseAttends
  <2>4. CASE ConsoleWindowDeleted(t)
    BY <2>4, ConsoleWindowDeletedAttends
  <2>5. CASE CloseConsole(t)
    BY <2>5, CloseConsoleAttends
  <2>6. CASE \/ SheetClicked(t, subject) \/ CloseButtonClicked(t, subject) \/ WindowDeleted(t, subject)
             \/ KeyboardToConsole(t) \/ IgnoreCommand(t) \/ CleanUpCommandTask(t, subject) \/ ConsoleClosed(t)
             \/ \E a \in Applications, background \in BOOLEAN : ExecuteCommand(t, a, background)
    <3> HIDE DEF subject
    <3>1. QED
      BY <2>6, OtherHandlersAttend
  <2>7. QED
    BY <1>3, <2>1, <2>2, <2>3, <2>4, <2>5, <2>6 DEF HandleEvent
<1>4. ASSUME NEW a \in Applications, Application(a)  PROVE Attended'
  BY <1>4, EndAttends, CreateWindowAttends, DeleteWindowsAttends DEF Application
<1>5. CASE UNCHANGED vars
  <2>1. KeepsDeletions /\ UNCHANGED <<desktop, console, status>>
    BY <1>5 DEF vars, KeepsDeletions, desktop
  <2>2. QED
    BY <2>1, <1>1, StaysAttended
<1>6. QED
  BY <1>2, <1>3, <1>4, <1>5 DEF Next

(* Nothing is to be attended to at first.                                  *)
LEMMA InitAttends == ASSUME Init  PROVE Attended
<1>1. /\ windows = {ConsoleWindow} /\ ~console.accepted
  BY DEF Init
<1>2. QED
  BY <1>1, Names DEF Attended, ConsoleEnds

(* What is asked of the task of a window when its queue is empty: nothing. *)
LEMMA NobodyWaits ==
  ASSUME Attended, owner[ConsoleWindow] = "console", queues["main"] = << >>, queues["console"] = << >>
  PROVE  Settled
<1>1. \A u \in {"main", "console"} : \A type, x : ~Waits(u, type, x)
  BY DEF Waits, ToSet
<1>2. ASSUME NEW w, owner[w] \in {"main", "console"}, RootIsGoing(w)
      PROVE  Root(w) \notin sheets
  <2>1. \A x \in {Root(w), Title(w), CloseButton(w), Client(w)} : x[1] = w
    BY FourSheets
  <2>2. \A x \in {Root(w), Title(w), CloseButton(w), Client(w)} : ~Requested(x) /\ ~Answered(x)
    BY <2>1, <1>1, <1>2 DEF Requested, Answered
  <2>3. QED
    BY <2>2, <1>2 DEF RootIsGoing, TitleIsGoing
<1>3. console.accepted => status["console"] = "closed" \/ Orphan(ConsoleWindow)
  <2>1. console.accepted => Root(ConsoleWindow) \notin sheets
    BY <1>2 DEF Attended
  <2>2. ConsoleWindow \notin windows => status["console"] = "closed"
    BY <1>1 DEF Attended, ConsoleEnds
  <2>3. QED
    BY <2>1, <2>2 DEF Orphan
<1>4. ASSUME NEW w \in Windows \cap windows, owner[w] = "main"  PROVE Orphan(w)
  <2>1. RootIsGoing(w)
    BY <1>1, <1>4 DEF Attended, Inherited
  <2>2. QED
    BY <2>1, <1>2, <1>4 DEF Orphan
<1>5. QED
  BY <1>3, <1>4 DEF Settled

(* No deletion is ever forgotten: whenever the main task and the console   *)
(* have handled all their events, the windows whose deletion was accepted  *)
(* or that were handed over are gone, and so is the console               *)
(* (distribute_event, root_sheet_event_procedure, system_call_exit).  This *)
(* is what CloseCompletes needs besides the fairness of the two tasks.     *)
THEOREM QuietDesktopHasSettled ==
  Spec => [](queues["main"] = << >> /\ queues["console"] = << >> => Settled)
<1>1. Init => Attended
  BY InitAttends
<1>2. DesktopInv /\ Attended /\ [Next]_vars => Attended'
  BY NextAttends
<1>3. DesktopInv /\ Attended => (queues["main"] = << >> /\ queues["console"] = << >> => Settled)
  BY NobodyWaits DEF DesktopInv, Typed
<1>4. QED
  BY <1>1, <1>2, <1>3, DesktopInvariant, PTL DEF Spec
==================================================================================
